---------------------------- MODULE LedgerProofs ----------------------------
(***************************************************************************)
(* Proofs about the services that keep a record of their own: governance,  *)
(* rewards, scheduling and wallets.  The properties are those of           *)
(* Services.cfg; the variables v1 to v9 stand for the variables of the     *)
(* service as MCServices instantiates it.  For each service: its initial   *)
(* state and each of its steps keep its types and its inductive invariant  *)
(* (section "Why it holds" of its module), and the invariant implies the   *)
(* property.                                                               *)
(***************************************************************************)
EXTENDS MCServices, FiniteSetTheorems, TLAPS

-----------------------------------------------------------------------------
(* Governance (G): v1 is row, v2 now, v3 call, v4 cron, v5 raced,          *)
(* v6 settled, v7 crowded. *)

LEMMA InitProposals == G!Init => G!TypeOK /\ G!TimelockInv
BY ServicesAssumption DEF G!Init, G!TypeOK, G!TimelockInv, G!RowsWait, G!InsertsAreNew,
   G!SettledIsFinal, G!KeysAreFree, G!Absent, G!Idle, G!Terminal, G!Held, G!HeldByCall, G!Pending,
   G!Inserting, G!CallState

LEMMA AtMostOne ==
    ASSUME NEW T, \A x, y \in T : x = y
    PROVE  Cardinality(T) <= 1
<1>1. CASE T = {}
  BY <1>1, FS_EmptySet
<1>2. ASSUME NEW x \in T PROVE Cardinality(T) <= 1
  <2>1. T = {x}
    OBVIOUS
  <2>2. Cardinality({x}) = 1
    BY FS_Singleton
  <2>3. QED
    BY <2>1, <2>2
<1>3. QED
  BY <1>1, <1>2

LEMMA StepProposalTypes ==
    G!TypeOK /\ [G!Next]_(G!vars) => G!TypeOK'
<1> SUFFICES ASSUME G!TypeOK, [G!Next]_(G!vars)
             PROVE  G!TypeOK'
  OBVIOUS
<1> USE ServicesAssumption DEF G!TypeOK, G!Row, G!Status, G!Terminal, G!Absent
<1>1. ASSUME NEW c \in Calls, NEW p \in Proposals, NEW k \in Keys, NEW delay \in 0..MaxTime,
   G!QueueProposal(c, p, k, delay)
      PROVE  G!TypeOK'
  BY <1>1 DEF G!QueueProposal, G!CallState
<1>2. ASSUME NEW c \in Calls, NEW p \in Proposals, G!ExecuteProposal(c, p)
      PROVE  G!TypeOK'
  BY <1>2 DEF G!ExecuteProposal, G!CallState
<1>3. ASSUME NEW c \in Calls, NEW p \in Proposals, G!CancelProposal(c, p)
      PROVE  G!TypeOK'
  BY <1>3 DEF G!CancelProposal, G!CallState
<1>4. ASSUME NEW c \in Calls, G!Insert(c)
      PROVE  G!TypeOK'
  BY <1>4 DEF G!Insert, G!CallState, G!Idle, G!Return
<1>5. ASSUME NEW c \in Calls, G!SaveOfCall(c)
      PROVE  G!TypeOK'
  BY <1>5 DEF G!SaveOfCall, G!CallState, G!Idle, G!Return, G!Save
<1>6. CASE G!CronReads
  BY <1>6 DEF G!CronReads
<1>7. ASSUME NEW p \in Proposals, G!CronSaves(p)
      PROVE  G!TypeOK'
  BY <1>7 DEF G!CronSaves, G!Save
<1>8. CASE G!CronBreaks
  BY <1>8 DEF G!CronBreaks
<1>9. CASE G!Tick
  BY <1>9 DEF G!Tick
<1>10. CASE UNCHANGED G!vars
  BY <1>10 DEF G!vars
<1>11. QED
  BY <1>1, <1>2, <1>3, <1>4, <1>5, <1>6, <1>7, <1>8, <1>9, <1>10 DEF G!Next

(* Rows are read only when their time has come, and time does not go back. *)
LEMMA StepRowsWait ==
    G!TypeOK /\ G!TimelockInv /\ [G!Next]_(G!vars) => G!RowsWait'
<1> SUFFICES ASSUME G!TypeOK, G!TimelockInv, [G!Next]_(G!vars)
             PROVE  G!RowsWait'
  OBVIOUS
<1> USE ServicesAssumption DEF G!TypeOK, G!Row, G!Status, G!Terminal, G!Absent, G!TimelockInv,
   G!RowsWait
<1>1. ASSUME NEW c \in Calls, NEW p \in Proposals, NEW k \in Keys, NEW delay \in 0..MaxTime,
   G!QueueProposal(c, p, k, delay)
      PROVE  G!RowsWait'
  BY <1>1 DEF G!QueueProposal, G!CallState
<1>2. ASSUME NEW c \in Calls, NEW p \in Proposals, G!ExecuteProposal(c, p)
      PROVE  G!RowsWait'
  BY <1>2 DEF G!ExecuteProposal, G!CallState
<1>3. ASSUME NEW c \in Calls, NEW p \in Proposals, G!CancelProposal(c, p)
      PROVE  G!RowsWait'
  BY <1>3 DEF G!CancelProposal, G!CallState
<1>4. ASSUME NEW c \in Calls, G!Insert(c)
      PROVE  G!RowsWait'
  BY <1>4 DEF G!Insert, G!CallState, G!Idle, G!Return
<1>5. ASSUME NEW c \in Calls, G!SaveOfCall(c)
      PROVE  G!RowsWait'
  BY <1>5 DEF G!SaveOfCall, G!CallState, G!Idle, G!Return, G!Save
<1>6. CASE G!CronReads
  BY <1>6 DEF G!CronReads
<1>7. ASSUME NEW p \in Proposals, G!CronSaves(p)
      PROVE  G!RowsWait'
  BY <1>7 DEF G!CronSaves, G!Save
<1>8. CASE G!CronBreaks
  BY <1>8 DEF G!CronBreaks
<1>9. CASE G!Tick
  <2>1. v2 \in Int /\ v2' = v2 + 1 /\ UNCHANGED <<v1, v3, v4>>
    BY <1>9 DEF G!Tick
  <2>2. \A p \in Proposals : v1[p].status \in {"READY", "EXECUTED"} => v1[p].after \in Int
    OBVIOUS
  <2>3. \A c \in Calls : v3[c].pc = "save" => v3[c].row.after \in Int
    BY DEF G!CallState, G!Idle
  <2>4. \A p \in DOMAIN v4 : v4[p].after \in Int
    OBVIOUS
  <2>5. QED
    BY <2>1, <2>2, <2>3, <2>4
<1>10. CASE UNCHANGED G!vars
  BY <1>10 DEF G!vars
<1>11. QED
  BY <1>1, <1>2, <1>3, <1>4, <1>5, <1>6, <1>7, <1>8, <1>9, <1>10 DEF G!Next

(* A row appears by an insert only, and whoever holds a row has read it. *)
LEMMA StepInsertsAreNew ==
    G!TypeOK /\ G!TimelockInv /\ [G!Next]_(G!vars) => G!InsertsAreNew'
<1> SUFFICES ASSUME G!TypeOK, G!TimelockInv, [G!Next]_(G!vars)
             PROVE  G!InsertsAreNew'
  OBVIOUS
<1> USE ServicesAssumption DEF G!TypeOK, G!Row, G!Status, G!Terminal, G!Absent, G!TimelockInv,
   G!InsertsAreNew, G!Held, G!HeldByCall
<1>1. ASSUME NEW c \in Calls, NEW p \in Proposals, NEW k \in Keys, NEW delay \in 0..MaxTime,
   G!QueueProposal(c, p, k, delay)
      PROVE  G!InsertsAreNew'
  BY <1>1 DEF G!QueueProposal, G!CallState
<1>2. ASSUME NEW c \in Calls, NEW p \in Proposals, G!ExecuteProposal(c, p)
      PROVE  G!InsertsAreNew'
  BY <1>2 DEF G!ExecuteProposal, G!CallState
<1>3. ASSUME NEW c \in Calls, NEW p \in Proposals, G!CancelProposal(c, p)
      PROVE  G!InsertsAreNew'
  BY <1>3 DEF G!CancelProposal, G!CallState
<1>4. ASSUME NEW c \in Calls, G!Insert(c)
      PROVE  G!InsertsAreNew'
  BY <1>4 DEF G!Insert, G!CallState, G!Idle, G!Return
<1>5. ASSUME NEW c \in Calls, G!SaveOfCall(c)
      PROVE  G!InsertsAreNew'
  BY <1>5 DEF G!SaveOfCall, G!CallState, G!Idle, G!Return, G!Save
<1>6. CASE G!CronReads
  BY <1>6 DEF G!CronReads
<1>7. ASSUME NEW p \in Proposals, G!CronSaves(p)
      PROVE  G!InsertsAreNew'
  BY <1>7 DEF G!CronSaves, G!Save
<1>8. CASE G!CronBreaks
  BY <1>8 DEF G!CronBreaks
<1>9. CASE G!Tick
  BY <1>9 DEF G!Tick
<1>10. CASE UNCHANGED G!vars
  BY <1>10 DEF G!vars
<1>11. QED
  BY <1>1, <1>2, <1>3, <1>4, <1>5, <1>6, <1>7, <1>8, <1>9, <1>10 DEF G!Next

(* A save that settles a proposal others hold marks it as raced. *)
LEMMA StepSettledIsFinal ==
    G!TypeOK /\ G!TimelockInv /\ [G!Next]_(G!vars) => G!SettledIsFinal'
<1> SUFFICES ASSUME G!TypeOK, G!TimelockInv, [G!Next]_(G!vars)
             PROVE  G!SettledIsFinal'
  OBVIOUS
<1> USE ServicesAssumption DEF G!TypeOK, G!Row, G!Status, G!Terminal, G!Absent, G!TimelockInv,
   G!SettledIsFinal, G!Held, G!HeldByCall, G!InsertsAreNew
<1>1. ASSUME NEW c \in Calls, NEW p \in Proposals, NEW k \in Keys, NEW delay \in 0..MaxTime,
   G!QueueProposal(c, p, k, delay)
      PROVE  G!SettledIsFinal'
  BY <1>1 DEF G!QueueProposal, G!CallState
<1>2. ASSUME NEW c \in Calls, NEW p \in Proposals, G!ExecuteProposal(c, p)
      PROVE  G!SettledIsFinal'
  BY <1>2 DEF G!ExecuteProposal, G!CallState
<1>3. ASSUME NEW c \in Calls, NEW p \in Proposals, G!CancelProposal(c, p)
      PROVE  G!SettledIsFinal'
  BY <1>3 DEF G!CancelProposal, G!CallState
<1>4. ASSUME NEW c \in Calls, G!Insert(c)
      PROVE  G!SettledIsFinal'
  BY <1>4 DEF G!Insert, G!CallState, G!Idle, G!Return
<1>5. ASSUME NEW c \in Calls, G!SaveOfCall(c)
      PROVE  G!SettledIsFinal'
  BY <1>5 DEF G!SaveOfCall, G!CallState, G!Idle, G!Return, G!Save
<1>6. CASE G!CronReads
  BY <1>6 DEF G!CronReads
<1>7. ASSUME NEW p \in Proposals, G!CronSaves(p)
      PROVE  G!SettledIsFinal'
  BY <1>7 DEF G!CronSaves, G!Save
<1>8. CASE G!CronBreaks
  BY <1>8 DEF G!CronBreaks
<1>9. CASE G!Tick
  BY <1>9 DEF G!Tick
<1>10. CASE UNCHANGED G!vars
  BY <1>10 DEF G!vars
<1>11. QED
  BY <1>1, <1>2, <1>3, <1>4, <1>5, <1>6, <1>7, <1>8, <1>9, <1>10 DEF G!Next

(* Only an insert makes a row pending: a save never does. *)
LEMMA StepKeysAreFree ==
    G!TypeOK /\ G!TimelockInv /\ [G!Next]_(G!vars) => G!KeysAreFree'
<1> SUFFICES ASSUME G!TypeOK, G!TimelockInv, [G!Next]_(G!vars)
             PROVE  G!KeysAreFree'
  OBVIOUS
<1> USE ServicesAssumption DEF G!TypeOK, G!Row, G!Status, G!Terminal, G!Absent, G!TimelockInv,
   G!KeysAreFree, G!RowsWait
<1>1. ASSUME NEW c \in Calls, NEW p \in Proposals, NEW k \in Keys, NEW delay \in 0..MaxTime,
   G!QueueProposal(c, p, k, delay)
      PROVE  G!KeysAreFree'
  BY <1>1 DEF G!QueueProposal, G!CallState, G!Pending, G!Inserting
<1>2. ASSUME NEW c \in Calls, NEW p \in Proposals, G!ExecuteProposal(c, p)
      PROVE  G!KeysAreFree'
  BY <1>2 DEF G!ExecuteProposal, G!CallState, G!Pending, G!Inserting
<1>3. ASSUME NEW c \in Calls, NEW p \in Proposals, G!CancelProposal(c, p)
      PROVE  G!KeysAreFree'
  BY <1>3 DEF G!CancelProposal, G!CallState, G!Pending, G!Inserting
<1>4. ASSUME NEW c \in Calls, G!Insert(c)
      PROVE  G!KeysAreFree'
  BY <1>4 DEF G!Insert, G!CallState, G!Idle, G!Return, G!Pending, G!Inserting
<1>5. ASSUME NEW c \in Calls, G!SaveOfCall(c)
      PROVE  G!KeysAreFree'
  <2>1. \A k \in Keys : G!Pending(k)' \subseteq G!Pending(k)
    BY <1>5 DEF G!SaveOfCall, G!Save, G!Pending, G!CallState
  <2>2. \A k \in Keys : G!Inserting(k)' = G!Inserting(k)
    BY <1>5 DEF G!SaveOfCall, G!Return, G!Idle, G!Inserting, G!CallState
  <2>3. UNCHANGED v7
    BY <1>5 DEF G!SaveOfCall
  <2>4. QED
    BY <2>1, <2>2, <2>3
<1>6. CASE G!CronReads
  BY <1>6 DEF G!CronReads, G!Pending, G!Inserting
<1>7. ASSUME NEW p \in Proposals, G!CronSaves(p)
      PROVE  G!KeysAreFree'
  BY <1>7 DEF G!CronSaves, G!Save, G!Pending, G!Inserting
<1>8. CASE G!CronBreaks
  BY <1>8 DEF G!CronBreaks, G!Pending, G!Inserting
<1>9. CASE G!Tick
  BY <1>9 DEF G!Tick, G!Pending, G!Inserting
<1>10. CASE UNCHANGED G!vars
  BY <1>10 DEF G!vars, G!Pending, G!Inserting
<1>11. QED
  BY <1>1, <1>2, <1>3, <1>4, <1>5, <1>6, <1>7, <1>8, <1>9, <1>10 DEF G!Next

LEMMA GovernanceSubject ==
    /\ MCInit /\ subject = "governance" => G!Init
    /\ [MCNext]_all => UNCHANGED subject
    /\ [MCNext]_all /\ subject = "governance" => [G!Next]_(G!vars)
<1>1. MCInit /\ subject = "governance" => G!Init
  BY DEF MCInit
<1>2. [MCNext]_all => UNCHANGED subject
  BY DEF MCNext, all
<1>3. [MCNext]_all /\ subject = "governance" => [G!Next]_(G!vars)
  BY DEF MCNext, all, G!vars
<1>4. QED
  BY <1>1, <1>2, <1>3

LEMMA TimelockFollows == G!TypeOK /\ G!TimelockInv => G!TimelockHolds
<1> SUFFICES ASSUME G!TypeOK, G!TimelockInv PROVE G!TimelockHolds
  OBVIOUS
<1>1. \A p \in Proposals : v1[p].status \in {"READY", "EXECUTED"} =>
         v2 >= v1[p].after /\ v1[p].after >= MinDelay
  BY DEF G!TypeOK, G!TimelockInv, G!RowsWait, G!Absent
<1>2. \A p \in Proposals : p \notin v5 /\ v6[p] # "none" => v1[p].status = v6[p]
  BY DEF G!TimelockInv, G!SettledIsFinal
<1>3. ASSUME NEW k \in Keys \ v7 PROVE G!Cardinality(G!Pending(k)) <= 1
  <2>1. \A p, q \in G!Pending(k) : p = q
    BY <1>3 DEF G!TimelockInv, G!KeysAreFree
  <2>2. G!Cardinality(G!Pending(k)) = Cardinality(G!Pending(k))
    BY DEF G!Cardinality, Cardinality
  <2>3. QED
    BY <2>1, <2>2, AtMostOne
<1>4. QED
  BY <1>1, <1>2, <1>3 DEF G!TimelockHolds

(* Nothing is ready or executed before its timelock has elapsed, a settled *)
(* proposal keeps its status and a key has one pending proposal, for any   *)
(* number of proposals, keys and calls, and any delays (GovernanceService  *)
(* with its cron). *)
THEOREM TimelockIsKept == MCSpec => []TimelockHolds
<1> DEFINE Inv == subject = "governance" => G!TypeOK /\ G!TimelockInv
<1>1. MCInit => Inv
  BY GovernanceSubject, InitProposals
<1>2. Inv /\ [MCNext]_all => Inv'
  BY GovernanceSubject, StepProposalTypes, StepRowsWait, StepInsertsAreNew, StepSettledIsFinal,
     StepKeysAreFree DEF G!TimelockInv
<1>3. Inv => TimelockHolds
  BY TimelockFollows DEF TimelockHolds
<1>4. QED
  BY <1>1, <1>2, <1>3, PTL DEF MCSpec

-----------------------------------------------------------------------------
(* Rewards (R): v1 is row, v2 queue, v3 work, v4 late, v5 request, v6 paid, *)
(* v7 unsure, v8 doubled, v9 lost. *)

LEMMA InitRewards == R!Init => R!TypeOK /\ R!RewardInv
BY ServicesAssumption DEF R!Init, R!TypeOK, R!RewardInv, R!Row, R!Idle, R!Excepted, R!OnePlace,
   R!PaymentsAgree, R!Saving, R!Pushing, R!Queued, R!InWork

(* The forms of a row of the request table and of the loop. *)
LEMMA RewardShapes ==
    ASSUME R!TypeOK
    PROVE  /\ v3.pc \in {"idle", "find", "send", "save"}
           /\ v3 # R!Idle <=> v3.pc # "idle"
           /\ v3.pc # "idle" => v3.id \in Calcs
           /\ v3.pc = "save" => v3.result \in {"success", "failure"}
           /\ \A r \in Requests :
                 /\ v5[r].pc \in {"idle", "push", "save"}
                 /\ v5[r].pc # "idle" => v5[r].id \in Calcs
BY DEF R!TypeOK, R!Idle

LEMMA StepRewardTypes ==
    R!TypeOK /\ [R!Next]_(R!vars) => R!TypeOK'
<1> SUFFICES ASSUME R!TypeOK, [R!Next]_(R!vars)
             PROVE  R!TypeOK'
  OBVIOUS
<1> USE ServicesAssumption DEF R!TypeOK, R!Row, R!Idle
<1>1. ASSUME NEW r \in Requests, NEW c \in Calcs, R!ProcessRewardEvent(r, c)
      PROVE  R!TypeOK'
  BY <1>1 DEF R!ProcessRewardEvent, R!GoPush
<1>2. ASSUME NEW r \in Requests, NEW c \in Calcs, R!RetryReads(r, c)
      PROVE  R!TypeOK'
  BY <1>2 DEF R!RetryReads, R!GoSave
<1>3. ASSUME NEW r \in Requests, R!RetrySaves(r)
      PROVE  R!TypeOK'
  BY <1>3 DEF R!RetrySaves, R!GoPush
<1>4. ASSUME NEW r \in Requests, R!Push(r)
      PROVE  R!TypeOK'
  BY <1>4 DEF R!Push
<1>5. CASE R!Shift
  BY <1>5 DEF R!Shift
<1>6. CASE R!Find
  BY <1>6 DEF R!Find
<1>7. CASE R!Answer
  <2>1. v3.id \in Calcs /\ v3.pc = "send"
    BY <1>7, RewardShapes DEF R!Answer
  <2>2. PICK n : n = v6[v3.id] + 1
    OBVIOUS
  <2>3. n \in 0..MaxPaid
    BY <1>7, <2>1, <2>2 DEF R!Answer
  <2>4. v6' \in [Calcs -> 0..MaxPaid]
    <3>1. v6' = [v6 EXCEPT ![v3.id] = n] \/ v6' = v6
      BY <1>7, <2>2 DEF R!Answer, R!Pay
    <3>2. QED
      BY <2>3, <3>1
  <2>5. v3' \in [pc : {"save"}, id : Calcs, result : {"success", "failure"}]
    BY <1>7, <2>1 DEF R!Answer
  <2>6. v4' \subseteq Calcs /\ v7' \subseteq Calcs
    BY <1>7, <2>1 DEF R!Answer
  <2>7. QED
    BY <1>7, <2>4, <2>5, <2>6 DEF R!Answer
<1>8. CASE R!SaveResult
  <2>1. v1' \in [Calcs -> R!Row]
    BY <1>8, RewardShapes DEF R!SaveResult
  <2>2. QED
    BY <1>8, <2>1, RewardShapes DEF R!SaveResult
<1>9. CASE R!Restart
  BY <1>9 DEF R!Restart
<1>10. ASSUME NEW c \in Calcs, R!LatePayment(c)
      PROVE  R!TypeOK'
  BY <1>10 DEF R!LatePayment, R!Pay
<1>11. CASE UNCHANGED R!vars
  BY <1>11 DEF R!vars
<1>12. QED
  BY <1>1, <1>2, <1>3, <1>4, <1>5, <1>6, <1>7, <1>8, <1>9, <1>10, <1>11 DEF R!Next

LEMMA StepRewards ==
    R!TypeOK /\ R!RewardInv /\ [R!Next]_(R!vars) => R!RewardInv'
<1> SUFFICES ASSUME R!TypeOK, R!RewardInv, [R!Next]_(R!vars)
             PROVE  R!RewardInv'
  OBVIOUS
<1>1. ASSUME NEW r \in Requests, NEW c \in Calcs, R!ProcessRewardEvent(r, c)
      PROVE  R!RewardInv'
  <2>1. /\ v4' \subseteq R!Excepted'
        /\ \A q \in Requests : v5'[q].pc = "save" => v5'[q].read = "failure"
    BY <1>1, RewardShapes DEF R!ProcessRewardEvent, R!GoPush, R!TypeOK, R!RewardInv, R!Excepted,
       R!Idle
  <2>2. ASSUME NEW d \in Calcs \ R!Excepted'
        PROVE  R!OnePlace(d)' /\ R!PaymentsAgree(d)'
    <3>1. d \in Calcs \ R!Excepted /\ R!OnePlace(d) /\ R!PaymentsAgree(d)
      BY <1>1 DEF R!ProcessRewardEvent, R!GoPush, R!RewardInv, R!Excepted
    <3>2. /\ R!Pushing(d)' <=> R!Pushing(d) \/ d = c
          /\ R!Queued(d)' <=> R!Queued(d)
          /\ R!InWork(d)' <=> R!InWork(d)
          /\ R!Saving(d)' <=> R!Saving(d)
      BY <1>1 DEF R!ProcessRewardEvent, R!GoPush, R!TypeOK, R!Idle, R!Pushing, R!Queued, R!InWork,
         R!Saving
    <3>3. CASE d = c
      <4>1. ~R!Pushing(d) /\ ~R!Queued(d) /\ ~R!InWork(d)
        BY <1>1, <3>1, <3>3 DEF R!ProcessRewardEvent, R!PaymentsAgree
      <4>2. R!OnePlace(d)'
        BY <1>1, <3>1, <3>2, <3>3, <4>1 DEF R!ProcessRewardEvent, R!GoPush, R!TypeOK, R!Idle,
           R!OnePlace, R!Pushing
      <4>3. R!PaymentsAgree(d)'
        BY <1>1, <3>1, <3>2, <3>3, <4>1 DEF R!ProcessRewardEvent, R!TypeOK, R!PaymentsAgree,
           R!Saving, R!InWork, R!Idle
      <4>4. QED
        BY <4>2, <4>3
    <3>4. CASE d # c
      <4>1. R!OnePlace(d)'
        BY <1>1, <3>1, <3>2, <3>4 DEF R!ProcessRewardEvent, R!GoPush, R!TypeOK, R!Idle, R!OnePlace
      <4>2. R!PaymentsAgree(d)'
        BY <1>1, <3>1, <3>2, <3>4 DEF R!ProcessRewardEvent, R!TypeOK, R!PaymentsAgree
      <4>3. QED
        BY <4>1, <4>2
    <3>5. QED
      BY <3>3, <3>4
  <2>3. QED
    BY <2>1, <2>2 DEF R!RewardInv
<1>2. ASSUME NEW r \in Requests, NEW c \in Calcs, R!RetryReads(r, c)
      PROVE  R!RewardInv'
  <2>1. /\ v4' \subseteq R!Excepted'
        /\ \A q \in Requests : v5'[q].pc = "save" => v5'[q].read = "failure"
    BY <1>2, RewardShapes DEF R!RetryReads, R!GoSave, R!TypeOK, R!RewardInv, R!Excepted, R!Idle
  <2>2. ASSUME NEW d \in Calcs \ R!Excepted'
        PROVE  R!OnePlace(d)' /\ R!PaymentsAgree(d)'
    <3>1. d \in Calcs \ R!Excepted /\ R!OnePlace(d) /\ R!PaymentsAgree(d)
      BY <1>2 DEF R!TypeOK, R!Row, R!Idle, R!RetryReads, R!GoSave, R!RewardInv, R!Excepted
    <3>2. UNCHANGED <<v1, v2, v3, v6>>
      BY <1>2 DEF R!RetryReads
    <3>3. \A q \in Requests : v5'[q].pc = "push" <=> v5[q].pc = "push"
      BY <1>2 DEF R!RetryReads, R!GoSave, R!TypeOK, R!Idle
    <3>4. \A q \in Requests : v5[q].pc = "push" => v5'[q] = v5[q]
      BY <1>2 DEF R!RetryReads, R!GoSave, R!TypeOK, R!Idle
    <3>5. /\ R!Pushing(d)' <=> R!Pushing(d)
          /\ R!Queued(d)' <=> R!Queued(d)
          /\ R!InWork(d)' <=> R!InWork(d)
      BY <3>2, <3>3, <3>4 DEF R!Pushing, R!Queued, R!InWork
    <3>6. R!OnePlace(d)'
      BY <3>1, <3>2, <3>3, <3>4, <3>5 DEF R!OnePlace
    <3>7. R!PaymentsAgree(d)'
      BY <3>1, <3>2, <3>5 DEF R!PaymentsAgree, R!Saving
    <3>8. QED
      BY <3>6, <3>7
  <2>3. QED
    BY <2>1, <2>2 DEF R!RewardInv
<1>3. ASSUME NEW r \in Requests, R!RetrySaves(r)
      PROVE  R!RewardInv'
  BY <1>3 DEF R!TypeOK, R!Row, R!Idle, R!RetrySaves, R!GoPush, R!RewardInv, R!Excepted, R!OnePlace,
     R!PaymentsAgree,
     R!Saving, R!Pushing, R!Queued, R!InWork
<1>4. ASSUME NEW r \in Requests, R!Push(r)
      PROVE  R!RewardInv'
  <2>1. /\ v4' \subseteq R!Excepted'
        /\ \A q \in Requests : v5'[q].pc = "save" => v5'[q].read = "failure"
    BY <1>4, RewardShapes DEF R!Push, R!TypeOK, R!RewardInv, R!Excepted, R!Idle
  <2> DEFINE c == v5[r].id
  <2>4. /\ c \in Calcs /\ R!Pushing(c)
        /\ v2' = Append(v2, c)
        /\ v5' = [v5 EXCEPT ![r] = R!Idle]
        /\ UNCHANGED <<v1, v3, v4, v6, v7, v8, v9>>
    BY <1>4, RewardShapes DEF R!Push, R!Pushing
  <2>5. /\ Len(v2') = Len(v2) + 1 /\ v2'[Len(v2) + 1] = c
        /\ \A i \in DOMAIN v2 : v2'[i] = v2[i]
        /\ DOMAIN v2 = 1..Len(v2) /\ DOMAIN v2' = 1..(Len(v2) + 1) /\ Len(v2) \in Nat
    BY <2>4 DEF R!TypeOK
  <2> HIDE DEF c
  <2>2. ASSUME NEW d \in Calcs \ R!Excepted'
        PROVE  R!OnePlace(d)' /\ R!PaymentsAgree(d)'
    <3>1. d \in Calcs \ R!Excepted /\ R!OnePlace(d) /\ R!PaymentsAgree(d)
      BY <1>4 DEF R!Push, R!RewardInv, R!Excepted
    <3>2. /\ R!Queued(d)' <=> R!Queued(d) \/ d = c
          /\ R!InWork(d)' <=> R!InWork(d)
          /\ R!Saving(d)' <=> R!Saving(d)
      BY <2>4, <2>5 DEF R!Queued, R!InWork, R!Saving
    <3>3. R!Pushing(d)' <=> R!Pushing(d) /\ d # c
      BY <1>4, <2>4, <3>1 DEF R!Push, R!TypeOK, R!Idle, R!Pushing, R!OnePlace, c
    <3>4. R!OnePlace(d)'
      <4>1. \A q, s \in Requests : v5'[q].pc = "push" /\ v5'[q].id = d
                               /\ v5'[s].pc = "push" /\ v5'[s].id = d => q = s
        BY <2>4, <3>1 DEF R!OnePlace, R!TypeOK, R!Idle
      <4>2. \A i, j \in DOMAIN v2' : v2'[i] = d /\ v2'[j] = d => i = j
        BY <2>4, <2>5, <3>1 DEF R!OnePlace, R!Queued
      <4>3. QED
        BY <2>4, <3>1, <3>2, <3>3, <4>1, <4>2 DEF R!OnePlace
    <3>5. R!PaymentsAgree(d)'
      BY <2>4, <3>1, <3>2, <3>3 DEF R!PaymentsAgree, R!TypeOK
    <3>6. QED
      BY <3>4, <3>5
  <2>3. QED
    BY <2>1, <2>2 DEF R!RewardInv
<1>5. CASE R!Shift
  <2>1. /\ v4' \subseteq R!Excepted'
        /\ \A q \in Requests : v5'[q].pc = "save" => v5'[q].read = "failure"
    BY <1>5, RewardShapes DEF R!Shift, R!TypeOK, R!RewardInv, R!Excepted, R!Idle
  <2> DEFINE c == Head(v2)
  <2>4. /\ c \in Calcs /\ R!Queued(c) /\ v3 = R!Idle
        /\ v3' = [pc |-> "find", id |-> c]
        /\ v2' = Tail(v2)
        /\ UNCHANGED <<v1, v4, v5, v6, v7, v8, v9>>
    BY <1>5 DEF R!Shift, R!Queued, R!TypeOK
  <2>5. /\ DOMAIN v2 = 1..Len(v2) /\ DOMAIN v2' = 1..(Len(v2) - 1) /\ Len(v2) \in Nat
        /\ Len(v2) > 0 /\ v2[1] = c
        /\ \A i \in DOMAIN v2' : v2'[i] = v2[i + 1]
    BY <1>5, <2>4 DEF R!Shift, R!TypeOK
  <2> HIDE DEF c
  <2>2. ASSUME NEW d \in Calcs \ R!Excepted'
        PROVE  R!OnePlace(d)' /\ R!PaymentsAgree(d)'
    <3>1. d \in Calcs \ R!Excepted /\ R!OnePlace(d) /\ R!PaymentsAgree(d)
      BY <1>5 DEF R!Shift, R!RewardInv, R!Excepted
    <3>2. /\ R!Pushing(d)' <=> R!Pushing(d)
          /\ R!InWork(d)' <=> d = c
          /\ ~R!InWork(d) /\ ~R!Saving(d) /\ ~R!Saving(d)'
      BY <2>4 DEF R!Pushing, R!InWork, R!Saving, R!Idle
    <3>3. R!Queued(d)' <=> R!Queued(d) /\ d # c
      <4>1. ASSUME R!Queued(d)' PROVE R!Queued(d) /\ d # c
        <5>1. PICK i \in DOMAIN v2' : v2'[i] = d
          BY <4>1 DEF R!Queued
        <5>2. i + 1 \in DOMAIN v2 /\ v2[i + 1] = d /\ i + 1 # 1 /\ 1 \in DOMAIN v2
          BY <2>5, <5>1
        <5>3. QED
          BY <2>5, <3>1, <5>2 DEF R!OnePlace, R!Queued
      <4>2. ASSUME R!Queued(d), d # c PROVE R!Queued(d)'
        <5>1. PICK i \in DOMAIN v2 : v2[i] = d
          BY <4>2 DEF R!Queued
        <5>2. i - 1 \in DOMAIN v2' /\ v2'[i - 1] = d
          BY <2>5, <4>2, <5>1
        <5>3. QED
          BY <5>2 DEF R!Queued
      <4>3. QED
        BY <4>1, <4>2
    <3>4. R!OnePlace(d)'
      <4>1. \A i, j \in DOMAIN v2' : v2'[i] = d /\ v2'[j] = d => i = j
        <5>1. SUFFICES ASSUME NEW i \in DOMAIN v2', NEW j \in DOMAIN v2', v2'[i] = d, v2'[j] = d
                       PROVE  i = j
          OBVIOUS
        <5>2. i + 1 \in DOMAIN v2 /\ j + 1 \in DOMAIN v2 /\ v2[i + 1] = d /\ v2[j + 1] = d
          BY <2>5, <5>1
        <5>3. i + 1 = j + 1
          BY <3>1, <5>2 DEF R!OnePlace
        <5>4. QED
          BY <2>5, <5>3
      <4>2. QED
        BY <2>4, <3>1, <3>2, <3>3, <4>1 DEF R!OnePlace
    <3>5. R!PaymentsAgree(d)'
      BY <2>4, <3>1, <3>2, <3>3 DEF R!PaymentsAgree
    <3>6. QED
      BY <3>4, <3>5
  <2>3. QED
    BY <2>1, <2>2 DEF R!RewardInv
<1>6. CASE R!Find
  <2>1. /\ v4' \subseteq R!Excepted'
        /\ \A q \in Requests : v5'[q].pc = "save" => v5'[q].read = "failure"
    BY <1>6, RewardShapes DEF R!Find, R!TypeOK, R!RewardInv, R!Excepted, R!Idle
  <2>2. ASSUME NEW d \in Calcs \ R!Excepted'
        PROVE  R!OnePlace(d)' /\ R!PaymentsAgree(d)'
    <3>1. d \in Calcs \ R!Excepted /\ R!OnePlace(d) /\ R!PaymentsAgree(d)
      BY <1>6 DEF R!TypeOK, R!Row, R!Idle, R!Find, R!RewardInv, R!Excepted
    <3>2. /\ R!Pushing(d)' <=> R!Pushing(d)
          /\ R!Queued(d)' <=> R!Queued(d)
          /\ UNCHANGED <<v2, v5>>
      BY <1>6 DEF R!Find, R!Pushing, R!Queued
    <3>3. /\ UNCHANGED <<v1, v6>>
          /\ R!InWork(d)' => R!InWork(d)
          /\ ~R!Saving(d) /\ ~R!Saving(d)'
          /\ v1[d] = "pending" /\ R!InWork(d) => R!InWork(d)'
      BY <1>6, RewardShapes DEF R!Find, R!InWork, R!Saving, R!Idle
    <3>4. R!OnePlace(d)'
      BY <3>1, <3>2, <3>3 DEF R!OnePlace
    <3>5. R!PaymentsAgree(d)'
      BY <3>1, <3>2, <3>3 DEF R!PaymentsAgree
    <3>6. QED
      BY <3>4, <3>5
  <2>3. QED
    BY <2>1, <2>2 DEF R!RewardInv
<1>7. CASE R!Answer
  <2>1. /\ v4' \subseteq R!Excepted'
        /\ \A q \in Requests : v5'[q].pc = "save" => v5'[q].read = "failure"
    BY <1>7, RewardShapes DEF R!Answer, R!Pay, R!TypeOK, R!RewardInv, R!Excepted, R!Idle
  <2>2. ASSUME NEW d \in Calcs \ R!Excepted'
        PROVE  R!OnePlace(d)' /\ R!PaymentsAgree(d)'
    <3>1. d \in Calcs \ R!Excepted /\ R!OnePlace(d) /\ R!PaymentsAgree(d)
      BY <1>7 DEF R!Answer, R!Pay, R!RewardInv, R!Excepted
    <3>2. /\ R!Pushing(d)' <=> R!Pushing(d)
          /\ R!Queued(d)' <=> R!Queued(d)
          /\ UNCHANGED <<v2, v5>>
      BY <1>7 DEF R!Answer, R!Pushing, R!Queued
    <3>3. R!InWork(d)' <=> R!InWork(d)
      BY <1>7, RewardShapes DEF R!Answer, R!InWork, R!Idle
    <3>4. R!OnePlace(d)'
      BY <3>1, <3>2, <3>3 DEF R!OnePlace
    <3>5. R!PaymentsAgree(d)'
      <4>1. d # v3.id => v6'[d] = v6[d] /\ ~R!Saving(d) /\ ~R!Saving(d)'
        BY <1>7 DEF R!Answer, R!Pay, R!TypeOK, R!Saving
      <4>2. d = v3.id => v6[d] = 0 /\ v1[d] = "pending"
        BY <1>7, <3>1, RewardShapes DEF R!Answer, R!PaymentsAgree, R!Saving, R!InWork
      <4>3. d = v3.id => v3'.pc = "save" /\ v3'.id = d
                      /\ v6'[d] = IF v3'.result = "success" THEN 1 ELSE 0
        BY <1>7, <4>2 DEF R!Answer, R!Pay, R!TypeOK
      <4>4. v1' = v1
        BY <1>7 DEF R!Answer
      <4>5. QED
        BY <3>1, <3>2, <3>3, <4>1, <4>2, <4>3, <4>4 DEF R!PaymentsAgree, R!Saving
    <3>6. QED
      BY <3>4, <3>5
  <2>3. QED
    BY <2>1, <2>2 DEF R!RewardInv
<1>8. CASE R!SaveResult
  <2>1. /\ v4' \subseteq R!Excepted'
        /\ \A q \in Requests : v5'[q].pc = "save" => v5'[q].read = "failure"
    BY <1>8, RewardShapes DEF R!SaveResult, R!TypeOK, R!RewardInv, R!Excepted, R!Idle
  <2>2. ASSUME NEW d \in Calcs \ R!Excepted'
        PROVE  R!OnePlace(d)' /\ R!PaymentsAgree(d)'
    <3>1. d \in Calcs \ R!Excepted /\ R!OnePlace(d) /\ R!PaymentsAgree(d)
      BY <1>8 DEF R!SaveResult, R!RewardInv, R!Excepted
    <3>2. /\ R!Pushing(d)' <=> R!Pushing(d)
          /\ R!Queued(d)' <=> R!Queued(d)
          /\ UNCHANGED <<v2, v5>>
      BY <1>8 DEF R!SaveResult, R!Pushing, R!Queued
    <3>3. /\ R!InWork(d)' <=> FALSE
          /\ ~R!Saving(d)'
          /\ R!InWork(d) <=> d = v3.id
      BY <1>8, RewardShapes DEF R!SaveResult, R!InWork, R!Saving, R!Idle
    <3>4. R!OnePlace(d)'
      BY <3>1, <3>2, <3>3 DEF R!OnePlace
    <3>5. R!PaymentsAgree(d)'
      <4>1. CASE d # v3.id
        <5>1. v1'[d] = v1[d] /\ v6'[d] = v6[d] /\ ~R!Saving(d)
          BY <1>8, <4>1 DEF R!SaveResult, R!TypeOK, R!Saving
        <5>2. QED
          BY <3>1, <3>2, <3>3, <4>1, <5>1 DEF R!PaymentsAgree
      <4>2. CASE d = v3.id
        <5>1. v1'[d] = v3.result /\ v6'[d] = v6[d] /\ R!Saving(d)
          BY <1>8, <4>2, RewardShapes DEF R!SaveResult, R!TypeOK, R!Saving, R!Excepted
        <5>2. v1'[d] \in {"success", "failure"} /\ ~R!Pushing(d) /\ ~R!Queued(d)
          BY <1>8, <3>1, <3>3, <4>2, <5>1, RewardShapes DEF R!SaveResult, R!OnePlace
        <5>3. v6[d] = IF v3.result = "success" THEN 1 ELSE 0
          BY <3>1, <5>1 DEF R!PaymentsAgree
        <5>4. QED
          BY <3>2, <3>3, <5>1, <5>2, <5>3 DEF R!PaymentsAgree
      <4>3. QED
        BY <4>1, <4>2
    <3>6. QED
      BY <3>4, <3>5
  <2>3. QED
    BY <2>1, <2>2 DEF R!RewardInv
<1>9. CASE R!Restart
  <2>1. /\ v2' = <<>> /\ v3'.pc = "idle" /\ v3' = R!Idle /\ UNCHANGED <<v1, v6, v7, v8>>
        /\ \A r \in Requests : v5'[r].pc = "idle"
        /\ v9' = v9 \cup {c \in Calcs : R!Queued(c) \/ R!InWork(c) \/ R!Pushing(c)}
        /\ v4' = IF v3.pc = "send" THEN v4 \cup {v3.id} ELSE v4
    BY <1>9 DEF R!Restart, R!Idle
  <2>2. ASSUME NEW c \in Calcs, c \notin R!Excepted'
        PROVE  R!OnePlace(c)' /\ R!PaymentsAgree(c)'
    <3>1. c \notin R!Excepted /\ ~R!Queued(c) /\ ~R!InWork(c) /\ ~R!Pushing(c)
      BY <2>1, <2>2 DEF R!Excepted
    <3>2. R!PaymentsAgree(c)
      BY <3>1 DEF R!RewardInv
    <3>3. ~R!Saving(c)
      BY <3>1 DEF R!Saving, R!InWork, R!Idle
    <3>4. ~R!Queued(c)' /\ ~R!InWork(c)' /\ ~R!Pushing(c)' /\ ~R!Saving(c)'
      BY <2>1 DEF R!Queued, R!InWork, R!Pushing, R!Saving
    <3>5. R!PaymentsAgree(c)'
      BY <2>1, <3>1, <3>2, <3>3, <3>4 DEF R!PaymentsAgree
    <3>6. R!OnePlace(c)'
      BY <2>1, <3>4 DEF R!OnePlace
    <3>7. QED
      BY <3>5, <3>6
  <2>3. v4' \subseteq R!Excepted'
    <3>1. v3.pc = "send" => R!InWork(v3.id) /\ v3.id \in Calcs
      BY RewardShapes DEF R!InWork
    <3>2. v4 \subseteq R!Excepted
      BY DEF R!RewardInv
    <3>3. QED
      BY <2>1, <3>1, <3>2 DEF R!Excepted
  <2>4. QED
    BY <2>1, <2>2, <2>3 DEF R!RewardInv
<1>10. ASSUME NEW c \in Calcs, R!LatePayment(c)
      PROVE  R!RewardInv'
  BY <1>10, SMTT(40) DEF R!TypeOK, R!Row, R!Idle, R!LatePayment, R!Pay, R!RewardInv, R!Excepted, R!OnePlace,
     R!PaymentsAgree,
     R!Saving, R!Pushing, R!Queued, R!InWork
<1>11. CASE UNCHANGED R!vars
  BY <1>11 DEF R!vars, R!RewardInv, R!Excepted, R!OnePlace, R!PaymentsAgree, R!Saving, R!Pushing,
     R!Queued, R!InWork
<1>12. QED
  BY <1>1, <1>2, <1>3, <1>4, <1>5, <1>6, <1>7, <1>8, <1>9, <1>10, <1>11 DEF R!Next

LEMMA RewardsSubject ==
    /\ MCInit /\ subject = "rewards" => R!Init
    /\ [MCNext]_all => UNCHANGED subject
    /\ [MCNext]_all /\ subject = "rewards" => [R!Next]_(R!vars)
<1>1. MCInit /\ subject = "rewards" => R!Init
  BY DEF MCInit
<1>2. [MCNext]_all => UNCHANGED subject
  BY DEF MCNext, all
<1>3. [MCNext]_all /\ subject = "rewards" => [R!Next]_(R!vars)
  BY DEF MCNext, all, R!vars
<1>4. QED
  BY <1>1, <1>2, <1>3

LEMMA RewardsFollow == R!TypeOK /\ R!RewardInv => R!PaidOnce
<1> SUFFICES ASSUME R!TypeOK, R!RewardInv, NEW c \in Calcs \ R!Excepted
             PROVE  /\ v6[c] <= 1
                    /\ v1[c] = "success" => v6[c] = 1
                    /\ v1[c] = "failure" => v6[c] = 0
                    /\ v1[c] = "pending" =>
                          \/ v6[c] = 0 /\ (R!Queued(c) \/ R!Pushing(c) \/ R!InWork(c))
                          \/ v3.pc = "save" /\ v3.id = c
  BY DEF R!PaidOnce, R!Excepted
<1>1. R!PaymentsAgree(c)
  BY DEF R!RewardInv
<1>2. R!Saving(c) => R!InWork(c)
  BY RewardShapes DEF R!Saving, R!InWork
<1>3. QED
  BY <1>1, <1>2 DEF R!PaymentsAgree, R!Saving

(* Outside the failures the code cannot see, a reward is paid at most once *)
(* and the row of its calculation agrees with what was paid, for any number *)
(* of calculations and requests (RewardEngineService with its worker). *)
THEOREM RewardsArePaidOnce == MCSpec => []PaidOnce
<1> DEFINE Inv == subject = "rewards" => R!TypeOK /\ R!RewardInv
<1>1. MCInit => Inv
  BY RewardsSubject, InitRewards
<1>2. Inv /\ [MCNext]_all => Inv'
  BY RewardsSubject, StepRewardTypes, StepRewards
<1>3. Inv => PaidOnce
  BY RewardsFollow DEF PaidOnce
<1>4. QED
  BY <1>1, <1>2, <1>3, PTL DEF MCSpec

-----------------------------------------------------------------------------
(* Scheduling (E): v1 is event, v2 active, v3 now, v4 pass, v5 call,       *)
(* v6 rewarded, v7 raced, v8 cut, v9 terminated. *)

LEMMA InitEvents == E!Init => E!TypeOK /\ E!EventInv
<1> SUFFICES ASSUME E!Init PROVE E!TypeOK /\ E!EventInv
  OBVIOUS
<1>1. E!TypeOK
  BY ServicesAssumption DEF E!Init, E!TypeOK, E!Row, E!Idle, E!Pass, E!Status
<1>2. /\ \A p \in Passes : v4[p].pc = "idle"
      /\ \A c \in Calls : v5[c].pc = "idle"
  BY DEF E!Init, E!Idle
<1>3. ASSUME NEW e \in Events
      PROVE  /\ E!OneHolder(e) /\ E!CopiesAreTrue(e) /\ \A u \in Users : E!ShareIsTrue(e, u)
             /\ e \notin v9
  <2>1. E!OneHolder(e) /\ E!CopiesAreTrue(e)
    BY <1>2 DEF E!OneHolder, E!CopiesAreTrue, E!HeldByPass, E!HeldByCall, E!Working
  <2>2. ASSUME NEW u \in Users PROVE E!ShareIsTrue(e, u)
    <3>1. v1[e].status = "scheduled" /\ <<e, u>> \in v2 /\ v6[<<e, u>>] = 0
      BY DEF E!Init
    <3>2. QED
      BY <1>2, <3>1 DEF E!ShareIsTrue, E!Working, E!Ended
  <2>3. QED
    BY <2>1, <2>2 DEF E!Init
<1>4. QED
  BY <1>1, <1>3 DEF E!EventInv

(* The forms of a pass and of a call, and what is read into them. *)
LEMMA PassShapes ==
    ASSUME E!TypeOK, NEW p \in Passes
    PROVE  /\ v4[p].pc \in {"idle", "activate", "complete", "parts", "reward", "mark"}
           /\ v4[p] = E!Idle <=> v4[p].pc = "idle"
           /\ v4[p].pc # "idle" => v4[p].left \in E!Rows /\ v4[p].at \in 0..LastTime
           /\ v4[p].pc \in {"parts", "reward", "mark"} => v4[p].event \in Events
           /\ v4[p].pc \in {"reward", "mark"} => v4[p].users \subseteq Users
           /\ v4[p].pc = "mark" => v4[p].user \in Users
           /\ v4[p].pc \in {"activate", "complete"} =>
                 v4[p] = [pc |-> v4[p].pc, at |-> v4[p].at, left |-> v4[p].left]
<1>1. v4[p] \in E!Pass
  BY DEF E!TypeOK
<1>2. QED
  BY <1>1 DEF E!Pass, E!Idle

LEMMA CallShapes ==
    ASSUME E!TypeOK, NEW c \in Calls
    PROVE  /\ v5[c].pc \in {"idle", "terminate", "extend", "pause"}
           /\ v5[c] = E!Idle <=> v5[c].pc = "idle"
           /\ v5[c].pc # "idle" => v5[c].event \in Events /\ v5[c].row \in E!Row
BY DEF E!TypeOK, E!Idle

LEMMA RowsOfEvents ==
    /\ \A f \in E!Rows : DOMAIN f \subseteq Events /\ \A e \in DOMAIN f : f[e] \in E!Row
    /\ E!TypeOK => \A es \in SUBSET Events : E!Found(es) \in E!Rows
    /\ \A f \in E!Rows, e \in Events : E!Without(f, e) \in E!Rows
    /\ \A es \in SUBSET Events : DOMAIN E!Found(es) = es /\ \A e \in es : E!Found(es)[e] = v1[e]
    /\ \A f \in E!Rows, e \in Events :
          /\ DOMAIN E!Without(f, e) = DOMAIN f \ {e}
          /\ \A x \in DOMAIN f \ {e} : E!Without(f, e)[x] = f[x]
<1>1. \A f \in E!Rows : DOMAIN f \subseteq Events /\ \A e \in DOMAIN f : f[e] \in E!Row
  BY DEF E!Rows
<1>2. ASSUME E!TypeOK, NEW es \in SUBSET Events PROVE E!Found(es) \in E!Rows
  <2>1. E!Found(es) \in [es -> E!Row]
    BY <1>2 DEF E!Found, E!TypeOK
  <2>2. QED
    BY <2>1 DEF E!Rows
<1>3. ASSUME NEW f \in E!Rows, NEW e \in Events PROVE E!Without(f, e) \in E!Rows
  <2>1. E!Without(f, e) \in [DOMAIN f \ {e} -> E!Row]
    BY <1>1 DEF E!Without
  <2>2. DOMAIN f \ {e} \in SUBSET Events
    BY <1>1
  <2>3. QED
    BY <2>1, <2>2 DEF E!Rows
<1>4. /\ \A es \in SUBSET Events : DOMAIN E!Found(es) = es /\ \A e \in es : E!Found(es)[e] = v1[e]
      /\ \A f \in E!Rows, e \in Events :
            /\ DOMAIN E!Without(f, e) = DOMAIN f \ {e}
            /\ \A x \in DOMAIN f \ {e} : E!Without(f, e)[x] = f[x]
  BY DEF E!Found, E!Without
<1>5. QED
  BY ONLY <1>1, <1>2, <1>3, <1>4

(* What the pass that starts or completes event d does. *)
LEMMA ActivateEventDoes ==
    ASSUME E!TypeOK, NEW p \in Passes, E!ActivateEvent(p)
    PROVE  \E d \in Events :
              /\ v4[p].pc = "activate" /\ d \in DOMAIN v4[p].left
              /\ v1' \in [Events -> E!Row] /\ v1'[d].status = "active"
              /\ v1'[d].end = v4[p].left[d].end
              /\ \A x \in Events \ {d} : v1'[x] = v1[x]
              /\ v4' \in [Passes -> E!Pass] /\ v4'[p].pc = "activate"
              /\ DOMAIN v4'[p].left = DOMAIN v4[p].left \ {d}
              /\ \A x \in DOMAIN v4[p].left \ {d} : v4'[p].left[x] = v4[p].left[x]
              /\ \A q \in Passes \ {p} : v4'[q] = v4[q]
              /\ UNCHANGED <<v2, v3, v5, v6, v7, v8, v9>>
<1>1. PICK d \in DOMAIN v4[p].left :
         /\ v1' = [v1 EXCEPT ![d] = [v4[p].left[d] EXCEPT !.status = "active"]]
         /\ v4' = [v4 EXCEPT ![p].left = E!Without(@, d)]
  BY DEF E!ActivateEvent
<1>2. /\ v4[p] = [pc |-> "activate", at |-> v4[p].at, left |-> v4[p].left]
      /\ v4[p].at \in 0..LastTime /\ v4[p].left \in E!Rows /\ v4[p].pc = "activate"
  BY PassShapes DEF E!ActivateEvent
<1>3. /\ d \in Events /\ v4[p].left[d] \in E!Row
      /\ E!Without(v4[p].left, d) \in E!Rows
      /\ DOMAIN E!Without(v4[p].left, d) = DOMAIN v4[p].left \ {d}
      /\ \A x \in DOMAIN v4[p].left \ {d} : E!Without(v4[p].left, d)[x] = v4[p].left[x]
  <2>1. d \in Events /\ v4[p].left[d] \in E!Row
    BY <1>2, RowsOfEvents
  <2>2. QED
    BY <1>2, <2>1, RowsOfEvents
<1>4. /\ [v4[p].left[d] EXCEPT !.status = "active"] \in E!Row
      /\ [v4[p].left[d] EXCEPT !.status = "active"].status = "active"
      /\ [v4[p].left[d] EXCEPT !.status = "active"].end = v4[p].left[d].end
  BY <1>3 DEF E!Row, E!Status
<1>5. /\ v4'[p] = [pc |-> "activate", at |-> v4[p].at, left |-> E!Without(v4[p].left, d)]
      /\ \A q \in Passes \ {p} : v4'[q] = v4[q]
  BY <1>1, <1>2 DEF E!TypeOK
<1>6. v4'[p] \in E!Pass
  BY <1>2, <1>3, <1>5 DEF E!Pass
<1>7. v4' \in [Passes -> E!Pass]
  BY <1>1, <1>6 DEF E!TypeOK
<1>8. /\ v1' \in [Events -> E!Row] /\ v1'[d].status = "active"
      /\ v1'[d].end = v4[p].left[d].end
      /\ \A x \in Events \ {d} : v1'[x] = v1[x]
  BY <1>1, <1>3, <1>4 DEF E!TypeOK
<1>9. UNCHANGED <<v2, v3, v5, v6, v7, v8, v9>>
  BY DEF E!ActivateEvent
<1>10. d \in Events
  BY <1>3
<1>11. WITNESS d \in Events
<1>12. QED
  BY <1>2, <1>3, <1>5, <1>7, <1>8, <1>9

LEMMA CompleteEventDoes ==
    ASSUME E!TypeOK, NEW p \in Passes, E!CompleteEvent(p)
    PROVE  \E d \in Events :
              /\ v4[p].pc = "complete" /\ d \in DOMAIN v4[p].left
              /\ v1' \in [Events -> E!Row] /\ v1'[d].status = "completed"
              /\ \A x \in Events \ {d} : v1'[x] = v1[x]
              /\ v4' \in [Passes -> E!Pass] /\ v4'[p].pc = "parts" /\ v4'[p].event = d
              /\ DOMAIN v4'[p].left = DOMAIN v4[p].left \ {d}
              /\ \A x \in DOMAIN v4[p].left \ {d} : v4'[p].left[x] = v4[p].left[x]
              /\ \A q \in Passes \ {p} : v4'[q] = v4[q]
              /\ UNCHANGED <<v2, v3, v5, v6, v7, v8, v9>>
<1>1. PICK d \in DOMAIN v4[p].left :
         /\ v1' = [v1 EXCEPT ![d] = [v4[p].left[d] EXCEPT !.status = "completed"]]
         /\ v4' = [v4 EXCEPT ![p] = [pc |-> "parts", at |-> v4[p].at,
                                     left |-> E!Without(v4[p].left, d), event |-> d]]
  BY DEF E!CompleteEvent
<1>2. v4[p].at \in 0..LastTime /\ v4[p].left \in E!Rows /\ v4[p].pc = "complete"
  BY PassShapes DEF E!CompleteEvent
<1>3. /\ d \in Events /\ v4[p].left[d] \in E!Row
      /\ E!Without(v4[p].left, d) \in E!Rows
      /\ DOMAIN E!Without(v4[p].left, d) = DOMAIN v4[p].left \ {d}
      /\ \A x \in DOMAIN v4[p].left \ {d} : E!Without(v4[p].left, d)[x] = v4[p].left[x]
  <2>1. d \in Events /\ v4[p].left[d] \in E!Row
    BY <1>2, RowsOfEvents
  <2>2. QED
    BY <1>2, <2>1, RowsOfEvents
<1>4. /\ [v4[p].left[d] EXCEPT !.status = "completed"] \in E!Row
      /\ [v4[p].left[d] EXCEPT !.status = "completed"].status = "completed"
  BY <1>3 DEF E!Row, E!Status
<1>5. /\ v4'[p] = [pc |-> "parts", at |-> v4[p].at, left |-> E!Without(v4[p].left, d), event |-> d]
      /\ \A q \in Passes \ {p} : v4'[q] = v4[q]
  BY <1>1 DEF E!TypeOK
<1>6. v4'[p] \in E!Pass
  BY <1>2, <1>3, <1>5 DEF E!Pass
<1>7. v4' \in [Passes -> E!Pass]
  BY <1>1, <1>6 DEF E!TypeOK
<1>8. /\ v1' \in [Events -> E!Row] /\ v1'[d].status = "completed"
      /\ \A x \in Events \ {d} : v1'[x] = v1[x]
  BY <1>1, <1>3, <1>4 DEF E!TypeOK
<1>9. UNCHANGED <<v2, v3, v5, v6, v7, v8, v9>>
  BY DEF E!CompleteEvent
<1>10. d \in Events
  BY <1>3
<1>11. WITNESS d \in Events
<1>12. QED
  BY <1>2, <1>3, <1>5, <1>7, <1>8, <1>9

(* What the pass does that goes on to the events that expired. *)
LEMMA FindExpiredDoes ==
    ASSUME E!TypeOK, NEW p \in Passes, E!FindExpired(p)
    PROVE  \E es \in SUBSET Events :
              /\ v4[p].pc = "activate" /\ DOMAIN v4[p].left = {}
              /\ \A e \in es : v1[e].status = "active"
              /\ v4' \in [Passes -> E!Pass] /\ v4'[p].pc = "complete"
              /\ DOMAIN v4'[p].left = es
              /\ \A e \in es : v4'[p].left[e] = v1[e]
              /\ \A q \in Passes \ {p} : v4'[q] = v4[q]
              /\ v7' = v7 \cup {e \in es : E!Held(e)}
              /\ UNCHANGED <<v1, v2, v3, v5, v6, v8, v9>>
<1> DEFINE es == E!ToComplete(v4[p].at)
<1>1. es \in SUBSET Events /\ \A e \in es : v1[e].status = "active"
  BY DEF E!ToComplete
<1>2. /\ v4[p].pc = "activate" /\ DOMAIN v4[p].left = {}
      /\ v4' = [v4 EXCEPT ![p] = [@ EXCEPT !.pc = "complete", !.left = E!Found(es)]]
      /\ v7' = v7 \cup {e \in es : E!Held(e)}
      /\ UNCHANGED <<v1, v2, v3, v5, v6, v8, v9>>
  BY DEF E!FindExpired, E!Reads
<1> HIDE DEF es
<1>3. /\ v4[p] = [pc |-> "activate", at |-> v4[p].at, left |-> v4[p].left]
      /\ v4[p].at \in 0..LastTime
  BY <1>2, PassShapes
<1>4. /\ E!Found(es) \in E!Rows /\ DOMAIN E!Found(es) = es
      /\ \A e \in es : E!Found(es)[e] = v1[e]
  BY <1>1, RowsOfEvents
<1>5. /\ v4'[p] = [pc |-> "complete", at |-> v4[p].at, left |-> E!Found(es)]
      /\ \A q \in Passes \ {p} : v4'[q] = v4[q]
  BY <1>2, <1>3 DEF E!TypeOK
<1>6. v4'[p] \in E!Pass
  BY <1>3, <1>4, <1>5 DEF E!Pass
<1>7. v4' \in [Passes -> E!Pass]
  BY <1>2, <1>6 DEF E!TypeOK
<1>8. QED
  BY <1>1, <1>2, <1>4, <1>5, <1>7

(* What the call that saves its copy does. *)
LEMMA SaveDoes ==
    ASSUME E!TypeOK, NEW c \in Calls, E!Save(c)
    PROVE  /\ v5[c].pc \in {"terminate", "extend", "pause"} /\ v5[c].event \in Events
           /\ v1' \in [Events -> E!Row]
           /\ v1'[v5[c].event].status = CASE v5[c].pc = "terminate" -> "cancelled"
                                          [] v5[c].pc = "pause" -> "paused"
                                          [] v5[c].pc = "extend" -> v5[c].row.status
           /\ \A x \in Events \ {v5[c].event} : v1'[x] = v1[x]
           /\ v5' = [v5 EXCEPT ![c] = E!Idle] /\ v5'[c] = E!Idle
           /\ \A d \in Calls \ {c} : v5'[d] = v5[d]
           /\ v9' = IF v5[c].pc = "terminate" THEN v9 \cup {v5[c].event} ELSE v9
           /\ UNCHANGED <<v2, v3, v4, v6, v7, v8>>
<1>1. /\ v5[c].pc \in {"terminate", "extend", "pause"} /\ v5[c].event \in Events
      /\ v5[c].row \in E!Row
  BY CallShapes DEF E!Save
<1>2. PICK r \in E!Asked(c) : v1' = [v1 EXCEPT ![v5[c].event] = r]
  BY DEF E!Save
<1>3. /\ r \in E!Row
      /\ r.status = CASE v5[c].pc = "terminate" -> "cancelled"
                      [] v5[c].pc = "pause" -> "paused"
                      [] v5[c].pc = "extend" -> v5[c].row.status
  BY <1>1, <1>2 DEF E!Asked, E!Row, E!Status
<1>4. /\ v1' \in [Events -> E!Row] /\ v1'[v5[c].event] = r
      /\ \A x \in Events \ {v5[c].event} : v1'[x] = v1[x]
  BY <1>1, <1>2, <1>3 DEF E!TypeOK
<1>5. /\ v5' = [v5 EXCEPT ![c] = E!Idle] /\ v5'[c] = E!Idle
      /\ \A d \in Calls \ {c} : v5'[d] = v5[d]
  BY DEF E!Save, E!TypeOK
<1>6. QED
  BY <1>1, <1>3, <1>4, <1>5 DEF E!Save

LEMMA StepEventTypes ==
    E!TypeOK /\ [E!Next]_(E!vars) => E!TypeOK'
<1> SUFFICES ASSUME E!TypeOK, [E!Next]_(E!vars)
             PROVE  E!TypeOK'
  OBVIOUS
<1>1. ASSUME NEW p \in Passes, E!Begin(p)
      PROVE  E!TypeOK'
  <2>1. v4' \in [Passes -> E!Pass]
    <3>1. v4'[p] \in E!Pass
      BY <1>1, PassShapes, CallShapes, RowsOfEvents, ServicesAssumption DEF E!TypeOK, E!Pass,
         E!Idle, E!Begin, E!Reads, E!ToActivate
    <3>2. QED
      BY <1>1, <3>1 DEF E!TypeOK, E!Begin, E!Reads, E!ToActivate
  <2>2. /\ v1' \in [Events -> E!Row] /\ v2' \subseteq Events \X Users
        /\ v6' \in [Events \X Users -> 0..2]
    BY <1>1, PassShapes, CallShapes, RowsOfEvents, ServicesAssumption DEF E!TypeOK, E!Row,
       E!Status, E!Begin, E!Reads, E!ToActivate
  <2>3. v5' \in [Calls -> {E!Idle} \cup [pc : {"terminate", "extend", "pause"}, event : Events,
     row : E!Row]]
    BY <1>1, PassShapes, CallShapes, RowsOfEvents, ServicesAssumption DEF E!TypeOK, E!Begin,
       E!Reads, E!ToActivate
  <2>4. v3' \in 0..LastTime /\ v7' \subseteq Events /\ v8' \subseteq Events /\ v9' \subseteq Events
    BY <1>1, PassShapes, CallShapes, RowsOfEvents, ServicesAssumption DEF E!TypeOK, E!Begin,
       E!Reads, E!ToActivate
  <2>5. QED
    BY <2>1, <2>2, <2>3, <2>4 DEF E!TypeOK
<1>2. ASSUME NEW p \in Passes, E!ActivateEvent(p)
      PROVE  E!TypeOK'
  <2>1. PICK d \in Events :
           /\ v1' \in [Events -> E!Row] /\ v4' \in [Passes -> E!Pass]
           /\ UNCHANGED <<v2, v3, v5, v6, v7, v8, v9>>
    BY <1>2, ActivateEventDoes
  <2>2. QED
    BY <2>1 DEF E!TypeOK
<1>3. ASSUME NEW p \in Passes, E!FindExpired(p)
      PROVE  E!TypeOK'
  <2>1. PICK es \in SUBSET Events :
           /\ v4' \in [Passes -> E!Pass]
           /\ v7' = v7 \cup {e \in es : E!Held(e)}
           /\ UNCHANGED <<v1, v2, v3, v5, v6, v8, v9>>
    BY <1>3, FindExpiredDoes
  <2>2. QED
    BY <2>1 DEF E!TypeOK
<1>4. ASSUME NEW p \in Passes, E!CompleteEvent(p)
      PROVE  E!TypeOK'
  <2>1. PICK d \in Events :
           /\ v1' \in [Events -> E!Row] /\ v4' \in [Passes -> E!Pass]
           /\ UNCHANGED <<v2, v3, v5, v6, v7, v8, v9>>
    BY <1>4, CompleteEventDoes
  <2>2. QED
    BY <2>1 DEF E!TypeOK
<1>5. ASSUME NEW p \in Passes, E!End(p)
      PROVE  E!TypeOK'
  <2>1. v4' \in [Passes -> E!Pass]
    <3>1. v4'[p] \in E!Pass
      BY <1>5, PassShapes, CallShapes, RowsOfEvents, ServicesAssumption DEF E!TypeOK, E!Pass,
         E!Idle, E!End
    <3>2. QED
      BY <1>5, <3>1 DEF E!TypeOK, E!End
  <2>2. /\ v1' \in [Events -> E!Row] /\ v2' \subseteq Events \X Users
        /\ v6' \in [Events \X Users -> 0..2]
    BY <1>5, PassShapes, CallShapes, RowsOfEvents, ServicesAssumption DEF E!TypeOK, E!Row,
       E!Status, E!End
  <2>3. v5' \in [Calls -> {E!Idle} \cup [pc : {"terminate", "extend", "pause"}, event : Events,
     row : E!Row]]
    BY <1>5, PassShapes, CallShapes, RowsOfEvents, ServicesAssumption DEF E!TypeOK, E!End
  <2>4. v3' \in 0..LastTime /\ v7' \subseteq Events /\ v8' \subseteq Events /\ v9' \subseteq Events
    BY <1>5, PassShapes, CallShapes, RowsOfEvents, ServicesAssumption DEF E!TypeOK, E!End
  <2>5. QED
    BY <2>1, <2>2, <2>3, <2>4 DEF E!TypeOK
<1>6. ASSUME NEW p \in Passes, E!FindParticipants(p)
      PROVE  E!TypeOK'
  <2>1. v4' \in [Passes -> E!Pass]
    <3>1. v4'[p] \in E!Pass
      BY <1>6, PassShapes, CallShapes, RowsOfEvents, ServicesAssumption DEF E!TypeOK, E!Pass,
         E!Idle, E!FindParticipants, E!GoOn
    <3>2. QED
      BY <1>6, <3>1 DEF E!TypeOK, E!FindParticipants, E!GoOn
  <2>2. /\ v1' \in [Events -> E!Row] /\ v2' \subseteq Events \X Users
        /\ v6' \in [Events \X Users -> 0..2]
    BY <1>6, PassShapes, CallShapes, RowsOfEvents, ServicesAssumption DEF E!TypeOK, E!Row,
       E!Status, E!FindParticipants, E!GoOn
  <2>3. v5' \in [Calls -> {E!Idle} \cup [pc : {"terminate", "extend", "pause"}, event : Events,
     row : E!Row]]
    BY <1>6, PassShapes, CallShapes, RowsOfEvents, ServicesAssumption DEF E!TypeOK,
       E!FindParticipants, E!GoOn
  <2>4. v3' \in 0..LastTime /\ v7' \subseteq Events /\ v8' \subseteq Events /\ v9' \subseteq Events
    BY <1>6, PassShapes, CallShapes, RowsOfEvents, ServicesAssumption DEF E!TypeOK,
       E!FindParticipants, E!GoOn
  <2>5. QED
    BY <2>1, <2>2, <2>3, <2>4 DEF E!TypeOK
<1>7. ASSUME NEW p \in Passes, E!Reward(p)
      PROVE  E!TypeOK'
  <2>1. v4' \in [Passes -> E!Pass]
    <3>1. v4'[p] \in E!Pass
      BY <1>7, PassShapes, CallShapes, RowsOfEvents, ServicesAssumption DEF E!TypeOK, E!Pass,
         E!Idle, E!Reward, E!GoOn
    <3>2. QED
      BY <1>7, <3>1 DEF E!TypeOK, E!Reward, E!GoOn
  <2>6. v6' \in [Events \X Users -> 0..2]
    <3>1. ASSUME NEW u \in Users, v6[<<v4[p].event, u>>] < 2,
                 v6' = [v6 EXCEPT ![<<v4[p].event, u>>] = @ + 1]
          PROVE  v6' \in [Events \X Users -> 0..2]
      <4>1. <<v4[p].event, u>> \in Events \X Users
        BY <1>7, PassShapes DEF E!Reward
      <4>2. v6[<<v4[p].event, u>>] \in 0..2
        BY <4>1 DEF E!TypeOK
      <4>3. QED
        BY <3>1, <4>1, <4>2 DEF E!TypeOK
    <3>2. v4[p].users \subseteq Users
      BY <1>7, PassShapes DEF E!Reward
    <3>3. QED
      BY <1>7, <3>1, <3>2 DEF E!Reward, E!TypeOK
  <2>2. /\ v1' \in [Events -> E!Row] /\ v2' \subseteq Events \X Users
        /\ v6' \in [Events \X Users -> 0..2]
    BY <1>7, <2>6 DEF E!TypeOK, E!Reward
  <2>3. v5' \in [Calls -> {E!Idle} \cup [pc : {"terminate", "extend", "pause"}, event : Events,
     row : E!Row]]
    BY <1>7, PassShapes, CallShapes, RowsOfEvents, ServicesAssumption DEF E!TypeOK, E!Reward, E!GoOn
  <2>4. v3' \in 0..LastTime /\ v7' \subseteq Events /\ v8' \subseteq Events /\ v9' \subseteq Events
    BY <1>7, PassShapes, CallShapes, RowsOfEvents, ServicesAssumption DEF E!TypeOK, E!Reward, E!GoOn
  <2>5. QED
    BY <2>1, <2>2, <2>3, <2>4 DEF E!TypeOK
<1>8. ASSUME NEW p \in Passes, E!Mark(p)
      PROVE  E!TypeOK'
  <2>1. v4' \in [Passes -> E!Pass]
    <3>1. v4'[p] \in E!Pass
      BY <1>8, PassShapes, CallShapes, RowsOfEvents, ServicesAssumption DEF E!TypeOK, E!Pass,
         E!Idle, E!Mark, E!GoOn
    <3>2. QED
      BY <1>8, <3>1 DEF E!TypeOK, E!Mark, E!GoOn
  <2>2. /\ v1' \in [Events -> E!Row] /\ v2' \subseteq Events \X Users
        /\ v6' \in [Events \X Users -> 0..2]
    BY <1>8, PassShapes, CallShapes, RowsOfEvents, ServicesAssumption DEF E!TypeOK, E!Row,
       E!Status, E!Mark, E!GoOn
  <2>3. v5' \in [Calls -> {E!Idle} \cup [pc : {"terminate", "extend", "pause"}, event : Events,
     row : E!Row]]
    BY <1>8, PassShapes, CallShapes, RowsOfEvents, ServicesAssumption DEF E!TypeOK, E!Mark, E!GoOn
  <2>4. v3' \in 0..LastTime /\ v7' \subseteq Events /\ v8' \subseteq Events /\ v9' \subseteq Events
    BY <1>8, PassShapes, CallShapes, RowsOfEvents, ServicesAssumption DEF E!TypeOK, E!Mark, E!GoOn
  <2>5. QED
    BY <2>1, <2>2, <2>3, <2>4 DEF E!TypeOK
<1>9. ASSUME NEW p \in Passes, E!Break(p)
      PROVE  E!TypeOK'
  <2>1. v4' \in [Passes -> E!Pass]
    <3>1. v4'[p] \in E!Pass
      BY <1>9, PassShapes, CallShapes, RowsOfEvents, ServicesAssumption DEF E!TypeOK, E!Pass,
         E!Idle, E!Break
    <3>2. QED
      BY <1>9, <3>1 DEF E!TypeOK, E!Break
  <2>2. /\ v1' \in [Events -> E!Row] /\ v2' \subseteq Events \X Users
        /\ v6' \in [Events \X Users -> 0..2]
    BY <1>9, PassShapes, CallShapes, RowsOfEvents, ServicesAssumption DEF E!TypeOK, E!Row,
       E!Status, E!Break
  <2>3. v5' \in [Calls -> {E!Idle} \cup [pc : {"terminate", "extend", "pause"}, event : Events,
     row : E!Row]]
    BY <1>9, PassShapes, CallShapes, RowsOfEvents, ServicesAssumption DEF E!TypeOK, E!Break
  <2>4. v3' \in 0..LastTime /\ v7' \subseteq Events /\ v8' \subseteq Events /\ v9' \subseteq Events
    BY <1>9, PassShapes, CallShapes, RowsOfEvents, ServicesAssumption DEF E!TypeOK, E!Break
  <2>5. QED
    BY <2>1, <2>2, <2>3, <2>4 DEF E!TypeOK
<1>10. ASSUME NEW c \in Calls, NEW op \in {"terminate", "extend", "pause"}, NEW d \in Events,
   E!Read(c, op, d)
      PROVE  E!TypeOK'
  BY <1>10, RowsOfEvents DEF E!TypeOK, E!Read, E!Reads
<1>11. ASSUME NEW c \in Calls, E!Save(c)
      PROVE  E!TypeOK'
  <2>1. v9' \subseteq Events /\ v1' \in [Events -> E!Row]
    BY <1>11, SaveDoes DEF E!TypeOK
  <2>2. v5' \in [Calls -> {E!Idle} \cup [pc : {"terminate", "extend", "pause"}, event : Events,
     row : E!Row]]
    BY <1>11, SaveDoes DEF E!TypeOK
  <2>3. UNCHANGED <<v2, v3, v4, v6, v7, v8>>
    BY <1>11, SaveDoes
  <2>4. QED
    BY <2>1, <2>2, <2>3 DEF E!TypeOK
<1>12. CASE E!Restart
  <2>1. v4' \in [Passes -> E!Pass]
    BY <1>12, PassShapes, CallShapes, RowsOfEvents, ServicesAssumption DEF E!TypeOK, E!Pass,
       E!Restart
  <2>2. /\ v1' \in [Events -> E!Row] /\ v2' \subseteq Events \X Users
        /\ v6' \in [Events \X Users -> 0..2]
    BY <1>12, PassShapes, CallShapes, RowsOfEvents, ServicesAssumption DEF E!TypeOK, E!Row,
       E!Status, E!Restart
  <2>3. v5' \in [Calls -> {E!Idle} \cup [pc : {"terminate", "extend", "pause"}, event : Events,
     row : E!Row]]
    BY <1>12, PassShapes, CallShapes, RowsOfEvents, ServicesAssumption DEF E!TypeOK, E!Restart
  <2>4. v3' \in 0..LastTime /\ v7' \subseteq Events /\ v8' \subseteq Events /\ v9' \subseteq Events
    BY <1>12, PassShapes, CallShapes, RowsOfEvents, ServicesAssumption DEF E!TypeOK, E!Restart
  <2>5. QED
    BY <2>1, <2>2, <2>3, <2>4 DEF E!TypeOK
<1>13. CASE E!Tick
  BY <1>13, ServicesAssumption DEF E!TypeOK, E!Tick
<1>14. CASE UNCHANGED E!vars
  BY <1>14 DEF E!TypeOK, E!vars
<1>15. QED
  BY <1>1, <1>2, <1>3, <1>4, <1>5, <1>6, <1>7, <1>8, <1>9, <1>10, <1>11, <1>12, <1>13,
     <1>14 DEF E!Next

(* Going on with the participants us leaves the rest of the pass as it is. *)
LEMMA GoOnIs ==
    ASSUME E!TypeOK, NEW p \in Passes, NEW us, E!GoOn(p, us)
    PROVE  /\ v4'[p].left = v4[p].left
           /\ \A q \in Passes \ {p} : v4'[q] = v4[q]
           /\ \/ us = {} /\ v4'[p].pc = "complete"
              \/ us # {} /\ v4'[p].pc = "reward" /\ v4'[p].event = v4[p].event /\ v4'[p].users = us
<1>1. v4 \in [Passes -> E!Pass]
  BY DEF E!TypeOK
<1>2. \A q \in Passes \ {p} : v4'[q] = v4[q]
  BY <1>1 DEF E!GoOn
<1>3. CASE us = {}
  <2>1. v4'[p] = [pc |-> "complete", at |-> v4[p].at, left |-> v4[p].left]
    BY <1>1, <1>3 DEF E!GoOn
  <2>2. QED
    BY <1>2, <1>3, <2>1
<1>4. CASE us # {}
  <2>1. v4'[p] = [pc |-> "reward", at |-> v4[p].at, left |-> v4[p].left,
                  event |-> v4[p].event, users |-> us]
    BY <1>1, <1>4 DEF E!GoOn
  <2>2. QED
    BY <1>2, <1>4, <2>1
<1>5. QED
  BY <1>3, <1>4

(* A pass at work on the end of event d goes on with it or is done with    *)
(* it: it holds no event it did not hold, and no row is written. *)
LEMMA PassGoesOn ==
    ASSUME E!TypeOK, NEW p \in Passes, v4[p].pc \in {"parts", "reward", "mark"},
           NEW e \in Events, E!OneHolder(e), E!CopiesAreTrue(e), UNCHANGED <<v1, v5>>,
           v4'[p].left = v4[p].left,
           \A q \in Passes \ {p} : v4'[q] = v4[q],
           v4'[p].pc = "complete" \/ (v4'[p].pc = "reward" /\ v4'[p].event = v4[p].event)
    PROVE  /\ E!OneHolder(e)' /\ E!CopiesAreTrue(e)'
           /\ \A q \in Passes : E!Working(q, e)' => E!Working(q, e)
           /\ \A q \in Passes : E!Working(q, e) => q = p \/ E!Working(q, e)'
           /\ E!Working(p, e) => \A q \in Passes : E!Working(q, e) => q = p
<1>1. /\ \A q \in Passes : E!HeldByPass(q)' \subseteq E!HeldByPass(q)
      /\ \A c \in Calls : E!HeldByCall(c, e)' <=> E!HeldByCall(c, e)
      /\ \A q \in Passes : E!Working(q, e)' => E!Working(q, e)
      /\ \A q \in Passes : E!Working(q, e) => q = p \/ E!Working(q, e)'
  <2>1. E!HeldByPass(p)' \subseteq E!HeldByPass(p)
    BY DEF E!HeldByPass
  <2>2. \A q \in Passes \ {p} : E!HeldByPass(q)' = E!HeldByPass(q)
    BY DEF E!HeldByPass
  <2>3. \A c \in Calls : E!HeldByCall(c, e)' <=> E!HeldByCall(c, e)
    BY DEF E!HeldByCall
  <2>4. \A q \in Passes \ {p} : E!Working(q, e)' <=> E!Working(q, e)
    BY DEF E!Working
  <2>5. E!Working(p, e)' => E!Working(p, e)
    BY DEF E!Working
  <2>6. QED
    BY <2>1, <2>2, <2>3, <2>4, <2>5
<1>2. E!OneHolder(e)'
  BY <1>1 DEF E!OneHolder
<1>3. E!CopiesAreTrue(e)'
  <2>1. \A q \in Passes : v4'[q].pc # "idle" /\ e \in DOMAIN v4'[q].left =>
             /\ v4'[q].left[e] = v1[e]
             /\ v1[e].status = IF v4'[q].pc = "activate" THEN "scheduled" ELSE "active"
    BY DEF E!CopiesAreTrue
  <2>2. QED
    BY <1>1, <2>1 DEF E!CopiesAreTrue
<1>4. ASSUME E!Working(p, e) PROVE \A q \in Passes : E!Working(q, e) => q = p
  <2>1. \A q \in Passes : E!Working(q, e) => e \in E!HeldByPass(q)
    BY DEF E!Working, E!HeldByPass
  <2>2. QED
    BY <1>4, <2>1 DEF E!OneHolder
<1>5. QED
  BY <1>1, <1>2, <1>3, <1>4

LEMMA StepEvents ==
    E!TypeOK /\ E!EventInv /\ [E!Next]_(E!vars) => E!EventInv'
<1> SUFFICES ASSUME E!TypeOK, E!EventInv, [E!Next]_(E!vars)
             PROVE  E!EventInv'
  OBVIOUS
<1>1. ASSUME NEW p \in Passes, E!Begin(p)
      PROVE  E!EventInv'
  <2> SUFFICES ASSUME NEW e \in Events \ v7'
               PROVE  /\ E!OneHolder(e)' /\ E!CopiesAreTrue(e)'
                      /\ \A u \in Users : E!ShareIsTrue(e, u)'
                      /\ e \in v9' => v1'[e].status = "cancelled"
    BY DEF E!EventInv
  <2>1. PICK es \in SUBSET Events :
           /\ v4[p].pc = "idle"
           /\ \A x \in es : v1[x].status = "scheduled"
           /\ v4'[p].pc = "activate" /\ DOMAIN v4'[p].left = es
           /\ \A x \in es : v4'[p].left[x] = v1[x]
           /\ \A q \in Passes \ {p} : v4'[q] = v4[q]
           /\ v7' = v7 \cup {x \in es : E!Held(x)}
           /\ UNCHANGED <<v1, v2, v3, v5, v6, v8, v9>>
    <3> DEFINE ts == E!ToActivate
    <3>1. ts \in SUBSET Events /\ \A x \in ts : v1[x].status = "scheduled"
      BY DEF E!ToActivate
    <3>2. /\ v4[p] = E!Idle
          /\ v4' = [v4 EXCEPT ![p] = [pc |-> "activate", at |-> v3, left |-> E!Found(ts)]]
          /\ v7' = v7 \cup {x \in ts : E!Held(x)}
          /\ UNCHANGED <<v1, v2, v3, v5, v6, v8, v9>>
      BY <1>1 DEF E!Begin, E!Reads
    <3> HIDE DEF ts
    <3>3. DOMAIN E!Found(ts) = ts /\ \A x \in ts : E!Found(ts)[x] = v1[x]
      BY <3>1, RowsOfEvents
    <3>4. /\ v4'[p] = [pc |-> "activate", at |-> v3, left |-> E!Found(ts)]
          /\ \A q \in Passes \ {p} : v4'[q] = v4[q]
      BY <3>2 DEF E!TypeOK
    <3>5. v4[p].pc = "idle"
      BY <3>2 DEF E!Idle
    <3> ts \in SUBSET Events
      BY <3>1
    <3>6. WITNESS ts \in SUBSET Events
    <3>7. QED
      BY <3>1, <3>2, <3>3, <3>4, <3>5
  <2>2. /\ e \in Events \ v7 /\ E!OneHolder(e) /\ E!CopiesAreTrue(e)
        /\ \A u \in Users : E!ShareIsTrue(e, u)
        /\ e \in v9 => v1[e].status = "cancelled"
    BY <2>1 DEF E!EventInv
  <2>3. /\ ~E!Held(e) \/ e \notin es
        /\ \A q \in Passes \ {p} : E!HeldByPass(q)' = E!HeldByPass(q)
        /\ E!HeldByPass(p) = {} /\ E!HeldByPass(p)' = es
        /\ \A c \in Calls : E!HeldByCall(c, e)' <=> E!HeldByCall(c, e)
    BY <2>1 DEF E!HeldByPass, E!HeldByCall
  <2>4. \A q \in Passes : (E!Working(q, e)' <=> E!Working(q, e)) /\ ~E!Working(p, e)
    BY <2>1 DEF E!Working
  <2>5. E!OneHolder(e)'
    <3>1. \A c \in Calls : E!HeldByCall(c, e) => E!Held(e)
      BY CallShapes DEF E!HeldByCall, E!Held
    <3>2. \A q \in Passes : e \in E!HeldByPass(q) => E!Held(e)
      BY DEF E!Held
    <3>3. QED
      BY <2>2, <2>3, <3>1, <3>2 DEF E!OneHolder
  <2>6. E!CopiesAreTrue(e)'
    <3>1. \A q \in Passes : v4'[q].pc # "idle" /\ e \in DOMAIN v4'[q].left =>
             /\ v4'[q].left[e] = v1[e]
             /\ v1[e].status = IF v4'[q].pc = "activate" THEN "scheduled" ELSE "active"
      BY <2>1, <2>2 DEF E!CopiesAreTrue
    <3>2. QED
      BY <2>1, <2>2, <2>3, <2>4, <3>1 DEF E!CopiesAreTrue
  <2>7. ASSUME NEW u \in Users PROVE E!ShareIsTrue(e, u)'
    <3>1. \A q \in Passes : E!Working(q, e)' => v4'[q] = v4[q]
      BY <2>1, <2>4 DEF E!Working
    <3>2. QED
      BY <2>1, <2>2, <2>4, <3>1 DEF E!ShareIsTrue, E!Ended
  <2>8. QED
    BY <2>1, <2>2, <2>5, <2>6, <2>7
<1>2. ASSUME NEW p \in Passes, E!ActivateEvent(p)
      PROVE  E!EventInv'
  <2> SUFFICES ASSUME NEW e \in Events \ v7'
               PROVE  /\ E!OneHolder(e)' /\ E!CopiesAreTrue(e)'
                      /\ \A u \in Users : E!ShareIsTrue(e, u)'
                      /\ e \in v9' => v1'[e].status = "cancelled"
    BY DEF E!EventInv
  <2>1. PICK d \in Events :
           /\ v4[p].pc = "activate" /\ d \in DOMAIN v4[p].left
           /\ v1'[d].status = "active"
           /\ \A x \in Events \ {d} : v1'[x] = v1[x]
           /\ v4'[p].pc = "activate"
           /\ DOMAIN v4'[p].left = DOMAIN v4[p].left \ {d}
           /\ \A x \in DOMAIN v4[p].left \ {d} : v4'[p].left[x] = v4[p].left[x]
           /\ \A q \in Passes \ {p} : v4'[q] = v4[q]
           /\ UNCHANGED <<v2, v3, v5, v6, v7, v8, v9>>
    BY <1>2, ActivateEventDoes
  <2>2. /\ e \in Events \ v7 /\ E!OneHolder(e) /\ E!CopiesAreTrue(e)
        /\ \A u \in Users : E!ShareIsTrue(e, u)
        /\ e \in v9 => v1[e].status = "cancelled"
    BY <2>1 DEF E!EventInv
  <2>3. /\ d \in E!HeldByPass(p)
        /\ \A q \in Passes \ {p} : E!HeldByPass(q)' = E!HeldByPass(q)
        /\ E!HeldByPass(p)' = E!HeldByPass(p) \ {d}
        /\ \A c \in Calls : E!HeldByCall(c, e)' <=> E!HeldByCall(c, e)
    BY <2>1 DEF E!HeldByPass, E!HeldByCall
  <2>4. \A q \in Passes : E!Working(q, e)' <=> E!Working(q, e)
    BY <2>1 DEF E!Working
  <2>5. E!OneHolder(e)'
    BY <2>2, <2>3 DEF E!OneHolder
  <2>6. CASE e = d
    <3>1. /\ \A q \in Passes \ {p} : e \notin E!HeldByPass(q) /\ ~E!Working(q, e)
          /\ \A c \in Calls : ~E!HeldByCall(c, e)
          /\ ~E!Working(p, e)
      BY <2>1, <2>2, <2>3, <2>6 DEF E!OneHolder, E!Working, E!HeldByPass
    <3>2. v1[e].status = "scheduled" /\ e \notin v9
      BY <2>1, <2>2, <2>6 DEF E!CopiesAreTrue
    <3>3. E!CopiesAreTrue(e)'
      <4>1. \A q \in Passes : v4'[q].pc # "idle" => e \notin DOMAIN v4'[q].left
        BY <2>1, <2>6, <3>1 DEF E!HeldByPass
      <4>2. QED
        BY <2>1, <2>3, <2>4, <2>6, <3>1, <4>1 DEF E!CopiesAreTrue
    <3>4. ASSUME NEW u \in Users PROVE E!ShareIsTrue(e, u)'
      <4>1. <<e, u>> \in v2 /\ v6[<<e, u>>] = 0
        BY <2>2, <3>2 DEF E!ShareIsTrue, E!Ended
      <4>2. QED
        BY <2>1, <2>4, <2>6, <3>1, <4>1 DEF E!ShareIsTrue, E!Ended
    <3>5. QED
      BY <2>1, <2>5, <3>2, <3>3, <3>4
  <2>7. CASE e # d
    <3>1. v1'[e] = v1[e]
      BY <2>1, <2>7
    <3>2. E!CopiesAreTrue(e)'
      <4>1. \A q \in Passes : v4'[q].pc # "idle" /\ e \in DOMAIN v4'[q].left =>
               /\ v4'[q].left[e] = v1[e]
               /\ v1[e].status = IF v4'[q].pc = "activate" THEN "scheduled" ELSE "active"
        BY <2>1, <2>2, <2>7 DEF E!CopiesAreTrue
      <4>2. \A q \in Passes : E!Working(q, e)' => v1[e].status = "completed"
        BY <2>2, <2>4, <2>7 DEF E!CopiesAreTrue
      <4>3. \A c \in Calls : E!HeldByCall(c, e)' =>
               /\ v5'[c].row = v1[e]
               /\ v5'[c].pc = "pause" => v1[e].status \in {"scheduled", "active"}
        BY <2>1, <2>2, <2>3 DEF E!CopiesAreTrue
      <4>4. QED
        BY <3>1, <4>1, <4>2, <4>3 DEF E!CopiesAreTrue
    <3>3. ASSUME NEW u \in Users PROVE E!ShareIsTrue(e, u)'
      <4>1. \A q \in Passes : E!Working(q, e)' => v4'[q] = v4[q]
        BY <2>1, <2>4, <2>7 DEF E!Working
      <4>2. QED
        BY <2>1, <2>2, <2>4, <2>7, <3>1, <4>1 DEF E!ShareIsTrue, E!Ended
    <3>4. QED
      BY <2>1, <2>2, <2>5, <3>1, <3>2, <3>3
  <2>8. QED
    BY <2>6, <2>7
<1>3. ASSUME NEW p \in Passes, E!FindExpired(p)
      PROVE  E!EventInv'
  <2> SUFFICES ASSUME NEW e \in Events \ v7'
               PROVE  /\ E!OneHolder(e)' /\ E!CopiesAreTrue(e)'
                      /\ \A u \in Users : E!ShareIsTrue(e, u)'
                      /\ e \in v9' => v1'[e].status = "cancelled"
    BY DEF E!EventInv
  <2>1. PICK es \in SUBSET Events :
           /\ v4[p].pc = "activate" /\ DOMAIN v4[p].left = {}
           /\ \A x \in es : v1[x].status = "active"
           /\ v4'[p].pc = "complete" /\ DOMAIN v4'[p].left = es
           /\ \A x \in es : v4'[p].left[x] = v1[x]
           /\ \A q \in Passes \ {p} : v4'[q] = v4[q]
           /\ v7' = v7 \cup {x \in es : E!Held(x)}
           /\ UNCHANGED <<v1, v2, v3, v5, v6, v8, v9>>
    BY <1>3, FindExpiredDoes
  <2>2. /\ e \in Events \ v7 /\ E!OneHolder(e) /\ E!CopiesAreTrue(e)
        /\ \A u \in Users : E!ShareIsTrue(e, u)
        /\ e \in v9 => v1[e].status = "cancelled"
    BY <2>1 DEF E!EventInv
  <2>3. /\ ~E!Held(e) \/ e \notin es
        /\ \A q \in Passes \ {p} : E!HeldByPass(q)' = E!HeldByPass(q)
        /\ E!HeldByPass(p) = {} /\ E!HeldByPass(p)' = es
        /\ \A c \in Calls : E!HeldByCall(c, e)' <=> E!HeldByCall(c, e)
    BY <2>1 DEF E!HeldByPass, E!HeldByCall
  <2>4. \A q \in Passes : (E!Working(q, e)' <=> E!Working(q, e)) /\ ~E!Working(p, e)
    BY <2>1 DEF E!Working
  <2>5. E!OneHolder(e)'
    <3>1. \A c \in Calls : E!HeldByCall(c, e) => E!Held(e)
      BY CallShapes DEF E!HeldByCall, E!Held
    <3>2. \A q \in Passes : e \in E!HeldByPass(q) => E!Held(e)
      BY DEF E!Held
    <3>3. QED
      BY <2>2, <2>3, <3>1, <3>2 DEF E!OneHolder
  <2>6. E!CopiesAreTrue(e)'
    <3>1. \A q \in Passes : v4'[q].pc # "idle" /\ e \in DOMAIN v4'[q].left =>
             /\ v4'[q].left[e] = v1[e]
             /\ v1[e].status = IF v4'[q].pc = "activate" THEN "scheduled" ELSE "active"
      BY <2>1, <2>2 DEF E!CopiesAreTrue
    <3>2. QED
      BY <2>1, <2>2, <2>3, <2>4, <3>1 DEF E!CopiesAreTrue
  <2>7. ASSUME NEW u \in Users PROVE E!ShareIsTrue(e, u)'
    <3>1. \A q \in Passes : E!Working(q, e)' => v4'[q] = v4[q]
      BY <2>1, <2>4 DEF E!Working
    <3>2. QED
      BY <2>1, <2>2, <2>4, <3>1 DEF E!ShareIsTrue, E!Ended
  <2>8. QED
    BY <2>1, <2>2, <2>5, <2>6, <2>7
<1>4. ASSUME NEW p \in Passes, E!CompleteEvent(p)
      PROVE  E!EventInv'
  <2> SUFFICES ASSUME NEW e \in Events \ v7'
               PROVE  /\ E!OneHolder(e)' /\ E!CopiesAreTrue(e)'
                      /\ \A u \in Users : E!ShareIsTrue(e, u)'
                      /\ e \in v9' => v1'[e].status = "cancelled"
    BY DEF E!EventInv
  <2>1. PICK d \in Events :
           /\ v4[p].pc = "complete" /\ d \in DOMAIN v4[p].left
           /\ v1'[d].status = "completed"
           /\ \A x \in Events \ {d} : v1'[x] = v1[x]
           /\ v4'[p].pc = "parts" /\ v4'[p].event = d
           /\ DOMAIN v4'[p].left = DOMAIN v4[p].left \ {d}
           /\ \A x \in DOMAIN v4[p].left \ {d} : v4'[p].left[x] = v4[p].left[x]
           /\ \A q \in Passes \ {p} : v4'[q] = v4[q]
           /\ UNCHANGED <<v2, v3, v5, v6, v7, v8, v9>>
    BY <1>4, CompleteEventDoes
  <2>2. /\ e \in Events \ v7 /\ E!OneHolder(e) /\ E!CopiesAreTrue(e)
        /\ \A u \in Users : E!ShareIsTrue(e, u)
        /\ e \in v9 => v1[e].status = "cancelled"
    BY <2>1 DEF E!EventInv
  <2>3. /\ d \in E!HeldByPass(p)
        /\ \A q \in Passes \ {p} : E!HeldByPass(q)' = E!HeldByPass(q)
        /\ E!HeldByPass(p)' = E!HeldByPass(p)
        /\ \A c \in Calls : E!HeldByCall(c, e)' <=> E!HeldByCall(c, e)
    BY <2>1 DEF E!HeldByPass, E!HeldByCall
  <2>4. \A q \in Passes : E!Working(q, e)' <=> E!Working(q, e) \/ (q = p /\ e = d)
    BY <2>1 DEF E!Working
  <2>5. E!OneHolder(e)'
    BY <2>2, <2>3 DEF E!OneHolder
  <2>6. CASE e = d
    <3>1. /\ \A q \in Passes \ {p} : e \notin E!HeldByPass(q) /\ ~E!Working(q, e)
          /\ \A c \in Calls : ~E!HeldByCall(c, e)
          /\ ~E!Working(p, e)
      BY <2>1, <2>2, <2>3, <2>6 DEF E!OneHolder, E!Working, E!HeldByPass
    <3>2. v1[e].status = "active" /\ e \notin v9
      BY <2>1, <2>2, <2>6 DEF E!CopiesAreTrue
    <3>3. E!CopiesAreTrue(e)'
      <4>1. \A q \in Passes : v4'[q].pc # "idle" => e \notin DOMAIN v4'[q].left
        BY <2>1, <2>6, <3>1 DEF E!HeldByPass
      <4>2. QED
        BY <2>1, <2>3, <2>4, <2>6, <3>1, <4>1 DEF E!CopiesAreTrue
    <3>4. ASSUME NEW u \in Users PROVE E!ShareIsTrue(e, u)'
      <4>1. <<e, u>> \in v2 /\ v6[<<e, u>>] = 0
        BY <2>2, <3>2 DEF E!ShareIsTrue, E!Ended
      <4>2. \A q \in Passes : E!Working(q, e)' => q = p
        BY <2>4, <3>1
      <4>3. QED
        BY <2>1, <2>4, <2>6, <4>1, <4>2 DEF E!ShareIsTrue, E!Ended
    <3>5. QED
      BY <2>1, <2>5, <3>2, <3>3, <3>4
  <2>7. CASE e # d
    <3>1. v1'[e] = v1[e]
      BY <2>1, <2>7
    <3>2. E!CopiesAreTrue(e)'
      <4>1. \A q \in Passes : v4'[q].pc # "idle" /\ e \in DOMAIN v4'[q].left =>
               /\ v4'[q].left[e] = v1[e]
               /\ v1[e].status = IF v4'[q].pc = "activate" THEN "scheduled" ELSE "active"
        BY <2>1, <2>2, <2>7 DEF E!CopiesAreTrue
      <4>2. \A q \in Passes : E!Working(q, e)' => v1[e].status = "completed"
        BY <2>2, <2>4, <2>7 DEF E!CopiesAreTrue
      <4>3. \A c \in Calls : E!HeldByCall(c, e)' =>
               /\ v5'[c].row = v1[e]
               /\ v5'[c].pc = "pause" => v1[e].status \in {"scheduled", "active"}
        BY <2>1, <2>2, <2>3 DEF E!CopiesAreTrue
      <4>4. QED
        BY <3>1, <4>1, <4>2, <4>3 DEF E!CopiesAreTrue
    <3>3. ASSUME NEW u \in Users PROVE E!ShareIsTrue(e, u)'
      <4>1. \A q \in Passes : E!Working(q, e)' => v4'[q] = v4[q]
        BY <2>1, <2>4, <2>7 DEF E!Working
      <4>2. QED
        BY <2>1, <2>2, <2>4, <2>7, <3>1, <4>1 DEF E!ShareIsTrue, E!Ended
    <3>4. QED
      BY <2>1, <2>2, <2>5, <3>1, <3>2, <3>3
  <2>8. QED
    BY <2>6, <2>7
<1>5. ASSUME NEW p \in Passes, E!End(p)
      PROVE  E!EventInv'
  <2> SUFFICES ASSUME NEW e \in Events \ v7'
               PROVE  /\ E!OneHolder(e)' /\ E!CopiesAreTrue(e)'
                      /\ \A u \in Users : E!ShareIsTrue(e, u)'
                      /\ e \in v9' => v1'[e].status = "cancelled"
    BY DEF E!EventInv
  <2>1. /\ e \in Events \ v7 /\ E!OneHolder(e) /\ E!CopiesAreTrue(e)
        /\ \A u \in Users : E!ShareIsTrue(e, u)
        /\ e \in v9 => v1[e].status = "cancelled"
    BY <1>5 DEF E!EventInv, E!End
  <2>2. E!OneHolder(e)'
    BY <1>5, <2>1, PassShapes, CallShapes, RowsOfEvents, ServicesAssumption, SMTT(40) DEF E!TypeOK, E!Idle,
       E!OneHolder, E!HeldByPass, E!HeldByCall, E!Held, E!End
  <2>3. E!CopiesAreTrue(e)'
    BY <1>5, <2>1, PassShapes, CallShapes, RowsOfEvents, ServicesAssumption, SMTT(40) DEF E!TypeOK, E!Idle,
       E!OneHolder, E!CopiesAreTrue, E!Working, E!HeldByPass, E!HeldByCall, E!Held, E!End
  <2>4. \A u \in Users : E!ShareIsTrue(e, u)'
    BY <1>5, <2>1, PassShapes, CallShapes, RowsOfEvents, ServicesAssumption, SMTT(40) DEF E!TypeOK, E!Idle,
       E!OneHolder, E!CopiesAreTrue, E!Working, E!HeldByPass, E!HeldByCall, E!Held, E!ShareIsTrue,
       E!Ended, E!End
  <2>5. e \in v9' => v1'[e].status = "cancelled"
    BY <1>5, <2>1, PassShapes, CallShapes, RowsOfEvents, ServicesAssumption, SMTT(40) DEF E!TypeOK, E!Idle,
       E!CopiesAreTrue, E!HeldByPass, E!HeldByCall, E!Held, E!End
  <2>6. QED
    BY <2>2, <2>3, <2>4, <2>5
<1>6. ASSUME NEW p \in Passes, E!FindParticipants(p)
      PROVE  E!EventInv'
  <2> SUFFICES ASSUME NEW e \in Events \ v7'
               PROVE  /\ E!OneHolder(e)' /\ E!CopiesAreTrue(e)'
                      /\ \A u \in Users : E!ShareIsTrue(e, u)'
                      /\ e \in v9' => v1'[e].status = "cancelled"
    BY DEF E!EventInv
  <2>1. PICK us : us = {u \in Users : <<v4[p].event, u>> \in v2}
    OBVIOUS
  <2>2. v4[p].pc = "parts" /\ E!GoOn(p, us) /\ UNCHANGED <<v1, v2, v3, v5, v6, v7, v8, v9>>
    BY <1>6, <2>1 DEF E!FindParticipants
  <2>3. /\ e \in Events \ v7 /\ E!OneHolder(e) /\ E!CopiesAreTrue(e)
        /\ \A u \in Users : E!ShareIsTrue(e, u)
        /\ e \in v9 => v1[e].status = "cancelled"
    BY <2>2 DEF E!EventInv
  <2>4. /\ v4'[p].left = v4[p].left
        /\ \A q \in Passes \ {p} : v4'[q] = v4[q]
        /\ \/ us = {} /\ v4'[p].pc = "complete"
           \/ us # {} /\ v4'[p].pc = "reward" /\ v4'[p].event = v4[p].event /\ v4'[p].users = us
    BY <2>2, GoOnIs
  <2>5. /\ E!OneHolder(e)' /\ E!CopiesAreTrue(e)'
        /\ \A q \in Passes : E!Working(q, e)' => E!Working(q, e)
        /\ \A q \in Passes : E!Working(q, e) => q = p \/ E!Working(q, e)'
        /\ E!Working(p, e) => \A q \in Passes : E!Working(q, e) => q = p
    BY <2>2, <2>3, <2>4, PassGoesOn
  <2>6. ASSUME NEW w \in Users PROVE E!ShareIsTrue(e, w)'
    <3>1. E!ShareIsTrue(e, w)
      BY <2>3
    <3>2. CASE ~E!Working(p, e)
      <4>1. \A q \in Passes : E!Working(q, e)' <=> E!Working(q, e)
        BY <2>5, <3>2
      <4>2. \A q \in Passes : E!Working(q, e) => v4'[q] = v4[q]
        BY <2>4, <3>2
      <4>3. QED
        BY <2>2, <3>1, <4>1, <4>2 DEF E!ShareIsTrue, E!Ended
    <3>3. CASE E!Working(p, e)
      <4>1. /\ <<e, w>> \in v2 /\ v6[<<e, w>>] = 0 /\ e = v4[p].event
            /\ v1[e].status = "completed"
        BY <2>2, <2>3, <3>1, <3>3 DEF E!ShareIsTrue, E!Working, E!CopiesAreTrue
      <4>2. w \in us /\ v4'[p].pc = "reward" /\ v4'[p].event = e /\ v4'[p].users = us
        BY <2>1, <2>4, <4>1
      <4>3. \A q \in Passes : E!Working(q, e)' <=> q = p
        BY <2>5, <3>3, <4>2 DEF E!Working
      <4>4. QED
        BY <2>2, <4>1, <4>2, <4>3 DEF E!ShareIsTrue, E!Ended
    <3>4. QED
      BY <3>2, <3>3
  <2>7. QED
    BY <2>2, <2>3, <2>5, <2>6
<1>7. ASSUME NEW p \in Passes, E!Reward(p)
      PROVE  E!EventInv'
  <2> SUFFICES ASSUME NEW e \in Events \ v7'
               PROVE  /\ E!OneHolder(e)' /\ E!CopiesAreTrue(e)'
                      /\ \A u \in Users : E!ShareIsTrue(e, u)'
                      /\ e \in v9' => v1'[e].status = "cancelled"
    BY DEF E!EventInv
  <2>1. PICK u \in v4[p].users :
           \/ /\ v6' = [v6 EXCEPT ![<<v4[p].event, u>>] = @ + 1]
              /\ v4' = [v4 EXCEPT ![p] = [pc |-> "mark", at |-> v4[p].at, left |-> v4[p].left,
                           event |-> v4[p].event, users |-> v4[p].users \ {u}, user |-> u]]
              /\ v8' = v8
           \/ /\ E!GoOn(p, v4[p].users \ {u})
              /\ v8' = v8 \cup {v4[p].event} /\ v6' = v6
    BY <1>7 DEF E!Reward
  <2> DEFINE d == v4[p].event
  <2>2. /\ v4[p].pc = "reward" /\ d \in Events /\ u \in Users /\ v4[p].users \subseteq Users
        /\ UNCHANGED <<v1, v2, v3, v5, v7, v9>>
    BY <1>7, PassShapes DEF E!Reward
  <2>3. /\ v4'[p].left = v4[p].left
        /\ v4'[p].pc # "complete" => v4'[p].event = d /\ v4'[p].users = v4[p].users \ {u}
        /\ \A q \in Passes \ {p} : v4'[q] = v4[q]
        /\ \/ /\ v4'[p].pc = "mark" /\ v4'[p].user = u /\ v8' = v8
              /\ v6'[<<d, u>>] = v6[<<d, u>>] + 1
              /\ \A x \in Events \X Users : x # <<d, u>> => v6'[x] = v6[x]
           \/ /\ v4'[p].pc \in {"complete", "reward"} /\ v8' = v8 \cup {d} /\ v6' = v6
              /\ v4'[p].pc = "complete" => v4[p].users \ {u} = {}
    <3>1. <<d, u>> \in Events \X Users
      BY <2>2
    <3>2. CASE /\ v6' = [v6 EXCEPT ![<<d, u>>] = @ + 1]
               /\ v4' = [v4 EXCEPT ![p] = [pc |-> "mark", at |-> v4[p].at, left |-> v4[p].left,
                           event |-> d, users |-> v4[p].users \ {u}, user |-> u]]
               /\ v8' = v8
      <4>1. /\ v4'[p] = [pc |-> "mark", at |-> v4[p].at, left |-> v4[p].left,
                           event |-> d, users |-> v4[p].users \ {u}, user |-> u]
            /\ \A q \in Passes \ {p} : v4'[q] = v4[q]
        BY <3>2 DEF E!TypeOK
      <4>2. /\ v6'[<<d, u>>] = v6[<<d, u>>] + 1
            /\ \A x \in Events \X Users : x # <<d, u>> => v6'[x] = v6[x]
        BY <3>1, <3>2 DEF E!TypeOK
      <4>3. QED
        BY <3>2, <4>1, <4>2
    <3>3. CASE E!GoOn(p, v4[p].users \ {u}) /\ v8' = v8 \cup {d} /\ v6' = v6
      BY <2>2, <3>3 DEF E!GoOn, E!TypeOK
    <3>4. QED
      BY <2>1, <3>2, <3>3
  <2> HIDE DEF d
  <2>4. /\ e \in Events \ v7 /\ E!OneHolder(e) /\ E!CopiesAreTrue(e)
        /\ \A x \in Users : E!ShareIsTrue(e, x)
        /\ e \in v9 => v1[e].status = "cancelled"
    BY <2>2 DEF E!EventInv
  <2>5. /\ \A q \in Passes : E!HeldByPass(q)' \subseteq E!HeldByPass(q)
        /\ \A c \in Calls : E!HeldByCall(c, e)' <=> E!HeldByCall(c, e)
        /\ \A q \in Passes : E!Working(q, e)' => E!Working(q, e)
        /\ d \in E!HeldByPass(p) /\ E!Working(p, d)
    BY <2>2, <2>3 DEF E!HeldByPass, E!HeldByCall, E!Working, d
  <2>6. E!OneHolder(e)'
    BY <2>4, <2>5 DEF E!OneHolder
  <2>7. E!CopiesAreTrue(e)'
    <3>1. \A q \in Passes : v4'[q].pc # "idle" /\ e \in DOMAIN v4'[q].left =>
             /\ v4'[q].left[e] = v1[e]
             /\ v1[e].status = IF v4'[q].pc = "activate" THEN "scheduled" ELSE "active"
      BY <2>2, <2>3, <2>4 DEF E!CopiesAreTrue
    <3>2. QED
      BY <2>2, <2>4, <2>5, <3>1 DEF E!CopiesAreTrue
  <2>8. ASSUME NEW w \in Users PROVE E!ShareIsTrue(e, w)'
    <3>1. CASE e # d
      <4>1. \A q \in Passes : E!Working(q, e) => q # p
        BY <2>2, <3>1 DEF E!Working, d
      <4>2. \A q \in Passes : E!Working(q, e) <=> E!Working(q, e)'
        BY <2>3, <2>5, <4>1 DEF E!Working
      <4>3. /\ v6'[<<e, w>>] = v6[<<e, w>>] /\ (e \in v8' <=> e \in v8)
            /\ <<e, w>> \in Events \X Users
        BY <2>2, <2>3, <2>4, <3>1
      <4>4. QED
        BY <2>2, <2>3, <2>4, <4>1, <4>2, <4>3 DEF E!ShareIsTrue, E!Ended
    <3>2. CASE e = d
      <4>1. /\ \A q \in Passes : E!Working(q, e) => q = p
            /\ v1[e].status = "completed"
            /\ <<e, u>> \in v2 /\ v6[<<e, u>>] = 0
        <5>1. \A q \in Passes : E!Working(q, e) => e \in E!HeldByPass(q)
          BY DEF E!Working, E!HeldByPass
        <5>2. E!Working(p, e) /\ E!ShareIsTrue(e, u)
          BY <2>2, <2>4, <2>5, <3>2
        <5>3. QED
          BY <2>2, <2>4, <5>1, <5>2 DEF E!OneHolder, E!CopiesAreTrue, E!ShareIsTrue
      <4>2. E!ShareIsTrue(e, w) /\ E!Working(p, e)
        BY <2>4, <2>5, <3>2
      <4>3. CASE w = u
        <5>1. /\ \A q \in Passes : E!Working(q, e)' => q = p
              /\ v1'[e].status = "completed" /\ <<e, u>> \in v2'
          BY <2>2, <2>5, <4>1
        <5>2. CASE v4'[p].pc = "mark" /\ v4'[p].user = u /\ v6'[<<e, u>>] = v6[<<e, u>>] + 1
          <6>1. v6'[<<e, u>>] = 1 /\ E!Working(p, e)' /\ u \notin v4'[p].users
            BY <2>3, <3>2, <4>1, <5>2 DEF E!Working
          <6>2. QED
            BY <4>3, <5>1, <5>2, <6>1 DEF E!ShareIsTrue, E!Ended
        <5>3. CASE v4'[p].pc \in {"complete", "reward"} /\ v8' = v8 \cup {d} /\ v6' = v6
          <6>1. v6'[<<e, u>>] = 0 /\ e \in v8' /\ <<e, u>> \in v2
            BY <3>2, <4>1, <5>3
          <6>2. E!Working(p, e)' => v4'[p].pc = "reward" /\ u \notin v4'[p].users
            BY <2>3, <5>3 DEF E!Working
          <6>3. QED
            BY <4>3, <5>1, <6>1, <6>2 DEF E!ShareIsTrue, E!Ended
        <5>4. QED
          BY <2>3, <3>2, <5>2, <5>3
      <4>4. CASE w # u
        <5>1. v6'[<<e, w>>] = v6[<<e, w>>]
          BY <2>2, <2>3, <2>4, <4>4
        <5>2. \A q \in Passes : E!Working(q, e)' => q = p
          BY <2>5, <4>1
        <5>3. v4[p].pc = "reward" /\ (w \in v4[p].users => <<e, w>> \in v2 /\ v6[<<e, w>>] = 0)
              /\ (w \notin v4[p].users => <<e, w>> \notin v2 \/ e \in v8)
          BY <2>2, <4>2 DEF E!ShareIsTrue
        <5>4. (\A q \in Passes : ~E!Working(q, e)') => e \in v8'
          BY <2>3, <3>2 DEF E!Working
        <5>5. E!Working(p, e)' => v4'[p].pc # "parts"
                /\ (w \in v4'[p].users <=> w \in v4[p].users)
                /\ (v4'[p].pc = "mark" => v4'[p].user # w)
          BY <2>3, <4>4 DEF E!Working
        <5>6. e \in v8 => e \in v8'
          BY <2>3
        <5>7. QED
          BY <2>2, <4>1, <4>2, <5>1, <5>2, <5>3, <5>4, <5>5, <5>6 DEF E!ShareIsTrue, E!Ended
      <4>5. QED
        BY <4>3, <4>4
    <3>3. QED
      BY <3>1, <3>2
  <2>9. QED
    BY <2>2, <2>4, <2>6, <2>7, <2>8
<1>8. ASSUME NEW p \in Passes, E!Mark(p)
      PROVE  E!EventInv'
  <2> SUFFICES ASSUME NEW e \in Events \ v7'
               PROVE  /\ E!OneHolder(e)' /\ E!CopiesAreTrue(e)'
                      /\ \A u \in Users : E!ShareIsTrue(e, u)'
                      /\ e \in v9' => v1'[e].status = "cancelled"
    BY DEF E!EventInv
  <2>1. PICK us : us = v4[p].users
    OBVIOUS
  <2>2. /\ v4[p].pc = "mark" /\ E!GoOn(p, us) /\ UNCHANGED <<v1, v3, v5, v6, v7, v9>>
        /\ \/ v2' = v2 \ {<<v4[p].event, v4[p].user>>} /\ v8' = v8
           \/ v8' = v8 \cup {v4[p].event} /\ v2' = v2
    BY <1>8, <2>1 DEF E!Mark
  <2>3. /\ e \in Events \ v7 /\ E!OneHolder(e) /\ E!CopiesAreTrue(e)
        /\ \A u \in Users : E!ShareIsTrue(e, u)
        /\ e \in v9 => v1[e].status = "cancelled"
    BY <2>2 DEF E!EventInv
  <2>4. /\ v4'[p].left = v4[p].left
        /\ \A q \in Passes \ {p} : v4'[q] = v4[q]
        /\ \/ us = {} /\ v4'[p].pc = "complete"
           \/ us # {} /\ v4'[p].pc = "reward" /\ v4'[p].event = v4[p].event /\ v4'[p].users = us
    BY <2>2, GoOnIs
  <2>5. /\ E!OneHolder(e)' /\ E!CopiesAreTrue(e)'
        /\ \A q \in Passes : E!Working(q, e)' => E!Working(q, e)
        /\ \A q \in Passes : E!Working(q, e) => q = p \/ E!Working(q, e)'
        /\ E!Working(p, e) => \A q \in Passes : E!Working(q, e) => q = p
    BY <2>2, <2>3, <2>4, PassGoesOn
  <2>6. ASSUME NEW w \in Users PROVE E!ShareIsTrue(e, w)'
    <3>1. E!ShareIsTrue(e, w)
      BY <2>3
    <3>2. CASE ~E!Working(p, e)
      <4>1. \A q \in Passes : E!Working(q, e)' <=> E!Working(q, e)
        BY <2>5, <3>2
      <4>2. \A q \in Passes : E!Working(q, e) => v4'[q] = v4[q]
        BY <2>4, <3>2
      <4>3. e # v4[p].event
        BY <2>2, <3>2 DEF E!Working
      <4>4. (<<e, w>> \in v2' <=> <<e, w>> \in v2) /\ (e \in v8' <=> e \in v8)
        BY <2>2, <4>3
      <4>5. QED
        BY <2>2, <3>1, <4>1, <4>2, <4>4 DEF E!ShareIsTrue, E!Ended
    <3>3. CASE E!Working(p, e)
      <4>1. /\ e = v4[p].event /\ v1[e].status = "completed"
            /\ v6[<<e, w>>] <= 1 /\ (<<e, w>> \notin v2 => v6[<<e, w>>] = 1)
            /\ w \in us => <<e, w>> \in v2 /\ v6[<<e, w>>] = 0
            /\ w \notin us => <<e, w>> \notin v2 \/ e \in v8 \/ v4[p].user = w
            /\ v4[p].user = w => v6[<<e, w>>] = 1
        BY <2>1, <2>2, <2>3, <3>1, <3>3 DEF E!ShareIsTrue, E!Working, E!CopiesAreTrue
      <4>2. /\ <<e, w>> \notin v2' => v6[<<e, w>>] = 1
            /\ w \in us => <<e, w>> \in v2' /\ v6[<<e, w>>] = 0
            /\ w \notin us => <<e, w>> \notin v2' \/ e \in v8'
        <5>1. CASE w = v4[p].user
          BY <2>2, <4>1, <5>1
        <5>2. CASE w # v4[p].user
          BY <2>2, <4>1, <5>2
        <5>3. QED
          BY <5>1, <5>2
      <4>3. /\ \A q \in Passes : E!Working(q, e)' => q = p
            /\ E!Working(p, e)' => v4'[p].pc = "reward" /\ v4'[p].users = us
            /\ ~E!Working(p, e)' => w \notin us
        BY <2>4, <2>5, <3>3, <4>1 DEF E!Working
      <4>4. QED
        BY <2>2, <4>1, <4>2, <4>3 DEF E!ShareIsTrue, E!Ended
    <3>4. QED
      BY <3>2, <3>3
  <2>7. QED
    BY <2>2, <2>3, <2>5, <2>6
<1>9. ASSUME NEW p \in Passes, E!Break(p)
      PROVE  E!EventInv'
  <2> SUFFICES ASSUME NEW e \in Events \ v7'
               PROVE  /\ E!OneHolder(e)' /\ E!CopiesAreTrue(e)'
                      /\ \A u \in Users : E!ShareIsTrue(e, u)'
                      /\ e \in v9' => v1'[e].status = "cancelled"
    BY DEF E!EventInv
  <2>1. /\ e \in Events \ v7 /\ E!OneHolder(e) /\ E!CopiesAreTrue(e)
        /\ \A u \in Users : E!ShareIsTrue(e, u)
        /\ e \in v9 => v1[e].status = "cancelled"
    BY <1>9 DEF E!EventInv, E!Break
  <2>2. E!OneHolder(e)'
    BY <1>9, <2>1, PassShapes, CallShapes, RowsOfEvents, ServicesAssumption, SMTT(40) DEF E!TypeOK, E!Idle,
       E!OneHolder, E!HeldByPass, E!HeldByCall, E!Held, E!Break
  <2>3. E!CopiesAreTrue(e)'
    BY <1>9, <2>1, PassShapes, CallShapes, RowsOfEvents, ServicesAssumption, SMTT(40) DEF E!TypeOK, E!Idle,
       E!OneHolder, E!CopiesAreTrue, E!Working, E!HeldByPass, E!HeldByCall, E!Held, E!Break
  <2>4. \A u \in Users : E!ShareIsTrue(e, u)'
    BY <1>9, <2>1, PassShapes, CallShapes, RowsOfEvents, ServicesAssumption, SMTT(40) DEF E!TypeOK, E!Idle,
       E!OneHolder, E!CopiesAreTrue, E!Working, E!HeldByPass, E!HeldByCall, E!Held, E!ShareIsTrue,
       E!Ended, E!Break
  <2>5. e \in v9' => v1'[e].status = "cancelled"
    BY <1>9, <2>1, PassShapes, CallShapes, RowsOfEvents, ServicesAssumption, SMTT(40) DEF E!TypeOK, E!Idle,
       E!CopiesAreTrue, E!HeldByPass, E!HeldByCall, E!Held, E!Break
  <2>6. QED
    BY <2>2, <2>3, <2>4, <2>5
<1>10. ASSUME NEW c \in Calls, NEW op \in {"terminate", "extend", "pause"}, NEW d \in Events,
   E!Read(c, op, d)
      PROVE  E!EventInv'
  <2> SUFFICES ASSUME NEW e \in Events \ v7'
               PROVE  /\ E!OneHolder(e)' /\ E!CopiesAreTrue(e)'
                      /\ \A u \in Users : E!ShareIsTrue(e, u)'
                      /\ e \in v9' => v1'[e].status = "cancelled"
    BY DEF E!EventInv
  <2>1. /\ v5[c] = E!Idle /\ UNCHANGED <<v1, v2, v3, v4, v6, v8, v9>>
        /\ v7' = v7 \cup {x \in {d} : E!Held(x)}
        /\ op = "pause" => v1[d].status \in {"active", "scheduled"}
        /\ v5' = [v5 EXCEPT ![c] = [pc |-> op, event |-> d, row |-> v1[d]]]
    BY <1>10 DEF E!Read, E!Reads
  <2>2. /\ e \in Events \ v7 /\ E!OneHolder(e) /\ E!CopiesAreTrue(e)
        /\ \A u \in Users : E!ShareIsTrue(e, u)
        /\ e \in v9 => v1[e].status = "cancelled"
    BY <2>1 DEF E!EventInv
  <2>3. /\ v5'[c] = [pc |-> op, event |-> d, row |-> v1[d]]
        /\ \A b \in Calls \ {c} : v5'[b] = v5[b]
    BY <2>1 DEF E!TypeOK
  <2>4. v5[c].pc = "idle"
    BY <2>1 DEF E!Idle
  <2>5. e = d => ~E!Held(e)
    BY <2>1
  <2>6. e = d => /\ \A p \in Passes : e \notin E!HeldByPass(p)
                 /\ \A b \in Calls : ~E!HeldByCall(b, e)
    BY <2>5, CallShapes DEF E!Held, E!HeldByCall
  <2>7. /\ \A b \in Calls \ {c} : E!HeldByCall(b, e)' <=> E!HeldByCall(b, e)
        /\ E!HeldByCall(c, e)' <=> e = d
        /\ ~E!HeldByCall(c, e)
    BY <2>3, <2>4 DEF E!HeldByCall
  <2>8. \A p \in Passes : /\ E!HeldByPass(p)' = E!HeldByPass(p)
                          /\ E!Working(p, e)' <=> E!Working(p, e)
    BY <2>1 DEF E!HeldByPass, E!Working
  <2>9. E!OneHolder(e)'
    BY <2>2, <2>6, <2>7, <2>8 DEF E!OneHolder
  <2>10. E!CopiesAreTrue(e)'
    <3>1. ASSUME NEW b \in Calls, E!HeldByCall(b, e)'
          PROVE  /\ v5'[b].row = v1[e]
                 /\ v5'[b].pc = "pause" => v1[e].status \in {"scheduled", "active"}
      <4>1. CASE b = c
        BY <2>1, <2>3, <2>7, <3>1, <4>1
      <4>2. CASE b # c
        BY <2>2, <2>3, <2>7, <3>1, <4>2 DEF E!CopiesAreTrue
      <4>3. QED
        BY <4>1, <4>2
    <3>2. QED
      BY <2>1, <2>2, <2>8, <3>1 DEF E!CopiesAreTrue
  <2>11. \A u \in Users : E!ShareIsTrue(e, u)'
    BY <2>1, <2>2, <2>8 DEF E!ShareIsTrue, E!Ended
  <2>12. QED
    BY <2>1, <2>2, <2>9, <2>10, <2>11
<1>11. ASSUME NEW c \in Calls, E!Save(c)
      PROVE  E!EventInv'
  <2> SUFFICES ASSUME NEW e \in Events \ v7'
               PROVE  /\ E!OneHolder(e)' /\ E!CopiesAreTrue(e)'
                      /\ \A u \in Users : E!ShareIsTrue(e, u)'
                      /\ e \in v9' => v1'[e].status = "cancelled"
    BY DEF E!EventInv
  <2> DEFINE d == v5[c].event
  <2>1. /\ v5[c].pc \in {"terminate", "extend", "pause"} /\ d \in Events
        /\ v1'[d].status = CASE v5[c].pc = "terminate" -> "cancelled"
                             [] v5[c].pc = "pause" -> "paused"
                             [] v5[c].pc = "extend" -> v5[c].row.status
        /\ \A x \in Events \ {d} : v1'[x] = v1[x]
        /\ v5'[c] = E!Idle /\ \A x \in Calls \ {c} : v5'[x] = v5[x]
        /\ v9' = IF v5[c].pc = "terminate" THEN v9 \cup {d} ELSE v9
        /\ UNCHANGED <<v2, v3, v4, v6, v7, v8>>
    BY <1>11, SaveDoes
  <2>2. E!HeldByCall(c, d)
    BY <2>1 DEF E!HeldByCall
  <2> HIDE DEF d
  <2>3. /\ e \in Events \ v7 /\ E!OneHolder(e) /\ E!CopiesAreTrue(e)
        /\ \A u \in Users : E!ShareIsTrue(e, u)
        /\ e \in v9 => v1[e].status = "cancelled"
    BY <2>1 DEF E!EventInv
  <2>4. /\ \A q \in Passes : E!HeldByPass(q)' = E!HeldByPass(q)
        /\ \A x \in Calls : E!HeldByCall(x, e)' <=> E!HeldByCall(x, e) /\ x # c
        /\ \A q \in Passes : E!Working(q, e)' <=> E!Working(q, e)
    BY <2>1 DEF E!HeldByPass, E!HeldByCall, E!Working, E!Idle
  <2>5. E!OneHolder(e)'
    BY <2>3, <2>4 DEF E!OneHolder
  <2>6. CASE e = d
    <3>1. /\ \A q \in Passes : e \notin E!HeldByPass(q) /\ ~E!Working(q, e)
          /\ \A x \in Calls : ~E!HeldByCall(x, e)'
      BY <2>2, <2>3, <2>4, <2>6 DEF E!OneHolder, E!HeldByPass, E!Working
    <3>2. E!CopiesAreTrue(e)'
      <4>1. \A q \in Passes : v4[q].pc # "idle" => e \notin DOMAIN v4[q].left
        BY <3>1 DEF E!HeldByPass
      <4>2. QED
        BY <2>1, <2>4, <3>1, <4>1 DEF E!CopiesAreTrue
    <3>3. /\ v5[c].row = v1[e]
          /\ v5[c].pc = "pause" => v1[e].status \in {"scheduled", "active"}
      BY <2>2, <2>3, <2>6 DEF E!CopiesAreTrue
    <3>4. /\ v1'[e].status = "completed" => v1[e].status = "completed"
          /\ E!Ended(e) => E!Ended(e)'
          /\ e \in v9' => v1'[e].status = "cancelled"
      BY <2>1, <2>3, <2>6, <3>3 DEF E!Ended
    <3>5. ASSUME NEW u \in Users PROVE E!ShareIsTrue(e, u)'
      <4>1. E!ShareIsTrue(e, u)
        BY <2>3
      <4>2. QED
        BY <2>1, <2>4, <3>1, <3>4, <4>1 DEF E!ShareIsTrue
    <3>6. QED
      BY <2>5, <3>2, <3>4, <3>5
  <2>7. CASE e # d
    <3>1. v1'[e] = v1[e] /\ (e \in v9' <=> e \in v9)
      BY <2>1, <2>7
    <3>2. E!CopiesAreTrue(e)'
      BY <2>1, <2>3, <2>4, <3>1 DEF E!CopiesAreTrue
    <3>3. ASSUME NEW u \in Users PROVE E!ShareIsTrue(e, u)'
      <4>1. E!ShareIsTrue(e, u)
        BY <2>3
      <4>2. E!Ended(e)' <=> E!Ended(e)
        BY <3>1 DEF E!Ended
      <4>3. QED
        BY <2>1, <2>4, <3>1, <4>1, <4>2 DEF E!ShareIsTrue
    <3>4. QED
      BY <2>3, <2>5, <3>1, <3>2, <3>3
  <2>8. QED
    BY <2>6, <2>7
<1>12. CASE E!Restart
  <2> SUFFICES ASSUME NEW e \in Events \ v7'
               PROVE  /\ E!OneHolder(e)' /\ E!CopiesAreTrue(e)'
                      /\ \A u \in Users : E!ShareIsTrue(e, u)'
                      /\ e \in v9' => v1'[e].status = "cancelled"
    BY DEF E!EventInv
  <2>1. /\ e \in Events \ v7 /\ E!OneHolder(e) /\ E!CopiesAreTrue(e)
        /\ \A u \in Users : E!ShareIsTrue(e, u)
        /\ e \in v9 => v1[e].status = "cancelled"
    BY <1>12 DEF E!EventInv, E!Restart
  <2>2. E!OneHolder(e)'
    BY <1>12, <2>1, PassShapes, CallShapes, RowsOfEvents, ServicesAssumption DEF E!TypeOK, E!Idle,
       E!OneHolder, E!HeldByPass, E!HeldByCall, E!Held, E!Restart
  <2>3. E!CopiesAreTrue(e)'
    BY <1>12, <2>1, PassShapes, CallShapes, RowsOfEvents, ServicesAssumption DEF E!TypeOK, E!Idle,
       E!OneHolder, E!CopiesAreTrue, E!Working, E!HeldByPass, E!HeldByCall, E!Held, E!Restart
  <2>4. \A u \in Users : E!ShareIsTrue(e, u)'
    BY <1>12, <2>1, PassShapes, CallShapes, RowsOfEvents, ServicesAssumption DEF E!TypeOK, E!Idle,
       E!OneHolder, E!CopiesAreTrue, E!Working, E!HeldByPass, E!HeldByCall, E!Held, E!ShareIsTrue,
       E!Ended, E!Restart
  <2>5. e \in v9' => v1'[e].status = "cancelled"
    BY <1>12, <2>1, PassShapes, CallShapes, RowsOfEvents, ServicesAssumption DEF E!TypeOK, E!Idle,
       E!CopiesAreTrue, E!HeldByPass, E!HeldByCall, E!Held, E!Restart
  <2>6. QED
    BY <2>2, <2>3, <2>4, <2>5
<1>13. CASE E!Tick
  <2> SUFFICES ASSUME NEW e \in Events \ v7'
               PROVE  /\ E!OneHolder(e)' /\ E!CopiesAreTrue(e)'
                      /\ \A u \in Users : E!ShareIsTrue(e, u)'
                      /\ e \in v9' => v1'[e].status = "cancelled"
    BY DEF E!EventInv
  <2>1. /\ e \in Events \ v7 /\ E!OneHolder(e) /\ E!CopiesAreTrue(e)
        /\ \A u \in Users : E!ShareIsTrue(e, u)
        /\ e \in v9 => v1[e].status = "cancelled"
    BY <1>13 DEF E!EventInv, E!Tick
  <2>2. E!OneHolder(e)'
    BY <1>13, <2>1, PassShapes, CallShapes, RowsOfEvents, ServicesAssumption DEF E!TypeOK, E!Idle,
       E!OneHolder, E!HeldByPass, E!HeldByCall, E!Held, E!Tick
  <2>3. E!CopiesAreTrue(e)'
    BY <1>13, <2>1, PassShapes, CallShapes, RowsOfEvents, ServicesAssumption DEF E!TypeOK, E!Idle,
       E!OneHolder, E!CopiesAreTrue, E!Working, E!HeldByPass, E!HeldByCall, E!Held, E!Tick
  <2>4. \A u \in Users : E!ShareIsTrue(e, u)'
    BY <1>13, <2>1, PassShapes, CallShapes, RowsOfEvents, ServicesAssumption DEF E!TypeOK, E!Idle,
       E!OneHolder, E!CopiesAreTrue, E!Working, E!HeldByPass, E!HeldByCall, E!Held, E!ShareIsTrue,
       E!Ended, E!Tick
  <2>5. e \in v9' => v1'[e].status = "cancelled"
    BY <1>13, <2>1, PassShapes, CallShapes, RowsOfEvents, ServicesAssumption DEF E!TypeOK, E!Idle,
       E!CopiesAreTrue, E!HeldByPass, E!HeldByCall, E!Held, E!Tick
  <2>6. QED
    BY <2>2, <2>3, <2>4, <2>5
<1>14. CASE UNCHANGED E!vars
  BY <1>14 DEF E!vars, E!EventInv, E!OneHolder, E!CopiesAreTrue, E!ShareIsTrue, E!HeldByPass,
     E!HeldByCall, E!Working, E!Ended
<1>15. QED
  BY <1>1, <1>2, <1>3, <1>4, <1>5, <1>6, <1>7, <1>8, <1>9, <1>10, <1>11, <1>12, <1>13,
     <1>14 DEF E!Next

LEMMA SchedulingSubject ==
    /\ MCInit /\ subject = "scheduling" => E!Init
    /\ [MCNext]_all => UNCHANGED subject
    /\ [MCNext]_all /\ subject = "scheduling" => [E!Next]_(E!vars)
<1>1. MCInit /\ subject = "scheduling" => E!Init
  BY DEF MCInit
<1>2. [MCNext]_all => UNCHANGED subject
  BY DEF MCNext, all
<1>3. [MCNext]_all /\ subject = "scheduling" => [E!Next]_(E!vars)
  BY DEF MCNext, all, E!vars
<1>4. QED
  BY <1>1, <1>2, <1>3

LEMMA EventsFollow == E!TypeOK /\ E!EventInv => E!EventEndsOnce
BY DEF E!EventEndsOnce, E!TypeOK, E!Idle, E!EventInv, E!OneHolder, E!CopiesAreTrue, E!ShareIsTrue,
   E!HeldByPass, E!HeldByCall, E!Held, E!Working, E!Ended

(* An event nobody read while another held it ends once and rewards each   *)
(* participant once, for any number of events, users, overlapping passes   *)
(* and calls (EventSchedulerService). *)
THEOREM EventsEndOnce == MCSpec => []EventEndsOnce
<1> DEFINE Inv == subject = "scheduling" => E!TypeOK /\ E!EventInv
<1>1. MCInit => Inv
  BY SchedulingSubject, InitEvents
<1>2. Inv /\ [MCNext]_all => Inv'
  BY SchedulingSubject, StepEventTypes, StepEvents
<1>3. Inv => EventEndsOnce
  BY EventsFollow DEF EventEndsOnce
<1>4. QED
  BY <1>1, <1>2, <1>3, PTL DEF MCSpec

-----------------------------------------------------------------------------
(* The wallets (W): v1 is row, v2 address, v3 verified, v4 call, v5 clash. *)

CallType == [pc : {"idle", "count", "insert", "unset", "save", "address", "promote"},
             op : {"none", "link", "primary", "unlink", "delegate"},
             id : Wallets \cup {NoWallet}, entity : {W!Absent} \cup W!Row]

(* A row, and a call, with given fields. *)
ARow(s, t, p) == [status |-> s, type |-> t, primary |-> p]

CallIs(x, at, op, id, e) == x = [pc |-> at, op |-> op, id |-> id, entity |-> e]

LEMMA RowFields ==
    /\ \A r \in {W!Absent} \cup W!Row : /\ r.primary \in BOOLEAN
                                        /\ r = W!Absent => ~r.primary /\ r.status = "absent"
                                        /\ r # W!Absent <=> r \in W!Row
    /\ \A r \in W!Row : /\ r # W!Absent /\ r.status \in {"PENDING", "ACTIVE", "UNLINKED"}
                        /\ r.type \in {"PRIMARY", "SECONDARY", "DELEGATED"}
<1>1. W!Absent.status = "absent" /\ W!Absent.primary = FALSE
  BY DEF W!Absent
<1>2. \A r \in W!Row : /\ r.status \in {"PENDING", "ACTIVE", "UNLINKED"} /\ r.primary \in BOOLEAN
                       /\ r.type \in {"PRIMARY", "SECONDARY", "DELEGATED"}
  BY DEF W!Row
<1>3. \A r \in W!Row : r # W!Absent
  BY <1>1, <1>2
<1>4. QED BY <1>1, <1>2, <1>3

LEMMA RowEdits ==
    /\ \A r \in W!Row, s \in {"PENDING", "ACTIVE", "UNLINKED"} :
          /\ [r EXCEPT !.status = s] \in W!Row
          /\ [r EXCEPT !.status = s].status = s
          /\ [r EXCEPT !.status = s].primary = r.primary
    /\ \A r \in W!Row, t \in {"PRIMARY", "SECONDARY", "DELEGATED"} :
          /\ [r EXCEPT !.type = t] \in W!Row
          /\ [r EXCEPT !.type = t].status = r.status
          /\ [r EXCEPT !.type = t].primary = r.primary
    /\ \A r \in W!Row, p \in BOOLEAN :
          /\ [r EXCEPT !.primary = p] \in W!Row
          /\ [r EXCEPT !.primary = p].status = r.status
          /\ [r EXCEPT !.primary = p].primary = p
    /\ \A p \in BOOLEAN : p = FALSE => [W!Absent EXCEPT !.primary = p] = W!Absent
<1>1. \A r \in W!Row, s \in {"PENDING", "ACTIVE", "UNLINKED"} :
          /\ [r EXCEPT !.status = s] \in W!Row
          /\ [r EXCEPT !.status = s].status = s
          /\ [r EXCEPT !.status = s].primary = r.primary
  BY DEF W!Row
<1>2. \A r \in W!Row, t \in {"PRIMARY", "SECONDARY", "DELEGATED"} :
          /\ [r EXCEPT !.type = t] \in W!Row
          /\ [r EXCEPT !.type = t].status = r.status
          /\ [r EXCEPT !.type = t].primary = r.primary
  BY DEF W!Row
<1>3. \A r \in W!Row, p \in BOOLEAN :
          /\ [r EXCEPT !.primary = p] \in W!Row
          /\ [r EXCEPT !.primary = p].status = r.status
          /\ [r EXCEPT !.primary = p].primary = p
  BY DEF W!Row
<1>4. ASSUME NEW p \in BOOLEAN, p = FALSE PROVE [W!Absent EXCEPT !.primary = p] = W!Absent
  <2>1. W!Absent = ARow("absent", "none", p)
    BY <1>4, Zenon DEF W!Absent, ARow
  <2>2. [ARow("absent", "none", p) EXCEPT !.primary = p] = ARow("absent", "none", p)
    BY DEF ARow
  <2>3. QED BY <2>1, <2>2
<1>5. QED BY <1>1, <1>2, <1>3, <1>4

LEMMA CallFields ==
    /\ \A x \in CallType : /\ x.entity \in {W!Absent} \cup W!Row
                           /\ x.id \in Wallets \cup {NoWallet}
                           /\ x.pc \in {"idle", "count", "insert", "unset", "save", "address", "promote"}
                           /\ x.op \in {"none", "link", "primary", "unlink", "delegate"}
    /\ \A x \in CallType, at \in {"idle", "count", "insert", "unset", "save", "address", "promote"} :
          /\ [x EXCEPT !.pc = at] \in CallType
          /\ [x EXCEPT !.pc = at].pc = at
          /\ [x EXCEPT !.pc = at].op = x.op
          /\ [x EXCEPT !.pc = at].id = x.id
          /\ [x EXCEPT !.pc = at].entity = x.entity
    /\ \A x \in CallType, e \in {W!Absent} \cup W!Row :
          /\ [x EXCEPT !.entity = e] \in CallType
          /\ [x EXCEPT !.entity = e].pc = x.pc
          /\ [x EXCEPT !.entity = e].op = x.op
          /\ [x EXCEPT !.entity = e].id = x.id
          /\ [x EXCEPT !.entity = e].entity = e
    /\ \A at \in {"idle", "count", "insert", "unset", "save", "address", "promote"},
          op \in {"none", "link", "primary", "unlink", "delegate"},
          id \in Wallets \cup {NoWallet}, e \in {W!Absent} \cup W!Row :
          \A x : CallIs(x, at, op, id, e) =>
              x \in CallType /\ x.pc = at /\ x.op = op /\ x.id = id /\ x.entity = e
    /\ W!Idle \in CallType /\ W!Idle.pc = "idle" /\ W!Idle.op = "none" /\ W!Idle.entity = W!Absent
<1>1. \A x \in CallType : /\ x.entity \in {W!Absent} \cup W!Row
                          /\ x.id \in Wallets \cup {NoWallet}
                          /\ x.pc \in {"idle", "count", "insert", "unset", "save", "address", "promote"}
                          /\ x.op \in {"none", "link", "primary", "unlink", "delegate"}
  BY DEF CallType
<1>2. \A x \in CallType, at \in {"idle", "count", "insert", "unset", "save", "address", "promote"} :
          /\ [x EXCEPT !.pc = at] \in CallType
          /\ [x EXCEPT !.pc = at].pc = at
          /\ [x EXCEPT !.pc = at].op = x.op
          /\ [x EXCEPT !.pc = at].id = x.id
          /\ [x EXCEPT !.pc = at].entity = x.entity
  BY DEF CallType
<1>3. \A x \in CallType, e \in {W!Absent} \cup W!Row :
          /\ [x EXCEPT !.entity = e] \in CallType
          /\ [x EXCEPT !.entity = e].pc = x.pc
          /\ [x EXCEPT !.entity = e].op = x.op
          /\ [x EXCEPT !.entity = e].id = x.id
          /\ [x EXCEPT !.entity = e].entity = e
  BY DEF CallType
<1>4. \A at \in {"idle", "count", "insert", "unset", "save", "address", "promote"},
          op \in {"none", "link", "primary", "unlink", "delegate"},
          id \in Wallets \cup {NoWallet}, e \in {W!Absent} \cup W!Row :
          \A x : CallIs(x, at, op, id, e) =>
              x \in CallType /\ x.pc = at /\ x.op = op /\ x.id = id /\ x.entity = e
  BY DEF CallType, CallIs
<1>5. W!Idle \in CallType /\ W!Idle.pc = "idle" /\ W!Idle.op = "none" /\ W!Idle.entity = W!Absent
  BY DEF CallType, W!Idle
<1>6. QED BY <1>1, <1>2, <1>3, <1>4, <1>5

(* Call c becomes y, and the others stay. *)
Moved(c, y) ==
    /\ y \in CallType
    /\ v4' \in [Calls -> CallType] /\ v4'[c] = y
    /\ \A d \in Calls : d # c => v4'[d] = v4[d]

LEMMA CallMoves ==
    ASSUME W!TypeOK, NEW c \in Calls, NEW y \in CallType, v4' = [v4 EXCEPT ![c] = y]
    PROVE  Moved(c, y)
BY DEF W!TypeOK, CallType, Moved

(* Where the rows stay, so do the sets over them. *)
LEMMA RowsStay ==
    UNCHANGED v1 => W!Linked' = W!Linked /\ W!Active' = W!Active /\ W!Primaries' = W!Primaries
BY DEF W!Linked, W!Active, W!Primaries

LEMMA InitWallets == W!Init => W!TypeOK /\ W!WalletInv
<1> SUFFICES ASSUME W!Init PROVE W!TypeOK /\ W!WalletInv
  OBVIOUS
<1> USE DEF W!Init
<1>1. W!TypeOK
  BY DEF W!TypeOK, W!Idle
<1>2. /\ \A c \in Calls : v4[c] = W!Idle /\ v4[c].pc = "idle" /\ v4[c].op = "none"
      /\ W!InFlight = {} /\ W!Linked = {}
  BY DEF W!Idle, W!InFlight, W!Linked
<1>3. W!CallsHaveForms
  BY <1>2 DEF W!CallsHaveForms, W!FormOf
<1>4. W!OneOverThePrimary /\ W!TheFirstIsAlone /\ W!FlagAndAddress /\ W!UnlinkingIsTrue /\ W!OneIsActive
  BY <1>2 DEF W!OneOverThePrimary, W!TheFirstIsAlone, W!FlagAndAddress, W!UnlinkingIsTrue, W!OneIsActive
<1>5. QED BY <1>1, <1>3, <1>4 DEF W!WalletInv

(* A call that ends, or goes on with what it was doing. *)
LEMMA OpsGoOn ==
    ASSUME W!OneOverThePrimary, NEW c \in Calls, NEW y, Moved(c, y),
           \/ y.op = "none"
           \/ /\ y.op = v4[c].op /\ y.id = v4[c].id
              /\ y.op = "link" /\ y.entity.primary =>
                    v4[c].entity.primary \/ \A d \in Calls : v4[d].op # "primary"
    PROVE  W!OneOverThePrimary'
<1>1. v4'[c] = y /\ \A d \in Calls : d # c => v4'[d] = v4[d]
  BY DEF Moved
<1>2. ASSUME NEW a \in Calls, NEW d \in Calls, a # d, v4'[a].op = "primary"
      PROVE  /\ v4'[d].op \notin {"primary", "unlink"}
             /\ v4'[d].op = "link" => ~v4'[d].entity.primary
  <2>1. v4[a].op = "primary"
    BY <1>1, <1>2
  <2>2. /\ v4[d].op \notin {"primary", "unlink"}
        /\ v4[d].op = "link" => ~v4[d].entity.primary
    BY <1>2, <2>1 DEF W!OneOverThePrimary
  <2>3. QED BY <1>1, <2>1, <2>2
<1>3. ASSUME NEW a \in Calls, NEW d \in Calls, v4'[a].op = "unlink", v4'[d].op = "unlink"
      PROVE  v4'[a].id = v4'[d].id
  <2>1. /\ v4[a].op = "unlink" /\ v4[a].id = v4'[a].id
        /\ v4[d].op = "unlink" /\ v4[d].id = v4'[d].id
    BY <1>1, <1>3
  <2>2. QED BY <2>1 DEF W!OneOverThePrimary
<1>4. QED BY <1>2, <1>3, SMTT(40) DEF W!OneOverThePrimary

(* A call that returns, with the primary wallet and the address in order. *)
LEMMA Returning ==
    ASSUME W!TypeOK, W!WalletInv, NEW c \in Calls, v4' = [v4 EXCEPT ![c] = W!Idle],
           UNCHANGED <<v1, v2, v3>>, v5' \in BOOLEAN,
           ~v5' => /\ ~v5 /\ v4[c].pc # "address"
                   /\ ~(v4[c].op = "primary" /\ v4[c].pc = "save")
    PROVE  W!TypeOK' /\ W!WalletInv'
<1>1. Moved(c, W!Idle)
  <2>1. W!Idle \in CallType
    BY CallFields
  <2>2. QED BY <2>1, CallMoves
<1>2. W!TypeOK'
  BY <1>1 DEF W!TypeOK, Moved, CallType
<1>3. W!CallsHaveForms'
  BY <1>1, CallFields DEF W!WalletInv, W!CallsHaveForms, W!FormOf, Moved
<1>4. ASSUME ~v5'
      PROVE  W!OneOverThePrimary' /\ W!TheFirstIsAlone' /\ W!FlagAndAddress'
             /\ W!UnlinkingIsTrue' /\ W!OneIsActive'
  <2>1. W!OneOverThePrimary'
    <3>1. W!Idle.op = "none"
      BY CallFields
    <3>2. QED BY <1>1, <1>4, <3>1, OpsGoOn DEF W!WalletInv
  <2> USE <1>1, <1>4, CallFields, RowsStay DEF Moved
  <2>2. W!TheFirstIsAlone'
    BY DEF W!WalletInv, W!TheFirstIsAlone, W!InFlight
  <2>3. W!FlagAndAddress'
    BY DEF W!WalletInv, W!FlagAndAddress, W!Settled
  <2>4. W!UnlinkingIsTrue'
    BY DEF W!WalletInv, W!UnlinkingIsTrue
  <2>5. W!OneIsActive'
    BY DEF W!WalletInv, W!OneIsActive
  <2>6. QED BY <2>1, <2>2, <2>3, <2>4, <2>5
<1>5. QED BY <1>2, <1>3, <1>4 DEF W!WalletInv

(* A call that begins. *)
LEMMA Beginning ==
    ASSUME W!TypeOK, W!WalletInv, NEW c \in Calls, NEW w \in Wallets,
           \/ W!LinkWallet(c, w) \/ W!SetPrimaryWallet(c, w) \/ W!UnlinkWallet(c, w)
           \/ \E d \in Wallets : W!RequestDelegation(c, w, d)
    PROVE  W!TypeOK' /\ W!WalletInv'
<1>1. PICK at \in {"count", "insert", "unset"}, op \in {"link", "primary", "unlink", "delegate"},
           id \in Wallets, e \in {W!Absent} \cup W!Row :
        /\ W!Begin(c, at, op, id, e)
        /\ op = "link" => at = "count" /\ e = W!Absent
        /\ op = "primary" => at = "unset" /\ e = v1[id] /\ e \in W!Row /\ e.status = "ACTIVE"
        /\ op = "unlink" => at = "count" /\ e = v1[id] /\ e \in W!Row
        /\ op = "delegate" => /\ at = "insert" /\ e \in W!Row /\ ~e.primary
                              /\ \E o \in Wallets : v1[o] # W!Absent
  <2>1. CASE W!LinkWallet(c, w)
    BY <2>1 DEF W!LinkWallet
  <2>2. CASE W!SetPrimaryWallet(c, w)
    BY <2>2, RowFields DEF W!SetPrimaryWallet, W!TypeOK
  <2>3. CASE W!UnlinkWallet(c, w)
    BY <2>3, RowFields DEF W!UnlinkWallet, W!TypeOK
  <2>4. ASSUME NEW d \in Wallets, W!RequestDelegation(c, w, d)
        PROVE  \E e \in W!Row : /\ W!Begin(c, "insert", "delegate", d, e) /\ ~e.primary
                                /\ v1[w] # W!Absent
    <3>1. PICK e : e = [status |-> "PENDING", type |-> "DELEGATED", primary |-> FALSE]
      OBVIOUS
    <3>2. e \in W!Row /\ ~e.primary
      BY <3>1 DEF W!Row
    <3>3. W!Begin(c, "insert", "delegate", d, e)
      BY <2>4, <3>1 DEF W!RequestDelegation
    <3>4. v1[w] # W!Absent
      BY <2>4, RowFields DEF W!RequestDelegation
    <3>5. QED BY <3>2, <3>3, <3>4
  <2>5. QED BY <2>1, <2>2, <2>3, <2>4
<1>2. PICK y : CallIs(y, at, op, id, e) /\ v4' = [v4 EXCEPT ![c] = y]
  BY <1>1 DEF CallIs, W!Begin
<1>3. y \in CallType /\ y.pc = at /\ y.op = op /\ y.id = id /\ y.entity = e
  BY <1>1, <1>2, CallFields
<1>4. Moved(c, y)
  BY <1>2, <1>3, CallMoves
<1>5. /\ UNCHANGED <<v1, v2, v3>> /\ v5' \in BOOLEAN /\ ~v5 /\ v4[c].pc = "idle"
      /\ ~v5' => \A d \in Calls : v4[d].pc # "idle" => ~W!Clashes(op, id, v4[d])
  BY <1>1 DEF W!Begin, W!InFlight, W!TypeOK
<1>6. W!TypeOK'
  BY <1>4, <1>5 DEF W!TypeOK, Moved, CallType
<1>7. W!FormOf(y)
  BY <1>1, <1>3 DEF W!FormOf
<1>8. W!CallsHaveForms'
  BY <1>4, <1>7 DEF W!WalletInv, W!CallsHaveForms, W!FormOf, Moved
<1>9. ASSUME ~v5'
      PROVE  W!OneOverThePrimary' /\ W!TheFirstIsAlone' /\ W!FlagAndAddress'
             /\ W!UnlinkingIsTrue' /\ W!OneIsActive'
  <2>1. /\ W!OneOverThePrimary /\ W!TheFirstIsAlone /\ W!FlagAndAddress
        /\ W!UnlinkingIsTrue /\ W!OneIsActive
    BY <1>5 DEF W!WalletInv
  <2>2. \A d \in Calls : d # c /\ v4[d].op # "none" => ~W!Clashes(op, id, v4[d])
    BY <1>5, <1>9 DEF W!WalletInv, W!CallsHaveForms, W!FormOf, W!Idle
  <2>3. W!OneOverThePrimary'
    BY <1>1, <1>3, <1>4, <2>1, <2>2, RowFields, SMTT(40) DEF W!OneOverThePrimary, W!Clashes, Moved
  <2>4. W!TheFirstIsAlone'
    BY <1>1, <1>3, <1>4, <1>5, <2>1, <2>2, RowsStay, RowFields
       DEF W!TheFirstIsAlone, W!InFlight, W!Linked, W!Clashes, Moved
  <2>5. W!FlagAndAddress'
    BY <1>1, <1>3, <1>4, <1>5, <2>1, RowsStay DEF W!FlagAndAddress, W!Settled, Moved
  <2>6. W!UnlinkingIsTrue'
    BY <1>1, <1>3, <1>4, <1>5, <2>1, RowsStay, RowFields DEF W!UnlinkingIsTrue, Moved
  <2>7. W!OneIsActive'
    BY <1>5, <2>1, RowsStay DEF W!OneIsActive
  <2>8. QED BY <2>3, <2>4, <2>5, <2>6, <2>7
<1>10. QED BY <1>6, <1>8, <1>9 DEF W!WalletInv

(* What a step has to show when it is call c that becomes y. *)
LEMMA WalletStep ==
    ASSUME W!TypeOK, W!WalletInv, NEW c \in Calls, NEW y \in CallType, W!FormOf(y),
           v4' = [v4 EXCEPT ![c] = y],
           v1' \in [Wallets -> {W!Absent} \cup W!Row], v2' \in Wallets \cup {NoWallet},
           UNCHANGED <<v3, v5>>
    PROVE  /\ Moved(c, y) /\ W!TypeOK' /\ W!CallsHaveForms'
           /\ ~v5' => ~v5
<1>1. Moved(c, y)
  BY CallMoves
<1>2. W!TypeOK'
  BY <1>1 DEF W!TypeOK, Moved, CallType
<1>3. W!CallsHaveForms'
  BY <1>1 DEF W!WalletInv, W!CallsHaveForms, W!FormOf, Moved
<1>4. QED BY <1>1, <1>2, <1>3

LEMMA StepLinkCounts ==
    ASSUME W!TypeOK, W!WalletInv, NEW c \in Calls, W!LinkCounts(c)
    PROVE  W!TypeOK' /\ W!WalletInv'
<1>1. v4[c] \in CallType /\ v4[c].op = "link" /\ v4[c].pc = "count" /\ W!FormOf(v4[c])
  BY DEF W!TypeOK, CallType, W!LinkCounts, W!WalletInv, W!CallsHaveForms
<1>2. PICK first \in BOOLEAN : first = (W!Linked = {})
  OBVIOUS
<1>3. PICK e : e = [status |-> "ACTIVE", primary |-> first,
                    type |-> IF first THEN "PRIMARY" ELSE "SECONDARY"]
  OBVIOUS
<1>4. e \in W!Row /\ e.status = "ACTIVE" /\ e.primary = first
  BY <1>3 DEF W!Row
<1>5. PICK x : x = [v4[c] EXCEPT !.pc = "insert"]
  OBVIOUS
<1>6. PICK y : y = [x EXCEPT !.entity = e]
  OBVIOUS
<1>7. y \in CallType /\ y.pc = "insert" /\ y.op = "link" /\ y.id = v4[c].id /\ y.entity = e
  <2>1. x \in CallType /\ x.pc = "insert" /\ x.op = "link" /\ x.id = v4[c].id
    BY <1>1, <1>5 DEF CallType
  <2>2. QED BY <1>4, <1>6, <2>1 DEF CallType
<1>8. v4' = [v4 EXCEPT ![c] = y] /\ UNCHANGED <<v1, v2, v3, v5>>
  BY <1>2, <1>3, <1>5, <1>6 DEF W!LinkCounts
<1>9. Moved(c, y) /\ W!TypeOK' /\ W!CallsHaveForms' /\ (~v5' => ~v5)
  <2>1. W!FormOf(y)
    BY <1>1, <1>4, <1>7 DEF W!FormOf
  <2>2. QED BY <1>7, <1>8, <2>1, WalletStep DEF W!TypeOK
<1>10. ASSUME ~v5'
       PROVE  W!OneOverThePrimary' /\ W!TheFirstIsAlone' /\ W!FlagAndAddress'
              /\ W!UnlinkingIsTrue' /\ W!OneIsActive'
  <2>1. /\ W!OneOverThePrimary /\ W!TheFirstIsAlone /\ W!FlagAndAddress
        /\ W!UnlinkingIsTrue /\ W!OneIsActive /\ W!CallsHaveForms
    BY <1>9, <1>10 DEF W!WalletInv
  <2>2. first => \A d \in Calls : v4[d].op # "primary"
    BY <1>2, <2>1 DEF W!TheFirstIsAlone, W!InFlight, W!CallsHaveForms, W!FormOf
  <2>3. W!OneOverThePrimary'
    BY <1>1, <1>4, <1>7, <1>9, <2>1, <2>2, OpsGoOn
  <2>4. W!TheFirstIsAlone'
    <3>1. y.entity.primary <=> W!Linked' = {}
      BY <1>2, <1>4, <1>7, <1>8, RowsStay
    <3>2. \A d \in Calls : /\ d \in W!InFlight' <=> d \in W!InFlight
                           /\ v4'[d].op = v4[d].op
                           /\ v4'[d] = v4[d] \/ d = c
      BY <1>1, <1>7, <1>9 DEF W!InFlight, Moved
    <3>3. QED BY <1>1, <1>7, <1>8, <1>9, <2>1, <3>1, <3>2, RowsStay DEF W!TheFirstIsAlone, W!InFlight, Moved
  <2>5. W!FlagAndAddress'
    BY <1>1, <1>7, <1>8, <1>9, <2>1, RowsStay DEF W!FlagAndAddress, W!Settled, Moved
  <2>6. W!UnlinkingIsTrue'
    BY <1>7, <1>8, <1>9, <2>1, RowsStay DEF W!UnlinkingIsTrue, Moved
  <2>7. W!OneIsActive'
    BY <1>8, <2>1, RowsStay DEF W!OneIsActive
  <2>8. QED BY <2>3, <2>4, <2>5, <2>6, <2>7
<1>11. QED BY <1>9, <1>10 DEF W!WalletInv

(* A row is written: the sets over the rows afterwards. *)
LEMMA RowWritten ==
    ASSUME W!TypeOK, NEW w \in Wallets, NEW e \in W!Row, v1' = [v1 EXCEPT ![w] = e]
    PROVE  /\ v1' \in [Wallets -> {W!Absent} \cup W!Row]
           /\ v1'[w] = e /\ \A o \in Wallets : o # w => v1'[o] = v1[o]
           /\ W!Linked' = W!Linked \cup {w}
           /\ W!Active' = IF e.status = "ACTIVE" THEN W!Active \cup {w} ELSE W!Active \ {w}
           /\ W!Primaries' = IF e.primary THEN W!Primaries \cup {w} ELSE W!Primaries \ {w}
<1>1. /\ v1' \in [Wallets -> {W!Absent} \cup W!Row]
      /\ v1'[w] = e /\ \A o \in Wallets : o # w => v1'[o] = v1[o]
  BY DEF W!TypeOK
<1>2. W!Linked' = W!Linked \cup {w}
  BY <1>1, RowFields DEF W!Linked
<1>3. W!Active' = IF e.status = "ACTIVE" THEN W!Active \cup {w} ELSE W!Active \ {w}
  BY <1>1 DEF W!Active
<1>4. W!Primaries' = IF e.primary THEN W!Primaries \cup {w} ELSE W!Primaries \ {w}
  BY <1>1 DEF W!Primaries
<1>5. QED BY <1>1, <1>2, <1>3, <1>4

LEMMA StepInsert ==
    ASSUME W!TypeOK, W!WalletInv, NEW c \in Calls, W!Insert(c)
    PROVE  W!TypeOK' /\ W!WalletInv'
<1>1. PICK x \in CallType : x = v4[c] /\ W!FormOf(x)
  BY DEF W!TypeOK, CallType, W!WalletInv, W!CallsHaveForms
<1>2. PICK w \in Wallets : w = x.id
  BY <1>1 DEF W!FormOf, W!Insert
<1>3. PICK e \in W!Row : e = x.entity
  BY <1>1, CallFields DEF W!FormOf, W!Insert
<1>4. /\ x.pc = "insert" /\ x.op \in {"link", "delegate"}
      /\ x.op = "delegate" => ~e.primary
      /\ x.op = "link" => e.status = "ACTIVE"
      /\ UNCHANGED <<v2, v3, v5>>
  BY <1>1, <1>3, CallFields DEF W!FormOf, W!Insert
<1>5. CASE v1[w] # W!Absent
  <2>1. v4' = [v4 EXCEPT ![c] = W!Idle] /\ UNCHANGED v1
    BY <1>1, <1>2, <1>5 DEF W!Insert, W!Return
  <2>2. v5' \in BOOLEAN
    BY <1>4 DEF W!TypeOK
  <2>3. QED BY <1>1, <1>4, <2>1, <2>2, Returning
<1>6. CASE v1[w] = W!Absent
  <2>1. v1' = [v1 EXCEPT ![w] = e]
    BY <1>1, <1>2, <1>3, <1>6 DEF W!Insert
  <2>2. PICK y : y = IF e.primary THEN [x EXCEPT !.pc = "address"] ELSE W!Idle
    OBVIOUS
  <2>3. /\ y \in CallType
        /\ e.primary => /\ y.pc = "address" /\ y.op = "link" /\ y.id = w /\ y.entity = e
                        /\ x.op = "link"
        /\ ~e.primary => y = W!Idle /\ y.pc = "idle" /\ y.op = "none"
    <3>1. PICK z : z = [x EXCEPT !.pc = "address"]
      OBVIOUS
    <3>2. /\ z \in CallType /\ z.pc = "address" /\ z.op = x.op /\ z.id = x.id
          /\ z.entity = x.entity
      BY <3>1 DEF CallType
    <3>3. W!Idle \in CallType /\ W!Idle.pc = "idle" /\ W!Idle.op = "none"
      BY CallFields
    <3>4. QED BY <1>2, <1>3, <1>4, <2>2, <3>1, <3>2, <3>3
  <2>4. v4' = [v4 EXCEPT ![c] = y]
    BY <1>1, <1>2, <1>3, <1>6, <2>2 DEF W!Insert, W!Goto, W!Return
  <2>5. W!FormOf(y)
    BY <1>4, <2>3 DEF W!FormOf
  <2>6. /\ v1' \in [Wallets -> {W!Absent} \cup W!Row]
        /\ v1'[w] = e /\ \A o \in Wallets : o # w => v1'[o] = v1[o]
        /\ W!Linked' = W!Linked \cup {w}
        /\ W!Active' = IF e.status = "ACTIVE" THEN W!Active \cup {w} ELSE W!Active \ {w}
        /\ W!Primaries' = IF e.primary THEN W!Primaries \cup {w} ELSE W!Primaries \ {w}
    BY <2>1, RowWritten
  <2>7. Moved(c, y) /\ W!TypeOK' /\ W!CallsHaveForms' /\ (~v5' => ~v5)
    BY <1>4, <2>3, <2>4, <2>5, <2>6, WalletStep DEF W!TypeOK
  <2>8. w \notin W!Linked /\ w \notin W!Active /\ w \notin W!Primaries
    BY <1>6, RowFields DEF W!Linked, W!Active, W!Primaries
  <2>9. ASSUME ~v5'
        PROVE  W!OneOverThePrimary' /\ W!TheFirstIsAlone' /\ W!FlagAndAddress'
               /\ W!UnlinkingIsTrue' /\ W!OneIsActive'
    <3>1. /\ W!OneOverThePrimary /\ W!TheFirstIsAlone /\ W!FlagAndAddress
          /\ W!UnlinkingIsTrue /\ W!OneIsActive /\ W!CallsHaveForms
      BY <2>7, <2>9 DEF W!WalletInv
    <3>2. W!OneOverThePrimary'
      BY <1>1, <1>2, <1>3, <2>3, <2>7, <3>1, OpsGoOn
    <3>3. c \in W!InFlight /\ (e.primary <=> W!Linked = {})
      BY <1>1, <1>3, <1>4, <3>1 DEF W!TheFirstIsAlone, W!InFlight
    <3>4. CASE e.primary
      <4>1. \A d \in Calls : d # c => v4'[d].pc = "idle" /\ v4'[d].op = "none"
        <5>1. \A d \in Calls : d # c => v4[d].pc = "idle"
          BY <3>1, <3>3, <3>4 DEF W!TheFirstIsAlone, W!InFlight
        <5>2. \A d \in Calls : d # c => v4[d] = W!Idle
          BY <3>1, <5>1 DEF W!CallsHaveForms, W!FormOf
        <5>3. QED BY <2>7, <5>2, CallFields DEF Moved
      <4>2. v4'[c].pc = "address" /\ v4'[c].op = "link" /\ v4'[c].id = w
        BY <2>3, <2>7, <3>4 DEF Moved
      <4>3. W!Linked' = {w} /\ W!Primaries' = {w} /\ W!Active' # {}
        <5>1. W!Primaries = {}
          BY <3>3, <3>4, RowFields DEF W!Linked, W!Primaries
        <5>2. e.status = "ACTIVE"
          BY <1>4, <3>4
        <5>3. QED BY <2>6, <3>3, <3>4, <5>1, <5>2
      <4>4. W!TheFirstIsAlone'
        BY <4>1, <4>2, <4>3 DEF W!TheFirstIsAlone
      <4>5. W!FlagAndAddress'
        BY <4>1, <4>2, <4>3 DEF W!FlagAndAddress, W!Settled
      <4>6. W!UnlinkingIsTrue'
        BY <4>1, <4>2 DEF W!UnlinkingIsTrue
      <4>7. W!OneIsActive'
        BY <4>3 DEF W!OneIsActive
      <4>8. QED BY <3>2, <4>4, <4>5, <4>6, <4>7
    <3>5. CASE ~e.primary
      <4>1. /\ v4'[c] = W!Idle /\ v4'[c].pc = "idle" /\ v4'[c].op = "none"
            /\ \A d \in Calls : d # c => v4'[d] = v4[d]
        BY <2>3, <2>7, <3>5, CallFields DEF Moved
      <4>2. W!Linked # {} /\ W!Linked' # {} /\ W!Primaries' = W!Primaries
        BY <2>6, <2>8, <3>3, <3>5
      <4>3. W!Active \subseteq W!Active'
        BY <2>6, <2>8
      <4>4. W!TheFirstIsAlone'
        BY <3>1, <4>1, <4>2 DEF W!TheFirstIsAlone
      <4>5. W!FlagAndAddress'
        BY <1>1, <1>4, <3>1, <4>1, <4>2 DEF W!FlagAndAddress, W!Settled
      <4>6. W!UnlinkingIsTrue'
        <5>1. ASSUME NEW d \in Calls, v4'[d].op = "unlink"
              PROVE  v4'[d] = v4[d] /\ v1'[v4[d].id] = v1[v4[d].id] /\ v4[d].id # w
          <6>1. v4'[d] = v4[d] /\ v4[d].id \in Wallets
            BY <3>1, <4>1, <5>1 DEF W!CallsHaveForms, W!FormOf
          <6>2. v4[d].id # w
            BY <1>6, <3>1, <5>1, <6>1 DEF W!UnlinkingIsTrue
          <6>3. QED BY <2>6, <6>1, <6>2
        <5>2. QED BY <1>4, <3>1, <4>3, <5>1 DEF W!UnlinkingIsTrue
      <4>7. W!OneIsActive'
        BY <1>4, <3>1, <4>2, <4>3 DEF W!OneIsActive
      <4>8. QED BY <3>2, <4>4, <4>5, <4>6, <4>7
    <3>6. QED BY <3>4, <3>5
  <2>10. QED BY <2>7, <2>9 DEF W!WalletInv
<1>7. QED BY <1>5, <1>6

LEMMA StepSetAddress ==
    ASSUME W!TypeOK, W!WalletInv, NEW c \in Calls, W!SetAddress(c)
    PROVE  W!TypeOK' /\ W!WalletInv'
<1>1. PICK x \in CallType : x = v4[c] /\ W!FormOf(x)
  BY DEF W!TypeOK, CallType, W!WalletInv, W!CallsHaveForms
<1>2. PICK w \in Wallets : w = x.id
  BY <1>1 DEF W!FormOf, W!SetAddress
<1>3. /\ v2' = w /\ UNCHANGED <<v1, v3, v5>> /\ v4[c].pc = "address"
      /\ v4' = [v4 EXCEPT ![c] = W!Idle]
  BY <1>1, <1>2 DEF W!SetAddress, W!Return
<1>4. W!FormOf(W!Idle) /\ W!Idle \in CallType /\ W!Idle.pc = "idle" /\ W!Idle.op = "none"
  BY CallFields DEF W!FormOf
<1>5. Moved(c, W!Idle) /\ W!TypeOK' /\ W!CallsHaveForms' /\ (~v5' => ~v5)
  BY <1>3, <1>4, WalletStep DEF W!TypeOK
<1>6. ASSUME ~v5'
      PROVE  W!OneOverThePrimary' /\ W!TheFirstIsAlone' /\ W!FlagAndAddress'
             /\ W!UnlinkingIsTrue' /\ W!OneIsActive'
  <2>1. /\ W!OneOverThePrimary /\ W!TheFirstIsAlone /\ W!FlagAndAddress
        /\ W!UnlinkingIsTrue /\ W!OneIsActive
    BY <1>5, <1>6 DEF W!WalletInv
  <2>2. W!OneOverThePrimary'
    BY <1>4, <1>5, <2>1, OpsGoOn
  <2>3. /\ v4'[c].pc = "idle" /\ v4'[c].op = "none"
        /\ \A d \in Calls : d # c => v4'[d] = v4[d]
    BY <1>4, <1>5 DEF Moved
  <2>4. W!Linked' = W!Linked /\ W!Primaries' = W!Primaries /\ W!Active' = W!Active
    BY <1>3, RowsStay
  <2>5. W!TheFirstIsAlone'
    BY <2>1, <2>3, <2>4 DEF W!TheFirstIsAlone, W!InFlight
  <2>6. W!FlagAndAddress'
    BY <1>1, <1>2, <1>3, <2>1, <2>3, <2>4 DEF W!FlagAndAddress
  <2>7. W!UnlinkingIsTrue'
    BY <1>3, <2>1, <2>3, <2>4 DEF W!UnlinkingIsTrue
  <2>8. W!OneIsActive'
    BY <1>3, <2>1, <2>4 DEF W!OneIsActive
  <2>9. QED BY <2>2, <2>5, <2>6, <2>7, <2>8
<1>7. QED BY <1>5, <1>6 DEF W!WalletInv

LEMMA StepUnsetPrimary ==
    ASSUME W!TypeOK, W!WalletInv, NEW c \in Calls, W!UnsetPrimary(c)
    PROVE  W!TypeOK' /\ W!WalletInv'
<1>1. PICK x \in CallType : x = v4[c] /\ W!FormOf(x)
  BY DEF W!TypeOK, CallType, W!WalletInv, W!CallsHaveForms
<1>2. /\ x.pc = "unset" /\ x.op = "primary" /\ x.entity \in W!Row /\ x.entity.status = "ACTIVE"
      /\ UNCHANGED <<v2, v3, v5>>
  <2>1. x.pc = "unset" /\ UNCHANGED <<v2, v3, v5>>
    BY <1>1 DEF W!UnsetPrimary
  <2>2. x.op \in {"none", "link", "primary", "unlink", "delegate"}
    BY CallFields
  <2>3. QED BY <1>1, <2>1, <2>2 DEF W!FormOf
<1>3. PICK yes \in BOOLEAN : yes = TRUE
  OBVIOUS
<1>4. PICK f : f = [x.entity EXCEPT !.primary = yes]
  OBVIOUS
<1>5. PICK e : e = [f EXCEPT !.type = "PRIMARY"]
  OBVIOUS
<1>6. e \in W!Row /\ e.status = "ACTIVE" /\ e.primary
  <2>1. f \in W!Row /\ f.status = "ACTIVE" /\ f.primary = yes
    BY <1>2, <1>4 DEF W!Row
  <2>2. e \in W!Row /\ e.status = "ACTIVE" /\ e.primary = yes
    BY <1>5, <2>1 DEF W!Row
  <2>3. QED BY <1>3, <2>2
<1>7. PICK g : g = [x EXCEPT !.pc = "save"]
  OBVIOUS
<1>8. PICK y : y = [g EXCEPT !.entity = e]
  OBVIOUS
<1>9. /\ y \in CallType /\ y.pc = "save" /\ y.op = "primary" /\ y.id = x.id /\ y.entity = e
  <2>1. g \in CallType /\ g.pc = "save" /\ g.op = "primary" /\ g.id = x.id
    BY <1>2, <1>7 DEF CallType
  <2>2. QED BY <1>6, <1>8, <2>1 DEF CallType
<1>10. v4' = [v4 EXCEPT ![c] = y]
  BY <1>1, <1>3, <1>4, <1>5, <1>7, <1>8, ZenonT(60) DEF W!UnsetPrimary
<1>11. PICK no \in BOOLEAN : no = FALSE
  OBVIOUS
<1>12. v1' = [o \in Wallets |-> [v1[o] EXCEPT !.primary = no]]
  BY <1>11 DEF W!UnsetPrimary
<1>13. ASSUME NEW o \in Wallets
       PROVE  /\ v1'[o] \in {W!Absent} \cup W!Row /\ ~v1'[o].primary
              /\ v1'[o].status = v1[o].status /\ (v1'[o] = W!Absent <=> v1[o] = W!Absent)
  <2>1. v1'[o] = [v1[o] EXCEPT !.primary = no]
    BY <1>12
  <2>2. CASE v1[o] = W!Absent
    BY <1>11, <2>1, <2>2, RowEdits, RowFields
  <2>3. CASE v1[o] \in W!Row
    <3>1. v1'[o] \in W!Row /\ v1'[o].status = v1[o].status /\ v1'[o].primary = no
      BY <2>1, <2>3, RowEdits
    <3>2. QED BY <1>11, <2>3, <3>1, RowFields
  <2>4. QED BY <2>2, <2>3 DEF W!TypeOK
<1>14. /\ v1' \in [Wallets -> {W!Absent} \cup W!Row]
       /\ W!Linked' = W!Linked /\ W!Active' = W!Active /\ W!Primaries' = {}
  <2>1. v1' \in [Wallets -> {W!Absent} \cup W!Row]
    BY <1>12, <1>13
  <2>2. QED BY <1>13, <2>1 DEF W!Linked, W!Active, W!Primaries
<1>15. Moved(c, y) /\ W!TypeOK' /\ W!CallsHaveForms' /\ (~v5' => ~v5)
  <2>1. W!FormOf(y)
    BY <1>1, <1>2, <1>6, <1>9 DEF W!FormOf
  <2>2. QED BY <1>2, <1>9, <1>10, <1>14, <2>1, WalletStep DEF W!TypeOK
<1>16. ASSUME ~v5'
       PROVE  W!OneOverThePrimary' /\ W!TheFirstIsAlone' /\ W!FlagAndAddress'
              /\ W!UnlinkingIsTrue' /\ W!OneIsActive'
  <2>1. /\ W!OneOverThePrimary /\ W!TheFirstIsAlone /\ W!FlagAndAddress
        /\ W!UnlinkingIsTrue /\ W!OneIsActive /\ W!CallsHaveForms
    BY <1>15, <1>16 DEF W!WalletInv
  <2>2. W!OneOverThePrimary'
    BY <1>1, <1>2, <1>9, <1>15, <2>1, OpsGoOn
  <2>3. /\ v4'[c].pc = "save" /\ v4'[c].op = "primary"
        /\ \A d \in Calls : d # c => v4'[d] = v4[d]
    BY <1>9, <1>15 DEF Moved
  <2>4. c \in W!InFlight /\ W!Linked # {}
    BY <1>1, <1>2, <2>1 DEF W!InFlight, W!TheFirstIsAlone
  <2>5. \A d \in Calls : d # c => /\ v4[d].op \notin {"primary", "unlink"}
                                  /\ v4[d].op = "link" => ~v4[d].entity.primary
    BY <1>1, <1>2, <2>1 DEF W!OneOverThePrimary
  <2>6. \A d \in Calls : v4'[d].pc # "address"
    <3>1. ASSUME NEW d \in Calls, d # c, v4[d].pc = "address" PROVE FALSE
      <4>1. v4[d] \in CallType /\ W!FormOf(v4[d])
        BY <2>1 DEF W!TypeOK, CallType, W!CallsHaveForms
      <4>2. v4[d].op \in {"none", "link", "delegate"}
        BY <2>5, <3>1, <4>1, CallFields
      <4>3. QED BY <2>5, <3>1, <4>1, <4>2 DEF W!FormOf
    <3>2. QED BY <2>3, <3>1
  <2>7. W!TheFirstIsAlone'
    BY <1>14, <2>1, <2>3, <2>4 DEF W!TheFirstIsAlone
  <2>8. W!FlagAndAddress'
    BY <1>14, <2>3, <2>6 DEF W!FlagAndAddress, W!Settled
  <2>9. W!UnlinkingIsTrue'
    BY <2>3, <2>5 DEF W!UnlinkingIsTrue
  <2>10. W!OneIsActive'
    BY <1>2, <1>14, <2>1 DEF W!OneIsActive
  <2>11. QED BY <2>2, <2>7, <2>8, <2>9, <2>10
<1>17. QED BY <1>15, <1>16 DEF W!WalletInv

LEMMA StepSaveEntity ==
    ASSUME W!TypeOK, W!WalletInv, NEW c \in Calls, W!SaveEntity(c)
    PROVE  W!TypeOK' /\ W!WalletInv'
<1>1. PICK x \in CallType : x = v4[c] /\ W!FormOf(x)
  BY DEF W!TypeOK, CallType, W!WalletInv, W!CallsHaveForms
<1>2. /\ x.pc = "save" /\ x.op \in {"primary", "unlink"} /\ x.id \in Wallets
      /\ x.entity \in W!Row /\ UNCHANGED <<v2, v3, v5>>
  <2>1. x.pc = "save" /\ UNCHANGED <<v2, v3, v5>>
    BY <1>1 DEF W!SaveEntity
  <2>2. x.op \in {"none", "link", "primary", "unlink", "delegate"}
    BY CallFields
  <2>3. QED BY <1>1, <2>1, <2>2 DEF W!FormOf
<1>3. PICK w \in Wallets, e \in W!Row : w = x.id /\ e = x.entity
  BY <1>2
<1>4. v1' = [v1 EXCEPT ![w] = e]
  BY <1>1, <1>3 DEF W!SaveEntity
<1>5. /\ v1' \in [Wallets -> {W!Absent} \cup W!Row]
      /\ v1'[w] = e /\ \A o \in Wallets : o # w => v1'[o] = v1[o]
      /\ W!Linked' = W!Linked \cup {w}
      /\ W!Active' = IF e.status = "ACTIVE" THEN W!Active \cup {w} ELSE W!Active \ {w}
      /\ W!Primaries' = IF e.primary THEN W!Primaries \cup {w} ELSE W!Primaries \ {w}
  BY <1>4, RowWritten
<1>6. PICK at \in {"address", "promote", "idle"} :
        at = IF e.status # "UNLINKED" THEN "address"
             ELSE IF e.primary THEN "promote" ELSE "idle"
  OBVIOUS
<1>7. PICK y : y = IF at = "idle" THEN W!Idle ELSE [x EXCEPT !.pc = at]
  OBVIOUS
<1>8. /\ y \in CallType /\ y.pc = at
      /\ at = "idle" => y = W!Idle /\ y.op = "none"
      /\ at # "idle" => y.op = x.op /\ y.id = w /\ y.entity = e
  <2>1. PICK z : z = [x EXCEPT !.pc = at]
    OBVIOUS
  <2>2. z \in CallType /\ z.pc = at /\ z.op = x.op /\ z.id = x.id /\ z.entity = x.entity
    BY <2>1 DEF CallType
  <2>3. W!Idle \in CallType /\ W!Idle.pc = "idle" /\ W!Idle.op = "none"
    BY CallFields
  <2>4. QED BY <1>3, <1>7, <2>1, <2>2, <2>3
<1>9. v4' = [v4 EXCEPT ![c] = y]
  BY <1>1, <1>3, <1>6, <1>7 DEF W!SaveEntity, W!Goto, W!Return
<1>10. x.op = "primary" => e.status = "ACTIVE" /\ e.primary /\ at = "address"
  BY <1>1, <1>2, <1>3, <1>6 DEF W!FormOf
<1>11. Moved(c, y) /\ W!TypeOK' /\ W!CallsHaveForms' /\ (~v5' => ~v5)
  <2>1. W!FormOf(y)
    BY <1>1, <1>2, <1>3, <1>8, <1>10 DEF W!FormOf
  <2>2. QED BY <1>2, <1>5, <1>8, <1>9, <2>1, WalletStep DEF W!TypeOK
<1>12. ASSUME ~v5'
       PROVE  W!OneOverThePrimary' /\ W!TheFirstIsAlone' /\ W!FlagAndAddress'
              /\ W!UnlinkingIsTrue' /\ W!OneIsActive'
  <2>1. /\ W!OneOverThePrimary /\ W!TheFirstIsAlone /\ W!FlagAndAddress
        /\ W!UnlinkingIsTrue /\ W!OneIsActive /\ W!CallsHaveForms
    BY <1>11, <1>12 DEF W!WalletInv
  <2>2. W!OneOverThePrimary'
    BY <1>1, <1>2, <1>3, <1>8, <1>11, <2>1, OpsGoOn
  <2>3. v4'[c] = y /\ \A d \in Calls : d # c => v4'[d] = v4[d]
    BY <1>11 DEF Moved
  <2>4. c \in W!InFlight /\ W!Linked # {}
    BY <1>1, <1>2, <2>1 DEF W!InFlight, W!TheFirstIsAlone
  <2>5. W!TheFirstIsAlone'
    BY <1>2, <1>5, <1>8, <2>1, <2>3, <2>4 DEF W!TheFirstIsAlone
  <2>6. CASE x.op = "primary"
    <3>1. W!Primaries' = {w}
      BY <1>1, <1>2, <1>5, <1>10, <2>1, <2>6 DEF W!FlagAndAddress
    <3>2. \A d \in Calls : d # c => v4[d].op \notin {"primary", "unlink"}
      BY <1>1, <2>1, <2>6 DEF W!OneOverThePrimary
    <3>3. \A d \in Calls : d # c => v4[d].pc # "address"
      <4>1. \A d \in Calls : v4[d].pc = "address" => W!Primaries # {}
        BY <2>1 DEF W!FlagAndAddress
      <4>2. W!Primaries = {}
        BY <1>1, <1>2, <2>1, <2>6 DEF W!FlagAndAddress
      <4>3. QED BY <4>1, <4>2
    <3>4. y.pc = "address" /\ y.op = "primary" /\ y.id = w
      BY <1>8, <1>10, <2>6
    <3>5. W!FlagAndAddress'
      BY <2>3, <3>1, <3>2, <3>3, <3>4 DEF W!FlagAndAddress, W!Settled
    <3>6. W!UnlinkingIsTrue'
      BY <2>3, <3>2, <3>4 DEF W!UnlinkingIsTrue
    <3>7. W!OneIsActive'
      BY <1>5, <1>10, <2>6 DEF W!OneIsActive
    <3>8. QED BY <2>2, <2>5, <3>5, <3>6, <3>7
  <2>7. CASE x.op = "unlink"
    <3>1. /\ v1[w] # W!Absent /\ e.status = "UNLINKED" /\ e.primary = v1[w].primary
          /\ v3 \/ W!Active \ {w} # {}
      BY <1>1, <1>2, <1>3, <2>1, <2>7 DEF W!UnlinkingIsTrue
    <3>2. /\ W!Primaries' = W!Primaries /\ W!Active' = W!Active \ {w}
          /\ W!Linked' = W!Linked
      <4>1. w \in W!Linked /\ (w \in W!Primaries <=> e.primary)
        BY <3>1 DEF W!Linked, W!Primaries
      <4>2. QED BY <1>5, <3>1, <4>1
    <3>3. at # "address" /\ y.op # "primary" /\ y.op # "link"
      BY <1>6, <1>8, <2>7, <3>1
    <3>4. W!FlagAndAddress'
      BY <1>1, <1>2, <1>8, <2>1, <2>3, <2>7, <3>2, <3>3 DEF W!FlagAndAddress, W!Settled
    <3>5. W!UnlinkingIsTrue'
      <4>1. ASSUME NEW d \in Calls, d # c, v4[d].op = "unlink"
            PROVE  /\ v4[d].id = w /\ v4[d].pc # "address"
                   /\ v4[d].pc \in {"count", "save"} => v4[d].entity.primary = v1[w].primary
                   /\ v4[d].pc = "save" => v4[d].entity.status = "UNLINKED"
        <5>1. v4[d].id = w
          BY <1>1, <1>3, <2>1, <2>7, <4>1 DEF W!OneOverThePrimary
        <5>2. QED BY <2>1, <4>1, <5>1 DEF W!UnlinkingIsTrue
      <4>2. v1'[w] # W!Absent /\ v1'[w].status = "UNLINKED" /\ v1'[w].primary = v1[w].primary
        BY <1>5, <3>1, RowFields
      <4>3. v3' \/ W!Active' \ {w} # {}
        BY <1>2, <3>1, <3>2
      <4>4. \A d \in Calls : d # c /\ v4'[d].op = "unlink" =>
              /\ v4'[d].id = w /\ v4'[d].pc # "address"
              /\ v4'[d].pc \in {"count", "save"} => v4'[d].entity.primary = v1'[w].primary
              /\ v4'[d].pc = "save" => v4'[d].entity.status = "UNLINKED"
        BY <2>3, <4>1, <4>2
      <4>5. y.op = "unlink" => y.id = w /\ y.pc = "promote"
        BY <1>6, <1>8, <3>3
      <4>6. QED BY <2>3, <4>2, <4>3, <4>4, <4>5 DEF W!UnlinkingIsTrue
    <3>6. W!OneIsActive'
      BY <1>2, <3>1, <3>2 DEF W!OneIsActive
    <3>7. QED BY <2>2, <2>5, <3>4, <3>5, <3>6
  <2>8. QED BY <1>2, <2>6, <2>7
<1>13. QED BY <1>11, <1>12 DEF W!WalletInv

LEMMA StepUnlinkCounts ==
    ASSUME W!TypeOK, W!WalletInv, NEW c \in Calls, W!UnlinkCounts(c)
    PROVE  W!TypeOK' /\ W!WalletInv'
<1>1. PICK x \in CallType : x = v4[c] /\ W!FormOf(x)
  BY DEF W!TypeOK, CallType, W!WalletInv, W!CallsHaveForms
<1>2. /\ x.pc = "count" /\ x.op = "unlink" /\ x.id \in Wallets
      /\ x.entity \in W!Row /\ UNCHANGED <<v1, v2, v3, v5>>
  BY <1>1 DEF W!UnlinkCounts, W!FormOf
<1>3. CASE W!Cardinality(W!Active) = 1 /\ ~v3
  <2>1. v4' = [v4 EXCEPT ![c] = W!Idle]
    BY <1>3 DEF W!UnlinkCounts, W!Return
  <2>2. v5' \in BOOLEAN
    BY <1>2 DEF W!TypeOK
  <2>3. QED BY <1>1, <1>2, <2>1, <2>2, Returning
<1>4. CASE ~(W!Cardinality(W!Active) = 1 /\ ~v3)
  <2>1. PICK e : e = [x.entity EXCEPT !.status = "UNLINKED"]
    OBVIOUS
  <2>2. e \in W!Row /\ e.status = "UNLINKED" /\ e.primary = x.entity.primary
    BY <1>2, <2>1 DEF W!Row
  <2>3. PICK g : g = [x EXCEPT !.pc = "save"]
    OBVIOUS
  <2>4. PICK y : y = [g EXCEPT !.entity = e]
    OBVIOUS
  <2>5. y \in CallType /\ y.pc = "save" /\ y.op = "unlink" /\ y.id = x.id /\ y.entity = e
    <3>1. g \in CallType /\ g.pc = "save" /\ g.op = "unlink" /\ g.id = x.id
      BY <1>2, <2>3 DEF CallType
    <3>2. QED BY <2>2, <2>4, <3>1 DEF CallType
  <2>6. v4' = [v4 EXCEPT ![c] = y]
    <3>1. v4' = [v4 EXCEPT ![c].pc = "save", ![c].entity.status = "UNLINKED"]
      BY <1>4 DEF W!UnlinkCounts
    <3>2. QED BY <1>1, <2>1, <2>3, <2>4, <3>1
  <2>7. Moved(c, y) /\ W!TypeOK' /\ W!CallsHaveForms' /\ (~v5' => ~v5)
    <3>1. W!FormOf(y)
      BY <1>2, <2>2, <2>5 DEF W!FormOf
    <3>2. QED BY <1>2, <2>5, <2>6, <3>1, WalletStep DEF W!TypeOK
  <2>8. ASSUME ~v5'
        PROVE  W!OneOverThePrimary' /\ W!TheFirstIsAlone' /\ W!FlagAndAddress'
               /\ W!UnlinkingIsTrue' /\ W!OneIsActive'
    <3>1. /\ W!OneOverThePrimary /\ W!TheFirstIsAlone /\ W!FlagAndAddress
          /\ W!UnlinkingIsTrue /\ W!OneIsActive
      BY <2>7, <2>8 DEF W!WalletInv
    <3>2. W!OneOverThePrimary'
      BY <1>1, <1>2, <2>5, <2>7, <3>1, OpsGoOn
    <3>3. v4'[c] = y /\ \A d \in Calls : d # c => v4'[d] = v4[d]
      BY <2>7 DEF Moved
    <3>4. W!Linked' = W!Linked /\ W!Primaries' = W!Primaries /\ W!Active' = W!Active
      BY <1>2, RowsStay
    <3>5. c \in W!InFlight /\ W!Linked # {}
      BY <1>1, <1>2, <3>1 DEF W!InFlight, W!TheFirstIsAlone
    <3>6. v3 \/ W!Active \ {x.id} # {}
      <4>1. ASSUME ~v3, W!Active \subseteq {x.id} PROVE FALSE
        <5>1. W!Active = {x.id}
          BY <3>1, <3>5, <4>1 DEF W!OneIsActive
        <5>2. Cardinality({x.id}) = 1
          BY FS_Singleton
        <5>3. W!Cardinality(W!Active) = 1
          BY <5>1, <5>2 DEF W!Cardinality, Cardinality
        <5>4. QED BY <1>4, <4>1, <5>3
      <4>2. QED BY <4>1
    <3>7. W!TheFirstIsAlone'
      BY <2>5, <3>1, <3>3, <3>4, <3>5 DEF W!TheFirstIsAlone
    <3>8. W!FlagAndAddress'
      BY <1>1, <1>2, <2>5, <3>1, <3>3, <3>4 DEF W!FlagAndAddress, W!Settled
    <3>9. W!UnlinkingIsTrue'
      <4>1. /\ v1[x.id] # W!Absent /\ e.primary = v1[x.id].primary
        BY <1>1, <1>2, <2>2, <3>1 DEF W!UnlinkingIsTrue
      <4>2. QED BY <1>2, <2>2, <2>5, <3>1, <3>3, <3>4, <3>6, <4>1 DEF W!UnlinkingIsTrue
    <3>10. W!OneIsActive'
      BY <1>2, <3>1, <3>4 DEF W!OneIsActive
    <3>11. QED BY <3>2, <3>7, <3>8, <3>9, <3>10
  <2>9. QED BY <2>7, <2>8 DEF W!WalletInv
<1>5. QED BY <1>3, <1>4

LEMMA StepPromote ==
    ASSUME W!TypeOK, W!WalletInv, NEW c \in Calls, W!Promote(c)
    PROVE  W!TypeOK' /\ W!WalletInv'
<1>1. PICK x \in CallType : x = v4[c] /\ W!FormOf(x)
  BY DEF W!TypeOK, CallType, W!WalletInv, W!CallsHaveForms
<1>2. /\ x.pc = "promote" /\ x.op = "unlink" /\ x.id \in Wallets
      /\ UNCHANGED <<v1, v2, v3, v5>>
  <2>1. x.pc = "promote" /\ UNCHANGED <<v1, v2, v3, v5>>
    BY <1>1 DEF W!Promote
  <2>2. x.op \in {"none", "link", "primary", "unlink", "delegate"}
    BY CallFields
  <2>3. QED BY <1>1, <2>1, <2>2 DEF W!FormOf
<1>3. CASE v1[x.id].status # "ACTIVE"
  <2>1. v4' = [v4 EXCEPT ![c] = W!Idle]
    BY <1>1, <1>3 DEF W!Promote, W!Return
  <2>2. v5' \in BOOLEAN
    BY <1>2 DEF W!TypeOK
  <2>3. QED BY <1>1, <1>2, <2>1, <2>2, Returning
<1>4. CASE v1[x.id].status = "ACTIVE"
  <2>1. v5
    <3>1. ~v5 => v1[x.id].status = "UNLINKED"
      BY <1>1, <1>2 DEF W!WalletInv, W!UnlinkingIsTrue
    <3>2. QED BY <1>4, <3>1
  <2>2. v1[x.id] \in W!Row
    BY <1>2, <1>4, RowFields DEF W!TypeOK
  <2>3. PICK yes \in BOOLEAN : yes = TRUE
    OBVIOUS
  <2>4. PICK f : f = [v1[x.id] EXCEPT !.primary = yes]
    OBVIOUS
  <2>5. PICK e : e = [f EXCEPT !.type = "PRIMARY"]
    OBVIOUS
  <2>6. e \in W!Row
    <3>1. f \in W!Row
      BY <2>2, <2>4 DEF W!Row
    <3>2. QED BY <2>5, <3>1 DEF W!Row
  <2>7. PICK g : g = [x EXCEPT !.pc = "save"]
    OBVIOUS
  <2>8. PICK y : y = [g EXCEPT !.entity = e]
    OBVIOUS
  <2>9. y \in CallType /\ y.pc = "save" /\ y.op = "unlink" /\ y.id = x.id /\ y.entity = e
    <3>1. g \in CallType /\ g.pc = "save" /\ g.op = "unlink" /\ g.id = x.id
      BY <1>2, <2>7 DEF CallType
    <3>2. QED BY <2>6, <2>8, <3>1 DEF CallType
  <2>10. v4' = [v4 EXCEPT ![c] = y]
    BY <1>1, <1>4, <2>3, <2>4, <2>5, <2>7, <2>8 DEF W!Promote
  <2>11. W!FormOf(y)
    BY <1>2, <2>6, <2>9 DEF W!FormOf
  <2>12. W!TypeOK' /\ W!CallsHaveForms'
    BY <1>2, <2>9, <2>10, <2>11, WalletStep DEF W!TypeOK
  <2>13. QED BY <1>2, <2>1, <2>12 DEF W!WalletInv
<1>5. QED BY <1>3, <1>4

LEMMA StepBreak ==
    ASSUME W!TypeOK, W!WalletInv, NEW c \in Calls, W!Break(c)
    PROVE  W!TypeOK' /\ W!WalletInv'
<1>1. PICK x \in CallType : x = v4[c] /\ W!FormOf(x)
  BY DEF W!TypeOK, CallType, W!WalletInv, W!CallsHaveForms
<1>2. /\ v4' = [v4 EXCEPT ![c] = W!Idle] /\ UNCHANGED <<v1, v2, v3>>
      /\ v5' = (v5 \/ (x.pc \in {"save", "address"} /\ x.entity.primary))
  BY <1>1 DEF W!Break, W!Return
<1>3. v5' \in BOOLEAN
  BY <1>2 DEF W!TypeOK
<1>4. ASSUME ~v5'
      PROVE  /\ ~v5 /\ x.pc # "address"
             /\ ~(x.op = "primary" /\ x.pc = "save")
  <2>1. ~v5 /\ ~(x.pc \in {"save", "address"} /\ x.entity.primary)
    BY <1>2, <1>4
  <2>2. x.op = "unlink" => x.pc # "address"
    BY <1>1, <2>1 DEF W!WalletInv, W!UnlinkingIsTrue
  <2>3. x.op \in {"none", "link", "primary", "unlink", "delegate"}
    BY CallFields
  <2>4. QED BY <1>1, <2>1, <2>2, <2>3 DEF W!FormOf
<1>5. QED BY <1>1, <1>2, <1>3, <1>4, Returning

LEMMA StepVerifyEmail ==
    ASSUME W!TypeOK, W!WalletInv, W!VerifyEmail
    PROVE  W!TypeOK' /\ W!WalletInv'
<1>1. UNCHANGED <<v1, v2, v4, v5>> /\ v3' = TRUE
  BY DEF W!VerifyEmail
<1>2. W!TypeOK'
  BY <1>1 DEF W!TypeOK
<1>3. /\ W!CallsHaveForms' <=> W!CallsHaveForms
      /\ W!OneOverThePrimary' <=> W!OneOverThePrimary
      /\ W!TheFirstIsAlone' <=> W!TheFirstIsAlone
      /\ W!FlagAndAddress' <=> W!FlagAndAddress
  BY <1>1 DEF W!CallsHaveForms, W!OneOverThePrimary, W!TheFirstIsAlone, W!InFlight, W!Linked,
              W!FlagAndAddress, W!Settled, W!Primaries
<1>4. W!UnlinkingIsTrue => W!UnlinkingIsTrue'
  BY <1>1 DEF W!UnlinkingIsTrue
<1>5. W!OneIsActive'
  BY <1>1 DEF W!OneIsActive
<1>6. QED BY <1>1, <1>2, <1>3, <1>4, <1>5 DEF W!WalletInv

LEMMA StepWallets ==
    W!TypeOK /\ W!WalletInv /\ [W!Next]_(W!vars) => (W!TypeOK /\ W!WalletInv)'
<1> SUFFICES ASSUME W!TypeOK, W!WalletInv, [W!Next]_(W!vars)
             PROVE  W!TypeOK' /\ W!WalletInv'
  OBVIOUS
<1>1. CASE UNCHANGED W!vars
  <2>1. UNCHANGED <<v1, v2, v3, v4, v5>>
    BY <1>1 DEF W!vars
  <2>2. W!TypeOK'
    BY <2>1 DEF W!TypeOK
  <2>3. /\ W!CallsHaveForms' <=> W!CallsHaveForms
        /\ W!OneOverThePrimary' <=> W!OneOverThePrimary
        /\ W!TheFirstIsAlone' <=> W!TheFirstIsAlone
        /\ W!FlagAndAddress' <=> W!FlagAndAddress
    BY <2>1 DEF W!CallsHaveForms, W!OneOverThePrimary, W!TheFirstIsAlone, W!InFlight, W!Linked,
                W!FlagAndAddress, W!Settled, W!Primaries
  <2>4. (W!UnlinkingIsTrue' <=> W!UnlinkingIsTrue) /\ (W!OneIsActive' <=> W!OneIsActive)
    BY <2>1 DEF W!UnlinkingIsTrue, W!OneIsActive, W!Active, W!Linked
  <2>5. QED BY <2>1, <2>2, <2>3, <2>4 DEF W!WalletInv
<1>2. CASE W!Next
  BY <1>2, Beginning, StepLinkCounts, StepInsert, StepSetAddress, StepUnsetPrimary, StepSaveEntity,
     StepUnlinkCounts, StepPromote, StepBreak, StepVerifyEmail DEF W!Next
<1>3. QED BY <1>1, <1>2

LEMMA WalletsSubject ==
    /\ MCInit /\ subject = "wallets" => W!Init
    /\ [MCNext]_all => UNCHANGED subject
    /\ [MCNext]_all /\ subject = "wallets" => [W!Next]_(W!vars)
<1>1. MCInit /\ subject = "wallets" => W!Init
  BY DEF MCInit
<1>2. [MCNext]_all => UNCHANGED subject
  BY DEF MCNext, all
<1>3. [MCNext]_all /\ subject = "wallets" => [W!Next]_(W!vars)
  BY DEF MCNext, all, W!vars
<1>4. QED BY <1>1, <1>2, <1>3

(* When every call has returned and none clashed, nothing is unsettled. *)
LEMMA PrimaryFollows == W!TypeOK /\ W!WalletInv => W!PrimaryIsTrue
<1> SUFFICES ASSUME W!TypeOK, W!WalletInv, W!InFlight = {}, ~v5, W!Linked # {}
             PROVE  /\ W!Cardinality(W!Primaries) = 1 /\ W!Primaries = {v2}
                    /\ v3 \/ W!Active # {}
  BY DEF W!PrimaryIsTrue
<1>1. \A c \in Calls : v4[c].pc = "idle"
  BY DEF W!InFlight
<1>2. W!Primaries = {v2}
  BY <1>1 DEF W!WalletInv, W!FlagAndAddress, W!Settled
<1>3. v3 \/ W!Active # {}
  BY DEF W!WalletInv, W!OneIsActive
<1>4. W!Cardinality(W!Primaries) = 1
  BY <1>2, FS_Singleton DEF W!Cardinality, Cardinality
<1>5. QED BY <1>2, <1>3, <1>4

(* However linking, unlinking, delegation and the choice of a primary      *)
(* wallet overlap, and wherever a call breaks off: when none is in flight, *)
(* and no two met over the primary wallet nor one broke off over it, a     *)
(* user with wallets has one primary wallet, whose address is the user's,  *)
(* and has an active one unless the e-mail is verified                     *)
(* (WalletAuthService, DelegationService). *)
THEOREM PrimaryStaysTrue == MCSpec => []PrimaryIsTrue
<1> DEFINE Inv == subject = "wallets" => W!TypeOK /\ W!WalletInv
<1>1. MCInit => Inv
  BY WalletsSubject, InitWallets
<1>2. Inv /\ [MCNext]_all => Inv'
  BY WalletsSubject, StepWallets
<1>3. Inv => PrimaryIsTrue
  BY PrimaryFollows DEF PrimaryIsTrue
<1>4. QED
  BY <1>1, <1>2, <1>3, PTL DEF MCSpec
=============================================================================
