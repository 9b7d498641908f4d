---------------------------- MODULE ServiceProofs ---------------------------
(***************************************************************************)
(* Proofs about the result cache, session recovery, the routing of         *)
(* requests to providers and the ingestion of events.  The properties are  *)
(* those of Services.cfg; the variables v1 to v9 stand for those of the    *)
(* service as MCServices instantiates it.                                  *)
(***************************************************************************)
EXTENDS MCServices, FiniteSetTheorems, WellFoundedInduction, TLAPS

-----------------------------------------------------------------------------
(* The result cache (C): v1 is upstream, v2 entry, v3 versions, v4 job,    *)
(* v5 cleaner, v6 late, v7 bare. *)

LEMMA InitCache == C!Init => C!TypeOK /\ C!EntriesAreFresh
BY ServicesAssumption DEF C!Init, C!TypeOK, C!EntriesAreFresh, C!None, C!Idle

(* The forms of an entry, of a job and of an invalidation. *)
LEMMA CacheShapes ==
    ASSUME C!TypeOK
    PROVE  /\ \A j \in Jobs :
                 /\ v2[j] # C!None => v2[j].kind \in {"result", "warm"}
                 /\ v2[j].kind = "result" => v2[j] # C!None /\ v2[j].basis \in 0..MaxUpstream
                 /\ v4[j] = C!Idle <=> v4[j].pc = "idle"
                 /\ v4[j].pc \in {"idle", "run", "drop", "version"}
                 /\ v4[j].pc = "run" => v4[j].basis \in 0..MaxUpstream
           /\ \A c \in Cleaners :
                 /\ v5[c] = C!Idle <=> v5[c].pc = "idle"
                 /\ v5[c].pc \in {"idle", "list", "delete"}
                 /\ v5[c].pc # "idle" => v5[c].kind \in C!Kinds
                 /\ v5[c].pc = "delete" => v5[c].keys \subseteq Jobs /\ v5[c].records \subseteq Jobs
BY DEF C!TypeOK, C!None, C!Entry, C!Idle, C!Kinds

(* A step of one job changes nothing but its own entry, record and state. *)
LEMMA StepOfJob ==
    ASSUME C!TypeOK, C!EntriesAreFresh, NEW j \in Jobs,
           \/ C!Check(j) \/ C!DropExpired(j) \/ C!Store(j) \/ C!NotStored(j)
           \/ C!SetVersion(j) \/ C!Warm(j) \/ C!Expire(j)
    PROVE  C!TypeOK' /\ C!EntriesAreFresh'
<1> USE CacheShapes DEF C!TypeOK, C!Busy
<1>1. C!TypeOK'
  <2>1. CASE C!Check(j)
    BY <2>1 DEF C!Check
  <2>2. CASE C!DropExpired(j)
    BY <2>2 DEF C!DropExpired
  <2>3. CASE C!Store(j)
    BY <2>3 DEF C!Store, C!Entry
  <2>4. CASE C!NotStored(j)
    BY <2>4 DEF C!NotStored
  <2>5. CASE C!SetVersion(j)
    BY <2>5 DEF C!SetVersion
  <2>6. CASE C!Warm(j)
    BY <2>6 DEF C!Warm, C!Entry
  <2>7. CASE C!Expire(j)
    BY <2>7 DEF C!Expire
  <2>8. QED BY <2>1, <2>2, <2>3, <2>4, <2>5, <2>6, <2>7
<1>2. /\ UNCHANGED <<v1, v5>>
      /\ \A i \in Jobs \ {j} : v2'[i] = v2[i] /\ v4'[i] = v4[i]
      /\ \A i \in Jobs \ {j} : (i \in v3' <=> i \in v3) /\ (i \in v6' <=> i \in v6) /\ (i \in v7' <=> i \in v7)
  BY DEF C!Check, C!DropExpired, C!Store, C!NotStored, C!SetVersion, C!Warm, C!Expire
<1>3. v2'[j].kind = "result" /\ v2'[j].basis < v1 /\ j \notin v6' => v2'[j] = v2[j] /\ j \notin v6
  BY DEF C!Check, C!DropExpired, C!Store, C!NotStored, C!SetVersion, C!Warm, C!Expire, C!None
<1>4. v2'[j] # C!None /\ j \notin v7' => j \in v3' \/ v4'[j].pc = "version"
  BY DEF C!EntriesAreFresh, C!Check, C!DropExpired, C!Store, C!NotStored, C!SetVersion, C!Warm,
         C!Expire, C!None, C!Idle
<1>5. QED
  BY <1>1, <1>2, <1>3, <1>4 DEF C!EntriesAreFresh, C!WillDelete

(* A step of an invalidation: what it gives up is deleted, or let go       *)
(* (late, bare).                                                           *)
LEMMA StepOfCleaner ==
    ASSUME C!TypeOK, C!EntriesAreFresh, NEW c \in Cleaners,
           \/ C!UpstreamCompletes(c) \/ \E kind \in C!Kinds : C!Invalidate(c, kind)
           \/ C!List(c) \/ C!Delete(c) \/ C!DeleteAll(c) \/ C!Cleaned(c) \/ C!CleanerBreaks(c)
    PROVE  C!TypeOK' /\ C!EntriesAreFresh'
<1> USE ServicesAssumption, CacheShapes DEF C!TypeOK
<1>1. CASE C!UpstreamCompletes(c)
  <2>1. C!TypeOK'
    BY <1>1 DEF C!UpstreamCompletes, C!Free, C!Kinds
  <2>2. \A j \in Jobs : C!WillDelete(c, j)' /\ v5'[c].kind = "dependents"
    BY <1>1 DEF C!UpstreamCompletes, C!WillDelete, C!Free, C!Idle
  <2>3. QED
    BY <1>1, <2>1, <2>2 DEF C!UpstreamCompletes, C!EntriesAreFresh
<1>2. ASSUME NEW kind \in C!Kinds, C!Invalidate(c, kind) PROVE C!TypeOK' /\ C!EntriesAreFresh'
  <2>1. C!TypeOK'
    BY <1>2 DEF C!Invalidate, C!Free
  <2>2. \A d \in Cleaners, j \in Jobs : C!WillDelete(d, j) => d # c /\ v5'[d] = v5[d]
    BY <1>2 DEF C!Invalidate, C!WillDelete, C!Free
  <2>3. QED
    BY <1>2, <2>1, <2>2 DEF C!Invalidate, C!EntriesAreFresh, C!WillDelete
<1>3. CASE C!List(c)
  <2>1. C!TypeOK'
    BY <1>3 DEF C!List, C!Present
  <2>2. v5'[c].pc = "delete" /\ v5'[c].kind = v5[c].kind /\ v5'[c] # C!Idle
    BY <1>3 DEF C!List, C!Idle
  <2>3. ASSUME NEW j \in Jobs, v2[j].kind = "result", v5[c].kind = "dependents" PROVE j \in v5'[c].keys
    BY <1>3, <2>3 DEF C!List, C!Present, C!None
  <2>4. \A d \in Cleaners \ {c} : v5'[d] = v5[d]
    BY <1>3 DEF C!List
  <2>5. QED
    BY <1>3, <2>1, <2>2, <2>3, <2>4 DEF C!List, C!EntriesAreFresh, C!WillDelete
<1>4. CASE C!Delete(c)
  <2>1. PICK j \in v5[c].keys : /\ v2' = [v2 EXCEPT ![j] = C!None]
                                /\ v5' = [v5 EXCEPT ![c].keys = @ \ {j}]
    BY <1>4 DEF C!Delete
  <2>2. j \in Jobs
    BY <1>4 DEF C!Delete
  <2>3. C!TypeOK'
    <3>1. PICK x \in [pc : {"delete"}, kind : C!Kinds, keys : SUBSET Jobs, records : SUBSET Jobs] :
             x = v5[c]
      BY <1>4 DEF C!Delete, C!Idle
    <3>2. PICK K : K = x.keys \ {j}
      OBVIOUS
    <3>3. PICK y : y = [x EXCEPT !.keys = K]
      OBVIOUS
    <3>4. y \in [pc : {"delete"}, kind : C!Kinds, keys : SUBSET Jobs, records : SUBSET Jobs]
      BY <3>1, <3>2, <3>3
    <3>5. v5' = [v5 EXCEPT ![c] = y]
      BY <2>1, <3>1, <3>2, <3>3
    <3>6. v2' = [v2 EXCEPT ![j] = C!None]
      BY <2>1
    <3>7. UNCHANGED <<v1, v3, v4, v6, v7>>
      BY <1>4 DEF C!Delete
    <3>8. QED BY <2>2, <3>4, <3>5, <3>6, <3>7
  <2>4. /\ \A d \in Cleaners \ {c} : v5'[d] = v5[d]
        /\ v5'[c].pc = v5[c].pc /\ v5'[c].kind = v5[c].kind /\ v5'[c].keys = v5[c].keys \ {j}
        /\ v5'[c] # C!Idle
    BY <1>4, <2>1 DEF C!Delete, C!Idle
  <2>5. \A i \in Jobs \ {j} : v2'[i] = v2[i]
    BY <2>1, <2>2
  <2>6. v2'[j] = C!None
    BY <2>1, <2>2
  <2>7. C!None.kind # "result"
    BY DEF C!None
  <2>8. QED
    BY <1>4, <2>3, <2>4, <2>5, <2>6, <2>7 DEF C!Delete, C!EntriesAreFresh, C!WillDelete
<1>5. CASE C!DeleteAll(c)
  <2>1. C!TypeOK'
    BY <1>5 DEF C!DeleteAll
  <2>2. v5[c].kind = "type" /\ \A d \in Cleaners \ {c} : v5'[d] = v5[d]
    BY <1>5 DEF C!DeleteAll
  <2>3. \A i \in Jobs : v2'[i] = IF i \in v5[c].keys THEN C!None ELSE v2[i]
    BY <1>5 DEF C!DeleteAll
  <2>4. v3' = v3 \ v5[c].records /\ v7' = v7 \cup (v5[c].records \ v5[c].keys)
    BY <1>5 DEF C!DeleteAll
  <2>5. C!None.kind # "result"
    BY DEF C!None
  <2>6. QED
    BY <1>5, <2>1, <2>2, <2>3, <2>4, <2>5 DEF C!DeleteAll, C!EntriesAreFresh, C!WillDelete
<1>6. CASE C!Cleaned(c)
  <2>1. C!TypeOK'
    BY <1>6 DEF C!Cleaned
  <2>2. \A d \in Cleaners, j \in Jobs : C!WillDelete(d, j) => d # c /\ v5'[d] = v5[d]
    BY <1>6 DEF C!Cleaned, C!WillDelete
  <2>3. QED
    BY <1>6, <2>1, <2>2 DEF C!Cleaned, C!EntriesAreFresh, C!WillDelete
<1>7. CASE C!CleanerBreaks(c)
  <2>1. C!TypeOK'
    BY <1>7 DEF C!CleanerBreaks
  <2>2. \A d \in Cleaners \ {c} : v5'[d] = v5[d]
    BY <1>7 DEF C!CleanerBreaks
  <2>3. \A j \in Jobs : C!WillDelete(c, j) => j \in v6'
    BY <1>7 DEF C!CleanerBreaks, C!WillDelete
  <2>4. QED
    BY <1>7, <2>1, <2>2, <2>3 DEF C!CleanerBreaks, C!EntriesAreFresh, C!WillDelete
<1>8. QED BY <1>1, <1>2, <1>3, <1>4, <1>5, <1>6, <1>7

LEMMA StepCache ==
    C!TypeOK /\ C!EntriesAreFresh /\ [C!Next]_(C!vars) => (C!TypeOK /\ C!EntriesAreFresh)'
<1> SUFFICES ASSUME C!TypeOK, C!EntriesAreFresh, [C!Next]_(C!vars)
             PROVE  C!TypeOK' /\ C!EntriesAreFresh'
  OBVIOUS
<1>1. CASE UNCHANGED C!vars
  BY <1>1 DEF C!vars, C!TypeOK, C!EntriesAreFresh, C!WillDelete
<1>2. QED
  BY <1>1, StepOfJob, StepOfCleaner DEF C!Next

LEMMA CacheSubject ==
    /\ MCInit /\ subject = "cache" => C!Init
    /\ [MCNext]_all => UNCHANGED subject
    /\ [MCNext]_all /\ subject = "cache" => [C!Next]_(C!vars)
<1>1. MCInit /\ subject = "cache" => C!Init
  BY DEF MCInit
<1>2. [MCNext]_all => UNCHANGED subject
  BY DEF MCNext, all
<1>3. [MCNext]_all /\ subject = "cache" => [C!Next]_(C!vars)
  BY DEF MCNext, all, C!vars
<1>4. QED BY <1>1, <1>2, <1>3

(* Whatever invalidations, jobs, warmers and expiries overlap, an entry    *)
(* computed from an upstream result that was replaced is about to be       *)
(* deleted, unless it was stored after that or its invalidation broke off; *)
(* and it has a version record unless that was refused or deleted          *)
(* (CacheService, the invalidation listener, the Redis backend). *)
THEOREM EntriesStayFresh == MCSpec => []EntriesAreFresh
<1> DEFINE Inv == subject = "cache" => C!TypeOK /\ C!EntriesAreFresh
<1>1. MCInit => Inv
  BY CacheSubject, InitCache
<1>2. Inv /\ [MCNext]_all => Inv'
  BY CacheSubject, StepCache
<1>3. Inv => EntriesAreFresh
  BY DEF EntriesAreFresh
<1>4. QED
  BY <1>1, <1>2, <1>3, PTL DEF MCSpec

-----------------------------------------------------------------------------
(* Signing in and recovery (A): v1 is challenge, v2 session, v3 stored,    *)
(* v4 call, v5 token, v6 tried, v7 overlap. *)

LEMMA InitRecovery == A!Init => A!TypeOK /\ A!RecoveryInv
<1> SUFFICES ASSUME A!Init PROVE A!TypeOK /\ A!RecoveryInv
  OBVIOUS
<1> USE ServicesAssumption DEF A!Init
<1>1. A!TypeOK
  BY DEF A!TypeOK
<1>2. A!ChallengesAreSpent /\ A!CodesComeFirst /\ A!OneCompletes
  BY DEF A!ChallengesAreSpent, A!CodesComeFirst, A!OneCompletes, A!Completing, A!Idle
<1>3. A!CodesAreCounted
  BY DEF A!CodesAreCounted
<1>4. QED BY <1>1, <1>2, <1>3 DEF A!RecoveryInv

(* The forms of a request and of a session. *)
LEMMA RecoveryShapes ==
    ASSUME A!TypeOK
    PROVE  /\ \A c \in Calls :
                 /\ v4[c] = A!Idle <=> v4[c].pc = "idle"
                 /\ v4[c].pc \in {"idle", "user", "code", "issue", "wallet", "save"}
                 /\ v4[c].pc \in {"user", "save"} => v4[c].by \in Challenges
                 /\ v4[c].pc \in {"code", "issue", "wallet", "save"} => v4[c].session \in Sessions
           /\ \A s \in Sessions : v2[s] # A!Idle =>
                 v2[s] \in [attempts : Nat, verified : BOOLEAN, expired : BOOLEAN]
           /\ \A t \in v5 : t.by \in Challenges /\ t.session \in Sessions \cup {"none"}
BY DEF A!TypeOK, A!Idle

LEMMA StepRecoveryTypes ==
    A!TypeOK /\ A!RecoveryInv /\ [A!Next]_(A!vars) => A!TypeOK'
<1> SUFFICES ASSUME A!TypeOK, A!RecoveryInv, [A!Next]_(A!vars)
             PROVE  A!TypeOK'
  OBVIOUS
<1> USE RecoveryShapes DEF A!TypeOK, A!Return, A!Start, A!Issued, A!Consumed
<1>1. ASSUME NEW ch \in Challenges, A!IssueChallenge(ch) \/ A!ChallengeExpires(ch) PROVE A!TypeOK'
  BY <1>1 DEF A!IssueChallenge, A!ChallengeExpires
<1>2. ASSUME NEW s \in Sessions,
             A!InitiateEmailRecovery(s) \/ A!SessionExpires(s) \/ A!SessionDropped(s) \/ A!CancelRecovery(s)
      PROVE  A!TypeOK'
  <2>1. CASE A!InitiateEmailRecovery(s)
    BY <2>1 DEF A!InitiateEmailRecovery, A!NewSession
  <2>2. CASE A!SessionExpires(s)
    <3>1. PICK x \in [attempts : Nat, verified : BOOLEAN, expired : BOOLEAN] :
             x = [v2[s] EXCEPT !.expired = TRUE]
      <4>1. PICK yes \in BOOLEAN : yes = TRUE
        OBVIOUS
      <4>2. PICK y \in [attempts : Nat, verified : BOOLEAN, expired : BOOLEAN] : y = v2[s]
        BY <2>2 DEF A!SessionExpires
      <4>3. [y EXCEPT !.expired = yes] \in [attempts : Nat, verified : BOOLEAN, expired : BOOLEAN]
        OBVIOUS
      <4>4. QED BY <4>1, <4>2, <4>3
    <3>2. v2' = [v2 EXCEPT ![s] = x]
      BY <2>2, <3>1 DEF A!SessionExpires
    <3>3. QED BY <2>2, <3>1, <3>2 DEF A!SessionExpires
  <2>3. CASE A!SessionDropped(s) \/ A!CancelRecovery(s)
    BY <2>3 DEF A!SessionDropped, A!CancelRecovery
  <2>4. QED BY <1>2, <2>1, <2>2, <2>3
<1>3. ASSUME NEW c \in Calls, A!SignIn(c) \/ A!CodeWrong(c) \/ A!RecoverySaved(c) PROVE A!TypeOK'
  BY <1>3 DEF A!SignIn, A!CodeWrong, A!RecoverySaved
<1>4. ASSUME NEW c \in Calls, A!CodeRight(c) PROVE A!TypeOK'
  <2>1. v4' \in [Calls -> {A!Idle} \cup [pc : {"code", "issue", "wallet"}, session : Sessions]
                                  \cup [pc : {"user"}, by : Challenges]
                                  \cup [pc : {"save"}, session : Sessions, by : Challenges]]
    <3>1. [v4[c] EXCEPT !.pc = "issue"] \in [pc : {"code", "issue", "wallet"}, session : Sessions]
      BY <1>4 DEF A!CodeRight, A!Idle
    <3>2. v4' = [v4 EXCEPT ![c] = [v4[c] EXCEPT !.pc = "issue"]]
      BY <1>4 DEF A!CodeRight
    <3>3. QED BY <3>1, <3>2
  <2>2. v2' \in [Sessions -> {A!Idle} \cup [attempts : Nat, verified : BOOLEAN, expired : BOOLEAN]]
    <3>1. PICK s \in Sessions : s = v4[c].session
      BY <1>4 DEF A!CodeRight
    <3>2. v2[s] \in [attempts : Nat, verified : BOOLEAN, expired : BOOLEAN]
      BY <1>4, <3>1 DEF A!CodeRight, A!RecoveryInv, A!CodesComeFirst
    <3>3. [v2[s] EXCEPT !.verified = TRUE] \in [attempts : Nat, verified : BOOLEAN, expired : BOOLEAN]
      BY <3>2
    <3>4. v2' = [v2 EXCEPT ![s] = [v2[s] EXCEPT !.verified = TRUE]]
      BY <1>4, <3>1 DEF A!CodeRight
    <3>5. QED BY <3>3, <3>4
  <2>3. QED BY <1>4, <2>1, <2>2 DEF A!CodeRight
<1>5. ASSUME NEW c \in Calls, NEW s \in Sessions, A!VerifyCode(c, s) PROVE A!TypeOK'
  <2>1. CASE v2[s] # A!Idle
    BY <1>5, <2>1 DEF A!VerifyCode
  <2>2. CASE v2[s] = A!Idle
    BY <1>5, <2>2 DEF A!VerifyCode, A!Idle
  <2>3. QED BY <2>1, <2>2
<1>6. ASSUME NEW c \in Calls, NEW s \in Sessions, A!CompleteRecovery(c, s) PROVE A!TypeOK'
  BY <1>6 DEF A!CompleteRecovery
<1>7. ASSUME NEW c \in Calls, NEW ch \in Challenges, A!IssueForRecovery(c, ch) PROVE A!TypeOK'
  BY <1>7 DEF A!IssueForRecovery
<1>8. ASSUME NEW c \in Calls, NEW ch \in Challenges, NEW valid \in BOOLEAN, A!VerifySignature(c, ch, valid)
      PROVE  A!TypeOK'
  BY <1>8 DEF A!VerifySignature
<1>9. ASSUME NEW c \in Calls, NEW ch \in Challenges, NEW valid \in BOOLEAN, A!RecoverySigned(c, ch, valid)
      PROVE  A!TypeOK'
  BY <1>9 DEF A!RecoverySigned
<1>10. CASE UNCHANGED A!vars
  BY <1>10 DEF A!vars
<1>11. QED
  BY <1>1, <1>2, <1>3, <1>4, <1>5, <1>6, <1>7, <1>8, <1>9, <1>10 DEF A!Next

(* No token without a challenge of its own. *)
LEMMA StepChallenges ==
    A!TypeOK /\ A!RecoveryInv /\ [A!Next]_(A!vars) => A!ChallengesAreSpent'
<1> SUFFICES ASSUME A!TypeOK, A!RecoveryInv, [A!Next]_(A!vars)
             PROVE  A!ChallengesAreSpent'
  OBVIOUS
<1> USE RecoveryShapes DEF A!TypeOK, A!Return, A!Start, A!Issued, A!Consumed, A!RecoveryInv,
        A!ChallengesAreSpent
<1>1. CASE /\ \A ch \in Challenges : v1[ch] = "gone" => v1'[ch] = "gone"
           /\ \A c \in Calls : v4'[c].pc = "user" => v4'[c] = v4[c]
           /\ v5' \subseteq v5
  BY <1>1
<1>2. ASSUME NEW ch \in Challenges, A!IssueChallenge(ch) \/ A!ChallengeExpires(ch)
      PROVE  A!ChallengesAreSpent'
  BY <1>1, <1>2 DEF A!IssueChallenge, A!ChallengeExpires
<1>3. ASSUME NEW s \in Sessions,
             A!InitiateEmailRecovery(s) \/ A!SessionExpires(s) \/ A!SessionDropped(s) \/ A!CancelRecovery(s)
      PROVE  A!ChallengesAreSpent'
  BY <1>1, <1>3 DEF A!InitiateEmailRecovery, A!SessionExpires, A!SessionDropped, A!CancelRecovery
<1>4. ASSUME NEW c \in Calls, A!SignIn(c) PROVE A!ChallengesAreSpent'
  <2>1. v4'[c].pc = "idle" /\ \A d \in Calls \ {c} : v4'[d] = v4[d]
    BY <1>4 DEF A!SignIn, A!Idle
  <2>2. QED BY <1>4, <2>1 DEF A!SignIn
<1>5. ASSUME NEW c \in Calls, A!CodeWrong(c) \/ A!CodeRight(c) \/ A!RecoverySaved(c)
      PROVE  A!ChallengesAreSpent'
  BY <1>1, <1>5 DEF A!CodeWrong, A!CodeRight, A!RecoverySaved, A!Idle
<1>6. ASSUME NEW c \in Calls, NEW s \in Sessions, A!VerifyCode(c, s) \/ A!CompleteRecovery(c, s)
      PROVE  A!ChallengesAreSpent'
  BY <1>1, <1>6 DEF A!VerifyCode, A!CompleteRecovery
<1>7. ASSUME NEW c \in Calls, NEW ch \in Challenges, A!IssueForRecovery(c, ch)
      PROVE  A!ChallengesAreSpent'
  BY <1>1, <1>7 DEF A!IssueForRecovery, A!Idle
<1>8. ASSUME NEW c \in Calls, NEW ch \in Challenges, NEW valid \in BOOLEAN, A!VerifySignature(c, ch, valid)
      PROVE  A!ChallengesAreSpent'
  <2>1. CASE v1[ch] = "live" /\ valid
    <3>1. v4'[c] = [pc |-> "user", by |-> ch] /\ \A d \in Calls \ {c} : v4'[d] = v4[d]
      BY <1>8, <2>1 DEF A!VerifySignature
    <3>2. v1'[ch] = "gone" /\ \A k \in Challenges \ {ch} : v1'[k] = v1[k]
      BY <1>8, <2>1 DEF A!VerifySignature
    <3>3. v5' = v5
      BY <1>8 DEF A!VerifySignature
    <3>4. QED BY <2>1, <3>1, <3>2, <3>3
  <2>2. CASE ~(v1[ch] = "live" /\ valid)
    BY <1>1, <1>8, <2>2 DEF A!VerifySignature
  <2>3. QED BY <2>1, <2>2
<1>9. ASSUME NEW c \in Calls, NEW ch \in Challenges, NEW valid \in BOOLEAN, A!RecoverySigned(c, ch, valid)
      PROVE  A!ChallengesAreSpent'
  <2>1. CASE v1[ch] = "live" /\ valid
    <3>1. v4'[c].pc = "save" /\ \A d \in Calls \ {c} : v4'[d] = v4[d]
      BY <1>9, <2>1 DEF A!RecoverySigned
    <3>2. v1'[ch] = "gone" /\ \A k \in Challenges \ {ch} : v1'[k] = v1[k]
      BY <1>9, <2>1 DEF A!RecoverySigned
    <3>3. v5' = v5 \cup {[by |-> ch, session |-> v4[c].session]}
      BY <1>9, <2>1 DEF A!RecoverySigned
    <3>4. QED BY <2>1, <3>1, <3>2, <3>3
  <2>2. CASE ~(v1[ch] = "live" /\ valid)
    BY <1>1, <1>9, <2>2 DEF A!RecoverySigned, A!Idle
  <2>3. QED BY <2>1, <2>2
<1>10. CASE UNCHANGED A!vars
  BY <1>1, <1>10 DEF A!vars
<1> HIDE RecoveryShapes DEF A!TypeOK, A!Return, A!Start, A!Issued, A!Consumed, A!RecoveryInv,
        A!ChallengesAreSpent
<1>11. QED
  BY <1>2, <1>3, <1>4, <1>5, <1>6, <1>7, <1>8, <1>9, <1>10 DEF A!Next

(* What a step does to the sessions: an object appears or changes, and the *)
(* codes are counted in it. *)
LEMMA SessionMoves ==
    ASSUME A!TypeOK, A!RecoveryInv, [A!Next]_(A!vars)
    PROVE  /\ \A s \in Sessions : v2[s] # A!Idle =>
                 /\ v2'[s] # A!Idle
                 /\ v2[s].verified => v2'[s].verified
           /\ A!CodesAreCounted'
<1> USE ServicesAssumption, RecoveryShapes DEF A!TypeOK, A!RecoveryInv, A!CodesAreCounted
<1> DEFINE Goal == /\ \A s \in Sessions : v2[s] # A!Idle =>
                         /\ v2'[s] # A!Idle
                         /\ v2[s].verified => v2'[s].verified
                   /\ A!CodesAreCounted'
<1>1. CASE UNCHANGED <<v2, v6>> /\ v3' \subseteq v3
  BY <1>1
<1>2. ASSUME NEW s \in Sessions, A!InitiateEmailRecovery(s) PROVE Goal
  <2>1. v2'[s] = A!NewSession /\ \A r \in Sessions \ {s} : v2'[r] = v2[r]
    BY <1>2 DEF A!InitiateEmailRecovery
  <2>2. A!NewSession # A!Idle /\ A!NewSession.attempts = 0
    BY DEF A!NewSession, A!Idle
  <2>3. QED BY <1>2, <2>1, <2>2 DEF A!InitiateEmailRecovery
<1>3. ASSUME NEW s \in Sessions, A!SessionExpires(s) PROVE Goal
  <2>1. v2[s] \in [attempts : Nat, verified : BOOLEAN, expired : BOOLEAN]
    BY <1>3 DEF A!SessionExpires
  <2>2. /\ v2'[s] = [v2[s] EXCEPT !.expired = TRUE]
        /\ \A r \in Sessions \ {s} : v2'[r] = v2[r]
    BY <1>3 DEF A!SessionExpires
  <2>3. /\ v2'[s].attempts = v2[s].attempts
        /\ v2[s].verified => v2'[s].verified
        /\ v2'[s] # A!Idle
    BY <2>1, <2>2 DEF A!Idle
  <2>4. QED BY <1>3, <2>2, <2>3 DEF A!SessionExpires
<1>4. ASSUME NEW c \in Calls, NEW s \in Sessions, A!VerifyCode(c, s) PROVE Goal
  <2>1. CASE v2[s].attempts < MaxCodeAttempts
    <3>1. v2[s] # A!Idle
      BY <1>4 DEF A!VerifyCode, A!Valid
    <3>2. v2[s] \in [attempts : Nat, verified : BOOLEAN, expired : BOOLEAN]
      BY <3>1
    <3>3. /\ v2'[s] = [v2[s] EXCEPT !.attempts = @ + 1]
          /\ \A r \in Sessions \ {s} : v2'[r] = v2[r] /\ v6'[r] = v6[r]
          /\ v6'[s] = v6[s] + 1
      BY <1>4, <2>1 DEF A!VerifyCode
    <3>4. /\ v2'[s].attempts = v2[s].attempts + 1
          /\ v2[s].verified => v2'[s].verified
          /\ v2'[s] # A!Idle
      BY <3>2, <3>3 DEF A!Idle
    <3>5. v3' = v3
      BY <1>4, <2>1 DEF A!VerifyCode
    <3>6. QED BY <2>1, <3>1, <3>2, <3>3, <3>4, <3>5
  <2>2. CASE ~(v2[s].attempts < MaxCodeAttempts)
    BY <1>1, <1>4, <2>2 DEF A!VerifyCode
  <2>3. QED BY <2>1, <2>2
<1>5. ASSUME NEW c \in Calls, A!CodeRight(c) PROVE Goal
  <2>1. PICK s \in Sessions : s = v4[c].session
    BY <1>5 DEF A!CodeRight
  <2>2. v2[s] \in [attempts : Nat, verified : BOOLEAN, expired : BOOLEAN]
    BY <1>5, <2>1 DEF A!CodeRight, A!CodesComeFirst
  <2>3. /\ v2'[s] = [v2[s] EXCEPT !.verified = TRUE]
        /\ \A r \in Sessions \ {s} : v2'[r] = v2[r]
    BY <1>5, <2>1 DEF A!CodeRight
  <2>4. v2[s] # A!Idle /\ v2'[s].attempts = v2[s].attempts /\ v2'[s].verified /\ v2'[s] # A!Idle
    BY <1>5, <2>1, <2>2, <2>3 DEF A!Idle, A!CodeRight, A!CodesComeFirst
  <2>5. v3' = v3 /\ v6' = v6
    BY <1>5 DEF A!CodeRight
  <2>6. A!CodesAreCounted'
    BY <2>3, <2>4, <2>5
  <2>7. \A r \in Sessions : v2[r] # A!Idle => v2'[r] # A!Idle /\ (v2[r].verified => v2'[r].verified)
    BY <2>3, <2>4
  <2>8. QED BY <2>6, <2>7
<1>6. CASE UNCHANGED A!vars
  BY <1>1, <1>6 DEF A!vars
<1>7. QED
  BY <1>1, <1>2, <1>3, <1>4, <1>5, <1>6
     DEF A!Next, A!IssueChallenge, A!ChallengeExpires, A!SessionDropped, A!CancelRecovery, A!SignIn,
         A!CodeWrong, A!RecoverySaved, A!CompleteRecovery, A!IssueForRecovery, A!VerifySignature,
         A!RecoverySigned

(* A code comes before a completion, and a completion before its token. *)
LEMMA StepCodesComeFirst ==
    A!TypeOK /\ A!RecoveryInv /\ [A!Next]_(A!vars) => A!CodesComeFirst'
<1> SUFFICES ASSUME A!TypeOK, A!RecoveryInv, [A!Next]_(A!vars)
             PROVE  A!CodesComeFirst'
  OBVIOUS
<1> USE RecoveryShapes DEF A!TypeOK, A!RecoveryInv, A!CodesComeFirst, A!CodesAreCounted
<1>1. CASE /\ \A c \in Calls : v4'[c] = v4[c] \/ v4'[c].pc \in {"idle", "user", "issue"}
           /\ v5' \subseteq v5
  BY <1>1, SessionMoves
<1>2. ASSUME NEW c \in Calls, A!SignIn(c) PROVE A!CodesComeFirst'
  <2>1. \A d \in Calls : v4'[d] = v4[d] \/ v4'[d].pc = "idle"
    BY <1>2 DEF A!SignIn, A!Return, A!Idle
  <2>2. \A t \in v5' : t \in v5 \/ t.session = "none"
    BY <1>2 DEF A!SignIn
  <2>3. QED BY <2>1, <2>2, SessionMoves
<1>3. ASSUME NEW c \in Calls, NEW s \in Sessions, A!VerifyCode(c, s) PROVE A!CodesComeFirst'
  <2>1. \/ v4' = v4
        \/ /\ v4'[c] = [pc |-> "code", session |-> s]
           /\ \A d \in Calls \ {c} : v4'[d] = v4[d]
    BY <1>3 DEF A!VerifyCode, A!Start
  <2>2. v2[s] # A!Idle /\ v5' = v5
    BY <1>3 DEF A!VerifyCode, A!Valid
  <2>3. QED BY <2>1, <2>2, SessionMoves
<1>4. ASSUME NEW c \in Calls, NEW s \in Sessions, A!CompleteRecovery(c, s) PROVE A!CodesComeFirst'
  <2>1. /\ v4'[c] = [pc |-> "wallet", session |-> s]
        /\ \A d \in Calls \ {c} : v4'[d] = v4[d]
    BY <1>4 DEF A!CompleteRecovery, A!Start
  <2>2. v2[s] # A!Idle /\ v2[s].verified /\ v5' = v5
    BY <1>4 DEF A!CompleteRecovery, A!Valid
  <2>3. QED BY <2>1, <2>2, SessionMoves
<1>5. ASSUME NEW c \in Calls, NEW ch \in Challenges, NEW valid \in BOOLEAN, A!RecoverySigned(c, ch, valid)
      PROVE  A!CodesComeFirst'
  <2>1. CASE v1[ch] = "live" /\ valid
    <3>1. /\ v4'[c] = [pc |-> "save", session |-> v4[c].session, by |-> ch]
          /\ \A d \in Calls \ {c} : v4'[d] = v4[d]
      BY <1>5, <2>1 DEF A!RecoverySigned
    <3>2. v5' = v5 \cup {[by |-> ch, session |-> v4[c].session]}
      BY <1>5, <2>1 DEF A!RecoverySigned
    <3>3. v4[c].pc = "wallet"
      BY <1>5 DEF A!RecoverySigned
    <3>4. QED BY <3>1, <3>2, <3>3, SessionMoves
  <2>2. CASE ~(v1[ch] = "live" /\ valid)
    BY <1>1, <1>5, <2>2 DEF A!RecoverySigned, A!Return, A!Idle
  <2>3. QED BY <2>1, <2>2
<1>6. ASSUME NEW c \in Calls, A!CodeWrong(c) \/ A!CodeRight(c) \/ A!RecoverySaved(c)
      PROVE  A!CodesComeFirst'
  <2>1. CASE A!CodeWrong(c) \/ A!RecoverySaved(c)
    <3>1. v4' = [v4 EXCEPT ![c] = A!Idle] /\ v5' \subseteq v5
      BY <2>1 DEF A!CodeWrong, A!RecoverySaved, A!Return
    <3>2. A!Idle.pc = "idle"
      BY DEF A!Idle
    <3>3. QED BY <1>1, <3>1, <3>2
  <2>2. CASE A!CodeRight(c)
    <3>1. v4' = [v4 EXCEPT ![c].pc = "issue"] /\ v5' = v5 /\ v4[c].pc = "code"
      BY <2>2 DEF A!CodeRight
    <3>2. v4'[c].pc = "issue" /\ \A d \in Calls \ {c} : v4'[d] = v4[d]
      BY <3>1
    <3>3. QED BY <1>1, <3>1, <3>2
  <2>3. QED BY <1>6, <2>1, <2>2
<1>7. ASSUME NEW c \in Calls, NEW ch \in Challenges, NEW valid \in BOOLEAN, A!VerifySignature(c, ch, valid)
      PROVE  A!CodesComeFirst'
  BY <1>1, <1>7 DEF A!VerifySignature, A!Start
<1>8. ASSUME NEW c \in Calls, NEW ch \in Challenges, A!IssueForRecovery(c, ch) PROVE A!CodesComeFirst'
  BY <1>1, <1>8 DEF A!IssueForRecovery, A!Return, A!Idle
<1>9. ASSUME NEW ch \in Challenges, A!IssueChallenge(ch) \/ A!ChallengeExpires(ch) PROVE A!CodesComeFirst'
  BY <1>1, <1>9 DEF A!IssueChallenge, A!ChallengeExpires
<1>10. ASSUME NEW s \in Sessions,
              A!InitiateEmailRecovery(s) \/ A!SessionExpires(s) \/ A!SessionDropped(s) \/ A!CancelRecovery(s)
       PROVE  A!CodesComeFirst'
  BY <1>1, <1>10 DEF A!InitiateEmailRecovery, A!SessionExpires, A!SessionDropped, A!CancelRecovery
<1>11. CASE UNCHANGED A!vars
  BY <1>1, <1>11 DEF A!vars
<1> HIDE RecoveryShapes DEF A!TypeOK, A!RecoveryInv, A!CodesComeFirst, A!CodesAreCounted
<1>12. QED
  BY <1>2, <1>3, <1>4, <1>5, <1>6, <1>7, <1>8, <1>9, <1>10, <1>11 DEF A!Next

(* Who completes a session: one request alone, unless two overlapped. *)
LEMMA StepOneCompletes ==
    A!TypeOK /\ A!RecoveryInv /\ [A!Next]_(A!vars) => A!OneCompletes'
<1> SUFFICES ASSUME A!TypeOK, A!RecoveryInv, [A!Next]_(A!vars)
             PROVE  A!OneCompletes'
  OBVIOUS
<1> USE RecoveryShapes DEF A!TypeOK, A!RecoveryInv, A!OneCompletes
(* Nothing to do with completing, or only the session is gone. *)
<1>1. CASE /\ \A c \in Calls :
                 v4'[c] = v4[c] \/ {v4[c].pc, v4'[c].pc} \cap {"wallet", "save"} = {}
           /\ UNCHANGED v7
           /\ v3' \subseteq v3
           /\ \A t \in v5' : t \in v5 \/ t.session = "none"
  <2>1. ASSUME NEW c \in Calls
        PROVE  \/ v4'[c] = v4[c]
               \/ v4[c].pc \notin {"wallet", "save"} /\ v4'[c].pc \notin {"wallet", "save"}
    <3>1. v4'[c] = v4[c] \/ {v4[c].pc, v4'[c].pc} \cap {"wallet", "save"} = {}
      BY <1>1
    <3>2. QED BY <3>1
  <2>2. /\ \A s \in Sessions : A!Completing(s)' = A!Completing(s)
        /\ \A s \in Sessions : \A c \in A!Completing(s) : v4'[c] = v4[c]
    BY <2>1 DEF A!Completing
  <2>3. \A s \in Sessions \ {"none"} : \A t \in v5' : t.session = s => t \in v5
    BY <1>1
  <2>4. QED BY <1>1, <2>2, <2>3
<1>2. ASSUME NEW c \in Calls, NEW s \in Sessions, A!CompleteRecovery(c, s) PROVE A!OneCompletes'
  <2>1. /\ v4'[c] = [pc |-> "wallet", session |-> s] /\ v4[c].pc = "idle"
        /\ \A d \in Calls \ {c} : v4'[d] = v4[d]
    BY <1>2 DEF A!CompleteRecovery, A!Start
  <2>2. v5' = v5 /\ v3' = v3 /\ s \in v3 /\ v7 \subseteq v7'
    BY <1>2 DEF A!CompleteRecovery, A!Valid
  <2>3. s \notin v7' => A!Completing(s) = {}
    BY <1>2 DEF A!CompleteRecovery, A!Completing
  <2>4. \A r \in Sessions \ {s} : A!Completing(r)' = A!Completing(r)
    BY <2>1 DEF A!Completing
  <2>5. A!Completing(s)' = A!Completing(s) \cup {c}
    BY <2>1 DEF A!Completing
  <2>6. \A r \in Sessions : c \notin A!Completing(r)
    BY <2>1 DEF A!Completing
  <2>7. s \in Sessions \ (v7' \cup {"none"}) => \A t \in v5 : t.session # s
    BY <2>2, <2>3
  <2>8. ASSUME NEW r \in Sessions \ (v7' \cup {"none"}), r # s
        PROVE  /\ \A d, e \in A!Completing(r)' : d = e
               /\ \A t, u \in v5' : t.session = r /\ u.session = r => t = u
               /\ \A t \in v5' : t.session = r =>
                     \/ r \notin v3' /\ A!Completing(r)' = {}
                     \/ \E d \in A!Completing(r)' : v4'[d].pc = "save" /\ v4'[d].by = t.by
    <3>1. r \in Sessions \ (v7 \cup {"none"})
      BY <2>2, <2>8
    <3>2. \A d \in A!Completing(r) : v4'[d] = v4[d]
      BY <2>1, <2>6 DEF A!Completing
    <3>3. QED BY <2>2, <2>4, <2>8, <3>1, <3>2
  <2>9. QED BY <2>2, <2>3, <2>5, <2>7, <2>8
<1>3. ASSUME NEW c \in Calls, NEW ch \in Challenges, NEW valid \in BOOLEAN, A!RecoverySigned(c, ch, valid)
      PROVE  A!OneCompletes'
  <2>1. UNCHANGED <<v3, v7>> /\ v4[c].pc = "wallet"
    BY <1>3 DEF A!RecoverySigned
  <2>2. PICK s \in Sessions : s = v4[c].session
    BY <2>1
  <2>3. \A r \in Sessions \ {s} : c \notin A!Completing(r)
    BY <2>2 DEF A!Completing
  <2>4. c \in A!Completing(s)
    BY <2>1, <2>2 DEF A!Completing
  (* Alone, it finds no token of its session. *)
  <2>5. s \notin v7 \cup {"none"} =>
          (\A d \in A!Completing(s) : d = c) /\ \A t \in v5 : t.session # s
    BY <2>1, <2>4
  <2>6. CASE v1[ch] = "live" /\ valid
    <3>1. /\ v4'[c] = [pc |-> "save", session |-> s, by |-> ch]
          /\ \A d \in Calls \ {c} : v4'[d] = v4[d]
      BY <1>3, <2>2, <2>6 DEF A!RecoverySigned
    <3>2. v5' = v5 \cup {[by |-> ch, session |-> s]}
      BY <1>3, <2>2, <2>6 DEF A!RecoverySigned
    <3>3. \A r \in Sessions : A!Completing(r)' = A!Completing(r)
      BY <2>1, <2>2, <3>1 DEF A!Completing
    <3>4. \A r \in Sessions \ {s} : \A d \in A!Completing(r) : v4'[d] = v4[d]
      BY <2>3, <3>1 DEF A!Completing
    <3>5. QED BY <2>1, <2>3, <2>4, <2>5, <3>1, <3>2, <3>3, <3>4
  <2>7. CASE ~(v1[ch] = "live" /\ valid)
    <3>1. /\ v4'[c].pc = "idle" /\ v5' = v5
          /\ \A d \in Calls \ {c} : v4'[d] = v4[d]
      BY <1>3, <2>7 DEF A!RecoverySigned, A!Return, A!Idle
    <3>2. A!Completing(s)' = A!Completing(s) \ {c}
      BY <2>1, <3>1 DEF A!Completing
    <3>3. \A r \in Sessions \ {s} : A!Completing(r)' = A!Completing(r)
      BY <2>1, <2>2, <3>1 DEF A!Completing
    <3>4. \A r \in Sessions \ {s} : \A d \in A!Completing(r) : v4'[d] = v4[d]
      BY <2>3, <3>1 DEF A!Completing
    <3>5. QED BY <2>1, <2>5, <3>1, <3>2, <3>3, <3>4
  <2>8. QED BY <2>6, <2>7
<1>4. ASSUME NEW c \in Calls, A!RecoverySaved(c) PROVE A!OneCompletes'
  <2>1. v4[c].pc = "save" /\ UNCHANGED v7
    BY <1>4 DEF A!RecoverySaved
  <2>2. PICK s \in Sessions : s = v4[c].session
    BY <2>1
  <2>3. c \in A!Completing(s) /\ \A r \in Sessions \ {s} : c \notin A!Completing(r)
    BY <2>1, <2>2 DEF A!Completing
  <2>4. v4'[c].pc = "idle" /\ \A d \in Calls \ {c} : v4'[d] = v4[d]
    BY <1>4 DEF A!RecoverySaved, A!Return, A!Idle
  <2>5. A!Completing(s)' = A!Completing(s) \ {c}
    BY <2>4 DEF A!Completing
  <2>6. \A r \in Sessions \ {s} : A!Completing(r)' = A!Completing(r)
    BY <2>2, <2>4 DEF A!Completing
  <2>7. \A r \in Sessions \ {s} : \A d \in A!Completing(r) : v4'[d] = v4[d]
    BY <2>3, <2>4 DEF A!Completing
  <2>8. \/ v3' = v3 \ {s} /\ v5' = v5
        \/ v3' = v3 /\ v5' = v5 \ {[by |-> v4[c].by, session |-> s]}
    BY <1>4, <2>2 DEF A!RecoverySaved
  (* A token of the session is the one the request has just got. *)
  <2>9. s \notin v7 \cup {"none"} =>
          /\ \A d \in A!Completing(s) : d = c
          /\ \A t \in v5 : t.session = s => t.by = v4[c].by
    BY <2>1, <2>3
  <2>10. \A t \in v5 : t.session = s /\ t.by = v4[c].by => t = [by |-> v4[c].by, session |-> s]
    OBVIOUS
  <2>11. s \notin v7 \cup {"none"} =>
          /\ A!Completing(s)' = {}
          /\ s \notin v3' \/ \A t \in v5' : t.session # s
    BY <2>5, <2>8, <2>9, <2>10
  <2>12. QED BY <2>1, <2>6, <2>7, <2>8, <2>11
<1>5. ASSUME NEW s \in Sessions, A!InitiateEmailRecovery(s) PROVE A!OneCompletes'
  <2>1. v2[s] = A!Idle /\ UNCHANGED <<v4, v5, v7>> /\ v3' = v3 \cup {s}
    BY <1>5 DEF A!InitiateEmailRecovery
  <2>2. \A r \in Sessions : A!Completing(r)' = A!Completing(r)
    BY <2>1 DEF A!Completing
  <2>3. s # "none" => \A t \in v5 : t.session # s
    BY <2>1 DEF A!CodesComeFirst
  <2>4. QED BY <2>1, <2>2, <2>3
<1>6. ASSUME NEW c \in Calls, A!SignIn(c) \/ A!CodeWrong(c) \/ A!CodeRight(c) PROVE A!OneCompletes'
  BY <1>1, <1>6 DEF A!SignIn, A!CodeWrong, A!CodeRight, A!Return, A!Idle
<1>7. ASSUME NEW c \in Calls, NEW ch \in Challenges, NEW valid \in BOOLEAN, A!VerifySignature(c, ch, valid)
      PROVE  A!OneCompletes'
  BY <1>1, <1>7 DEF A!VerifySignature, A!Start
<1>8. ASSUME NEW c \in Calls, NEW ch \in Challenges, A!IssueForRecovery(c, ch) PROVE A!OneCompletes'
  BY <1>1, <1>8 DEF A!IssueForRecovery, A!Return, A!Idle
<1>9. ASSUME NEW ch \in Challenges, A!IssueChallenge(ch) \/ A!ChallengeExpires(ch) PROVE A!OneCompletes'
  BY <1>1, <1>9 DEF A!IssueChallenge, A!ChallengeExpires
<1>10. ASSUME NEW s \in Sessions, A!SessionExpires(s) \/ A!SessionDropped(s) \/ A!CancelRecovery(s)
       PROVE  A!OneCompletes'
  BY <1>1, <1>10 DEF A!SessionExpires, A!SessionDropped, A!CancelRecovery
<1>11. ASSUME NEW c \in Calls, NEW s \in Sessions, A!VerifyCode(c, s) PROVE A!OneCompletes'
  BY <1>1, <1>11 DEF A!VerifyCode, A!Start
<1>12. CASE UNCHANGED A!vars
  BY <1>1, <1>12 DEF A!vars
<1>13. QED
  BY <1>2, <1>3, <1>4, <1>5, <1>6, <1>7, <1>8, <1>9, <1>10, <1>11, <1>12 DEF A!Next

LEMMA RecoverySubject ==
    /\ MCInit /\ subject = "recovery" => A!Init
    /\ [MCNext]_all => UNCHANGED subject
    /\ [MCNext]_all /\ subject = "recovery" => [A!Next]_(A!vars)
<1>1. MCInit /\ subject = "recovery" => A!Init
  BY DEF MCInit
<1>2. [MCNext]_all => UNCHANGED subject
  BY DEF MCNext, all
<1>3. [MCNext]_all /\ subject = "recovery" => [A!Next]_(A!vars)
  BY DEF MCNext, all, A!vars
<1>4. QED BY <1>1, <1>2, <1>3

LEMMA TokensFollow == A!TypeOK /\ A!RecoveryInv => A!TokensAreEarned
<1> SUFFICES ASSUME A!TypeOK, A!RecoveryInv PROVE A!TokensAreEarned
  OBVIOUS
<1>1. \A t, u \in v5 : v5 # {} /\ t.session = u.session /\ t # u => t.session \in v7 \cup {"none"}
  BY RecoveryShapes DEF A!RecoveryInv, A!OneCompletes
<1>2. QED
  BY <1>1 DEF A!TokensAreEarned, A!RecoveryInv, A!ChallengesAreSpent, A!CodesAreCounted,
              A!CodesComeFirst

(* However many requests overlap, a challenge earns one token, a session   *)
(* looks at MAX_ATTEMPTS codes and earns one token, after a right code,    *)
(* unless two requests completed it at once (ChallengeService,             *)
(* WalletAuthService, SessionRecoveryService). *)
THEOREM TokensStayEarned == MCSpec => []TokensAreEarned
<1> DEFINE Inv == subject = "recovery" => A!TypeOK /\ A!RecoveryInv
<1>1. MCInit => Inv
  BY RecoverySubject, InitRecovery
<1>2. Inv /\ [MCNext]_all => Inv'
  BY RecoverySubject, StepRecoveryTypes, StepChallenges, SessionMoves, StepCodesComeFirst,
     StepOneCompletes DEF A!RecoveryInv
<1>3. Inv => TokensAreEarned
  BY TokensFollow DEF TokensAreEarned
<1>4. QED
  BY <1>1, <1>2, <1>3, PTL DEF MCSpec

-----------------------------------------------------------------------------
(* Routing (P): v1 is health, v2 breaker, v3 request, v4 execution,        *)
(* v5 down, v6 sound.  A breaker is ABreaker of its fields. *)

ABreaker(s, f, n, d) == [state |-> s, failures |-> f, successes |-> n, due |-> d]

Fine(s, f, n, d) ==
    /\ s \in {"CLOSED", "OPEN", "HALF_OPEN"} /\ f \in 0..FailureThreshold
    /\ n \in 0..SuccessThreshold /\ d \in BOOLEAN
    /\ s = "CLOSED" => f < FailureThreshold
    /\ s = "HALF_OPEN" => n < SuccessThreshold

(* What is true of a breaker at any time, and of its fields. *)
BreakerFine(b) ==
    /\ b \in P!Breaker
    /\ b.state = "CLOSED" => b.failures < FailureThreshold
    /\ b.state = "HALF_OPEN" => b.successes < SuccessThreshold

LEMMA BreakerRead ==
    \A s, f, n, d : /\ ABreaker(s, f, n, d).state = s
                    /\ ABreaker(s, f, n, d).failures = f
                    /\ ABreaker(s, f, n, d).successes = n
BY DEF ABreaker

LEMMA BreakerForm ==
    /\ \A b : BreakerFine(b) =>
          /\ b = ABreaker(b.state, b.failures, b.successes, b.due)
          /\ Fine(b.state, b.failures, b.successes, b.due)
    /\ \A s, f, n, d : Fine(s, f, n, d) => BreakerFine(ABreaker(s, f, n, d))
<1>1. ASSUME NEW b, BreakerFine(b)
      PROVE  /\ b = ABreaker(b.state, b.failures, b.successes, b.due)
             /\ Fine(b.state, b.failures, b.successes, b.due)
  BY <1>1 DEF BreakerFine, P!Breaker, ABreaker, Fine
<1>2. ASSUME NEW s, NEW f, NEW n, NEW d, Fine(s, f, n, d)
      PROVE  BreakerFine(ABreaker(s, f, n, d))
  <2>1. ABreaker(s, f, n, d) \in P!Breaker
    BY <1>2 DEF P!Breaker, ABreaker, Fine
  <2>2. QED BY <1>2, <2>1, BreakerRead DEF BreakerFine, Fine
<1>3. QED BY <1>1, <1>2

LEMMA BreakerEdit ==
    \A s, f, n, d, x : /\ [ABreaker(s, f, n, d) EXCEPT !.state = x] = ABreaker(x, f, n, d)
                       /\ [ABreaker(s, f, n, d) EXCEPT !.failures = x] = ABreaker(s, x, n, d)
                       /\ [ABreaker(s, f, n, d) EXCEPT !.successes = x] = ABreaker(s, f, x, d)
                       /\ [ABreaker(s, f, n, d) EXCEPT !.due = x] = ABreaker(s, f, n, x)
BY DEF ABreaker

LEMMA OpenedForm == \A s, f, n, d : P!Opened(ABreaker(s, f, n, d)) = ABreaker("OPEN", f, 0, FALSE)
<1> SUFFICES ASSUME NEW s, NEW f, NEW n, NEW d
             PROVE  P!Opened(ABreaker(s, f, n, d)) = ABreaker("OPEN", f, 0, FALSE)
  OBVIOUS
<1> DEFINE b == ABreaker(s, f, n, d)
<1>1. PICK x : x = FALSE
  OBVIOUS
<1>2. PICK c : c = [b EXCEPT !.state = "OPEN"]
  OBVIOUS
<1>3. PICK e : e = [c EXCEPT !.successes = 0]
  OBVIOUS
<1>4. P!Opened(b) = [e EXCEPT !.due = x]
  BY <1>1, <1>2, <1>3 DEF P!Opened
<1>5. c = ABreaker("OPEN", f, n, d)
  BY <1>2, BreakerEdit
<1>6. e = ABreaker("OPEN", f, 0, d)
  BY <1>3, <1>5, BreakerEdit
<1>7. [e EXCEPT !.due = x] = ABreaker("OPEN", f, 0, x)
  BY <1>6, BreakerEdit
<1>8. QED BY <1>1, <1>4, <1>7

LEMMA ClosedForm == \A s, f, n, d : P!Closed(ABreaker(s, f, n, d)) = ABreaker("CLOSED", 0, 0, d)
<1> SUFFICES ASSUME NEW s, NEW f, NEW n, NEW d
             PROVE  P!Closed(ABreaker(s, f, n, d)) = ABreaker("CLOSED", 0, 0, d)
  OBVIOUS
<1> DEFINE b == ABreaker(s, f, n, d)
<1>1. PICK c : c = [b EXCEPT !.state = "CLOSED"]
  OBVIOUS
<1>2. PICK e : e = [c EXCEPT !.failures = 0]
  OBVIOUS
<1>3. P!Closed(b) = [e EXCEPT !.successes = 0]
  BY <1>1, <1>2 DEF P!Closed
<1>4. c = ABreaker("CLOSED", f, n, d)
  BY <1>1, BreakerEdit
<1>5. e = ABreaker("CLOSED", 0, n, d)
  BY <1>2, <1>4, BreakerEdit
<1>6. QED BY <1>3, <1>5, BreakerEdit

(* What is done to a breaker keeps it fine. *)
LEMMA BreakerMoves ==
    ASSUME NEW b, BreakerFine(b)
    PROVE  /\ BreakerFine(P!Asked(b))
           /\ BreakerFine(P!Closed(b))
           /\ BreakerFine(P!RecordSuccess(b))
           /\ BreakerFine(P!RecordFailure(b))
           /\ b.state = "OPEN" => BreakerFine([b EXCEPT !.due = TRUE])
<1> USE ServicesAssumption
<1>1. PICK s, f, n, d : b = ABreaker(s, f, n, d) /\ Fine(s, f, n, d)
  BY BreakerForm
<1>2. b.state = s /\ b.failures = f /\ b.successes = n
  BY <1>1, BreakerRead
<1>3. BreakerFine(P!Asked(b))
  <2>1. PICK c : c = [b EXCEPT !.state = "HALF_OPEN"]
    OBVIOUS
  <2>2. c = ABreaker("HALF_OPEN", f, n, d)
    BY <1>1, <2>1, BreakerEdit
  <2>3. [c EXCEPT !.successes = 0] = ABreaker("HALF_OPEN", f, 0, d)
    BY <2>2, BreakerEdit
  <2>4. Fine("HALF_OPEN", f, 0, d)
    BY <1>1 DEF Fine
  <2>5. P!Asked(b) = b \/ P!Asked(b) = [c EXCEPT !.successes = 0]
    BY <2>1 DEF P!Asked
  <2>6. QED BY <2>3, <2>4, <2>5, BreakerForm
<1>4. BreakerFine(P!Closed(b))
  <2>1. Fine("CLOSED", 0, 0, d)
    BY <1>1 DEF Fine
  <2>2. QED BY <1>1, <2>1, ClosedForm, BreakerForm
<1>5. BreakerFine(P!RecordSuccess(b))
  <2>1. CASE s = "CLOSED"
    <3>1. P!RecordSuccess(b) = [b EXCEPT !.failures = 0]
      BY <1>2, <2>1 DEF P!RecordSuccess
    <3>2. [b EXCEPT !.failures = 0] = ABreaker(s, 0, n, d)
      BY <1>1, BreakerEdit
    <3>3. Fine(s, 0, n, d)
      BY <1>1 DEF Fine
    <3>4. QED BY <3>1, <3>2, <3>3, BreakerForm
  <2>2. CASE s = "HALF_OPEN" /\ n + 1 >= SuccessThreshold
    BY <1>2, <1>4, <2>2 DEF P!RecordSuccess
  <2>3. CASE s = "HALF_OPEN" /\ ~(n + 1 >= SuccessThreshold)
    <3>1. P!RecordSuccess(b) = [b EXCEPT !.successes = n + 1]
      BY <1>2, <2>3 DEF P!RecordSuccess
    <3>2. [b EXCEPT !.successes = n + 1] = ABreaker(s, f, n + 1, d)
      BY <1>1, BreakerEdit
    <3>3. Fine(s, f, n + 1, d)
      BY <1>1, <2>3 DEF Fine
    <3>4. QED BY <3>1, <3>2, <3>3, BreakerForm
  <2>4. CASE s = "OPEN"
    BY <1>2, <2>4 DEF P!RecordSuccess
  <2>5. QED BY <1>1, <2>1, <2>2, <2>3, <2>4 DEF Fine
<1>6. BreakerFine(P!RecordFailure(b))
  <2>1. PICK m : m = P!Upto(f + 1, FailureThreshold)
    OBVIOUS
  <2>2. m \in 0..FailureThreshold
    BY <1>1, <2>1 DEF P!Upto, Fine
  <2>3. PICK c : c = [b EXCEPT !.failures = m]
    OBVIOUS
  <2>4. c = ABreaker(s, m, n, d) /\ c.failures = m
    BY <1>1, <2>3, BreakerEdit, BreakerRead
  <2>5. BreakerFine(P!Opened(c))
    <3>1. PICK x \in BOOLEAN : x = FALSE
      OBVIOUS
    <3>2. Fine("OPEN", m, 0, x)
      BY <1>1, <2>2, <3>1 DEF Fine
    <3>3. P!Opened(c) = ABreaker("OPEN", m, 0, x)
      <4>1. P!Opened(ABreaker(s, m, n, d)) = ABreaker("OPEN", m, 0, FALSE)
        BY OpenedForm
      <4>2. QED BY <2>4, <3>1, <4>1
    <3>4. QED BY <3>2, <3>3, BreakerForm
  <2>6. CASE s = "CLOSED"
    <3>1. P!RecordFailure(b) = IF m >= FailureThreshold THEN P!Opened(c) ELSE c
      BY <1>2, <2>1, <2>3, <2>4, <2>6 DEF P!RecordFailure
    <3>2. ~(m >= FailureThreshold) => Fine(s, m, n, d)
      BY <1>1, <2>2, <2>6 DEF Fine
    <3>3. QED BY <2>4, <2>5, <3>1, <3>2, BreakerForm
  <2>7. CASE s = "HALF_OPEN"
    BY <1>2, <2>1, <2>3, <2>5, <2>7 DEF P!RecordFailure
  <2>8. CASE s = "OPEN"
    <3>1. PICK x : x = FALSE
      OBVIOUS
    <3>2. P!RecordFailure(b) = [c EXCEPT !.due = x]
      BY <1>2, <2>1, <2>3, <2>8, <3>1 DEF P!RecordFailure
    <3>3. [c EXCEPT !.due = x] = ABreaker(s, m, n, x)
      BY <2>4, BreakerEdit
    <3>4. Fine(s, m, n, x)
      BY <1>1, <2>2, <2>8, <3>1 DEF Fine
    <3>5. QED BY <3>2, <3>3, <3>4, BreakerForm
  <2>9. QED BY <1>1, <2>6, <2>7, <2>8 DEF Fine
<1>7. ASSUME s = "OPEN"
      PROVE  BreakerFine([b EXCEPT !.due = TRUE])
  <2>1. PICK x : x = TRUE
    OBVIOUS
  <2>2. [b EXCEPT !.due = x] = ABreaker(s, f, n, x)
    BY <1>1, BreakerEdit
  <2>3. Fine(s, f, n, x)
    BY <1>1, <1>7, <2>1 DEF Fine
  <2>4. BreakerFine([b EXCEPT !.due = x])
    BY <2>2, <2>3, BreakerForm
  <2>5. QED BY <2>1, <2>4
<1>8. QED BY <1>2, <1>3, <1>4, <1>5, <1>6, <1>7

(* The metrics of a provider are SomeHealth of their fields. *)
SomeHealth(s, f, c) == [status |-> s, failures |-> f, connections |-> c]

Statuses == {"UNKNOWN", "HEALTHY", "DEGRADED", "UNHEALTHY"}

Fewer(n) == IF n = 0 THEN 0 ELSE n - 1

LEMMA SameSize == \A T : P!Cardinality(T) = Cardinality(T)
BY DEF P!Cardinality, Cardinality

LEMMA HealthForm ==
    /\ \A h \in P!Health :
          /\ h = SomeHealth(h.status, h.failures, h.connections)
          /\ h.status \in Statuses
          /\ h.failures \in 0..UnhealthyThreshold
          /\ h.connections \in 0..Cardinality(Requests)
    /\ \A s \in Statuses, f \in 0..UnhealthyThreshold, c \in 0..Cardinality(Requests) :
          SomeHealth(s, f, c) \in P!Health
    /\ \A s, f, c : /\ SomeHealth(s, f, c).status = s
                    /\ SomeHealth(s, f, c).failures = f
                    /\ SomeHealth(s, f, c).connections = c
    /\ \A s, f, c, x : /\ [SomeHealth(s, f, c) EXCEPT !.status = x] = SomeHealth(x, f, c)
                       /\ [SomeHealth(s, f, c) EXCEPT !.failures = x] = SomeHealth(s, x, c)
                       /\ [SomeHealth(s, f, c) EXCEPT !.connections = x] = SomeHealth(s, f, x)
<1>1. \A h \in P!Health :
        /\ h = SomeHealth(h.status, h.failures, h.connections)
        /\ h.status \in Statuses
        /\ h.failures \in 0..UnhealthyThreshold
        /\ h.connections \in 0..Cardinality(Requests)
  BY SameSize DEF P!Health, SomeHealth, Statuses
<1>2. \A s \in Statuses, f \in 0..UnhealthyThreshold, c \in 0..Cardinality(Requests) :
        SomeHealth(s, f, c) \in P!Health
  BY SameSize DEF P!Health, SomeHealth, Statuses
<1>3. QED BY <1>1, <1>2 DEF SomeHealth

(* What is done to the metrics of a provider, and to its connections. *)
LEMMA HealthMoves ==
    ASSUME NEW h \in P!Health
    PROVE  /\ P!WithFailure(h) \in P!Health
           /\ P!WithFailure(h).connections = h.connections
           /\ P!Disconnected(h) \in P!Health
           /\ P!Disconnected(h).connections = Fewer(h.connections)
           /\ P!WithSuccess(h) \in P!Health
           /\ P!WithSuccess(h).connections = Fewer(h.connections)
           /\ \A good \in BOOLEAN :
                 /\ P!Checked(h, good) \in P!Health
                 /\ P!Checked(h, good).connections = h.connections
<1> USE ServicesAssumption
<1>1. ASSUME NEW g \in P!Health
      PROVE  /\ P!WithFailure(g) \in P!Health
             /\ P!WithFailure(g).connections = g.connections
  <2>1. PICK s \in Statuses, f \in 0..UnhealthyThreshold, c \in 0..Cardinality(Requests) :
          g = SomeHealth(s, f, c)
    BY HealthForm
  <2>2. g.status = s /\ g.failures = f /\ g.connections = c
    BY <2>1, HealthForm
  <2>3. PICK n : n = P!Upto(f + 1, UnhealthyThreshold)
    OBVIOUS
  <2>4. n \in 0..UnhealthyThreshold
    BY <2>3 DEF P!Upto
  <2>5. PICK t \in Statuses : t = IF n >= UnhealthyThreshold THEN "UNHEALTHY"
                                 ELSE IF s = "HEALTHY" THEN "DEGRADED" ELSE s
    BY DEF Statuses
  <2>6. PICK d : d = [g EXCEPT !.failures = n]
    OBVIOUS
  <2>7. d = SomeHealth(s, n, c) /\ d.status = s
    BY <2>1, <2>6, HealthForm
  <2>8. P!WithFailure(g) = [d EXCEPT !.status = t]
    BY <2>2, <2>3, <2>5, <2>6, <2>7 DEF P!WithFailure
  <2>9. P!WithFailure(g) = SomeHealth(t, n, c)
    BY <2>7, <2>8, HealthForm
  <2>10. QED BY <2>2, <2>4, <2>9, HealthForm
<1>2. PICK s \in Statuses, f \in 0..UnhealthyThreshold, c \in 0..Cardinality(Requests) :
        h = SomeHealth(s, f, c)
  BY HealthForm
<1>3. h.status = s /\ h.failures = f /\ h.connections = c
  BY <1>2, HealthForm
<1>4. Fewer(c) \in 0..Cardinality(Requests)
  BY RequestsAssumption, FS_CardinalityType DEF Fewer
<1>5. P!Disconnected(h) = SomeHealth(s, f, Fewer(c))
  <2>1. P!Disconnected(h) = [h EXCEPT !.connections = Fewer(c)]
    BY <1>3 DEF P!Disconnected, Fewer
  <2>2. QED BY <1>2, <2>1, HealthForm
<1>6. /\ P!Disconnected(h) \in P!Health
      /\ P!Disconnected(h).connections = Fewer(h.connections)
  BY <1>3, <1>4, <1>5, HealthForm
<1>7. /\ P!WithSuccess(h) \in P!Health
      /\ P!WithSuccess(h).connections = Fewer(h.connections)
  <2>1. PICK t \in Statuses : t = IF s = "UNHEALTHY" THEN "DEGRADED" ELSE s
    BY DEF Statuses
  <2>2. PICK d : d = [P!Disconnected(h) EXCEPT !.failures = 0]
    OBVIOUS
  <2>3. d = SomeHealth(s, 0, Fewer(c)) /\ d.status = s
    BY <1>5, <2>2, HealthForm
  <2>4. P!WithSuccess(h) = [d EXCEPT !.status = t]
    BY <2>1, <2>2, <2>3 DEF P!WithSuccess
  <2>5. P!WithSuccess(h) = SomeHealth(t, 0, Fewer(c))
    BY <2>3, <2>4, HealthForm
  <2>6. QED BY <1>3, <1>4, <2>5, HealthForm
<1>8. ASSUME NEW good \in BOOLEAN
      PROVE  /\ P!Checked(h, good) \in P!Health
             /\ P!Checked(h, good).connections = h.connections
  <2>1. PICK t \in Statuses : t = IF s \in {"UNHEALTHY", "DEGRADED"} THEN "HEALTHY" ELSE s
    BY DEF Statuses
  <2>2. PICK d : d = [h EXCEPT !.failures = 0]
    OBVIOUS
  <2>3. d = SomeHealth(s, 0, c) /\ d.status = s
    BY <1>2, <2>2, HealthForm
  <2>4. P!Checked(h, good) = IF ~good THEN P!WithFailure(h) ELSE [d EXCEPT !.status = t]
    BY <2>1, <2>2, <2>3 DEF P!Checked
  <2>5. [d EXCEPT !.status = t] = SomeHealth(t, 0, c)
    BY <2>3, HealthForm
  <2>6. /\ SomeHealth(t, 0, c) \in P!Health
        /\ SomeHealth(t, 0, c).connections = c
    BY HealthForm
  <2>7. QED BY <1>1, <1>3, <2>4, <2>5, <2>6
<1>9. QED BY <1>1, <1>6, <1>7, <1>8

(* The requests a provider is trying, for requests q. *)
Trying(q, p) == {r \in Requests : q[r].pc \in {"check", "run"} /\ q[r].provider = p}

Request == [pc : {"idle", "select", "check", "run"},
            provider : Providers \cup {NoProvider}, attempt : 0..MaxRetries]

BreakersFine(b) ==
    /\ b \in [Providers -> P!Breaker]
    /\ \A p \in Providers : BreakerFine(b[p])

RequestFine(x) ==
    /\ x \in Request
    /\ x.pc \in {"check", "run"} => x.provider # NoProvider
    /\ x.attempt < MaxRetries

RequestsFine(q) ==
    /\ q \in [Requests -> Request]
    /\ \A r \in Requests : RequestFine(q[r])

ConnectionsFit(h, q) ==
    /\ h \in [Providers -> P!Health]
    /\ \A p \in Providers : h[p].connections <= Cardinality(Trying(q, p))

(* The type invariant and RoutingInv, variable by variable. *)
RoutingFine ==
    /\ BreakersFine(v2) /\ RequestsFine(v3) /\ ConnectionsFit(v1, v3)
    /\ v4 \in [Executions -> Providers \cup {NoProvider}]
    /\ v5 \subseteq Providers /\ v6 \subseteq Providers

LEMMA RoutingForm == P!TypeOK /\ P!RoutingInv <=> RoutingFine
<1>1. \A p : P!InFlight(p) = Trying(v3, p)
  BY DEF P!InFlight, Trying
<1>2. P!CountersAreBounded <=>
        \A p \in Providers :
            /\ v1[p].connections <= Cardinality(Trying(v3, p))
            /\ v2[p].state = "CLOSED" => v2[p].failures < FailureThreshold
            /\ v2[p].state = "HALF_OPEN" => v2[p].successes < SuccessThreshold
  BY <1>1, SameSize DEF P!CountersAreBounded
<1>3. ASSUME P!TypeOK, P!RoutingInv PROVE RoutingFine
  <2>1. v3 \in [Requests -> Request]
    BY <1>3 DEF P!TypeOK, Request
  <2>2. RequestsFine(v3)
    BY <1>3, <2>1 DEF P!RoutingInv, P!RequestsGoOn, RequestsFine, RequestFine
  <2>3. BreakersFine(v2)
    BY <1>2, <1>3 DEF P!RoutingInv, P!TypeOK, BreakersFine, BreakerFine
  <2>4. ConnectionsFit(v1, v3)
    BY <1>2, <1>3 DEF P!RoutingInv, P!TypeOK, ConnectionsFit
  <2>5. QED BY <1>3, <2>2, <2>3, <2>4 DEF P!TypeOK, RoutingFine
<1>4. ASSUME RoutingFine PROVE P!TypeOK /\ P!RoutingInv
  <2>1. P!TypeOK
    BY <1>4 DEF P!TypeOK, RoutingFine, BreakersFine, RequestsFine, Request, ConnectionsFit
  <2>2. P!RequestsGoOn
    BY <1>4 DEF P!RequestsGoOn, RoutingFine, RequestsFine, RequestFine
  <2>3. P!CountersAreBounded
    BY <1>2, <1>4 DEF RoutingFine, BreakersFine, BreakerFine, ConnectionsFit
  <2>4. QED BY <2>1, <2>2, <2>3 DEF P!RoutingInv
<1>5. QED BY <1>3, <1>4

LEMMA InitRouting == P!Init => RoutingFine
<1> SUFFICES ASSUME P!Init PROVE RoutingFine
  OBVIOUS
<1> USE ServicesAssumption DEF P!Init
<1>1. BreakersFine(v2)
  <2>1. PICK d \in BOOLEAN : d = FALSE
    OBVIOUS
  <2>2. Fine("CLOSED", 0, 0, d)
    BY <2>1 DEF Fine
  <2>3. BreakerFine(ABreaker("CLOSED", 0, 0, d))
    BY <2>2, BreakerForm
  <2>4. v2 = [p \in Providers |-> ABreaker("CLOSED", 0, 0, d)]
    BY <2>1, Zenon DEF ABreaker
  <2>5. QED BY <2>3, <2>4 DEF BreakersFine, BreakerFine
<1>2. RequestsFine(v3)
  BY DEF RequestsFine, RequestFine, Request, P!Idle
<1>3. ConnectionsFit(v1, v3)
  <2>1. 0 \in 0..Cardinality(Requests) /\ \A p : Cardinality(Trying(v3, p)) \in Nat
    BY RequestsAssumption, FS_CardinalityType, FS_Subset DEF Trying
  <2>2. SomeHealth("UNKNOWN", 0, 0) \in P!Health /\ SomeHealth("UNKNOWN", 0, 0).connections = 0
    BY <2>1, HealthForm DEF Statuses
  <2>3. v1 = [p \in Providers |-> SomeHealth("UNKNOWN", 0, 0)]
    BY DEF SomeHealth
  <2>4. QED BY <2>1, <2>2, <2>3 DEF ConnectionsFit
<1>4. QED BY <1>1, <1>2, <1>3 DEF RoutingFine

(* A breaker changes: the others are as they were. *)
LEMMA BreakersMove ==
    ASSUME NEW b, BreakersFine(b), NEW p \in Providers, NEW x, BreakerFine(x)
    PROVE  BreakersFine([b EXCEPT ![p] = x])
BY DEF BreakersFine, BreakerFine

LEMMA AllAreAsked ==
    ASSUME BreakersFine(v2)
    PROVE  BreakersFine(P!AllAsked)
<1>1. \A p \in Providers : BreakerFine(P!Asked(v2[p]))
  BY BreakerMoves DEF BreakersFine
<1>2. QED BY <1>1 DEF BreakersFine, BreakerFine, P!AllAsked

(* The requests a provider is trying are finitely many. *)
LEMMA TryingIsFinite ==
    \A q, p : /\ IsFiniteSet(Trying(q, p))
              /\ Cardinality(Trying(q, p)) \in Nat
              /\ Cardinality(Trying(q, p)) <= Cardinality(Requests)
              /\ Cardinality(Requests) \in Nat
BY RequestsAssumption, FS_Subset, FS_CardinalityType DEF Trying

(* A request goes away from its provider, which has a connection less. *)
LEMMA Leaves ==
    ASSUME NEW h, NEW q, RequestsFine(q), ConnectionsFit(h, q), NEW r \in Requests,
           NEW x, RequestFine(x), x.pc \notin {"check", "run"},
           NEW p \in Providers, q[r].pc \in {"check", "run"} => q[r].provider = p,
           NEW y \in P!Health, y.connections = Fewer(h[p].connections)
    PROVE  ConnectionsFit([h EXCEPT ![p] = y], [q EXCEPT ![r] = x])
<1> DEFINE z == [q EXCEPT ![r] = x]
<1>1. \A o : /\ Trying(z, o) = Trying(q, o) \ {r}
             /\ IsFiniteSet(Trying(q, o)) /\ Cardinality(Trying(q, o)) \in Nat
  <2>1. \A o : Trying(z, o) = Trying(q, o) \ {r}
    BY DEF Trying, RequestsFine
  <2>2. \A o : IsFiniteSet(Trying(q, o)) /\ Cardinality(Trying(q, o)) \in Nat
    BY TryingIsFinite
  <2>3. QED BY <2>1, <2>2
<1>2. \A o : r \in Trying(q, o) => o = p
  BY DEF Trying
<1>3. \A o : Cardinality(Trying(z, o)) =
               IF r \in Trying(q, o) THEN Cardinality(Trying(q, o)) - 1 ELSE Cardinality(Trying(q, o))
  BY <1>1, FS_RemoveElement
<1>4. \A o \in Providers : /\ h[o].connections \in Nat
                           /\ h[o].connections <= Cardinality(Trying(q, o))
  BY HealthForm DEF ConnectionsFit
<1>5. ASSUME NEW o \in Providers, o # p
      PROVE  h[o].connections <= Cardinality(Trying(z, o))
  BY <1>2, <1>3, <1>4, <1>5
<1>6. Cardinality(Trying(z, p)) \in Nat
  BY <1>1, FS_CardinalityType, FS_RemoveElement
<1>7. y.connections <= Cardinality(Trying(z, p))
  <2>1. PICK k \in Nat : k = Cardinality(Trying(q, p))
    BY <1>1
  <2>2. PICK c \in Nat : c = h[p].connections
    BY <1>4
  <2>3. PICK n \in Nat : n = Cardinality(Trying(z, p))
    BY <1>6
  <2>4. c <= k /\ (n = k \/ n = k - 1)
    BY <1>3, <1>4, <2>1, <2>2, <2>3
  <2>5. y.connections = Fewer(c)
    BY <2>2
  <2>6. QED BY <2>3, <2>4, <2>5 DEF Fewer
<1>8. QED BY <1>5, <1>7 DEF ConnectionsFit

(* A request is given a provider, which has a connection more. *)
LEMMA Comes ==
    ASSUME NEW h, NEW q, RequestsFine(q), ConnectionsFit(h, q), NEW r \in Requests,
           q[r].pc = "select", NEW x, RequestFine(x),
           NEW p \in Providers, x.pc = "check", x.provider = p,
           NEW y \in P!Health, y.connections = P!Upto(h[p].connections + 1, Cardinality(Requests))
    PROVE  ConnectionsFit([h EXCEPT ![p] = y], [q EXCEPT ![r] = x])
<1> DEFINE z == [q EXCEPT ![r] = x]
<1>1. Trying(z, p) = Trying(q, p) \cup {r} /\ r \notin Trying(q, p)
  BY DEF Trying, RequestsFine
<1>2. \A o : o # p => Trying(z, o) = Trying(q, o)
  BY DEF Trying, RequestsFine
<1>3. Cardinality(Trying(z, p)) = Cardinality(Trying(q, p)) + 1
  <2>1. PICK X, T : X = Trying(q, p) /\ T = Trying(z, p)
    OBVIOUS
  <2>2. IsFiniteSet(X) /\ T = X \cup {r} /\ r \notin X
    BY <1>1, <2>1, TryingIsFinite
  <2>3. Cardinality(T) = Cardinality(X) + 1
    BY <2>2, FS_AddElement
  <2>4. QED BY <2>1, <2>3
<1>4. h[p].connections \in Nat /\ h[p].connections <= Cardinality(Trying(q, p))
  BY HealthForm DEF ConnectionsFit
<1>5. y.connections <= Cardinality(Trying(z, p))
  <2>1. PICK k : k = Cardinality(Trying(q, p))
    OBVIOUS
  <2>2. PICK c, most : c = h[p].connections /\ most = Cardinality(Requests)
    OBVIOUS
  <2>3. k \in Nat /\ most \in Nat /\ c \in Nat /\ c <= k /\ k <= most
    BY <1>4, <2>1, <2>2, TryingIsFinite
  <2>4. y.connections = P!Upto(c + 1, most)
    BY <2>2
  <2>5. y.connections <= k + 1
    BY <2>3, <2>4 DEF P!Upto
  <2>6. QED BY <1>3, <2>1, <2>5
<1>6. QED BY <1>2, <1>5 DEF ConnectionsFit

(* A request moves on without leaving its provider, or begins. *)
LEMMA Stays ==
    ASSUME NEW h, NEW q, RequestsFine(q), ConnectionsFit(h, q), NEW r \in Requests,
           NEW x, RequestFine(x),
           x.pc \in {"check", "run"} <=> q[r].pc \in {"check", "run"},
           x.pc \in {"check", "run"} => x.provider = q[r].provider
    PROVE  ConnectionsFit(h, [q EXCEPT ![r] = x])
<1> DEFINE z == [q EXCEPT ![r] = x]
<1>1. \A o : Trying(z, o) = Trying(q, o)
  BY DEF Trying, RequestsFine
<1>2. QED BY <1>1 DEF ConnectionsFit

LEMMA RequestMoves ==
    ASSUME NEW q, RequestsFine(q), NEW r \in Requests, NEW x, RequestFine(x)
    PROVE  RequestsFine([q EXCEPT ![r] = x])
BY DEF RequestsFine, RequestFine

(* An error of a request, whatever it was doing. *)
LEMMA FailFits ==
    ASSUME RoutingFine, NEW r \in Requests, NEW b, BreakersFine(b), P!Fail(r, v1, b)
    PROVE  BreakersFine(v2') /\ RequestsFine(v3') /\ ConnectionsFit(v1', v3')
<1> USE ServicesAssumption
<1>1. RequestsFine(v3) /\ ConnectionsFit(v1, v3) /\ RequestFine(v3[r])
  BY DEF RoutingFine, RequestsFine
<1>2. PICK x : /\ RequestFine(x) /\ x.pc \notin {"check", "run"}
               /\ v3' = [v3 EXCEPT ![r] = x]
  <2>1. CASE v3[r].attempt + 1 = MaxRetries
    <3>1. RequestFine(P!Idle) /\ P!Idle.pc = "idle"
      BY DEF RequestFine, Request, P!Idle
    <3>2. v3' = [v3 EXCEPT ![r] = P!Idle]
      BY <2>1 DEF P!Fail
    <3>3. QED BY <3>1, <3>2
  <2>2. CASE v3[r].attempt + 1 # MaxRetries
    <3>1. PICK n : n = v3[r].attempt + 1
      OBVIOUS
    <3>2. n \in 0..MaxRetries /\ n < MaxRetries
      BY <1>1, <2>2, <3>1 DEF RequestFine, Request
    <3>3. PICK x : x = [v3[r] EXCEPT !.pc = "select", !.attempt = n]
      OBVIOUS
    <3>4. x \in Request /\ x.pc = "select" /\ x.attempt = n
      BY <1>1, <3>2, <3>3 DEF RequestFine, Request
    <3>5. v3' = [v3 EXCEPT ![r] = x]
      BY <2>2, <3>1, <3>3 DEF P!Fail
    <3>6. QED BY <3>2, <3>4, <3>5 DEF RequestFine
  <2>3. QED BY <2>1, <2>2
<1>3. RequestsFine(v3')
  BY <1>1, <1>2, RequestMoves
<1>4. CASE v3[r].provider = NoProvider
  <2>1. v1' = v1 /\ v2' = b
    BY <1>4 DEF P!Fail
  <2>2. v3[r].pc \notin {"check", "run"}
    BY <1>1, <1>4 DEF RequestFine
  <2>3. ConnectionsFit(v1, v3')
    BY <1>1, <1>2, <2>2, Stays
  <2>4. QED BY <1>3, <2>1, <2>3
<1>5. CASE v3[r].provider # NoProvider
  <2>1. PICK p \in Providers : p = v3[r].provider
    BY <1>1, <1>5 DEF RequestFine, Request
  <2>2. PICK y : y = P!WithFailure(P!Disconnected(v1[p]))
    OBVIOUS
  <2>3. y \in P!Health /\ y.connections = Fewer(v1[p].connections)
    <3>1. v1[p] \in P!Health
      BY <1>1 DEF ConnectionsFit
    <3>2. QED BY <2>2, <3>1, HealthMoves
  <2>4. v1' = [v1 EXCEPT ![p] = y] /\ v2' = [b EXCEPT ![p] = P!RecordFailure(b[p])]
    BY <1>5, <2>1, <2>2 DEF P!Fail
  <2>5. ConnectionsFit(v1', v3')
    BY <1>1, <1>2, <2>1, <2>3, <2>4, Leaves
  <2>6. BreakerFine(P!RecordFailure(b[p]))
    BY BreakerMoves DEF BreakersFine
  <2>7. BreakersFine(v2')
    BY <2>4, <2>6, BreakersMove
  <2>8. QED BY <1>3, <2>5, <2>7
<1>6. QED BY <1>4, <1>5

LEMMA StepOfRequest ==
    ASSUME RoutingFine, NEW r \in Requests, P!Begin(r) \/ P!Run(r)
    PROVE  RoutingFine'
<1> USE ServicesAssumption
<1>1. /\ BreakersFine(v2) /\ RequestsFine(v3) /\ ConnectionsFit(v1, v3)
      /\ RequestFine(v3[r]) /\ UNCHANGED <<v4, v5, v6>>
  BY DEF RoutingFine, RequestsFine, P!Begin, P!Run, P!Select, P!Check, P!RunSucceeds, P!RunFails
<1>2. SUFFICES BreakersFine(v2') /\ RequestsFine(v3') /\ ConnectionsFit(v1', v3')
  BY <1>1 DEF RoutingFine
<1>3. BreakersFine(P!AllAsked)
  BY <1>1, AllAreAsked
<1>4. CASE P!Begin(r)
  <2>1. PICK x : x = [P!Idle EXCEPT !.pc = "select"]
    OBVIOUS
  <2>2. RequestFine(x) /\ x.pc = "select" /\ v3[r].pc = "idle"
    BY <1>4, <2>1 DEF RequestFine, Request, P!Idle, P!Begin
  <2>3. v3' = [v3 EXCEPT ![r] = x] /\ v1' = v1 /\ v2' = v2
    BY <1>4, <2>1 DEF P!Begin
  <2>4. RequestsFine(v3')
    BY <1>1, <2>2, <2>3, RequestMoves
  <2>5. ConnectionsFit(v1, v3')
    BY <1>1, <2>2, <2>3, Stays
  <2>6. QED BY <1>1, <2>3, <2>4, <2>5
<1>5. CASE P!Select(r)
  <2>1. CASE P!Fail(r, v1, P!AllAsked)
    BY <1>3, <2>1, FailFits
  <2>2. ASSUME NEW p \in P!Candidates,
               /\ v2' = P!AllAsked
               /\ v1' = [v1 EXCEPT ![p].connections = P!Upto(@ + 1, P!Cardinality(Requests))]
               /\ v3' = [v3 EXCEPT ![r].pc = "check", ![r].provider = p]
        PROVE  BreakersFine(v2') /\ RequestsFine(v3') /\ ConnectionsFit(v1', v3')
    <3>1. p \in Providers /\ p # NoProvider /\ v3[r].pc = "select"
      BY <1>5 DEF P!Candidates, P!Select
    <3>2. PICK x : x = [v3[r] EXCEPT !.pc = "check", !.provider = p]
      OBVIOUS
    <3>3. /\ x \in Request /\ x.pc = "check" /\ x.provider = p
          /\ x.attempt = v3[r].attempt
      BY <1>1, <3>1, <3>2 DEF RequestFine, Request
    <3>4. RequestFine(x)
      BY <1>1, <3>1, <3>3 DEF RequestFine
    <3>5. v3' = [v3 EXCEPT ![r] = x]
      BY <1>1, <2>2, <3>2 DEF RequestsFine
    <3>6. PICK n : n = P!Upto(v1[p].connections + 1, Cardinality(Requests))
      OBVIOUS
    <3>7. v1[p] \in P!Health
      BY <1>1, <3>1 DEF ConnectionsFit
    <3>8. n \in 0..Cardinality(Requests)
      BY <3>6, <3>7, HealthForm, TryingIsFinite DEF P!Upto
    <3>9. PICK y : y = [v1[p] EXCEPT !.connections = n]
      OBVIOUS
    <3>10. y = SomeHealth(v1[p].status, v1[p].failures, n)
      BY <3>7, <3>9, HealthForm
    <3>11. y \in P!Health /\ y.connections = n
      BY <3>7, <3>8, <3>10, HealthForm
    <3>12. v1' = [v1 EXCEPT ![p] = y]
      BY <2>2, <3>6, <3>9, SameSize
    <3>13. ConnectionsFit(v1', v3')
      BY <1>1, <3>1, <3>3, <3>4, <3>5, <3>6, <3>11, <3>12, Comes
    <3>14. RequestsFine(v3')
      BY <1>1, <3>4, <3>5, RequestMoves
    <3>15. QED BY <1>3, <2>2, <3>13, <3>14
  <2>3. QED BY <1>5, <2>1, <2>2 DEF P!Select
<1>6. CASE P!Check(r)
  <2>1. PICK p \in Providers : p = v3[r].provider
    BY <1>1, <1>6 DEF P!Check, RequestFine, Request
  <2>2. CASE P!Admits(v2[p])
    <3>1. PICK x : x = [v3[r] EXCEPT !.pc = "run"]
      OBVIOUS
    <3>2. x \in Request /\ x.pc = "run" /\ x.provider = p /\ x.attempt = v3[r].attempt
      BY <1>1, <2>1, <3>1 DEF RequestFine, Request
    <3>3. RequestFine(x) /\ v3[r].pc = "check"
      BY <1>1, <1>6, <3>2 DEF RequestFine, P!Check
    <3>4. /\ v3' = [v3 EXCEPT ![r] = x] /\ v1' = v1
          /\ v2' = [v2 EXCEPT ![p] = P!Asked(v2[p])]
      BY <1>1, <1>6, <2>1, <2>2, <3>1 DEF P!Check
    <3>5. BreakerFine(P!Asked(v2[p]))
      BY <1>1, BreakerMoves DEF BreakersFine
    <3>6. BreakersFine(v2')
      BY <1>1, <3>4, <3>5, BreakersMove
    <3>7. RequestsFine(v3')
      BY <1>1, <3>3, <3>4, RequestMoves
    <3>8. ConnectionsFit(v1, v3')
      BY <1>1, <2>1, <3>2, <3>3, <3>4, Stays
    <3>9. QED BY <3>4, <3>6, <3>7, <3>8
  <2>3. CASE ~P!Admits(v2[p])
    <3>1. P!Fail(r, v1, v2)
      BY <1>6, <2>1, <2>3 DEF P!Check
    <3>2. QED BY <1>1, <3>1, FailFits
  <2>4. QED BY <2>2, <2>3
<1>7. CASE P!RunSucceeds(r)
  <2>1. PICK p \in Providers : p = v3[r].provider
    BY <1>1, <1>7 DEF P!RunSucceeds, RequestFine, Request
  <2>2. v1[p] \in P!Health
    BY <1>1 DEF ConnectionsFit
  <2>3. PICK y \in P!Health : y = P!WithSuccess(v1[p]) /\ y.connections = Fewer(v1[p].connections)
    BY <2>2, HealthMoves
  <2>4. PICK x : x = P!Idle
    OBVIOUS
  <2>5. RequestFine(x) /\ x.pc \notin {"check", "run"}
    BY <2>4 DEF RequestFine, Request, P!Idle
  <2>6. /\ v1' = [v1 EXCEPT ![p] = y] /\ v3' = [v3 EXCEPT ![r] = x]
        /\ v2' = [v2 EXCEPT ![p] = P!RecordSuccess(v2[p])]
    BY <1>7, <2>1, <2>3, <2>4 DEF P!RunSucceeds
  <2>7. BreakerFine(P!RecordSuccess(v2[p]))
    BY <1>1, BreakerMoves DEF BreakersFine
  <2>8. BreakersFine(v2')
    BY <1>1, <2>6, <2>7, BreakersMove
  <2>9. RequestsFine(v3')
    BY <1>1, <2>5, <2>6, RequestMoves
  <2>10. ConnectionsFit(v1', v3')
    BY <1>1, <2>1, <2>3, <2>5, <2>6, Leaves
  <2>11. QED BY <2>8, <2>9, <2>10
<1>8. CASE P!RunFails(r)
  BY <1>1, <1>8, FailFits DEF P!RunFails
<1>9. QED BY <1>4, <1>5, <1>6, <1>7, <1>8 DEF P!Run

LEMMA StepOfExecution ==
    ASSUME RoutingFine, NEW x \in Executions,
           P!Executed(x) \/ \E p \in Providers : P!Execute(x, p)
    PROVE  RoutingFine'
<1>1. UNCHANGED <<v1, v3, v5, v6>>
  BY DEF P!Executed, P!Execute
<1>2. PICK p \in Providers :
        /\ \/ v2' = [v2 EXCEPT ![p] = P!Asked(v2[p])]
           \/ v2' = [v2 EXCEPT ![p] = P!RecordSuccess(v2[p])]
           \/ v2' = [v2 EXCEPT ![p] = P!RecordFailure(v2[p])]
        /\ v4' = [v4 EXCEPT ![x] = p] \/ v4' = [v4 EXCEPT ![x] = NoProvider]
  <2>1. CASE P!Executed(x)
    BY <2>1 DEF P!Executed, RoutingFine
  <2>2. ASSUME NEW p \in Providers, P!Execute(x, p)
        PROVE  /\ v2' = [v2 EXCEPT ![p] = P!Asked(v2[p])]
               /\ v4' = [v4 EXCEPT ![x] = p]
    BY <2>2 DEF P!Execute
  <2>3. QED BY <2>1, <2>2
<1>3. /\ BreakerFine(P!Asked(v2[p])) /\ BreakerFine(P!RecordSuccess(v2[p]))
      /\ BreakerFine(P!RecordFailure(v2[p]))
  BY BreakerMoves DEF RoutingFine, BreakersFine
<1>4. BreakersFine(v2')
  BY <1>2, <1>3, BreakersMove DEF RoutingFine
<1>5. v4' \in [Executions -> Providers \cup {NoProvider}]
  BY <1>2 DEF RoutingFine
<1>6. QED BY <1>1, <1>4, <1>5 DEF RoutingFine

LEMMA StepOfProvider ==
    ASSUME RoutingFine, NEW p \in Providers,
           \/ P!HealthCheck(p) \/ P!RecoveryTimeout(p) \/ P!ResetCircuitBreaker(p)
           \/ P!Flip(p) \/ P!Heal(p)
    PROVE  RoutingFine'
<1>1. BreakersFine(v2) /\ ConnectionsFit(v1, v3) /\ BreakerFine(v2[p])
  BY DEF RoutingFine, BreakersFine
<1>2. CASE P!HealthCheck(p)
  <2>1. PICK good \in BOOLEAN : good = (p \notin v5)
    OBVIOUS
  <2>2. PICK y : y = P!Checked(v1[p], good)
    OBVIOUS
  <2>3. y \in P!Health /\ y.connections = v1[p].connections
    <3>1. v1[p] \in P!Health
      BY <1>1 DEF ConnectionsFit
    <3>2. QED BY <2>2, <3>1, HealthMoves
  <2>4. v1' = [v1 EXCEPT ![p] = y]
    BY <1>2, <2>1, <2>2 DEF P!HealthCheck
  <2>5. ConnectionsFit(v1', v3)
    BY <1>1, <2>3, <2>4 DEF ConnectionsFit
  <2>6. UNCHANGED <<v2, v3, v4, v5, v6>>
    BY <1>2 DEF P!HealthCheck
  <2>7. QED BY <2>5, <2>6 DEF RoutingFine
<1>3. CASE P!RecoveryTimeout(p)
  <2>1. PICK x : x = [v2[p] EXCEPT !.due = TRUE]
    OBVIOUS
  <2>2. BreakerFine(x) /\ v2' = [v2 EXCEPT ![p] = x]
    BY <1>1, <1>3, <2>1, BreakerMoves DEF P!RecoveryTimeout
  <2>3. BreakersFine(v2')
    BY <1>1, <2>2, BreakersMove
  <2>4. UNCHANGED <<v1, v3, v4, v5, v6>>
    BY <1>3 DEF P!RecoveryTimeout
  <2>5. QED BY <2>3, <2>4 DEF RoutingFine
<1>4. CASE P!ResetCircuitBreaker(p)
  <2>1. BreakerFine(P!Closed(v2[p])) /\ v2' = [v2 EXCEPT ![p] = P!Closed(v2[p])]
    BY <1>1, <1>4, BreakerMoves DEF P!ResetCircuitBreaker
  <2>2. BreakersFine(v2')
    BY <1>1, <2>1, BreakersMove
  <2>3. UNCHANGED <<v1, v3, v4, v5, v6>>
    BY <1>4 DEF P!ResetCircuitBreaker
  <2>4. QED BY <2>2, <2>3 DEF RoutingFine
<1>5. CASE P!Flip(p) \/ P!Heal(p)
  BY <1>5 DEF P!Flip, P!Heal, RoutingFine
<1>6. QED BY <1>2, <1>3, <1>4, <1>5

LEMMA StepRouting == RoutingFine /\ [P!Next]_(P!vars) => RoutingFine'
<1> SUFFICES ASSUME RoutingFine, [P!Next]_(P!vars) PROVE RoutingFine'
  OBVIOUS
<1>1. CASE UNCHANGED P!vars
  BY <1>1 DEF P!vars, RoutingFine
<1>2. CASE P!Next
  BY <1>2, StepOfRequest, StepOfExecution, StepOfProvider DEF P!Next
<1>3. QED BY <1>1, <1>2

LEMMA RoutingSubject ==
    /\ MCInit /\ subject = "routing" => P!Init
    /\ [MCNext]_all => UNCHANGED subject
    /\ [MCNext]_all /\ subject = "routing" => [P!Next]_(P!vars)
<1>1. MCInit /\ subject = "routing" => P!Init
  BY DEF MCInit
<1>2. [MCNext]_all => UNCHANGED subject
  BY DEF MCNext, all
<1>3. [MCNext]_all /\ subject = "routing" => [P!Next]_(P!vars)
  BY DEF MCNext, all, P!vars
<1>4. QED BY <1>1, <1>2, <1>3

(* However requests, orchestrated executions, health checks and resets     *)
(* overlap, a provider never counts more connections than requests are     *)
(* trying it, a closed breaker is below its failure threshold and a half   *)
(* open one below its success threshold (ProviderRouterService,            *)
(* ProviderHealthService, CircuitBreakerService). *)
THEOREM CountersStayBounded == MCSpec => []CountersAreBounded
<1> DEFINE Inv == subject = "routing" => RoutingFine
<1>1. MCInit => Inv
  BY RoutingSubject, InitRouting
<1>2. Inv /\ [MCNext]_all => Inv'
  BY RoutingSubject, StepRouting
<1>3. Inv => CountersAreBounded
  BY RoutingForm DEF CountersAreBounded, P!RoutingInv
<1>4. QED
  BY <1>1, <1>2, <1>3, PTL DEF MCSpec

-----------------------------------------------------------------------------
(* Ingestion (I): v1 is fork, v2 range, v3 fetch, v4 queue, v5 work,       *)
(* v6 rows, v7 letters, v8 check, v9 past. *)

LEMMA SameSets == \A T : /\ I!Cardinality(T) = Cardinality(T)
                         /\ I!IsFiniteSet(T) <=> IsFiniteSet(T)
BY DEF I!Cardinality, Cardinality, I!IsFiniteSet, IsFiniteSet

LEMMA EventFields ==
    /\ \A e \in I!Event : e[1] \in I!Blocks /\ e[1] \in Nat
    /\ \A b \in I!Blocks : b \in 1..NumBlocks /\ b \in Nat
    /\ \A b, f : b \in I!Blocks /\ f \in 1..Forks => <<b, f>> \in I!Event /\ <<b, f>>[1] = b
BY ServicesAssumption DEF I!Event, I!Blocks

(* Numbers have a least and, below a bound, a greatest one. *)
LEMMA LeastOf ==
    ASSUME NEW T, T \subseteq Nat, T # {}
    PROVE  \E k \in T : \A l \in T : k <= l
<1>1. PICK k \in T : \A l \in T : ~(<<l, k>> \in OpToRel(<, Nat))
  BY NatLessThanWellFounded, WFMin
<1>2. ASSUME NEW l \in T, l < k PROVE FALSE
  <2>1. PICK p : p = <<l, k>>
    OBVIOUS
  <2>2. p \in Nat \X Nat /\ p[1] = l /\ p[2] = k
    BY <2>1
  <2>3. p[1] < p[2]
    BY <1>2, <2>2
  <2>4. p \in OpToRel(<, Nat)
    BY <2>2, <2>3, Zenon DEF OpToRel
  <2>5. QED BY <1>1, <2>1, <2>4
<1>3. k \in Nat /\ \A l \in T : l \in Nat /\ ~(l < k)
  BY <1>2
<1>4. \A l \in T : k <= l
  BY <1>3
<1>5. QED BY <1>4

(* The first and the last of some events are among them. *)
LEMMA FirstAndLast ==
    ASSUME NEW es, es \subseteq I!Event, es # {}
    PROVE  I!First(es) \in es /\ I!Last(es) \in es
<1>1. \E e \in es : \A f \in es : e[1] <= f[1]
  <2>1. PICK T : T = {e[1] : e \in es}
    OBVIOUS
  <2>2. T \subseteq Nat /\ T # {}
    BY <2>1, EventFields
  <2>3. PICK k \in T : \A l \in T : k <= l
    BY <2>2, LeastOf
  <2>4. PICK e \in es : e[1] = k
    BY <2>1
  <2>5. QED BY <2>1, <2>3, <2>4
<1>2. \E e \in es : \A f \in es : e[1] >= f[1]
  <2>1. PICK T : T = {NumBlocks - e[1] : e \in es}
    OBVIOUS
  <2>2. \A e \in es : e[1] \in 1..NumBlocks /\ NumBlocks - e[1] \in Nat
    BY ServicesAssumption, EventFields
  <2>3. T \subseteq Nat /\ T # {}
    BY <2>1, <2>2
  <2>4. PICK k \in T : \A l \in T : k <= l
    BY <2>3, LeastOf
  <2>5. PICK e \in es : NumBlocks - e[1] = k
    BY <2>1
  <2>6. ASSUME NEW f \in es PROVE e[1] >= f[1]
    <3>1. NumBlocks - e[1] <= NumBlocks - f[1]
      BY <2>1, <2>4, <2>5
    <3>2. QED BY <2>2, <3>1, ServicesAssumption
  <2>7. QED BY <2>6
<1>3. QED BY <1>1, <1>2 DEF I!First, I!Last

(* What throwing a job back makes of the queue. *)
LEMMA Thrown ==
    ASSUME I!TypeOK, I!SinglesAreSingle, NEW j \in v4
    PROVE  /\ I!Throw(j) \subseteq I!Job /\ IsFiniteSet(I!Throw(j))
           /\ Cardinality(I!Throw(j)) \in Nat /\ Cardinality(I!Throw(j)) <= MaxQueue
           /\ \A k \in v4 : k # j => k \in I!Throw(j)
           /\ \A k \in I!Throw(j) : k \in v4 \/ (k.events = j.events /\ k.kind = j.kind)
           /\ j.left # 1 => \E k \in I!Throw(j) : k.events = j.events /\ k.kind = j.kind
<1> USE SameSets
<1>1. j \in I!Job /\ IsFiniteSet(v4) /\ Cardinality(v4) <= MaxQueue
  BY DEF I!TypeOK, I!SinglesAreSingle
<1>2. IsFiniteSet(v4 \ {j}) /\ Cardinality(v4 \ {j}) = Cardinality(v4) - 1
  BY <1>1, FS_RemoveElement
<1>3. Cardinality(v4) \in Nat /\ Cardinality(v4 \ {j}) \in Nat
  BY <1>1, <1>2, FS_CardinalityType
<1>4. CASE j.left > 1
  <2>1. PICK n : n = j.left - 1
    OBVIOUS
  <2>2. PICK k : k = [j EXCEPT !.left = n]
    OBVIOUS
  <2>3. n \in 1..MaxAttempts
    BY <1>1, <1>4, <2>1, ServicesAssumption DEF I!Job
  <2>4. k \in I!Job /\ k.events = j.events /\ k.kind = j.kind
    BY <1>1, <2>2, <2>3 DEF I!Job
  <2>5. I!Throw(j) = (v4 \ {j}) \cup {k}
    BY <1>4, <2>1, <2>2 DEF I!Throw
  <2>6. /\ IsFiniteSet(I!Throw(j))
        /\ Cardinality(I!Throw(j)) \in {Cardinality(v4 \ {j}), Cardinality(v4 \ {j}) + 1}
    BY <1>2, <2>5, FS_AddElement
  <2>7. Cardinality(I!Throw(j)) \in Nat /\ Cardinality(I!Throw(j)) <= MaxQueue
    BY <1>1, <1>2, <1>3, <2>6, ServicesAssumption
  <2>8. I!Throw(j) \subseteq I!Job
    BY <2>4, <2>5 DEF I!TypeOK
  <2>9. /\ \A i \in v4 : i # j => i \in I!Throw(j)
        /\ \A i \in I!Throw(j) : i \in v4 \/ i = k
        /\ k \in I!Throw(j)
    BY <2>5
  <2>10. QED BY <2>4, <2>6, <2>7, <2>8, <2>9
<1>5. CASE ~(j.left > 1)
  <2>1. I!Throw(j) = v4 \ {j}
    BY <1>5 DEF I!Throw
  <2>2. j.left = 1
    BY <1>1, <1>5, ServicesAssumption DEF I!Job
  <2>3. I!Throw(j) \subseteq I!Job
    BY <2>1 DEF I!TypeOK
  <2>4. Cardinality(I!Throw(j)) \in Nat /\ Cardinality(I!Throw(j)) <= MaxQueue
    BY <1>1, <1>2, <1>3, <2>1, ServicesAssumption
  <2>5. QED BY <1>2, <2>1, <2>2, <2>3, <2>4
<1>6. QED BY <1>4, <1>5

(* There is an event of block b somewhere. *)
TableHas(b) == \E e \in v6 \cup v7 : e[1] = b

JobHas(j, b) == \E e \in j.events : e[1] = b

LEMMA HeldForm ==
    /\ I!NoEventVanishes <=>
          \A b \in I!Blocks : b \notin v9.dropped =>
              I!Awaited(b) \/ TableHas(b) \/ \E j \in v4 : JobHas(j, b)
    /\ \A j, b : I!HeldBesides(j, b) <=>
          I!Awaited(b) \/ TableHas(b) \/ \E k \in v4 : k # j /\ JobHas(k, b)
<1>1. \A b : I!Somewhere(b) <=> TableHas(b) \/ \E j \in v4 : JobHas(j, b)
  BY DEF I!Somewhere, TableHas, JobHas
<1>2. QED BY <1>1 DEF I!NoEventVanishes, I!HeldBesides, TableHas, JobHas

LEMMA InitIngestion == I!Init => I!TypeOK /\ I!IngestionInv
<1> SUFFICES ASSUME I!Init PROVE I!TypeOK /\ I!IngestionInv
  OBVIOUS
<1> USE ServicesAssumption, SameSets DEF I!Init
<1>1. IsFiniteSet({}) /\ Cardinality({}) = 0
  BY FS_EmptySet
<1>2. I!TypeOK
  BY <1>1 DEF I!TypeOK, I!Idle
<1>3. I!SinglesAreSingle /\ I!WorkIsQueued /\ I!SamplesAreLeft /\ I!DealtWithIsHeld
  BY <1>1 DEF I!SinglesAreSingle, I!WorkIsQueued, I!SamplesAreLeft, I!DealtWithIsHeld, I!Idle
<1>4. I!NoEventVanishes
  <2>1. ASSUME NEW b \in I!Blocks PROVE I!Awaited(b)
    <3>1. 1 \in 1..b /\ v2[1] = "pending"
      BY EventFields DEF I!Blocks
    <3>2. QED BY <3>1 DEF I!Awaited
  <2>2. QED BY <2>1 DEF I!NoEventVanishes
<1>5. QED BY <1>2, <1>3, <1>4 DEF I!IngestionInv

(* The same two properties in terms of blocks, before and after a step. *)
LEMMA DealtForm ==
    I!DealtWithIsHeld <=>
        (v9.dropped = {} /\ v5 # I!Idle =>
            \A e \in v5.job.events : e \notin v5.todo =>
                \/ I!Awaited(e[1]) \/ TableHas(e[1])
                \/ \E k \in v4 : k # v5.job /\ JobHas(k, e[1]))
BY DEF I!DealtWithIsHeld, I!HeldBesides, TableHas, JobHas

LEMMA NextForms ==
    /\ I!NoEventVanishes' <=>
          \A b \in I!Blocks : b \notin v9'.dropped =>
              I!Awaited(b)' \/ TableHas(b)' \/ \E j \in v4' : JobHas(j, b)
    /\ I!DealtWithIsHeld' <=>
        (v9'.dropped = {} /\ v5' # I!Idle =>
            \A e \in v5'.job.events : e \notin v5'.todo =>
                \/ I!Awaited(e[1])' \/ TableHas(e[1])'
                \/ \E k \in v4' : k # v5'.job /\ JobHas(k, e[1]))
<1>1. \A b : I!Somewhere(b)' <=> TableHas(b)' \/ \E j \in v4' : JobHas(j, b)
  BY DEF I!Somewhere, TableHas, JobHas
<1>2. I!NoEventVanishes' <=>
          \A b \in I!Blocks : b \notin v9'.dropped =>
              I!Awaited(b)' \/ TableHas(b)' \/ \E j \in v4' : JobHas(j, b)
  BY <1>1 DEF I!NoEventVanishes, I!Blocks
<1>3. I!DealtWithIsHeld' <=>
        (v9'.dropped = {} /\ v5' # I!Idle =>
            \A e \in v5'.job.events : e \notin v5'.todo =>
                \/ I!Awaited(e[1])' \/ TableHas(e[1])'
                \/ \E k \in v4' : k # v5'.job /\ JobHas(k, e[1]))
  BY DEF I!DealtWithIsHeld, I!HeldBesides, TableHas, JobHas, I!Idle
<1>4. QED BY <1>2, <1>3

IngestionFine == I!TypeOK /\ I!IngestionInv

(* The forms of the batch at work, of a check and of what is past. *)
LEMMA IngestionShapes ==
    ASSUME I!TypeOK
    PROVE  /\ v5 # I!Idle => /\ v5 \in [pc : {"each"}, job : I!Job, todo : SUBSET I!Event, stored : BOOLEAN]
                             /\ v5.job \in I!Job /\ v5.todo \subseteq I!Event
           /\ \A i \in Checkers :
                 /\ v8[i] = I!Idle <=> v8[i].pc = "idle"
                 /\ v8[i].pc = "sample" => v8[i].left \subseteq I!Event
                 /\ v8[i].pc = "reset" => v8[i].left \subseteq I!Event /\ v8[i].at \in I!Blocks
           /\ \A j \in v4 : /\ j \in I!Job /\ j.events \subseteq I!Event
                            /\ j.kind \in {"batch", "single"}
           /\ v9.dropped \subseteq I!Blocks
<1>1. I!Idle.pc = "idle"
  BY DEF I!Idle
<1>2. v5 # I!Idle => /\ v5 \in [pc : {"each"}, job : I!Job, todo : SUBSET I!Event, stored : BOOLEAN]
                     /\ v5.job \in I!Job /\ v5.todo \subseteq I!Event
  BY DEF I!TypeOK
<1>3. ASSUME NEW i \in Checkers
      PROVE  /\ v8[i] = I!Idle <=> v8[i].pc = "idle"
             /\ v8[i].pc = "sample" => v8[i].left \subseteq I!Event
             /\ v8[i].pc = "reset" => v8[i].left \subseteq I!Event /\ v8[i].at \in I!Blocks
  <2>1. CASE v8[i] = I!Idle
    BY <1>1, <2>1
  <2>2. CASE v8[i] \in [pc : {"sample"}, left : SUBSET I!Event]
    BY <1>1, <2>2
  <2>3. CASE v8[i] \in [pc : {"reset"}, left : SUBSET I!Event, at : I!Blocks]
    BY <1>1, <2>3
  <2>4. QED BY <2>1, <2>2, <2>3 DEF I!TypeOK
<1>4. \A j \in v4 : j \in I!Job /\ j.events \subseteq I!Event /\ j.kind \in {"batch", "single"}
  BY DEF I!TypeOK, I!Job
<1>5. v9.dropped \subseteq I!Blocks
  BY DEF I!TypeOK
<1>6. QED BY <1>2, <1>3, <1>4, <1>5

(* The queue, the batch at work and the checks stay, and every block that  *)
(* was stored or awaited is so, unless it is let go. *)
LEMMA NothingIsLost ==
    ASSUME IngestionFine, v9.dropped = {}, UNCHANGED <<v4, v5>>,
           \A b \in I!Blocks : b \notin v9'.dropped /\ (I!Awaited(b) \/ TableHas(b)) =>
                                  I!Awaited(b)' \/ TableHas(b)'
    PROVE  /\ I!SinglesAreSingle' /\ I!WorkIsQueued'
           /\ I!NoEventVanishes' /\ I!DealtWithIsHeld'
<1>1. I!SinglesAreSingle' /\ I!WorkIsQueued'
  BY DEF IngestionFine, I!IngestionInv, I!SinglesAreSingle, I!WorkIsQueued, I!Idle
<1>2. I!NoEventVanishes'
  BY HeldForm, NextForms DEF IngestionFine, I!IngestionInv
<1>3. I!DealtWithIsHeld'
  <2>1. ASSUME v5 # I!Idle, NEW e \in v5.job.events PROVE e[1] \in I!Blocks
    BY <2>1, IngestionShapes, EventFields DEF IngestionFine, I!Job
  <2>2. QED BY <2>1, DealtForm, NextForms DEF IngestionFine, I!IngestionInv
<1>4. QED BY <1>1, <1>2, <1>3

LEMMA StepChain ==
    ASSUME IngestionFine, v9.dropped = {}, NEW b \in I!Blocks,
           I!Reorganise(b) \/ I!AcquireRange(b) \/ I!MarkComplete(b)
    PROVE  IngestionFine'
<1>1. UNCHANGED <<v4, v5, v6, v7, v8>> /\ I!TypeOK /\ \A a : TableHas(a)' = TableHas(a)
  BY DEF I!Reorganise, I!AcquireRange, I!MarkComplete, IngestionFine, TableHas
<1>2. I!TypeOK'
  <2>1. CASE I!Reorganise(b)
    <3>1. \A c \in I!Blocks : v1[c] \in 1..Forks /\ (c >= b => v1[c] < Forks)
      BY <2>1, EventFields DEF I!TypeOK, I!Reorganise, I!Upwards, IngestionFine, I!Blocks
    <3>2. \A c \in I!Blocks : (IF c >= b THEN v1[c] + 1 ELSE v1[c]) \in 1..Forks
      BY <3>1, ServicesAssumption
    <3>3. v1' \in [I!Blocks -> 1..Forks]
      BY <2>1, <3>2 DEF I!Reorganise
    <3>4. QED BY <1>1, <2>1, <3>3 DEF I!TypeOK, I!Reorganise
  <2>2. CASE I!AcquireRange(b)
    BY <1>1, <2>2 DEF I!TypeOK, I!AcquireRange
  <2>3. CASE I!MarkComplete(b)
    <3>1. v9' \in [dropped : SUBSET I!Blocks, failures : 0..MaxFailures]
      <4>1. I!Upwards(b) \subseteq I!Blocks
        BY EventFields DEF I!Upwards, I!Blocks
      <4>2. PICK bs \in SUBSET I!Blocks : v9' = [v9 EXCEPT !.dropped = bs]
        BY <1>1, <2>3, <4>1 DEF I!MarkComplete, I!TypeOK
      <4>3. QED BY <1>1, <4>2 DEF I!TypeOK
    <3>2. QED BY <1>1, <2>3, <3>1 DEF I!TypeOK, I!MarkComplete
  <2>4. QED BY <2>1, <2>2, <2>3
<1>3. I!SamplesAreLeft'
  BY <1>1 DEF IngestionFine, I!IngestionInv, I!SamplesAreLeft
<1>4. ASSUME NEW a \in I!Blocks, a \notin v9'.dropped, I!Awaited(a) PROVE I!Awaited(a)'
  <2>1. CASE I!Reorganise(b)
    BY <1>1, <1>4, <2>1 DEF I!Reorganise, I!Awaited
  <2>2. CASE I!AcquireRange(b)
    <3>1. /\ v2 \in [I!Blocks -> {"absent", "pending", "processing", "completed"}]
          /\ v3 \in [I!Blocks -> {"none", "fetch", "mark"}]
      BY <1>1 DEF I!TypeOK
    <3>2. CASE \E c \in 1..a : v2[c] = "pending" \/ v3[c] = "fetch"
      <4>1. PICK c \in 1..a : v2[c] = "pending" \/ v3[c] = "fetch"
        BY <3>2
      <4>2. c \in I!Blocks
        <5>1. a \in 1..NumBlocks
          BY EventFields
        <5>2. QED BY <4>1, <5>1, ServicesAssumption DEF I!Blocks
      <4>3. v2'[c] = "pending" \/ v3'[c] = "fetch"
        BY <2>2, <3>1, <4>1, <4>2 DEF I!AcquireRange
      <4>4. QED BY <4>3 DEF I!Awaited
    <3>3. CASE ~ \E c \in 1..a : v2[c] = "pending" \/ v3[c] = "fetch"
      BY <1>1, <1>4, <3>3 DEF I!Awaited
    <3>4. QED BY <3>2, <3>3
  <2>3. CASE I!MarkComplete(b)
    <3>1. /\ v2 \in [I!Blocks -> {"absent", "pending", "processing", "completed"}]
          /\ v3 \in [I!Blocks -> {"none", "fetch", "mark"}]
      BY <1>1 DEF I!TypeOK
    <3>2. v2[b] = "pending" => a < b
      <4>1. v2[b] = "pending" => v9'.dropped = I!Upwards(b)
        BY <1>1, <2>3 DEF I!MarkComplete, I!TypeOK
      <4>2. a \in 1..NumBlocks /\ b \in 1..NumBlocks
        BY EventFields
      <4>3. QED BY <1>4, <4>1, <4>2, ServicesAssumption DEF I!Upwards
    <3>3. CASE \E c \in 1..a : v2[c] = "pending" \/ v3[c] = "fetch"
      <4>1. PICK c \in 1..a : v2[c] = "pending" \/ v3[c] = "fetch"
        BY <3>3
      <4>2. c \in I!Blocks /\ c <= a /\ a \in Nat /\ b \in Nat /\ c \in Nat
        <5>1. a \in 1..NumBlocks /\ b \in 1..NumBlocks
          BY EventFields
        <5>2. QED BY <4>1, <5>1, ServicesAssumption DEF I!Blocks
      <4>3. c # b
        BY <2>3, <3>2, <4>1, <4>2 DEF I!MarkComplete
      <4>4. v2'[c] = v2[c] /\ v3'[c] = v3[c]
        BY <2>3, <3>1, <4>2, <4>3 DEF I!MarkComplete
      <4>5. QED BY <4>1, <4>4 DEF I!Awaited
    <3>4. CASE ~ \E c \in 1..a : v2[c] = "pending" \/ v3[c] = "fetch"
      BY <1>1, <1>4, <3>4 DEF I!Awaited
    <3>5. QED BY <3>3, <3>4
  <2>4. QED BY <2>1, <2>2, <2>3
<1>5. /\ I!SinglesAreSingle' /\ I!WorkIsQueued' /\ I!NoEventVanishes' /\ I!DealtWithIsHeld'
  BY <1>1, <1>4, NothingIsLost
<1>6. QED BY <1>2, <1>3, <1>5 DEF IngestionFine, I!IngestionInv

(* After a step an event of block a is held besides the batch at work. *)
Kept(a) ==
    \/ I!Awaited(a)' \/ TableHas(a)'
    \/ \E k \in v4' : (v5' # I!Idle => k # v5'.job) /\ JobHas(k, a)

(* No event vanishes in a step that keeps every block that was held, but   *)
(* for those of the batch at work, and deals with no event otherwise. *)
LEMMA ThingsAreKept ==
    ASSUME IngestionFine, v9.dropped = {},
           \A a \in I!Blocks : a \notin v9'.dropped /\ (I!Awaited(a) \/ TableHas(a)) => Kept(a),
           \A j \in v4 : \A a \in I!Blocks :
              a \notin v9'.dropped /\ JobHas(j, a) =>
                  Kept(a) \/ (j \in v4' /\ v5' # I!Idle /\ j = v5'.job),
           v5' # I!Idle =>
              \A e \in v5'.job.events : e \notin v5'.todo =>
                  \/ v5 # I!Idle /\ v5'.job = v5.job /\ e \in v5.job.events /\ e \notin v5.todo
                  \/ Kept(e[1])
    PROVE  I!NoEventVanishes' /\ I!DealtWithIsHeld'
<1>1. I!TypeOK /\ I!NoEventVanishes /\ I!DealtWithIsHeld
  BY DEF IngestionFine, I!IngestionInv
<1>2. ASSUME NEW a \in I!Blocks, a \notin v9'.dropped
      PROVE  I!Awaited(a)' \/ TableHas(a)' \/ \E j \in v4' : JobHas(j, a)
  <2>1. I!Awaited(a) \/ TableHas(a) \/ \E j \in v4 : JobHas(j, a)
    BY <1>1, HeldForm
  <2>2. Kept(a) \/ \E j \in v4' : JobHas(j, a)
    BY <1>2, <2>1
  <2>3. QED BY <2>2 DEF Kept
<1>3. ASSUME v9'.dropped = {}, v5' # I!Idle, NEW e \in v5'.job.events, e \notin v5'.todo
      PROVE  \/ I!Awaited(e[1])' \/ TableHas(e[1])'
             \/ \E k \in v4' : k # v5'.job /\ JobHas(k, e[1])
  <2>1. Kept(e[1])
    <3>1. CASE v5 # I!Idle /\ v5'.job = v5.job /\ e \in v5.job.events /\ e \notin v5.todo
      <4>1. e[1] \in I!Blocks
        BY <1>1, <3>1, IngestionShapes, EventFields DEF I!Job
      <4>2. I!Awaited(e[1]) \/ TableHas(e[1]) \/ \E k \in v4 : k # v5.job /\ JobHas(k, e[1])
        BY <1>1, <3>1, DealtForm
      <4>3. QED BY <1>3, <3>1, <4>1, <4>2
    <3>2. QED BY <1>3, <3>1
  <2>2. QED BY <1>3, <2>1 DEF Kept
<1>4. QED BY <1>2, <1>3, NextForms

(* What adding a job to the queue does. *)
LEMMA Enqueued ==
    ASSUME IngestionFine, NEW j \in I!Job, I!Enqueue(j),
           j.kind = "single" => \A e, f \in j.events : e = f
    PROVE  /\ v4' \subseteq I!Job /\ I!Cardinality(v4') <= MaxQueue
           /\ I!SinglesAreSingle'
           /\ v4' = v4 \cup {j} /\ (v5 # I!Idle => j # v5.job)
<1>1. v4' = v4 \cup {j} /\ I!Cardinality(v4') <= MaxQueue /\ (v5 # I!Idle => j # v5.job)
  BY DEF I!Enqueue, I!Working
<1>2. v4 \subseteq I!Job /\ IsFiniteSet(v4)
  BY SameSets DEF IngestionFine, I!TypeOK, I!IngestionInv, I!SinglesAreSingle
<1>3. IsFiniteSet(v4')
  BY <1>1, <1>2, FS_AddElement
<1>4. I!SinglesAreSingle'
  <2>1. I!IsFiniteSet(v4')
    BY <1>3, SameSets
  <2>2. \A k \in v4' : k.kind = "single" => \A e, f \in k.events : e = f
    BY <1>1 DEF IngestionFine, I!IngestionInv, I!SinglesAreSingle
  <2>3. QED BY <2>1, <2>2 DEF I!SinglesAreSingle, I!IsFiniteSet
<1>5. QED BY <1>1, <1>2, <1>4

LEMMA FailureIs ==
    ASSUME I!TypeOK, NEW bs \in SUBSET I!Blocks, I!Failure(bs)
    PROVE  /\ v9' \in [dropped : SUBSET I!Blocks, failures : 0..MaxFailures]
           /\ v9'.dropped = bs
<1>1. PICK n : n = v9.failures + 1
  OBVIOUS
<1>2. n \in 0..MaxFailures
  BY <1>1, ServicesAssumption DEF I!TypeOK, I!Failure
<1>3. v9' = [dropped |-> bs, failures |-> n]
  BY <1>1 DEF I!Failure
<1>4. QED BY <1>2, <1>3

LEMMA StepFetch ==
    ASSUME IngestionFine, v9.dropped = {}, NEW b \in I!Blocks, I!QueueEvents(b)
    PROVE  IngestionFine'
<1>1. /\ I!TypeOK /\ UNCHANGED <<v1, v2, v5, v6, v7, v8, v9>> /\ \A a : TableHas(a)' = TableHas(a)
      /\ I!WorkIsQueued /\ I!SamplesAreLeft
  BY DEF I!QueueEvents, IngestionFine, TableHas, I!IngestionInv
<1>2. PICK es : es = {<<c, v1[c]>> : c \in I!Upwards(b)}
  OBVIOUS
<1>3. PICK j : j = I!Batch(es)
  OBVIOUS
<1>4. \A c \in I!Upwards(b) : c \in I!Blocks /\ v1[c] \in 1..Forks
  BY <1>1, EventFields, ServicesAssumption DEF I!Upwards, I!Blocks, I!TypeOK
<1>5. es \subseteq I!Event
  BY <1>2, <1>4, EventFields
<1>6. j \in I!Job /\ j.kind = "batch" /\ j.events = es
  BY <1>3, <1>5, ServicesAssumption DEF I!Job, I!Batch
<1>7. /\ v4' \subseteq I!Job /\ I!Cardinality(v4') <= MaxQueue
      /\ I!SinglesAreSingle'
      /\ v4' = v4 \cup {j} /\ (v5 # I!Idle => j # v5.job)
  <2>1. I!Enqueue(j)
    BY <1>2, <1>3 DEF I!QueueEvents
  <2>2. QED BY <1>6, <2>1, Enqueued
<1>8. I!TypeOK'
  BY <1>1, <1>7 DEF I!TypeOK, I!QueueEvents
<1>9. ASSUME NEW a \in I!Blocks, I!Awaited(a) PROVE Kept(a)
  <2>1. a \in 1..NumBlocks /\ b \in 1..NumBlocks
    BY EventFields
  <2>2. CASE a >= b
    <3>1. a \in I!Upwards(b)
      BY <2>1, <2>2, ServicesAssumption DEF I!Upwards
    <3>2. <<a, v1[a]>> \in j.events /\ <<a, v1[a]>>[1] = a
      BY <1>2, <1>6, <3>1
    <3>3. JobHas(j, a)
      BY <3>2 DEF JobHas
    <3>4. QED BY <1>1, <1>7, <3>3 DEF Kept
  <2>3. CASE a < b
    <3>1. \A c \in 1..a : c # b
      BY <2>1, <2>3
    <3>2. v3' = [v3 EXCEPT ![b] = "mark"] /\ v3 \in [I!Blocks -> {"none", "fetch", "mark"}]
      BY <1>1 DEF I!QueueEvents, I!TypeOK
    <3>3. \A c \in 1..a : c \in I!Blocks
      BY <2>1, ServicesAssumption DEF I!Blocks
    <3>4. \A c \in 1..a : v3'[c] = v3[c]
      BY <3>1, <3>2, <3>3
    <3>5. I!Awaited(a)'
      BY <1>1, <1>9, <3>4 DEF I!Awaited
    <3>6. QED BY <3>5 DEF Kept
  <2>4. QED BY <2>1, <2>2, <2>3, ServicesAssumption
<1>10. \A k \in v4 : \A a \in I!Blocks :
              JobHas(k, a) => Kept(a) \/ (k \in v4' /\ v5' # I!Idle /\ k = v5'.job)
  BY <1>7 DEF Kept
<1>11. I!NoEventVanishes' /\ I!DealtWithIsHeld'
  <2>1. \A a \in I!Blocks : I!Awaited(a) \/ TableHas(a) => Kept(a)
    BY <1>1, <1>9 DEF Kept
  <2>2. v5' # I!Idle =>
              \A e \in v5'.job.events : e \notin v5'.todo =>
                  v5 # I!Idle /\ v5'.job = v5.job /\ e \in v5.job.events /\ e \notin v5.todo
    BY <1>1
  <2>3. QED BY <1>10, <2>1, <2>2, ThingsAreKept
<1>12. I!WorkIsQueued' /\ I!SamplesAreLeft'
  BY <1>1, <1>7 DEF I!WorkIsQueued, I!SamplesAreLeft, I!Idle
<1>13. QED BY <1>7, <1>8, <1>11, <1>12 DEF IngestionFine, I!IngestionInv

(* Storing events leaves one of each of their blocks in the table. *)
LEMMA Stored ==
    ASSUME I!TypeOK, NEW es, es \subseteq I!Event, I!Store(es), UNCHANGED v7
    PROVE  /\ v6' \subseteq I!Event
           /\ \A a : TableHas(a) => TableHas(a)'
           /\ \A e \in es : TableHas(e[1])'
<1>1. v6' = v6 \cup {e \in es : \A r \in v6 : r[1] # e[1]} /\ v6 \subseteq I!Event
  BY DEF I!Store, I!TypeOK
<1>2. v6' \subseteq I!Event
  BY <1>1
<1>3. \A a : TableHas(a) => TableHas(a)'
  BY <1>1 DEF TableHas
<1>4. ASSUME NEW e \in es PROVE TableHas(e[1])'
  <2>1. CASE \A r \in v6 : r[1] # e[1]
    BY <1>1, <2>1 DEF TableHas
  <2>2. CASE \E r \in v6 : r[1] = e[1]
    BY <1>1, <2>2 DEF TableHas
  <2>3. QED BY <2>1, <2>2
<1>5. QED BY <1>2, <1>3, <1>4

(* A step leaves the ranges and the checks alone. *)
LEMMA StaysAwaited == UNCHANGED <<v2, v3, v8>> => \A a : I!Awaited(a)' = I!Awaited(a)
BY DEF I!Awaited

LEMMA StepIngest ==
    ASSUME IngestionFine, v9.dropped = {}, NEW j \in v4, I!Ingest(j) \/ I!IngestAndDie(j)
    PROVE  IngestionFine'
<1>1. /\ I!TypeOK /\ UNCHANGED <<v1, v2, v3, v5, v7, v8>> /\ I!Store(j.events)
      /\ (v5 # I!Idle => v5.job # j) /\ I!WorkIsQueued /\ I!SamplesAreLeft /\ I!SinglesAreSingle
  BY DEF I!Ingest, I!IngestAndDie, I!Working, IngestionFine, I!IngestionInv
<1>2. j.events \subseteq I!Event
  BY <1>1, IngestionShapes
<1>3. /\ v6' \subseteq I!Event
      /\ \A a : TableHas(a) => TableHas(a)'
      /\ \A e \in j.events : TableHas(e[1])'
  BY <1>1, <1>2, Stored
<1>4. v9' \in [dropped : SUBSET I!Blocks, failures : 0..MaxFailures]
  <2>1. CASE I!Ingest(j)
    BY <1>1, <2>1 DEF I!Ingest, I!TypeOK
  <2>2. CASE I!IngestAndDie(j)
    BY <1>1, <2>2, FailureIs DEF I!IngestAndDie
  <2>3. QED BY <2>1, <2>2
<1>5. /\ v4' \subseteq v4 /\ IsFiniteSet(v4') /\ Cardinality(v4') <= MaxQueue
      /\ \A k \in v4 : k # j => k \in v4'
  <2>1. IsFiniteSet(v4) /\ Cardinality(v4) <= MaxQueue
    BY <1>1, SameSets DEF I!TypeOK, I!SinglesAreSingle
  <2>2. CASE I!Ingest(j)
    <3>1. v4' = v4 \ {j}
      BY <2>2 DEF I!Ingest
    <3>2. IsFiniteSet(v4') /\ Cardinality(v4') = Cardinality(v4) - 1
      BY <2>1, <3>1, FS_RemoveElement
    <3>3. Cardinality(v4) \in Nat
      BY <2>1, FS_CardinalityType
    <3>4. QED BY <2>1, <3>1, <3>2, <3>3, ServicesAssumption
  <2>3. CASE I!IngestAndDie(j)
    BY <2>1, <2>3 DEF I!IngestAndDie
  <2>4. QED BY <2>2, <2>3
<1>6. I!TypeOK'
  <2>1. v4' \subseteq I!Job /\ I!Cardinality(v4') <= MaxQueue
    BY <1>1, <1>5, SameSets DEF I!TypeOK
  <2>2. QED BY <1>1, <1>3, <1>4, <2>1 DEF I!TypeOK
<1>7. I!SinglesAreSingle' /\ I!WorkIsQueued' /\ I!SamplesAreLeft'
  <2>1. I!IsFiniteSet(v4')
    BY <1>5, SameSets
  <2>2. I!SinglesAreSingle'
    BY <1>1, <1>5, <2>1 DEF I!SinglesAreSingle, I!IsFiniteSet
  <2>3. I!WorkIsQueued' /\ I!SamplesAreLeft'
    BY <1>1, <1>5 DEF I!WorkIsQueued, I!SamplesAreLeft, I!Idle
  <2>4. QED BY <2>2, <2>3
<1>8. I!NoEventVanishes' /\ I!DealtWithIsHeld'
  <2>1. \A a \in I!Blocks : I!Awaited(a) \/ TableHas(a) => Kept(a)
    BY <1>1, <1>3, StaysAwaited DEF Kept
  <2>2. ASSUME NEW k \in v4, NEW a \in I!Blocks, JobHas(k, a)
        PROVE  Kept(a) \/ (k \in v4' /\ v5' # I!Idle /\ k = v5'.job)
    <3>1. CASE k = j
      <4>1. TableHas(a)'
        BY <1>3, <2>2, <3>1 DEF JobHas
      <4>2. QED BY <4>1 DEF Kept
    <3>2. CASE k # j
      BY <1>5, <2>2, <3>2 DEF Kept
    <3>3. QED BY <3>1, <3>2
  <2>3. v5' # I!Idle =>
              \A e \in v5'.job.events : e \notin v5'.todo =>
                  v5 # I!Idle /\ v5'.job = v5.job /\ e \in v5.job.events /\ e \notin v5.todo
    BY <1>1
  <2>4. QED BY <2>1, <2>2, <2>3, ThingsAreKept
<1>9. QED BY <1>6, <1>7, <1>8 DEF IngestionFine, I!IngestionInv

(* The batch deals with its first event, by storing it or by queueing it. *)
LEMMA StepEach ==
    ASSUME IngestionFine, v9.dropped = {}, I!StoreNext \/ I!RequeueNext
    PROVE  IngestionFine'
<1>1. /\ I!TypeOK /\ UNCHANGED <<v1, v2, v3, v7, v8, v9>> /\ v5 # I!Idle /\ v5.todo # {}
      /\ I!WorkIsQueued /\ I!SamplesAreLeft /\ I!SinglesAreSingle /\ I!DealtWithIsHeld
  BY DEF I!StoreNext, I!RequeueNext, IngestionFine, I!IngestionInv
<1>2. PICK e : e = I!First(v5.todo)
  OBVIOUS
<1>3. /\ v5 \in [pc : {"each"}, job : I!Job, todo : SUBSET I!Event, stored : BOOLEAN]
      /\ v5.job \in I!Job /\ v5.todo \subseteq I!Event
  BY <1>1, IngestionShapes
<1>4. e \in v5.todo /\ e \in I!Event
  BY <1>1, <1>2, <1>3, FirstAndLast
<1>5. PICK left : left = v5.todo \ {e}
  OBVIOUS
<1>6. PICK yes \in BOOLEAN : yes = TRUE
  OBVIOUS
<1>7. PICK w : w = [v5 EXCEPT !.todo = left]
  OBVIOUS
<1>8. /\ w \in [pc : {"each"}, job : I!Job, todo : SUBSET I!Event, stored : BOOLEAN]
      /\ w.job = v5.job /\ w.todo = left
  BY <1>3, <1>5, <1>7
<1>9. PICK x : x = [w EXCEPT !.stored = yes]
  OBVIOUS
<1>10. /\ x \in [pc : {"each"}, job : I!Job, todo : SUBSET I!Event, stored : BOOLEAN]
       /\ x.job = v5.job /\ x.todo = left
  BY <1>6, <1>8, <1>9
<1>11. v5' = x \/ v5' = w
  <2>1. CASE I!StoreNext
    <3>1. v5' = [v5 EXCEPT !.todo = @ \ {e}, !.stored = TRUE]
      BY <1>2, <2>1 DEF I!StoreNext
    <3>2. v5' = x
      BY <1>3, <1>5, <1>6, <1>7, <1>9, <3>1
    <3>3. QED BY <3>2
  <2>2. CASE I!RequeueNext
    BY <1>2, <1>5, <1>7, <2>2 DEF I!RequeueNext
  <2>3. QED BY <1>1, <2>1, <2>2
<1>12. /\ v5' \in [pc : {"each"}, job : I!Job, todo : SUBSET I!Event, stored : BOOLEAN]
       /\ v5'.job = v5.job /\ v5'.todo = left
  BY <1>8, <1>10, <1>11
<1>13. /\ v4' \subseteq I!Job /\ I!Cardinality(v4') <= MaxQueue /\ I!SinglesAreSingle'
       /\ v4 \subseteq v4' /\ v6' \subseteq I!Event
       /\ \A a : TableHas(a) => TableHas(a)'
       /\ TableHas(e[1])' \/ \E k \in v4' : k # v5.job /\ JobHas(k, e[1])
  <2>1. CASE I!StoreNext
    <3>1. I!Store({e}) /\ {e} \subseteq I!Event /\ v4' = v4
      BY <1>2, <1>4, <2>1 DEF I!StoreNext
    <3>2. /\ v6' \subseteq I!Event /\ \A a : TableHas(a) => TableHas(a)'
          /\ TableHas(e[1])'
      BY <1>1, <3>1, Stored
    <3>3. v4' \subseteq I!Job /\ I!Cardinality(v4') <= MaxQueue /\ I!SinglesAreSingle'
      BY <1>1, <3>1 DEF I!TypeOK, I!SinglesAreSingle
    <3>4. QED BY <3>1, <3>2, <3>3
  <2>2. CASE I!RequeueNext
    <3>1. PICK j : j = I!Single(e, 1, 1)
      OBVIOUS
    <3>2. j \in I!Job /\ j.kind = "single" /\ j.events = {e}
      BY <1>4, <3>1, ServicesAssumption DEF I!Job, I!Single
    <3>3. I!Enqueue(j) /\ v6' = v6
      BY <1>2, <2>2, <3>1 DEF I!RequeueNext
    <3>4. /\ v4' \subseteq I!Job /\ I!Cardinality(v4') <= MaxQueue /\ I!SinglesAreSingle'
          /\ v4' = v4 \cup {j} /\ j # v5.job
      BY <1>1, <3>2, <3>3, Enqueued
    <3>5. JobHas(j, e[1])
      BY <3>2 DEF JobHas
    <3>6. v6' \subseteq I!Event /\ \A a : TableHas(a) => TableHas(a)'
      BY <1>1, <3>3 DEF I!TypeOK, TableHas
    <3>7. QED BY <3>4, <3>5, <3>6
  <2>3. QED BY <2>1, <2>2
<1>14. I!TypeOK'
  BY <1>1, <1>12, <1>13 DEF I!TypeOK, I!Idle
<1>15. I!WorkIsQueued' /\ I!SamplesAreLeft'
  BY <1>1, <1>12, <1>13 DEF I!WorkIsQueued, I!SamplesAreLeft, I!Idle
<1>16. I!NoEventVanishes' /\ I!DealtWithIsHeld'
  <2>1. \A a \in I!Blocks : I!Awaited(a) \/ TableHas(a) => Kept(a)
    BY <1>1, <1>13, StaysAwaited DEF Kept
  <2>2. \A k \in v4 : \A a \in I!Blocks :
           JobHas(k, a) => Kept(a) \/ (k \in v4' /\ v5' # I!Idle /\ k = v5'.job)
    BY <1>13 DEF Kept
  <2>3. Kept(e[1])
    BY <1>12, <1>13 DEF Kept
  <2>4. \A f \in v5'.job.events : f \notin v5'.todo =>
            \/ v5 # I!Idle /\ v5'.job = v5.job /\ f \in v5.job.events /\ f \notin v5.todo
            \/ Kept(f[1])
    BY <1>1, <1>5, <1>12, <2>3
  <2>5. QED BY <2>1, <2>2, <2>4, ThingsAreKept
<1>17. QED BY <1>13, <1>14, <1>15, <1>16 DEF IngestionFine, I!IngestionInv

(* The worker begins with the events of a batch, or dies. *)
LEMMA StepWorker ==
    ASSUME IngestionFine, v9.dropped = {}, I!Stall \/ \E j \in v4 : I!BatchFails(j)
    PROVE  IngestionFine'
<1>1. /\ I!TypeOK /\ UNCHANGED <<v1, v2, v3, v4, v6, v7, v8>> /\ I!Failure({})
      /\ I!WorkIsQueued /\ I!SamplesAreLeft /\ I!SinglesAreSingle
  BY DEF I!Stall, I!BatchFails, IngestionFine, I!IngestionInv
<1>2. v9' \in [dropped : SUBSET I!Blocks, failures : 0..MaxFailures]
  BY <1>1, FailureIs
<1>3. /\ v5' = I!Idle \/ v5' \in [pc : {"each"}, job : I!Job, todo : SUBSET I!Event, stored : BOOLEAN]
      /\ v5' # I!Idle => v5'.job \in v4 /\ v5'.job.kind = "batch" /\ v5'.todo = v5'.job.events
  <2>1. CASE I!Stall
    BY <2>1 DEF I!Stall
  <2>2. CASE \E j \in v4 : I!BatchFails(j)
    <3>1. PICK j \in v4 : I!BatchFails(j)
      BY <2>2
    <3>2. PICK no \in BOOLEAN : no = FALSE
      OBVIOUS
    <3>3. v5' = [pc |-> "each", job |-> j, todo |-> j.events, stored |-> no]
      BY <3>1, <3>2 DEF I!BatchFails
    <3>4. j \in I!Job /\ j.events \subseteq I!Event
      BY <1>1, IngestionShapes
    <3>5. QED BY <3>1, <3>3, <3>4 DEF I!BatchFails
  <2>3. QED BY <2>1, <2>2
<1>4. I!TypeOK'
  BY <1>1, <1>2, <1>3 DEF I!TypeOK, I!Idle
<1>5. I!SinglesAreSingle' /\ I!WorkIsQueued' /\ I!SamplesAreLeft'
  BY <1>1, <1>3 DEF I!SinglesAreSingle, I!WorkIsQueued, I!SamplesAreLeft, I!Idle
<1>6. I!NoEventVanishes' /\ I!DealtWithIsHeld'
  <2>1. \A a : I!Awaited(a) \/ TableHas(a) => Kept(a)
    BY <1>1, StaysAwaited DEF Kept, TableHas
  <2>2. \A k \in v4 : \A a \in I!Blocks :
           JobHas(k, a) => Kept(a) \/ (k \in v4' /\ v5' # I!Idle /\ k = v5'.job)
    BY <1>1 DEF Kept
  <2>3. v5' # I!Idle => \A f \in v5'.job.events : f \in v5'.todo
    BY <1>3
  <2>4. QED BY <2>1, <2>2, <2>3, ThingsAreKept
<1>7. QED BY <1>4, <1>5, <1>6 DEF IngestionFine, I!IngestionInv

(* A job that is thrown back, with the queue as Throw leaves it: its       *)
(* events are then held otherwise, or it is still there. *)
LEMMA StepThrow ==
    ASSUME IngestionFine, v9.dropped = {}, NEW j \in v4, v4' = I!Throw(j),
           UNCHANGED <<v2, v3, v6, v8>>, v7 \subseteq v7', v5' = I!Idle,
           \A a \in I!Blocks : a \notin v9'.dropped /\ JobHas(j, a) =>
              \/ \E k \in v4' : k.events = j.events
              \/ I!HeldBesides(j, a) \/ TableHas(a)'
    PROVE  /\ v4' \subseteq I!Job /\ I!Cardinality(v4') <= MaxQueue
           /\ I!SinglesAreSingle' /\ I!WorkIsQueued'
           /\ I!NoEventVanishes' /\ I!DealtWithIsHeld'
<1>1. I!TypeOK /\ I!SinglesAreSingle
  BY DEF IngestionFine, I!IngestionInv
<1>2. /\ v4' \subseteq I!Job /\ IsFiniteSet(v4') /\ Cardinality(v4') <= MaxQueue
      /\ \A k \in v4 : k # j => k \in v4'
      /\ \A k \in v4' : k \in v4 \/ (k.events = j.events /\ k.kind = j.kind)
  BY <1>1, Thrown
<1>3. I!SinglesAreSingle'
  <2>1. I!IsFiniteSet(v4')
    BY <1>2, SameSets
  <2>2. \A k \in v4' : k.kind = "single" => \A e, f \in k.events : e = f
    BY <1>1, <1>2 DEF I!SinglesAreSingle
  <2>3. QED BY <2>1, <2>2 DEF I!SinglesAreSingle, I!IsFiniteSet
<1>4. I!WorkIsQueued'
  BY DEF I!WorkIsQueued, I!Idle
<1>5. \A a : I!Awaited(a) \/ TableHas(a) => Kept(a)
  BY StaysAwaited DEF Kept, TableHas
<1>6. ASSUME NEW k \in v4, NEW a \in I!Blocks, a \notin v9'.dropped, JobHas(k, a) PROVE Kept(a)
  <2>1. CASE k # j
    BY <1>2, <1>6, <2>1 DEF Kept
  <2>2. CASE k = j
    <3>1. CASE \E i \in v4' : i.events = j.events
      BY <1>6, <2>2, <3>1 DEF Kept, JobHas
    <3>2. CASE I!HeldBesides(j, a)
      <4>1. I!Awaited(a) \/ TableHas(a) \/ \E i \in v4 : i # j /\ JobHas(i, a)
        BY <3>2, HeldForm
      <4>2. QED BY <1>2, <1>5, <4>1 DEF Kept
    <3>3. CASE TableHas(a)'
      BY <3>3 DEF Kept
    <3>4. QED BY <1>6, <2>2, <3>1, <3>2, <3>3
  <2>3. QED BY <2>1, <2>2
<1>7. I!NoEventVanishes' /\ I!DealtWithIsHeld'
  BY <1>5, <1>6, ThingsAreKept
<1>8. I!Cardinality(v4') <= MaxQueue
  BY <1>2, SameSets
<1>9. QED BY <1>2, <1>3, <1>4, <1>7, <1>8

LEMMA StepEnds ==
    ASSUME IngestionFine, v9.dropped = {}, I!BatchEnds \/ I!RequeueBreaks
    PROVE  IngestionFine'
<1>1. /\ I!TypeOK /\ UNCHANGED <<v1, v2, v3, v6, v7, v8>> /\ v5 # I!Idle /\ v5' = I!Idle
      /\ I!WorkIsQueued /\ I!SamplesAreLeft /\ I!SinglesAreSingle /\ I!DealtWithIsHeld
  BY DEF I!BatchEnds, I!RequeueBreaks, I!AddFails, IngestionFine, I!IngestionInv
<1>2. PICK j : j = v5.job
  OBVIOUS
<1>3. j \in v4 /\ j \in I!Job /\ v5.todo \subseteq I!Event /\ j.events \subseteq I!Event
  BY <1>1, <1>2, IngestionShapes DEF I!WorkIsQueued
<1>4. \A e \in j.events : e \notin v5.todo => I!HeldBesides(j, e[1])
  BY <1>1, <1>2 DEF I!DealtWithIsHeld
<1>5. I!SamplesAreLeft'
  BY <1>1 DEF I!SamplesAreLeft
<1>6. CASE I!BatchEnds /\ v5.stored
  <2>1. v5.todo = {} /\ v4' = v4 \ {j} /\ v9' = v9
    BY <1>2, <1>6 DEF I!BatchEnds
  <2>2. IsFiniteSet(v4) /\ Cardinality(v4) <= MaxQueue
    BY <1>1, SameSets DEF I!TypeOK, I!SinglesAreSingle
  <2>3. IsFiniteSet(v4') /\ Cardinality(v4') = Cardinality(v4) - 1
    BY <1>3, <2>1, <2>2, FS_RemoveElement
  <2>4. Cardinality(v4) \in Nat
    BY <2>2, FS_CardinalityType
  <2>5. v4' \subseteq I!Job /\ Cardinality(v4') <= MaxQueue
    BY <1>1, <2>1, <2>2, <2>3, <2>4, ServicesAssumption DEF I!TypeOK
  <2>6. I!TypeOK'
    <3>1. I!Cardinality(v4') <= MaxQueue
      BY <2>5, SameSets
    <3>2. QED BY <1>1, <2>1, <2>5, <3>1 DEF I!TypeOK
  <2>7. I!SinglesAreSingle' /\ I!WorkIsQueued'
    <3>1. I!IsFiniteSet(v4')
      BY <2>3, SameSets
    <3>2. I!SinglesAreSingle'
      BY <1>1, <2>1, <3>1 DEF I!SinglesAreSingle, I!IsFiniteSet
    <3>3. I!WorkIsQueued'
      BY <1>1 DEF I!WorkIsQueued, I!Idle
    <3>4. QED BY <3>2, <3>3
  <2>8. \A a : I!Awaited(a) \/ TableHas(a) => Kept(a)
    BY <1>1, StaysAwaited DEF Kept, TableHas
  <2>9. ASSUME NEW k \in v4, NEW a \in I!Blocks, JobHas(k, a) PROVE Kept(a)
    <3>1. CASE k # j
      BY <1>1, <2>1, <2>9, <3>1 DEF Kept
    <3>2. CASE k = j
      <4>1. I!HeldBesides(j, a)
        BY <1>4, <2>1, <2>9, <3>2 DEF JobHas
      <4>2. I!Awaited(a) \/ TableHas(a) \/ \E i \in v4 : i # j /\ JobHas(i, a)
        BY <4>1, HeldForm
      <4>3. QED BY <1>1, <2>1, <2>8, <4>2 DEF Kept
    <3>3. QED BY <3>1, <3>2
  <2>10. I!NoEventVanishes' /\ I!DealtWithIsHeld'
    BY <1>1, <2>8, <2>9, ThingsAreKept
  <2>11. QED BY <1>5, <2>6, <2>7, <2>10 DEF IngestionFine, I!IngestionInv
<1>7. CASE ~(I!BatchEnds /\ v5.stored)
  <2>1. v4' = I!Throw(j)
    BY <1>2, <1>7 DEF I!BatchEnds, I!RequeueBreaks, I!AddFails
  <2>2. v9' \in [dropped : SUBSET I!Blocks, failures : 0..MaxFailures]
    <3>1. CASE I!BatchEnds
      BY <1>1, <3>1 DEF I!BatchEnds, I!TypeOK
    <3>2. CASE I!RequeueBreaks
      <4>1. PICK bs : bs = IF j.left = 1 THEN {e[1] : e \in v5.todo} ELSE {}
        OBVIOUS
      <4>2. bs \in SUBSET I!Blocks
        BY <1>3, <4>1, EventFields
      <4>3. I!Failure(bs)
        BY <1>2, <3>2, <4>1 DEF I!RequeueBreaks, I!AddFails
      <4>4. QED BY <1>1, <4>2, <4>3, FailureIs
    <3>3. QED BY <3>1, <3>2
  <2>3. ASSUME NEW a \in I!Blocks, a \notin v9'.dropped, JobHas(j, a)
        PROVE  \/ \E k \in v4' : k.events = j.events
               \/ I!HeldBesides(j, a) \/ TableHas(a)'
    <3>1. PICK e \in j.events : e[1] = a
      BY <2>3 DEF JobHas
    <3>2. CASE j.left # 1
      BY <1>1, <1>3, <2>1, <3>2, Thrown
    <3>3. CASE e \notin v5.todo
      BY <1>4, <3>1, <3>3
    <3>4. CASE j.left = 1 /\ e \in v5.todo
      <4>1. I!RequeueBreaks
        BY <3>4 DEF I!BatchEnds
      <4>2. PICK bs : bs = {f[1] : f \in v5.todo}
        OBVIOUS
      <4>3. bs \in SUBSET I!Blocks
        BY <1>3, <4>2, EventFields
      <4>4. I!Failure(bs)
        BY <1>2, <3>4, <4>1, <4>2 DEF I!RequeueBreaks, I!AddFails
      <4>5. v9'.dropped = bs
        BY <1>1, <4>3, <4>4, FailureIs
      <4>6. QED BY <2>3, <3>1, <3>4, <4>2, <4>5
    <3>5. QED BY <3>2, <3>3, <3>4
  <2>4. /\ v4' \subseteq I!Job /\ I!Cardinality(v4') <= MaxQueue
        /\ I!SinglesAreSingle' /\ I!WorkIsQueued'
        /\ I!NoEventVanishes' /\ I!DealtWithIsHeld'
    BY <1>1, <1>3, <2>1, <2>3, StepThrow
  <2>5. I!TypeOK'
    BY <1>1, <2>2, <2>4 DEF I!TypeOK
  <2>6. QED BY <1>5, <2>4, <2>5 DEF IngestionFine, I!IngestionInv
<1>8. QED BY <1>6, <1>7

(* A job of one event fails: it is thrown back, and its event is a dead    *)
(* letter, in a job of its own, in the job thrown back, or let go. *)
LEMMA StepSingle ==
    ASSUME IngestionFine, v9.dropped = {}, NEW j \in v4, I!SingleFails(j) \/ I!SingleBreaks(j)
    PROVE  IngestionFine'
<1>1. /\ I!TypeOK /\ UNCHANGED <<v1, v2, v3, v5, v6, v8>> /\ j.kind = "single"
      /\ I!WorkIsQueued /\ I!SamplesAreLeft /\ I!SinglesAreSingle
  BY DEF I!SingleFails, I!SingleBreaks, I!AddFails, IngestionFine, I!IngestionInv
<1>2. /\ j \in I!Job /\ j.events \subseteq I!Event
      /\ \A e, f \in j.events : e = f
  BY <1>1, IngestionShapes DEF I!SinglesAreSingle
<1>3. /\ I!Throw(j) \subseteq I!Job /\ IsFiniteSet(I!Throw(j))
      /\ Cardinality(I!Throw(j)) <= MaxQueue
      /\ \A k \in v4 : k # j => k \in I!Throw(j)
      /\ \A k \in I!Throw(j) : k \in v4 \/ (k.events = j.events /\ k.kind = j.kind)
      /\ j.left # 1 => \E k \in I!Throw(j) : k.events = j.events /\ k.kind = j.kind
  BY <1>1, Thrown
<1>4. \A k \in I!Throw(j) : k.kind = "single" => \A e, f \in k.events : e = f
  BY <1>1, <1>2, <1>3 DEF I!SinglesAreSingle
<1>5. v5 # I!Idle => v5.job # j /\ v5.job.kind = "batch" /\ v5.job \in I!Throw(j)
  BY <1>1, <1>3 DEF I!WorkIsQueued
<1>6. /\ v4' \subseteq I!Job /\ IsFiniteSet(v4') /\ I!Cardinality(v4') <= MaxQueue
      /\ I!Throw(j) \subseteq v4'
      /\ \A k \in v4' : k.kind = "single" => \A e, f \in k.events : e = f
      /\ v7 \subseteq v7' /\ v7' \subseteq I!Event
      /\ v9' \in [dropped : SUBSET I!Blocks, failures : 0..MaxFailures]
      /\ \A e \in j.events : \/ e[1] \in v9'.dropped \/ e \in v7'
                             \/ \E k \in v4' : k.kind = "single" /\ e \in k.events
  <2>1. CASE I!SingleFails(j)
    <3>1. PICK e \in j.events :
              IF j.retry >= MaxEventRetries
              THEN v7' = v7 \cup {e} /\ v4' = I!Throw(j)
              ELSE /\ v4' = I!Throw(j) \cup {I!Single(e, j.retry + 1, 1)}
                   /\ I!Cardinality(v4') <= MaxQueue
                   /\ v7' = v7
      BY <2>1 DEF I!SingleFails
    <3>2. e \in I!Event /\ \A f \in j.events : f = e
      BY <1>2
    <3>3. v9' \in [dropped : SUBSET I!Blocks, failures : 0..MaxFailures]
      BY <1>1, <2>1, FailureIs DEF I!SingleFails
    <3>4. CASE j.retry >= MaxEventRetries
      <4>1. v7' = v7 \cup {e} /\ v4' = I!Throw(j)
        BY <3>1, <3>4
      <4>2. v7' \subseteq I!Event
        BY <1>1, <3>2, <4>1 DEF I!TypeOK
      <4>3. I!Cardinality(v4') <= MaxQueue
        BY <1>3, <4>1, SameSets
      <4>4. QED BY <1>3, <1>4, <3>2, <3>3, <4>1, <4>2, <4>3
    <3>5. CASE ~(j.retry >= MaxEventRetries)
      <4>1. PICK n : n = j.retry + 1
        OBVIOUS
      <4>2. n \in 0..MaxEventRetries
        BY <1>2, <3>5, <4>1, ServicesAssumption DEF I!Job
      <4>3. PICK s : s = I!Single(e, n, 1)
        OBVIOUS
      <4>4. s \in I!Job /\ s.kind = "single" /\ s.events = {e}
        BY <3>2, <4>2, <4>3, ServicesAssumption DEF I!Job, I!Single
      <4>5. v4' = I!Throw(j) \cup {s} /\ I!Cardinality(v4') <= MaxQueue /\ v7' = v7
        BY <3>1, <3>5, <4>1, <4>3
      <4>6. IsFiniteSet(v4')
        BY <1>3, <4>5, FS_AddElement
      <4>7. /\ v4' \subseteq I!Job
            /\ \A k \in v4' : k.kind = "single" => \A f, g \in k.events : f = g
        BY <1>3, <1>4, <4>4, <4>5
      <4>8. \A f \in j.events : \E k \in v4' : k.kind = "single" /\ f \in k.events
        BY <3>2, <4>4, <4>5
      <4>9. v7' \subseteq I!Event
        BY <1>1, <4>5 DEF I!TypeOK
      <4>10. QED BY <3>3, <4>5, <4>6, <4>7, <4>8, <4>9
    <3>6. QED BY <3>4, <3>5
  <2>2. CASE I!SingleBreaks(j)
    <3>1. PICK bs : bs = IF j.left = 1 THEN {e[1] : e \in j.events} ELSE {}
      OBVIOUS
    <3>2. bs \in SUBSET I!Blocks
      BY <1>2, <3>1, EventFields
    <3>3. I!Failure(bs) /\ v4' = I!Throw(j) /\ v7' = v7
      BY <2>2, <3>1 DEF I!SingleBreaks, I!AddFails
    <3>4. /\ v9' \in [dropped : SUBSET I!Blocks, failures : 0..MaxFailures]
          /\ v9'.dropped = bs
      BY <1>1, <3>2, <3>3, FailureIs
    <3>5. \A e \in j.events : \/ e[1] \in v9'.dropped
                              \/ \E k \in v4' : k.kind = "single" /\ e \in k.events
      <4>1. CASE j.left = 1
        BY <3>1, <3>4, <4>1
      <4>2. CASE j.left # 1
        BY <1>1, <1>3, <3>3, <4>2
      <4>3. QED BY <4>1, <4>2
    <3>6. I!Cardinality(v4') <= MaxQueue
      BY <1>3, <3>3, SameSets
    <3>7. v7' \subseteq I!Event
      BY <1>1, <3>3 DEF I!TypeOK
    <3>8. QED BY <1>3, <1>4, <3>3, <3>4, <3>5, <3>6, <3>7
  <2>3. QED BY <2>1, <2>2
<1>7. I!TypeOK'
  BY <1>1, <1>6 DEF I!TypeOK
<1>8. I!SinglesAreSingle' /\ I!WorkIsQueued' /\ I!SamplesAreLeft'
  <2>1. I!IsFiniteSet(v4')
    BY <1>6, SameSets
  <2>2. I!SinglesAreSingle'
    BY <1>6, <2>1 DEF I!SinglesAreSingle, I!IsFiniteSet
  <2>3. I!WorkIsQueued' /\ I!SamplesAreLeft'
    BY <1>1, <1>5, <1>6 DEF I!WorkIsQueued, I!SamplesAreLeft, I!Idle
  <2>4. QED BY <2>2, <2>3
<1>9. I!NoEventVanishes' /\ I!DealtWithIsHeld'
  <2>1. \A a : I!Awaited(a) \/ TableHas(a) => Kept(a)
    BY <1>1, <1>6, StaysAwaited DEF Kept, TableHas
  <2>2. ASSUME NEW k \in v4, NEW a \in I!Blocks, a \notin v9'.dropped, JobHas(k, a)
        PROVE  Kept(a) \/ (k \in v4' /\ v5' # I!Idle /\ k = v5'.job)
    <3>1. CASE k # j
      BY <1>3, <1>6, <2>2, <3>1 DEF Kept
    <3>2. CASE k = j
      <4>1. PICK e \in j.events : e[1] = a
        BY <2>2, <3>2 DEF JobHas
      <4>2. CASE e \in v7'
        BY <4>1, <4>2 DEF Kept, TableHas
      <4>3. CASE \E i \in v4' : i.kind = "single" /\ e \in i.events
        BY <1>1, <1>5, <4>1, <4>3 DEF Kept, JobHas, I!Idle
      <4>4. QED BY <1>6, <2>2, <4>1, <4>2, <4>3
    <3>3. QED BY <3>1, <3>2
  <2>3. v5' # I!Idle =>
              \A e \in v5'.job.events : e \notin v5'.todo =>
                  v5 # I!Idle /\ v5'.job = v5.job /\ e \in v5.job.events /\ e \notin v5.todo
    BY <1>1
  <2>4. QED BY <2>1, <2>2, <2>3, ThingsAreKept
<1>10. QED BY <1>7, <1>8, <1>9 DEF IngestionFine, I!IngestionInv

LEMMA StepRetryLetter ==
    ASSUME IngestionFine, v9.dropped = {}, NEW e \in v7, I!RetryDeadLetterJob(e)
    PROVE  IngestionFine'
<1>1. /\ I!TypeOK /\ UNCHANGED <<v1, v2, v3, v5, v6, v8, v9>> /\ v7' = v7 \ {e}
      /\ I!WorkIsQueued /\ I!SamplesAreLeft
  BY DEF I!RetryDeadLetterJob, IngestionFine, I!IngestionInv
<1>2. PICK j : j = I!Single(e, 0, MaxAttempts)
  OBVIOUS
<1>3. j \in I!Job /\ j.kind = "single" /\ j.events = {e}
  BY <1>1, <1>2, ServicesAssumption DEF I!Job, I!Single, I!TypeOK
<1>4. /\ v4' \subseteq I!Job /\ I!Cardinality(v4') <= MaxQueue /\ I!SinglesAreSingle'
      /\ v4' = v4 \cup {j} /\ (v5 # I!Idle => j # v5.job)
  <2>1. I!Enqueue(j)
    BY <1>2 DEF I!RetryDeadLetterJob
  <2>2. QED BY <1>3, <2>1, Enqueued
<1>5. I!TypeOK'
  BY <1>1, <1>4 DEF I!TypeOK
<1>6. I!WorkIsQueued' /\ I!SamplesAreLeft'
  BY <1>1, <1>4 DEF I!WorkIsQueued, I!SamplesAreLeft, I!Idle
<1>7. I!NoEventVanishes' /\ I!DealtWithIsHeld'
  <2>1. ASSUME NEW a, I!Awaited(a) \/ TableHas(a) PROVE Kept(a)
    <3>1. CASE I!Awaited(a) \/ \E f \in v6' \cup v7' : f[1] = a
      BY <1>1, <3>1, StaysAwaited DEF Kept, TableHas
    <3>2. CASE e[1] = a
      <4>1. JobHas(j, a)
        BY <1>3, <3>2 DEF JobHas
      <4>2. QED BY <1>1, <1>4, <4>1 DEF Kept
    <3>3. QED BY <1>1, <2>1, <3>1, <3>2 DEF TableHas
  <2>2. \A k \in v4 : \A a \in I!Blocks :
           JobHas(k, a) => Kept(a) \/ (k \in v4' /\ v5' # I!Idle /\ k = v5'.job)
    BY <1>4 DEF Kept
  <2>3. v5' # I!Idle =>
              \A f \in v5'.job.events : f \notin v5'.todo =>
                  v5 # I!Idle /\ v5'.job = v5.job /\ f \in v5.job.events /\ f \notin v5.todo
    BY <1>1
  <2>4. QED BY <2>1, <2>2, <2>3, ThingsAreKept
<1>8. QED BY <1>4, <1>5, <1>6, <1>7 DEF IngestionFine, I!IngestionInv

(* What a check goes on with. *)
LEMMA RestIs ==
    ASSUME NEW left, left \subseteq I!Event
    PROVE  /\ I!Rest(left) \in {I!Idle} \cup [pc : {"sample"}, left : SUBSET I!Event]
           /\ I!Rest(left).pc \in {"idle", "sample"}
           /\ I!Rest(left).pc = "sample" => I!Rest(left).left # {}
<1>1. CASE left = {}
  BY <1>1 DEF I!Rest, I!Idle
<1>2. CASE left # {}
  <2>1. I!Rest(left) = [pc |-> "sample", left |-> left]
    BY <1>2 DEF I!Rest
  <2>2. QED BY <1>2, <2>1
<1>3. QED BY <1>1, <1>2

(* A step of one check: the events it deletes are awaited, and what it     *)
(* awaited is pending or let go. *)
LEMMA CheckMoves ==
    ASSUME IngestionFine, v9.dropped = {}, NEW i \in Checkers, NEW x,
           v8' = [v8 EXCEPT ![i] = x], UNCHANGED <<v1, v3, v4, v5, v7>>,
           x \in {I!Idle} \cup [pc : {"sample"}, left : SUBSET I!Event]
                          \cup [pc : {"reset"}, left : SUBSET I!Event, at : I!Blocks],
           x.pc = "sample" => x.left # {},
           v2' \in [I!Blocks -> {"absent", "pending", "processing", "completed"}],
           \A b \in I!Blocks : v2[b] = "pending" => v2'[b] = "pending",
           v6' \subseteq v6,
           v9' \in [dropped : SUBSET I!Blocks, failures : 0..MaxFailures],
           \A a \in I!Blocks :
              a \notin v9'.dropped /\ v8[i].pc = "reset" /\ v8[i].at <= a => I!Awaited(a)',
           \A r \in v6 : r \in v6' \/ I!Awaited(r[1])'
    PROVE  IngestionFine'
<1>1. I!TypeOK /\ I!SamplesAreLeft
  BY DEF IngestionFine, I!IngestionInv
<1>2. v8'[i] = x /\ \A k \in Checkers \ {i} : v8'[k] = v8[k]
  BY <1>1 DEF I!TypeOK
<1>3. I!TypeOK'
  <2>1. v8' \in [Checkers -> {I!Idle} \cup [pc : {"sample"}, left : SUBSET I!Event]
                                \cup [pc : {"reset"}, left : SUBSET I!Event, at : I!Blocks]]
    BY <1>1 DEF I!TypeOK
  <2>2. v6' \subseteq I!Event
    BY <1>1 DEF I!TypeOK
  <2>3. QED BY <1>1, <2>1, <2>2 DEF I!TypeOK, I!Idle
<1>4. I!SamplesAreLeft'
  BY <1>1, <1>2 DEF I!SamplesAreLeft
<1>5. ASSUME NEW a \in I!Blocks, a \notin v9'.dropped, I!Awaited(a) PROVE I!Awaited(a)'
  <2>1. CASE \E c \in 1..a : v2[c] = "pending" \/ v3[c] = "fetch"
    <3>1. PICK c \in 1..a : v2[c] = "pending" \/ v3[c] = "fetch"
      BY <2>1
    <3>2. c \in I!Blocks
      <4>1. a \in 1..NumBlocks
        BY EventFields
      <4>2. QED BY <3>1, <4>1, ServicesAssumption DEF I!Blocks
    <3>3. v2'[c] = "pending" \/ v3'[c] = "fetch"
      BY <3>1, <3>2
    <3>4. QED BY <3>3 DEF I!Awaited
  <2>2. CASE \E k \in Checkers : v8[k].pc = "reset" /\ v8[k].at <= a
    <3>1. PICK k \in Checkers : v8[k].pc = "reset" /\ v8[k].at <= a
      BY <2>2
    <3>2. CASE k = i
      BY <1>5, <3>1, <3>2
    <3>3. CASE k # i
      BY <1>2, <3>1, <3>3 DEF I!Awaited
    <3>4. QED BY <3>2, <3>3
  <2>3. QED BY <1>5, <2>1, <2>2 DEF I!Awaited
<1>6. ASSUME NEW a \in I!Blocks, TableHas(a) PROVE I!Awaited(a)' \/ TableHas(a)'
  <2>1. PICK e \in v6 \cup v7 : e[1] = a
    BY <1>6 DEF TableHas
  <2>2. CASE e \in v6' \cup v7'
    BY <2>1, <2>2 DEF TableHas
  <2>3. CASE e \in v6 /\ e \notin v6'
    BY <2>1, <2>3
  <2>4. QED BY <2>1, <2>2, <2>3
<1>7. I!SinglesAreSingle' /\ I!WorkIsQueued' /\ I!NoEventVanishes' /\ I!DealtWithIsHeld'
  BY <1>5, <1>6, NothingIsLost
<1>8. QED BY <1>3, <1>4, <1>7 DEF IngestionFine, I!IngestionInv

LEMMA StepCheck ==
    ASSUME IngestionFine, v9.dropped = {}, NEW i \in Checkers,
           \/ I!CheckForReorgs(i) \/ I!Pass(i) \/ I!DeleteEvents(i)
           \/ I!ResetRange(i) \/ I!ResetFails(i)
    PROVE  IngestionFine'
<1>1. I!TypeOK /\ I!SamplesAreLeft /\ v6 \subseteq I!Event
      /\ v2 \in [I!Blocks -> {"absent", "pending", "processing", "completed"}]
      /\ v9 \in [dropped : SUBSET I!Blocks, failures : 0..MaxFailures]
  BY DEF IngestionFine, I!IngestionInv, I!TypeOK
<1>2. /\ v8[i] = I!Idle <=> v8[i].pc = "idle"
      /\ v8[i].pc = "sample" => v8[i].left \subseteq I!Event /\ v8[i].left # {}
      /\ v8[i].pc = "reset" => v8[i].left \subseteq I!Event /\ v8[i].at \in I!Blocks
  BY <1>1, IngestionShapes DEF I!SamplesAreLeft
<1>3. CASE I!CheckForReorgs(i)
  <2>1. PICK x : x = [pc |-> "sample", left |-> v6]
    OBVIOUS
  <2>2. /\ v8' = [v8 EXCEPT ![i] = x] /\ v6 # {} /\ v8[i].pc = "idle"
        /\ UNCHANGED <<v1, v2, v3, v4, v5, v6, v7, v9>>
    BY <1>2, <1>3, <2>1 DEF I!CheckForReorgs
  <2>3. x \in [pc : {"sample"}, left : SUBSET I!Event] /\ (x.pc = "sample" => x.left # {})
    BY <1>1, <2>1, <2>2
  <2>4. QED BY <1>1, <2>2, <2>3, CheckMoves
<1>4. CASE I!Pass(i)
  <2>1. PICK left : left = v8[i].left \ {I!Last(v8[i].left)}
    OBVIOUS
  <2>2. PICK x : x = I!Rest(left)
    OBVIOUS
  <2>3. /\ v8' = [v8 EXCEPT ![i] = x] /\ v8[i].pc = "sample"
        /\ UNCHANGED <<v1, v2, v3, v4, v5, v6, v7, v9>>
    BY <1>4, <2>1, <2>2 DEF I!Pass
  <2>4. left \subseteq I!Event
    BY <1>2, <2>1, <2>3
  <2>5. /\ x \in {I!Idle} \cup [pc : {"sample"}, left : SUBSET I!Event]
        /\ x.pc = "sample" => x.left # {}
    BY <2>2, <2>4, RestIs
  <2>6. QED BY <1>1, <2>3, <2>5, CheckMoves
<1>5. CASE I!DeleteEvents(i)
  <2>1. PICK e : e = I!Last(v8[i].left)
    OBVIOUS
  <2>2. PICK x : x = [pc |-> "reset", left |-> v8[i].left \ {e}, at |-> e[1]]
    OBVIOUS
  <2>3. /\ v8' = [v8 EXCEPT ![i] = x] /\ v8[i].pc = "sample"
        /\ UNCHANGED <<v1, v2, v3, v4, v5, v7, v9>>
        /\ v6' = {r \in v6 : r[1] < e[1]}
    BY <1>5, <2>1, <2>2 DEF I!DeleteEvents
  <2>4. e \in v8[i].left /\ e[1] \in I!Blocks
    BY <1>2, <2>1, <2>3, FirstAndLast, EventFields
  <2>5. x \in [pc : {"reset"}, left : SUBSET I!Event, at : I!Blocks] /\ x.pc = "reset" /\ x.at = e[1]
    BY <1>2, <2>2, <2>3, <2>4
  <2>6. v8'[i] = x
    BY <1>1, <2>3 DEF I!TypeOK
  <2>7. ASSUME NEW r \in v6, r \notin v6' PROVE I!Awaited(r[1])'
    <3>1. r[1] \in 1..NumBlocks /\ e[1] \in 1..NumBlocks
      BY <1>1, <2>4, EventFields
    <3>2. e[1] <= r[1]
      BY <2>3, <2>7, <3>1, ServicesAssumption
    <3>3. QED BY <2>5, <2>6, <3>2 DEF I!Awaited
  <2>8. v6' \subseteq v6
    BY <2>3
  <2>9. QED BY <1>1, <2>3, <2>5, <2>7, <2>8, CheckMoves
<1>6. CASE I!ResetRange(i)
  <2>1. PICK x : x = I!Rest(v8[i].left)
    OBVIOUS
  <2>2. PICK b : b = v8[i].at
    OBVIOUS
  <2>3. /\ v8' = [v8 EXCEPT ![i] = x] /\ v8[i].pc = "reset"
        /\ UNCHANGED <<v1, v3, v4, v5, v6, v7, v9>>
        /\ v2' = [v2 EXCEPT ![b] = "pending"]
    BY <1>6, <2>1, <2>2 DEF I!ResetRange
  <2>4. /\ x \in {I!Idle} \cup [pc : {"sample"}, left : SUBSET I!Event]
        /\ x.pc = "sample" => x.left # {}
    BY <1>2, <2>1, <2>3, RestIs
  <2>5. b \in I!Blocks
    BY <1>2, <2>2, <2>3
  <2>6. /\ v2' \in [I!Blocks -> {"absent", "pending", "processing", "completed"}]
        /\ v2'[b] = "pending"
        /\ \A c \in I!Blocks : v2[c] = "pending" => v2'[c] = "pending"
    BY <1>1, <2>3, <2>5
  <2>7. ASSUME NEW a \in I!Blocks, b <= a PROVE I!Awaited(a)'
    <3>1. b \in 1..NumBlocks /\ a \in 1..NumBlocks
      BY <2>5, EventFields
    <3>2. b \in 1..a
      BY <2>7, <3>1, ServicesAssumption
    <3>3. QED BY <2>6, <3>2 DEF I!Awaited
  <2>8. QED BY <1>1, <2>2, <2>3, <2>4, <2>6, <2>7, CheckMoves
<1>7. CASE I!ResetFails(i)
  <2>1. PICK x : x = I!Rest(v8[i].left)
    OBVIOUS
  <2>2. PICK bs : bs = I!Upwards(v8[i].at)
    OBVIOUS
  <2>3. /\ v8' = [v8 EXCEPT ![i] = x] /\ v8[i].pc = "reset"
        /\ UNCHANGED <<v1, v2, v3, v4, v5, v6, v7>>
        /\ I!Failure(bs)
    BY <1>7, <2>1, <2>2 DEF I!ResetFails
  <2>4. /\ x \in {I!Idle} \cup [pc : {"sample"}, left : SUBSET I!Event]
        /\ x.pc = "sample" => x.left # {}
    BY <1>2, <2>1, <2>3, RestIs
  <2>5. v8[i].at \in 1..NumBlocks
    BY <1>2, <2>3, EventFields
  <2>6. bs \in SUBSET I!Blocks
    BY <2>2, <2>5, ServicesAssumption DEF I!Upwards, I!Blocks
  <2>7. /\ v9' \in [dropped : SUBSET I!Blocks, failures : 0..MaxFailures]
        /\ v9'.dropped = bs
    BY <1>1, <2>3, <2>6, FailureIs
  <2>8. ASSUME NEW a \in I!Blocks, v8[i].at <= a PROVE a \in v9'.dropped
    <3>1. a \in 1..NumBlocks
      BY EventFields
    <3>2. QED BY <2>2, <2>5, <2>7, <2>8, <3>1, ServicesAssumption DEF I!Upwards
  <2>9. QED BY <1>1, <2>3, <2>4, <2>7, <2>8, CheckMoves
<1>8. QED BY <1>3, <1>4, <1>5, <1>6, <1>7

LEMMA StepIngestion ==
    IngestionFine /\ [I!Next]_(I!vars) => IngestionFine'
<1> SUFFICES ASSUME IngestionFine, [I!Next]_(I!vars) PROVE IngestionFine'
  OBVIOUS
<1>1. CASE UNCHANGED I!vars
  <2>1. UNCHANGED <<v1, v2, v3, v4, v5, v6, v7, v8, v9>>
    BY <1>1 DEF I!vars
  <2>2. I!TypeOK' /\ I!SamplesAreLeft'
    BY <2>1 DEF IngestionFine, I!IngestionInv, I!TypeOK, I!SamplesAreLeft, I!Idle
  <2>3. \A b : I!Awaited(b)' = I!Awaited(b) /\ TableHas(b)' = TableHas(b)
    BY <2>1 DEF I!Awaited, TableHas
  <2>4. I!SinglesAreSingle' /\ I!WorkIsQueued'
    BY <2>1 DEF IngestionFine, I!IngestionInv, I!SinglesAreSingle, I!WorkIsQueued, I!Idle
  <2>5. I!NoEventVanishes' /\ I!DealtWithIsHeld'
    BY <2>1, <2>3, HeldForm, DealtForm, NextForms DEF IngestionFine, I!IngestionInv
  <2>6. QED BY <2>2, <2>4, <2>5 DEF IngestionFine, I!IngestionInv
<1>2. CASE I!Next
  <2>1. v9.dropped = {}
    BY <1>2 DEF I!Next
  <2>2. CASE \E b \in I!Blocks : I!Reorganise(b) \/ I!AcquireRange(b) \/ I!MarkComplete(b)
    BY <2>1, <2>2, StepChain
  <2>3. CASE \E b \in I!Blocks : I!QueueEvents(b)
    BY <2>1, <2>3, StepFetch
  <2>4. CASE \E j \in v4 : I!Ingest(j) \/ I!IngestAndDie(j)
    BY <2>1, <2>4, StepIngest
  <2>5. CASE I!Stall \/ \E j \in v4 : I!BatchFails(j)
    BY <2>1, <2>5, StepWorker
  <2>6. CASE \E j \in v4 : I!SingleFails(j) \/ I!SingleBreaks(j)
    BY <2>1, <2>6, StepSingle
  <2>7. CASE I!StoreNext \/ I!RequeueNext
    BY <2>1, <2>7, StepEach
  <2>8. CASE I!BatchEnds \/ I!RequeueBreaks
    BY <2>1, <2>8, StepEnds
  <2>9. CASE \E e \in v7 : I!RetryDeadLetterJob(e)
    BY <2>1, <2>9, StepRetryLetter
  <2>10. CASE \E i \in Checkers : \/ I!CheckForReorgs(i) \/ I!Pass(i) \/ I!DeleteEvents(i)
                                  \/ I!ResetRange(i) \/ I!ResetFails(i)
    BY <2>1, <2>10, StepCheck
  <2>11. QED
    BY <1>2, <2>2, <2>3, <2>4, <2>5, <2>6, <2>7, <2>8, <2>9, <2>10 DEF I!Next
<1>3. QED BY <1>1, <1>2

LEMMA IngestionSubject ==
    /\ MCInit /\ subject = "ingestion" => I!Init
    /\ [MCNext]_all => UNCHANGED subject
    /\ [MCNext]_all /\ subject = "ingestion" => [I!Next]_(I!vars)
<1>1. MCInit /\ subject = "ingestion" => I!Init
  BY DEF MCInit
<1>2. [MCNext]_all => UNCHANGED subject
  BY DEF MCNext, all
<1>3. [MCNext]_all /\ subject = "ingestion" => [I!Next]_(I!vars)
  BY DEF MCNext, all, I!vars
<1>4. QED BY <1>1, <1>2, <1>3

(* As long as no reset of a range is lost and no queue refuses an event,   *)
(* every block has its event in the table, in a job or among the dead      *)
(* letters, or is going to be fetched, whatever fails, dies or is          *)
(* reorganised meanwhile (EventIngestionProcessor, checkForReorgs). *)
THEOREM EventsDoNotVanish == MCSpec => []NoEventVanishes
<1> DEFINE Inv == subject = "ingestion" => IngestionFine
<1>1. MCInit => Inv
  BY IngestionSubject, InitIngestion DEF IngestionFine
<1>2. Inv /\ [MCNext]_all => Inv'
  BY IngestionSubject, StepIngestion
<1>3. Inv => NoEventVanishes
  BY DEF NoEventVanishes, IngestionFine, I!IngestionInv
<1>4. QED
  BY <1>1, <1>2, <1>3, PTL DEF MCSpec
=============================================================================
