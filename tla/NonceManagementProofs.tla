----------------------- MODULE NonceManagementProofs -----------------------
(***************************************************************************)
(* Proofs about NonceManagement, for any number of calls, any nonces an    *)
(* administrator may set, no bound on the nonce but MaxNonce.              *)
(*                                                                         *)
(* NoncesNeverReused is not inductive: it needs to know that the row a     *)
(* transaction has read is still the row it will write.  For a row that    *)
(* exists the lock says so (LockProtects); for one that was missing the    *)
(* unique address does, as a missing row stands for nonce 0 (AbsentIsZero).*)
(***************************************************************************)
EXTENDS NonceManagement, TLAPS

AbsentIsZero ==
    /\ ~row.here => row.nonce = 0
    /\ \A c \in Callers : ~call[c].seen.here => call[c].seen.nonce = 0

LockProtects ==
    \A c \in Callers : call[c].pc = "incrementing" /\ call[c].seen.here =>
        lock = c /\ row.here /\ row.nonce = call[c].seen.nonce

(* What a call is about to set was asked for by an administrator. *)
SettingsAsked == \A c \in Callers : call[c].pc = "setting" => call[c].val \in AdminNonces

NonceInv == AbsentIsZero /\ LockProtects /\ NoncesNeverReused

(* A reader nobody has overtaken still has the value of the row. *)
ReadersAreCurrent ==
    \A c \in Callers : call[c].pc \in {"filling", "inserting"} /\ ~call[c].overtaken =>
        call[c].val = row.nonce

CacheInv == ReadersAreCurrent /\ CacheIsCurrent

-----------------------------------------------------------------------------
(* Typing *)

LEMMA ConstantsTyped == NoRow \in Row /\ NoEntry \in Cache /\ Idle \in CallState
BY DEF NoRow, NoEntry, Idle, Row, Cache, CallState, Usage

LEMMA CallTyped ==
    ASSUME TypeOK, NEW c \in Callers
    PROVE  /\ call[c] \in CallState
           /\ call[c].seen \in Row
           /\ call[c].seen.nonce \in Nat
           /\ call[c].val \in Nat
           /\ row.nonce \in Nat
           /\ Settled \in Nat
BY DEF TypeOK, CallState, Row, Settled

LEMMA ReturnTyped ==
    ASSUME TypeOK, NEW c \in Callers, Return(c)
    PROVE  call' \in [Callers -> CallState]
BY ConstantsTyped DEF Return, TypeOK

LEMMA CommittedTyped ==
    ASSUME TypeOK, NEW c \in Callers, Committed(c)
    PROVE  call' \in [Callers -> CallState]
<1>1. [Idle EXCEPT !.pc = "committed"] \in CallState
  BY ConstantsTyped DEF CallState, Idle
<1>2. \A d \in Callers : [call[d] EXCEPT !.overtaken = TRUE] \in CallState
  BY DEF TypeOK, CallState
<1>3. QED BY <1>1, <1>2 DEF Committed

LEMMA CallStepTyped ==
    ASSUME TypeOK, NEW c \in Callers, CallStep(c)
    PROVE  TypeOK'
<1>1. CASE BeginIncrement(c)
  <2>1. [Idle EXCEPT !.pc = "incrementing", !.seen = row] \in CallState
    BY ConstantsTyped DEF TypeOK, CallState, Idle
  <2>2. QED BY <1>1, <2>1 DEF BeginIncrement, TypeOK
<1>2. CASE CommitIncrement(c)
  <2>1. row' \in Row
    BY <1>2, CallTyped DEF CommitIncrement, Row, Usage
  <2>2. log' \in Seq(Nat)
    BY <1>2, CallTyped DEF CommitIncrement, TypeOK
  <2>3. call' \in [Callers -> CallState]
    BY <1>2, CommittedTyped DEF CommitIncrement
  <2>4. QED BY <1>2, <2>1, <2>2, <2>3 DEF CommitIncrement, TypeOK, Unlock
<1>3. CASE RollBackIncrement(c)
  BY <1>3, ReturnTyped DEF RollBackIncrement, TypeOK, Unlock
<1>4. CASE Invalidate(c)
  BY <1>4, ReturnTyped, ConstantsTyped DEF Invalidate, TypeOK
<1>5. CASE CacheHit(c)
  BY <1>5, CallTyped DEF CacheHit, TypeOK, Answered, Cache
<1>6. CASE CacheMiss(c)
  <2>1. [Idle EXCEPT !.pc = IF row.here THEN "filling" ELSE "inserting",
                     !.val = row.nonce, !.asked = Settled] \in CallState
    BY ConstantsTyped, CallTyped DEF CallState, Idle
  <2>2. QED BY <1>6, <2>1 DEF CacheMiss, TypeOK
<1>7. CASE InsertZero(c)
  <2>1. [NoRow EXCEPT !.here = TRUE] \in Row
    BY ConstantsTyped DEF Row, NoRow
  <2>2. [call[c] EXCEPT !.pc = "filling", !.val = 0] \in CallState
    BY DEF TypeOK, CallState
  <2>3. ASSUME Goto(c, "filling", 0) PROVE call' \in [Callers -> CallState]
    <3>1. call' = [call EXCEPT ![c] = [call[c] EXCEPT !.pc = "filling", !.val = 0]]
      BY <2>3 DEF Goto, TypeOK, CallState
    <3>2. QED BY <2>2, <3>1 DEF TypeOK
  <2>4. QED BY <1>7, <2>1, <2>3, ReturnTyped DEF InsertZero, TypeOK
<1>8. CASE FillCache(c)
  <2>1. call[c].val \in Nat /\ call[c].asked \in Nat /\ call[c].overtaken \in BOOLEAN
    BY DEF TypeOK, CallState
  <2>2. QED BY <1>8, <2>1, ReturnTyped DEF FillCache, TypeOK, Answered, Cache
<1>9. CASE BeginSet(c)
  <2>1. \A n \in AdminNonces : [Idle EXCEPT !.pc = "setting", !.seen = row, !.val = n] \in CallState
    BY ConstantsTyped, NonceAssumption DEF TypeOK, CallState, Idle
  <2>2. QED BY <1>9, <2>1 DEF BeginSet, TypeOK
<1>10. CASE CommitSet(c)
  <2>1. row' \in Row
    BY <1>10, CallTyped DEF CommitSet, Row
  <2>2. call' \in [Callers -> CallState]
    BY <1>10, CommittedTyped DEF CommitSet
  <2>3. QED BY <1>10, <2>1, <2>2, CallTyped DEF CommitSet, TypeOK
<1>11. CASE SetThrows(c)
  BY <1>11, ReturnTyped DEF SetThrows, TypeOK
<1>12. QED
  BY <1>1, <1>2, <1>3, <1>4, <1>5, <1>6, <1>7, <1>8, <1>9, <1>10, <1>11 DEF CallStep

LEMMA StepTyped == TypeOK /\ [Next]_vars => TypeOK'
<1> SUFFICES ASSUME TypeOK, [Next]_vars PROVE TypeOK'
  OBVIOUS
<1>1. ASSUME NEW c \in Callers, CallStep(c) PROVE TypeOK'
  BY <1>1, CallStepTyped
<1>2. CASE CacheExpires
  BY <1>2 DEF CacheExpires, TypeOK, Cache
<1>3. CASE ClearStaleCache
  BY <1>3, ConstantsTyped DEF ClearStaleCache, TypeOK
<1>4. CASE CleanupOldNonces
  BY <1>4, ConstantsTyped DEF CleanupOldNonces, TypeOK
<1>5. CASE Age
  BY <1>5 DEF Age, TypeOK, Row, Usage
<1>6. CASE Crash
  BY <1>6, ConstantsTyped DEF Crash, TypeOK
<1>7. CASE UNCHANGED vars
  BY <1>7 DEF vars, TypeOK
<1>8. QED
  BY <1>1, <1>2, <1>3, <1>4, <1>5, <1>6, <1>7 DEF Next

(* Every variable keeps its type. *)
THEOREM TypeCorrect == Spec => []TypeOK
<1>1. Init => TypeOK
  BY ConstantsTyped DEF Init, TypeOK
<1>2. QED BY <1>1, StepTyped, PTL DEF Spec
-----------------------------------------------------------------------------
(* Nonces *)

(* A step that changes neither the nonce nor the lock, and puts at most a  *)
(* call that is not incrementing in place of call c. *)
LEMMA NonceFrame ==
    ASSUME TypeOK, NonceInv, NEW c \in Callers,
           UNCHANGED <<lock, base, log>>,
           row'.nonce = row.nonce, row.here => row'.here,
           \A d \in Callers \ {c} : call'[d].pc = call[d].pc /\ call'[d].seen = call[d].seen,
           \/ call'[c].pc = call[c].pc /\ call'[c].seen = call[c].seen
           \/ call'[c].pc # "incrementing" /\ (~call'[c].seen.here => call'[c].seen.nonce = 0)
    PROVE  NonceInv'
<1>1. AbsentIsZero'
  BY DEF NonceInv, AbsentIsZero
<1>2. LockProtects'
  BY DEF NonceInv, LockProtects
<1>3. NoncesNeverReused'
  BY DEF NonceInv, NoncesNeverReused
<1>4. QED BY <1>1, <1>2, <1>3 DEF NonceInv

LEMMA IdleFacts == Idle.pc = "idle" /\ Idle.seen = NoRow /\ ~NoRow.here /\ NoRow.nonce = 0
BY DEF Idle, NoRow

LEMMA ReturnFrame ==
    ASSUME TypeOK, NonceInv, NEW c \in Callers, Return(c), UNCHANGED <<lock, base, log>>,
           row'.nonce = row.nonce, row.here => row'.here
    PROVE  NonceInv'
<1>1. call'[c] = Idle /\ \A d \in Callers \ {c} : call'[d] = call[d]
  BY DEF Return, TypeOK
<1>2. QED BY <1>1, IdleFacts, NonceFrame

LEMMA CommittedFacts ==
    ASSUME TypeOK, NEW c \in Callers, Committed(c)
    PROVE  /\ call'[c].pc = "committed" /\ call'[c].seen = NoRow
           /\ \A d \in Callers \ {c} : /\ call'[d].pc = call[d].pc
                                       /\ call'[d].seen = call[d].seen
                                       /\ call'[d].val = call[d].val
                                       /\ call'[d].overtaken = TRUE
<1>1. call'[c].pc = "committed" /\ call'[c].seen = NoRow
  BY DEF Committed, Idle
<1>2. QED BY <1>1 DEF Committed, TypeOK, CallState

(* An increment that may commit has seen the nonce of the row. *)
LEMMA SeenIsCurrent ==
    ASSUME TypeOK, NonceInv, NEW c \in Callers, call[c].pc = "incrementing",
           call[c].seen.here \/ ~row.here
    PROVE  call[c].seen.nonce = row.nonce
<1>1. CASE call[c].seen.here
  BY <1>1 DEF NonceInv, LockProtects
<1>2. CASE ~call[c].seen.here
  BY <1>2 DEF NonceInv, AbsentIsZero
<1>3. QED BY <1>1, <1>2

(* While it runs, no other increment has seen the row. *)
LEMMA OneWriter ==
    ASSUME TypeOK, NonceInv, NEW c \in Callers, NEW d \in Callers \ {c},
           call[c].pc = "incrementing", call[c].seen.here \/ ~row.here,
           call[d].pc = "incrementing"
    PROVE  ~call[d].seen.here
<1> SUFFICES ASSUME call[d].seen.here PROVE FALSE
  OBVIOUS
<1>1. lock = d /\ row.here
  BY DEF NonceInv, LockProtects
<1>2. lock = c
  BY <1>1 DEF NonceInv, LockProtects
<1>3. QED BY <1>1, <1>2

LEMMA CommitIncrementNonces ==
    ASSUME TypeOK, NonceInv, NEW c \in Callers, CommitIncrement(c)
    PROVE  NonceInv'
<1> USE DEF CommitIncrement
<1>1. call[c].seen.nonce = row.nonce
  BY SeenIsCurrent
<1>2. row'.here /\ row'.nonce = row.nonce + 1
  BY <1>1
<1>3. AbsentIsZero'
  <2>1. \A d \in Callers : ~call'[d].seen.here => call'[d].seen.nonce = 0
    BY CommittedFacts, IdleFacts DEF NonceInv, AbsentIsZero
  <2>2. QED BY <1>2, <2>1 DEF AbsentIsZero
<1>4. LockProtects'
  <2> SUFFICES ASSUME NEW d \in Callers, call'[d].pc = "incrementing", call'[d].seen.here
               PROVE  FALSE
    BY DEF LockProtects
  <2>1. d # c
    BY CommittedFacts
  <2>2. call[d].pc = "incrementing" /\ call[d].seen.here
    BY <2>1, CommittedFacts
  <2>3. QED BY <2>1, <2>2, OneWriter
<1>5. NoncesNeverReused'
  <2>1. log \in Seq(Nat) /\ row.nonce \in Nat /\ base \in Nat
    BY CallTyped DEF TypeOK
  <2>2. log' = Append(log, row.nonce) /\ base' = base
    BY <1>1
  <2>3. row.nonce = base + Len(log) /\ \A i \in 1..Len(log) : log[i] = base + i - 1
    BY <2>1 DEF NonceInv, NoncesNeverReused
  <2>4. Len(log') = Len(log) + 1
    BY <2>1, <2>2
  <2>5. ASSUME NEW i \in 1..Len(log') PROVE log'[i] = base + i - 1
    <3>1. CASE i = Len(log) + 1
      BY <2>1, <2>2, <2>3, <3>1
    <3>2. CASE i \in 1..Len(log)
      BY <2>1, <2>2, <2>3, <3>2
    <3>3. QED BY <2>1, <2>4, <2>5, <3>1, <3>2
  <2>6. DOMAIN log' = 1..Len(log')
    BY <2>1, <2>2
  <2>7. row'.nonce = base' + Len(log')
    BY <1>2, <2>1, <2>2, <2>3, <2>4
  <2>8. QED BY <2>2, <2>5, <2>6, <2>7 DEF NoncesNeverReused
<1>6. QED BY <1>3, <1>4, <1>5 DEF NonceInv

LEMMA CallStepNonces ==
    ASSUME TypeOK, NonceInv, NEW c \in Callers, CallStep(c)
    PROVE  NonceInv'
<1>1. CASE BeginIncrement(c)
  <2>1. /\ call'[c].pc = "incrementing" /\ call'[c].seen = row
        /\ \A d \in Callers \ {c} : call'[d] = call[d]
    BY <1>1 DEF BeginIncrement, TypeOK, Idle
  <2>2. AbsentIsZero'
    BY <1>1, <2>1 DEF BeginIncrement, NonceInv, AbsentIsZero
  <2>3. LockProtects'
    <3>1. \A d \in Callers : ~(lock = NoCaller /\ lock = d)
      BY NonceAssumption
    <3>2. QED BY <1>1, <2>1, <3>1 DEF BeginIncrement, NonceInv, LockProtects
  <2>4. NoncesNeverReused'
    BY <1>1 DEF BeginIncrement, NonceInv, NoncesNeverReused
  <2>5. QED BY <2>2, <2>3, <2>4 DEF NonceInv
<1>2. CASE CommitIncrement(c)
  BY <1>2, CommitIncrementNonces
<1>3. CASE RollBackIncrement(c)
  <2>1. call'[c] = Idle /\ \A d \in Callers \ {c} : call'[d] = call[d]
    BY <1>3 DEF RollBackIncrement, Return, TypeOK
  <2>2. AbsentIsZero'
    BY <1>3, <2>1, IdleFacts DEF RollBackIncrement, NonceInv, AbsentIsZero
  <2>3. LockProtects'
    BY <1>3, <2>1, IdleFacts DEF RollBackIncrement, Unlock, NonceInv, LockProtects
  <2>4. NoncesNeverReused'
    BY <1>3 DEF RollBackIncrement, NonceInv, NoncesNeverReused
  <2>5. QED BY <2>2, <2>3, <2>4 DEF NonceInv
<1>4. CASE Invalidate(c)
  BY <1>4, ReturnFrame DEF Invalidate
<1>5. CASE CacheHit(c)
  BY <1>5, NonceFrame DEF CacheHit
<1>6. CASE CacheMiss(c)
  <2>1. /\ call'[c].pc # "incrementing" /\ call'[c].seen = NoRow
        /\ \A d \in Callers \ {c} : call'[d] = call[d]
    BY <1>6 DEF CacheMiss, TypeOK, Idle
  <2>2. QED BY <1>6, <2>1, IdleFacts, NonceFrame DEF CacheMiss
<1>7. CASE InsertZero(c)
  <2>1. CASE row.here
    BY <1>7, <2>1, ReturnFrame DEF InsertZero
  <2>2. CASE ~row.here
    <3>1. Goto(c, "filling", 0) /\ row' = [NoRow EXCEPT !.here = TRUE]
      BY <1>7, <2>2 DEF InsertZero
    <3>2. row'.nonce = 0 /\ row.nonce = 0
      BY <2>2, <3>1 DEF NoRow, NonceInv, AbsentIsZero
    <3>3. /\ call'[c].pc = "filling" /\ call'[c].seen = call[c].seen
          /\ \A d \in Callers \ {c} : call'[d] = call[d]
      BY <3>1 DEF Goto, TypeOK, CallState
    <3>4. ~call'[c].seen.here => call'[c].seen.nonce = 0
      BY <3>3 DEF NonceInv, AbsentIsZero
    <3>5. QED BY <1>7, <2>2, <3>2, <3>3, <3>4, NonceFrame DEF InsertZero
  <2>3. QED BY <2>1, <2>2
<1>8. CASE FillCache(c)
  BY <1>8, ReturnFrame DEF FillCache
<1>9. CASE BeginSet(c)
  <2>1. /\ call'[c].pc # "incrementing" /\ call'[c].seen = row
        /\ \A d \in Callers \ {c} : call'[d] = call[d]
    BY <1>9 DEF BeginSet, TypeOK, Idle
  <2>2. ~call'[c].seen.here => call'[c].seen.nonce = 0
    BY <2>1 DEF NonceInv, AbsentIsZero
  <2>3. QED BY <1>9, <2>1, <2>2, NonceFrame DEF BeginSet
<1>10. CASE CommitSet(c)
  <2>1. row'.here /\ row'.nonce = call[c].val
    BY <1>10, CallTyped DEF CommitSet, Row
  <2>2. AbsentIsZero'
    <3>1. \A d \in Callers : ~call'[d].seen.here => call'[d].seen.nonce = 0
      BY <1>10, CommittedFacts, IdleFacts DEF CommitSet, NonceInv, AbsentIsZero
    <3>2. QED BY <2>1, <3>1 DEF AbsentIsZero
  <2>3. LockProtects'
    <3> SUFFICES ASSUME NEW d \in Callers, call'[d].pc = "incrementing", call'[d].seen.here
                 PROVE  FALSE
      BY DEF LockProtects
    <3>1. d # c /\ call[d].pc = "incrementing" /\ call[d].seen.here
      BY <1>10, CommittedFacts DEF CommitSet
    <3>2. QED BY <1>10, <3>1, NonceAssumption DEF CommitSet, NonceInv, LockProtects
  <2>4. NoncesNeverReused'
    BY <1>10, <2>1, CallTyped DEF CommitSet, NoncesNeverReused
  <2>5. QED BY <2>2, <2>3, <2>4 DEF NonceInv
<1>11. CASE SetThrows(c)
  BY <1>11, ReturnFrame DEF SetThrows
<1>12. QED
  BY <1>1, <1>2, <1>3, <1>4, <1>5, <1>6, <1>7, <1>8, <1>9, <1>10, <1>11 DEF CallStep

LEMMA StepNonces == TypeOK /\ NonceInv /\ [Next]_vars => NonceInv'
<1> SUFFICES ASSUME TypeOK, NonceInv, [Next]_vars PROVE NonceInv'
  OBVIOUS
<1>1. ASSUME NEW c \in Callers, CallStep(c) PROVE NonceInv'
  BY <1>1, CallStepNonces
<1>2. CASE UNCHANGED <<lock, base, log, call, row>>
  BY <1>2 DEF NonceInv, AbsentIsZero, LockProtects, NoncesNeverReused
<1>3. CASE CacheExpires \/ ClearStaleCache
  BY <1>2, <1>3 DEF CacheExpires, ClearStaleCache
<1>4. CASE CleanupOldNonces
  <2>1. row'.nonce = row.nonce /\ row'.nonce = 0
    BY <1>4, IdleFacts DEF CleanupOldNonces
  <2>2. AbsentIsZero'
    BY <1>4, <2>1 DEF CleanupOldNonces, NonceInv, AbsentIsZero
  <2>3. LockProtects'
    BY <1>4, NonceAssumption DEF CleanupOldNonces, NonceInv, LockProtects
  <2>4. NoncesNeverReused'
    BY <1>4, <2>1 DEF CleanupOldNonces, NonceInv, NoncesNeverReused
  <2>5. QED BY <2>2, <2>3, <2>4 DEF NonceInv
<1>5. CASE Age
  <2>1. row'.nonce = row.nonce /\ row'.here = row.here
    BY <1>5 DEF Age, TypeOK, Row
  <2>2. QED
    BY <1>5, <2>1 DEF Age, NonceInv, AbsentIsZero, LockProtects, NoncesNeverReused
<1>6. CASE Crash
  <2>1. \A c \in Callers : call'[c].pc = "idle" /\ call'[c].seen = NoRow
    BY <1>6, IdleFacts DEF Crash
  <2>2. QED
    BY <1>6, <2>1, IdleFacts DEF Crash, NonceInv, AbsentIsZero, LockProtects, NoncesNeverReused
<1>7. QED
  BY <1>1, <1>2, <1>3, <1>4, <1>5, <1>6 DEF Next, vars

LEMMA InitNonces == Init => NonceInv
BY DEF Init, NonceInv, AbsentIsZero, LockProtects, NoncesNeverReused, Idle, NoRow

(* No two increments between two administrator writes are given the same   *)
(* nonce, whoever creates, locks, resets or deletes the row meanwhile. *)
THEOREM NoncesAreUnique == Spec => []NoncesNeverReused
<1>1. NonceInv => NoncesNeverReused
  BY DEF NonceInv
<1>2. QED BY <1>1, InitNonces, StepNonces, TypeCorrect, PTL DEF Spec
-----------------------------------------------------------------------------
(* The counter *)

LEMMA CallStepSettings ==
    ASSUME TypeOK, SettingsAsked, NEW c \in Callers, CallStep(c)
    PROVE  SettingsAsked'
<1>1. CASE CommitIncrement(c) \/ CommitSet(c)
  <2>1. Committed(c)
    BY <1>1 DEF CommitIncrement, CommitSet
  <2>2. QED BY <2>1, CommittedFacts DEF SettingsAsked
<1>2. CASE RollBackIncrement(c) \/ Invalidate(c) \/ FillCache(c) \/ SetThrows(c)
  BY <1>2, IdleFacts
  DEF RollBackIncrement, Invalidate, FillCache, SetThrows, Return, TypeOK, SettingsAsked
<1>3. CASE InsertZero(c)
  <2>1. call'[c].pc \in {"idle", "filling"} /\ \A d \in Callers \ {c} : call'[d] = call[d]
    BY <1>3, IdleFacts DEF InsertZero, Return, Goto, TypeOK, CallState
  <2>2. QED BY <2>1 DEF SettingsAsked
<1>4. CASE BeginIncrement(c)
  <2>1. call'[c].pc = "incrementing" /\ \A d \in Callers \ {c} : call'[d] = call[d]
    BY <1>4 DEF BeginIncrement, TypeOK, Idle
  <2>2. QED BY <2>1 DEF SettingsAsked
<1>5. CASE CacheMiss(c)
  <2>1. call'[c].pc \in {"filling", "inserting"} /\ \A d \in Callers \ {c} : call'[d] = call[d]
    BY <1>5 DEF CacheMiss, TypeOK, Idle
  <2>2. QED BY <2>1 DEF SettingsAsked
<1>6. CASE BeginSet(c)
  BY <1>6 DEF BeginSet, TypeOK, Idle, SettingsAsked
<1>7. CASE CacheHit(c)
  BY <1>7 DEF CacheHit, SettingsAsked
<1>8. QED BY <1>1, <1>2, <1>3, <1>4, <1>5, <1>6, <1>7 DEF CallStep

LEMMA StepSettings == TypeOK /\ SettingsAsked /\ [Next]_vars => SettingsAsked'
<1> SUFFICES ASSUME TypeOK, SettingsAsked, [Next]_vars PROVE SettingsAsked'
  OBVIOUS
<1>1. ASSUME NEW c \in Callers, CallStep(c) PROVE SettingsAsked'
  BY <1>1, CallStepSettings
<1>2. CASE CacheExpires \/ ClearStaleCache \/ CleanupOldNonces \/ Age \/ UNCHANGED vars
  BY <1>2 DEF CacheExpires, ClearStaleCache, CleanupOldNonces, Age, vars, SettingsAsked
<1>3. CASE Crash
  BY <1>3, IdleFacts DEF Crash, SettingsAsked
<1>4. QED BY <1>1, <1>2, <1>3 DEF Next

LEMMA CommittedNonce ==
    ASSUME TypeOK, NonceInv, NEW c \in Callers, CommitIncrement(c)
    PROVE  Counter!Take
<1>1. call[c].seen.nonce = row.nonce
  BY SeenIsCurrent DEF CommitIncrement
<1>2. QED BY <1>1 DEF CommitIncrement, Counter!Take

(* Every other step of a call leaves the counter alone or sets it. *)
LEMMA CallStepCounts ==
    ASSUME TypeOK, NonceInv, SettingsAsked, NEW c \in Callers, CallStep(c)
    PROVE  Counter!Next \/ UNCHANGED <<row.nonce, log>>
<1>1. CASE CommitIncrement(c)
  BY <1>1, CommittedNonce DEF Counter!Next
<1>2. CASE CommitSet(c)
  <2>1. PICK n \in AdminNonces : call[c].val = n
    BY <1>2 DEF CommitSet, SettingsAsked
  <2>2. row'.nonce = call[c].val
    BY <1>2, CallTyped DEF CommitSet, Row
  <2>3. QED BY <1>2, <2>1, <2>2 DEF CommitSet, Counter!Set, Counter!Next
<1>3. CASE InsertZero(c)
  BY <1>3, IdleFacts DEF InsertZero, NonceInv, AbsentIsZero, NoRow
<1>4. QED
  BY <1>1, <1>2, <1>3
  DEF CallStep, BeginIncrement, RollBackIncrement, Invalidate, CacheHit, CacheMiss, FillCache,
      BeginSet, SetThrows

LEMMA StepCounts ==
    TypeOK /\ NonceInv /\ SettingsAsked /\ [Next]_vars => [Counter!Next]_<<row.nonce, log>>
<1> SUFFICES ASSUME TypeOK, NonceInv, SettingsAsked, [Next]_vars
             PROVE  Counter!Next \/ UNCHANGED <<row.nonce, log>>
  OBVIOUS
<1>1. ASSUME NEW c \in Callers, CallStep(c) PROVE Counter!Next \/ UNCHANGED <<row.nonce, log>>
  BY <1>1, CallStepCounts
<1>2. CASE CleanupOldNonces
  BY <1>2, IdleFacts DEF CleanupOldNonces
<1>3. CASE Age
  BY <1>3 DEF Age, TypeOK, Row
<1>4. CASE CacheExpires \/ ClearStaleCache \/ Crash \/ UNCHANGED vars
  BY <1>4 DEF CacheExpires, ClearStaleCache, Crash, vars
<1>5. QED BY <1>1, <1>2, <1>3, <1>4 DEF Next

(* The service refines the counter: whatever overlaps, the address behaves *)
(* like a nonce that is read and incremented in one step. *)
THEOREM CounterIsImplemented == Spec => ImplementsCounter
<1>1. Init => Counter!Init
  BY DEF Init, NoRow, Counter!Init
<1>2. Init => SettingsAsked
  BY DEF Init, Idle, SettingsAsked
<1>3. QED
  BY <1>1, <1>2, InitNonces, StepNonces, StepSettings, StepCounts, TypeCorrect, PTL
  DEF Spec, ImplementsCounter, Counter!Spec

-----------------------------------------------------------------------------
(* The cache *)

(* A step that leaves the nonce, the cache and the pending invalidations   *)
(* alone. *)
LEMMA CacheFrame ==
    ASSUME TypeOK, CacheInv, NEW c \in Callers,
           UNCHANGED cache, row'.nonce = row.nonce,
           \A d \in Callers \ {c} : call'[d] = call[d],
           call[c].pc # "committed",
           call'[c].pc \in {"filling", "inserting"} /\ ~call'[c].overtaken =>
               call'[c].val = row.nonce
    PROVE  CacheInv'
<1>1. ReadersAreCurrent'
  BY DEF CacheInv, ReadersAreCurrent
<1>2. CacheIsCurrent'
  BY DEF CacheInv, CacheIsCurrent
<1>3. QED BY <1>1, <1>2 DEF CacheInv

LEMMA ReturnCacheFrame ==
    ASSUME TypeOK, CacheInv, NEW c \in Callers, Return(c), UNCHANGED cache,
           row'.nonce = row.nonce, call[c].pc # "committed"
    PROVE  CacheInv'
<1>1. call'[c] = Idle /\ \A d \in Callers \ {c} : call'[d] = call[d]
  BY DEF Return, TypeOK
<1>2. QED BY <1>1, IdleFacts, CacheFrame

(* A commit overtakes every reader, and its writer will invalidate. *)
LEMMA CommittedCache ==
    ASSUME TypeOK, NEW c \in Callers, Committed(c)
    PROVE  CacheInv'
<1>1. ReadersAreCurrent'
  BY CommittedFacts DEF ReadersAreCurrent
<1>2. CacheIsCurrent'
  BY CommittedFacts DEF CacheIsCurrent
<1>3. QED BY <1>1, <1>2 DEF CacheInv

LEMMA EmptyCache ==
    ASSUME TypeOK, ReadersAreCurrent, cache' = NoEntry, row'.nonce = row.nonce,
           \A d \in Callers : call'[d] = call[d] \/ call'[d] = Idle
    PROVE  CacheInv'
<1>1. ReadersAreCurrent'
  BY IdleFacts DEF ReadersAreCurrent
<1>2. CacheIsCurrent'
  BY DEF CacheIsCurrent, NoEntry
<1>3. QED BY <1>1, <1>2 DEF CacheInv

LEMMA CallStepCache ==
    ASSUME TypeOK, NonceInv, CacheInv, NEW c \in Callers, CallStep(c)
    PROVE  CacheInv'
<1>1. CASE BeginIncrement(c)
  <2>1. /\ call'[c].pc = "incrementing"
        /\ \A d \in Callers \ {c} : call'[d] = call[d]
    BY <1>1 DEF BeginIncrement, TypeOK, Idle
  <2>2. QED BY <1>1, <2>1, CacheFrame DEF BeginIncrement
<1>2. CASE CommitIncrement(c)
  BY <1>2, CommittedCache DEF CommitIncrement
<1>3. CASE RollBackIncrement(c)
  BY <1>3, ReturnCacheFrame DEF RollBackIncrement
<1>4. CASE Invalidate(c)
  <2>1. \A d \in Callers : call'[d] = call[d] \/ call'[d] = Idle
    BY <1>4 DEF Invalidate, Return, TypeOK
  <2>2. QED BY <1>4, <2>1, EmptyCache DEF Invalidate, CacheInv
<1>5. CASE CacheHit(c)
  BY <1>5, IdleFacts, CacheFrame DEF CacheHit
<1>6. CASE CacheMiss(c)
  <2>1. call'[c].val = row.nonce /\ \A d \in Callers \ {c} : call'[d] = call[d]
    BY <1>6 DEF CacheMiss, TypeOK, Idle
  <2>2. QED BY <1>6, <2>1, CacheFrame DEF CacheMiss
<1>7. CASE InsertZero(c)
  <2>1. CASE row.here
    BY <1>7, <2>1, ReturnCacheFrame DEF InsertZero
  <2>2. CASE ~row.here
    <3>1. Goto(c, "filling", 0) /\ row' = [NoRow EXCEPT !.here = TRUE]
      BY <1>7, <2>2 DEF InsertZero
    <3>2. row'.nonce = 0 /\ row.nonce = 0
      BY <2>2, <3>1 DEF NoRow, NonceInv, AbsentIsZero
    <3>3. call'[c].val = 0 /\ \A d \in Callers \ {c} : call'[d] = call[d]
      BY <3>1 DEF Goto, TypeOK, CallState
    <3>4. QED BY <1>7, <3>2, <3>3, CacheFrame DEF InsertZero
  <2>3. QED BY <2>1, <2>2
<1>8. CASE FillCache(c)
  <2>1. ReadersAreCurrent'
    <3>1. call'[c] = Idle /\ \A d \in Callers \ {c} : call'[d] = call[d]
      BY <1>8 DEF FillCache, Return, TypeOK
    <3>2. QED BY <1>8, <3>1, IdleFacts DEF FillCache, CacheInv, ReadersAreCurrent
  <2>2. ~cache'.overtaken => cache'.val = row'.nonce
    BY <1>8 DEF FillCache, CacheInv, ReadersAreCurrent
  <2>3. QED BY <2>1, <2>2 DEF CacheInv, CacheIsCurrent
<1>9. CASE BeginSet(c)
  <2>1. /\ call'[c].pc = "setting"
        /\ \A d \in Callers \ {c} : call'[d] = call[d]
    BY <1>9 DEF BeginSet, TypeOK, Idle
  <2>2. QED BY <1>9, <2>1, CacheFrame DEF BeginSet
<1>10. CASE CommitSet(c)
  BY <1>10, CommittedCache DEF CommitSet
<1>11. CASE SetThrows(c)
  BY <1>11, ReturnCacheFrame DEF SetThrows
<1>12. QED
  BY <1>1, <1>2, <1>3, <1>4, <1>5, <1>6, <1>7, <1>8, <1>9, <1>10, <1>11 DEF CallStep

LEMMA StepCache == TypeOK /\ NonceInv /\ CacheInv /\ [Next]_vars => CacheInv'
<1> SUFFICES ASSUME TypeOK, NonceInv, CacheInv, [Next]_vars PROVE CacheInv'
  OBVIOUS
<1>1. ASSUME NEW c \in Callers, CallStep(c) PROVE CacheInv'
  BY <1>1, CallStepCache
<1>2. ASSUME UNCHANGED <<cache, call>>, row'.nonce = row.nonce PROVE CacheInv'
  BY <1>2 DEF CacheInv, ReadersAreCurrent, CacheIsCurrent
<1>3. CASE CacheExpires
  <2>1. cache'.here = cache.here /\ cache'.val = cache.val /\ cache'.overtaken = cache.overtaken
    BY <1>3 DEF CacheExpires, TypeOK, Cache
  <2>2. QED BY <1>3, <2>1 DEF CacheExpires, CacheInv, ReadersAreCurrent, CacheIsCurrent
<1>4. CASE ClearStaleCache
  BY <1>4, EmptyCache DEF ClearStaleCache, CacheInv
<1>5. CASE CleanupOldNonces
  BY <1>2, <1>5, IdleFacts DEF CleanupOldNonces
<1>6. CASE Age
  <2>1. row'.nonce = row.nonce
    BY <1>6 DEF Age, TypeOK, Row
  <2>2. QED BY <1>2, <1>6, <2>1 DEF Age
<1>7. CASE Crash
  <2>1. \A d \in Callers : call'[d] = Idle
    BY <1>7 DEF Crash
  <2>2. QED BY <1>7, <2>1, EmptyCache DEF Crash, CacheInv
<1>8. CASE UNCHANGED vars
  BY <1>2, <1>8 DEF vars
<1>9. QED
  BY <1>1, <1>3, <1>4, <1>5, <1>6, <1>7, <1>8 DEF Next

(* The only ways for the cache to be behind the row: a writer has          *)
(* committed and is about to delete the entry, or the entry was filled by  *)
(* a reader that a writer had overtaken. *)
THEOREM CacheStalenessHasACause == Spec => []CacheIsCurrent
<1>1. Init => CacheInv
  BY DEF Init, CacheInv, ReadersAreCurrent, CacheIsCurrent, Idle, NoEntry
<1>2. CacheInv => CacheIsCurrent
  BY DEF CacheInv
<1>3. QED
  BY <1>1, <1>2, InitNonces, StepNonces, StepCache, TypeCorrect, PTL DEF Spec

=============================================================================
