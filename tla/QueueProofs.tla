---------------------------- MODULE QueueProofs ----------------------------
(***************************************************************************)
(* Proofs about the compute job queue (J): what a pause leaves behind and  *)
(* what is told of a job's end.  The properties are those of Services.cfg; *)
(* v1 is job, v2 worker, v3 call, v4 halted.  The inductive invariant is   *)
(* JobInv of ComputeJobs.                                                  *)
(*                                                                         *)
(* Every step touches one job at most.  For that job the proof of a step   *)
(* first says what became of its record, of the call and of the worker;    *)
(* the parts of Consistent follow from that.  OtherJobs settles the rest.  *)
(***************************************************************************)
EXTENDS MCServices, FiniteSetTheorems, TLAPS

-----------------------------------------------------------------------------
LEMMA JobConstants ==
    /\ 0 \in J!Counted /\ 1 \in J!Counted
    /\ \A n \in J!Counted : J!Bump(n) \in J!Counted
    /\ J!Bump(0) = 1
    /\ {"waiting", "active", "delayed", "parked", "completed", "failed", "removed"} = J!Status
    /\ 0 \in 0..MaxAttempts /\ 0 \in 0..MaxStalls
BY ServicesAssumption DEF J!Counted, J!Bump, J!Status

LEMMA InitJobs == J!Init => J!TypeOK /\ J!JobInv
<1> SUFFICES ASSUME J!Init PROVE J!TypeOK /\ J!JobInv
  OBVIOUS
<1>1. J!Added \in J!Job
  BY JobConstants DEF J!Added, J!Job
<1>2. J!TypeOK
  BY <1>1 DEF J!Init, J!TypeOK, J!WorkerState, J!CallState
<1>3. ASSUME NEW j \in Jobs PROVE J!Consistent(j)
  <2>1. J!InFlight(j) = {} /\ J!RunBy(j) = {}
    BY DEF J!Init, J!InFlight, J!RunBy, J!Idle
  <2>2. v1[j] = J!Added
    BY DEF J!Init
  <2>3. QED
    BY <2>1, <2>2 DEF J!Added, J!Consistent, J!OneCall, J!MarkIsTrue, J!LockIsTrue, J!StoryIsTrue,
       J!Told
<1>4. QED
  BY <1>2, <1>3 DEF J!JobInv

LEMMA JobShapes ==
    ASSUME J!TypeOK
    PROVE  /\ \A w \in Workers :
                 /\ v2[w].pc \in {"idle", "run", "buried", "returning"}
                 /\ v2[w] = J!Idle <=> v2[w].pc = "idle"
                 /\ v2[w].pc # "idle" => v2[w].job \in Jobs
                 /\ v2[w].pc = "returning" => v2[w].result \in {"ok", "bad", "silent"}
                 /\ v2[w].pc = "run" => v2[w] = [pc |-> "run", job |-> v2[w].job]
           /\ \A c \in Calls :
                 /\ v3[c].pc \in {"idle", "state", "update", "move", "promote", "unmark", "remove"}
                 /\ v3[c].pc # "idle" =>
                       /\ v3[c].job \in Jobs /\ v3[c].op \in {"pause", "resume", "cancel"}
                       /\ v3[c].paused \in BOOLEAN
                       /\ v3[c] = [pc |-> v3[c].pc, op |-> v3[c].op, job |-> v3[c].job,
                                   paused |-> v3[c].paused]
           /\ \A j \in Jobs : v1[j] \in J!Job
<1>1. \A w \in Workers : v2[w] \in J!WorkerState
  BY DEF J!TypeOK
<1>2. \A c \in Calls : v3[c] \in J!CallState
  BY DEF J!TypeOK
<1>3. \A j \in Jobs : v1[j] \in J!Job
  BY DEF J!TypeOK
<1>4. ASSUME NEW w \in Workers
      PROVE  /\ v2[w].pc \in {"idle", "run", "buried", "returning"}
             /\ v2[w] = J!Idle <=> v2[w].pc = "idle"
             /\ v2[w].pc # "idle" => v2[w].job \in Jobs
             /\ v2[w].pc = "returning" => v2[w].result \in {"ok", "bad", "silent"}
             /\ v2[w].pc = "run" => v2[w] = [pc |-> "run", job |-> v2[w].job]
  BY <1>1 DEF J!WorkerState, J!Idle
<1>5. ASSUME NEW c \in Calls
      PROVE  /\ v3[c].pc \in {"idle", "state", "update", "move", "promote", "unmark", "remove"}
             /\ v3[c].pc # "idle" =>
                   /\ v3[c].job \in Jobs /\ v3[c].op \in {"pause", "resume", "cancel"}
                   /\ v3[c].paused \in BOOLEAN
                   /\ v3[c] = [pc |-> v3[c].pc, op |-> v3[c].op, job |-> v3[c].job,
                               paused |-> v3[c].paused]
  BY <1>2 DEF J!CallState, J!Idle
<1>6. QED
  BY <1>3, <1>4, <1>5

LEMMA KeptHistory ==
    ASSUME NEW r \in J!Job
    PROVE  /\ J!Kept(r) \in J!Job
           /\ J!Kept(r).status = r.status /\ J!Kept(r).paused = r.paused /\ J!Kept(r).lock = r.lock
           /\ J!Kept(r).stalls = r.stalls /\ J!Kept(r).disturbed = r.disturbed
           /\ ~r.disturbed /\ r.stalls = 0 => J!Kept(r) = r
<1>1. 0 \in J!Counted
  BY JobConstants
<1> DEFINE x == [r EXCEPT !.ok = 0, !.bad = 0, !.letters = 0, !.lost = FALSE, !.result = "none"]
<1>2. x \in J!Job
  BY <1>1 DEF J!Job
<1>3. /\ x.status = r.status /\ x.paused = r.paused /\ x.lock = r.lock
      /\ x.stalls = r.stalls /\ x.disturbed = r.disturbed
  BY DEF J!Job
<1>4. J!Kept(r) = IF r.disturbed \/ r.stalls > 0 THEN x ELSE r
  BY DEF J!Kept
<1>5. r.stalls = 0 => ~(r.stalls > 0)
  OBVIOUS
<1> HIDE DEF x
<1>6. QED
  BY <1>2, <1>3, <1>4, <1>5

LEMMA SetDoes ==
    ASSUME J!TypeOK, NEW t \in Jobs, NEW r \in J!Job, J!Set(t, r)
    PROVE  /\ v1' \in [Jobs -> J!Job]
           /\ \A k \in Jobs \ {t} : v1'[k] = v1[k]
           /\ v1'[t] \in J!Job
           /\ v1'[t].status = r.status /\ v1'[t].paused = r.paused /\ v1'[t].lock = r.lock
           /\ v1'[t].stalls = r.stalls /\ v1'[t].disturbed = r.disturbed
           /\ ~r.disturbed /\ r.stalls = 0 => v1'[t] = r
<1>1. J!Kept(r) \in J!Job
  BY KeptHistory
<1>2. v1' = [v1 EXCEPT ![t] = J!Kept(r)] /\ v1 \in [Jobs -> J!Job]
  BY DEF J!Set, J!TypeOK
<1>3. v1' \in [Jobs -> J!Job] /\ v1'[t] = J!Kept(r) /\ \A k \in Jobs \ {t} : v1'[k] = v1[k]
  BY <1>1, <1>2
<1>4. QED
  BY <1>3, KeptHistory

LEMMA CallReturnsDoes ==
    ASSUME J!TypeOK, NEW c \in Calls, NEW t, v3[c].job = t, J!CallReturns(c)
    PROVE  /\ v3' \in [Calls -> J!CallState]
           /\ \A d \in Calls \ {c} : v3'[d] = v3[d]
           /\ v3'[c].pc = "idle" /\ J!InFlight(t)' = J!InFlight(t) \ {c}
<1>1. /\ v3' \in [Calls -> J!CallState] /\ v3'[c] = J!Idle
      /\ \A d \in Calls \ {c} : v3'[d] = v3[d]
  BY DEF J!TypeOK, J!CallReturns, J!CallState
<1>2. v3'[c].pc = "idle"
  BY <1>1 DEF J!Idle
<1>3. QED
  BY <1>1, <1>2 DEF J!InFlight

LEMMA AskDoes ==
    ASSUME J!TypeOK, NEW c \in Calls, NEW op \in {"pause", "resume", "cancel"}, NEW j \in Jobs,
           J!Ask(c, op, j)
    PROVE  /\ v3' \in [Calls -> J!CallState]
           /\ v3[c].pc = "idle" /\ v3'[c].job = j
           /\ v3'[c].pc = IF op = "resume" THEN "promote" ELSE "state"
           /\ \A d \in Calls \ {c} : v3'[d] = v3[d]
           /\ J!InFlight(j)' = J!InFlight(j) \cup {c}
<1> DEFINE x == [pc |-> IF op = "resume" THEN "promote" ELSE "state", op |-> op, job |-> j,
                 paused |-> v1[j].paused]
<1>1. v1[j].paused \in BOOLEAN
  BY JobShapes DEF J!Job
<1>2. /\ x.job = j /\ x.pc = (IF op = "resume" THEN "promote" ELSE "state")
      /\ x.pc # "idle"
  OBVIOUS
<1>0. x \in J!CallState
  BY <1>1 DEF J!CallState
<1>3. v3' = [v3 EXCEPT ![c] = x] /\ v3[c].pc = "idle"
  BY DEF J!Ask
<1> HIDE DEF x
<1>4. /\ v3' \in [Calls -> J!CallState] /\ v3'[c] = x
      /\ \A d \in Calls \ {c} : v3'[d] = v3[d]
  BY <1>0, <1>3 DEF J!TypeOK
<1>5. QED
  BY <1>2, <1>3, <1>4 DEF J!InFlight

LEMMA CallGoesDoes ==
    ASSUME J!TypeOK, NEW c \in Calls, v3[c].pc # "idle", NEW t, v3[c].job = t,
           NEW at \in {"state", "update", "move", "promote", "unmark", "remove"}, J!CallGoes(c, at)
    PROVE  /\ v3' \in [Calls -> J!CallState]
           /\ \A d \in Calls \ {c} : v3'[d] = v3[d]
           /\ v3'[c].pc = at /\ v3'[c].job = t
           /\ J!InFlight(t)' = J!InFlight(t)
<1> DEFINE x == [pc |-> at, op |-> v3[c].op, job |-> v3[c].job, paused |-> v3[c].paused]
<1>0. /\ v3[c].op \in {"pause", "resume", "cancel"} /\ v3[c].job \in Jobs
      /\ v3[c].paused \in BOOLEAN
      /\ v3[c] = [pc |-> v3[c].pc, op |-> v3[c].op, job |-> v3[c].job, paused |-> v3[c].paused]
  BY JobShapes
<1>1. v3' = [v3 EXCEPT ![c] = x]
  <2>1. [v3[c] EXCEPT !.pc = at] = x
    BY <1>0
  <2>2. QED
    BY <2>1 DEF J!CallGoes, J!TypeOK
<1>2. x \in J!CallState
  BY <1>0 DEF J!CallState
<1>3. x.pc = at /\ x.job = v3[c].job /\ at # "idle"
  OBVIOUS
<1> HIDE DEF x
<1>4. /\ v3' \in [Calls -> J!CallState] /\ v3'[c] = x
      /\ \A d \in Calls \ {c} : v3'[d] = v3[d]
  BY <1>1, <1>2 DEF J!TypeOK
<1>5. QED
  BY <1>3, <1>4 DEF J!InFlight

LEMMA WorkerLeaves ==
    ASSUME J!TypeOK, NEW w \in Workers, NEW t, v2[w].job = t, v2' = [v2 EXCEPT ![w] = J!Idle]
    PROVE  /\ v2' \in [Workers -> J!WorkerState]
           /\ \A x \in Workers \ {w} : v2'[x] = v2[x]
           /\ v2'[w].pc = "idle" /\ J!RunBy(t)' = J!RunBy(t) \ {w}
<1>1. /\ v2' \in [Workers -> J!WorkerState] /\ v2'[w] = J!Idle
      /\ \A x \in Workers \ {w} : v2'[x] = v2[x]
  BY DEF J!TypeOK, J!WorkerState
<1>2. v2'[w].pc = "idle"
  BY <1>1 DEF J!Idle
<1>3. QED
  BY <1>1, <1>2 DEF J!RunBy

LEMMA WorkerGoes ==
    ASSUME J!TypeOK, NEW w \in Workers, v2[w].pc # "idle", NEW t, v2[w].job = t,
           NEW x \in J!WorkerState, x.pc # "idle", x.job = t, v2' = [v2 EXCEPT ![w] = x]
    PROVE  /\ v2' \in [Workers -> J!WorkerState]
           /\ v2'[w] = x
           /\ \A y \in Workers \ {w} : v2'[y] = v2[y]
           /\ J!RunBy(t)' = J!RunBy(t)
<1>1. /\ v2' \in [Workers -> J!WorkerState] /\ v2'[w] = x
      /\ \A y \in Workers \ {w} : v2'[y] = v2[y]
  BY DEF J!TypeOK
<1>2. QED
  BY <1>1 DEF J!RunBy

LEMMA WorkerTakes ==
    ASSUME J!TypeOK, NEW w \in Workers, v2[w].pc = "idle", NEW t,
           NEW x \in J!WorkerState, x.pc = "run", x.job = t, v2' = [v2 EXCEPT ![w] = x]
    PROVE  /\ v2' \in [Workers -> J!WorkerState]
           /\ v2'[w].pc = "run" /\ v2'[w].job = t
           /\ \A y \in Workers \ {w} : v2'[y] = v2[y]
           /\ J!RunBy(t)' = J!RunBy(t) \cup {w}
<1>1. /\ v2' \in [Workers -> J!WorkerState] /\ v2'[w] = x
      /\ \A y \in Workers \ {w} : v2'[y] = v2[y]
  BY DEF J!TypeOK
<1>2. QED
  BY <1>1 DEF J!RunBy

LEMMA OtherJobs ==
    ASSUME NEW k \in Jobs, v1'[k] = v1[k],
           J!InFlight(k)' = J!InFlight(k), \A c \in J!InFlight(k) : v3'[c] = v3[c],
           J!RunBy(k)' = J!RunBy(k), \A w \in J!RunBy(k) : v2'[w] = v2[w],
           J!JobInv, J!Intact(k)'
    PROVE  J!Consistent(k)'
<1>1. J!Consistent(k)
  BY DEF J!JobInv, J!Intact
<1>2. J!OneCall(k)' /\ J!MarkIsTrue(k)'
  BY <1>1 DEF J!Consistent, J!OneCall, J!MarkIsTrue
<1>3. J!LockIsTrue(k)' /\ (J!StoryIsTrue(k) => J!StoryIsTrue(k)')
  BY <1>1 DEF J!Consistent, J!LockIsTrue, J!StoryIsTrue, J!Told
<1>4. QED
  BY <1>1, <1>2, <1>3 DEF J!Consistent

LEMMA StepJobs ==
    J!TypeOK /\ J!JobInv /\ [J!Next]_(J!vars) => (J!TypeOK /\ J!JobInv)'
<1> SUFFICES ASSUME J!TypeOK, J!JobInv, [J!Next]_(J!vars)
             PROVE  (J!TypeOK /\ J!JobInv)'
  OBVIOUS
<1>1. ASSUME NEW c \in Calls, NEW op \in {"pause", "resume", "cancel"}, NEW j \in Jobs,
             J!Ask(c, op, j)
      PROVE  (J!TypeOK /\ J!JobInv)'
  <2>1. PICK t, r : t = j /\ r = [v1[j] EXCEPT !.disturbed = @ \/ J!InFlight(j) # {}]
    OBVIOUS
  <2>2. t \in Jobs /\ v1[t] \in J!Job
    BY <2>1, <1>1, JobShapes DEF J!Ask
  <2>3. op = "resume" => v1[t].paused
    BY <2>1, <2>2, <1>1 DEF J!Ask
  <2>4. r \in J!Job
    BY <2>1, <2>2, <2>3, JobConstants DEF J!Job
  <2>5. /\ r.status = v1[t].status
        /\ r.paused = v1[t].paused
        /\ r.lock = v1[t].lock
        /\ r.stalls = v1[t].stalls
        /\ r.disturbed = (v1[t].disturbed \/ J!InFlight(j) # {})
    BY <2>1, <2>2 DEF J!Job
  <2>6. /\ r.result = v1[t].result
        /\ r.ok = v1[t].ok
        /\ r.bad = v1[t].bad
        /\ r.letters = v1[t].letters
        /\ r.lost = v1[t].lost
    BY <2>1, <2>2 DEF J!Job
  <2>7. ~r.disturbed => ~v1[t].disturbed /\ J!InFlight(t) = {}
    BY <2>1, <2>2 DEF J!Job
  <2>8. J!Set(t, r)
    BY <2>1, <2>3, <1>1 DEF J!Ask
  <2>9. v1' \in [Jobs -> J!Job] /\ \A k \in Jobs \ {t} : v1'[k] = v1[k]
    BY <2>2, <2>4, <2>8, SetDoes
  <2>10. /\ v1'[t].status = r.status /\ v1'[t].paused = r.paused /\ v1'[t].lock = r.lock
         /\ v1'[t].stalls = r.stalls /\ v1'[t].disturbed = r.disturbed
    BY <2>2, <2>4, <2>8, SetDoes
  <2>11. ~r.disturbed /\ r.stalls = 0 => v1'[t] = r
    BY <2>2, <2>4, <2>8, SetDoes
  <2>12. J!Ask(c, op, t)
    BY <2>1, <1>1
  <2>13. v3' \in [Calls -> J!CallState]
    BY <2>2, <2>12, AskDoes
  <2>14. /\ \A d \in Calls \ {c} : v3'[d] = v3[d]
         /\ v3[c].pc = "idle" \/ v3[c].job = t
         /\ v3'[c].pc = "idle" \/ v3'[c].job = t
    BY <2>2, <2>12, AskDoes
  <2>15. /\ v3'[c].job = t /\ v3'[c].pc = IF op = "resume" THEN "promote" ELSE "state"
         /\ J!InFlight(t)' = J!InFlight(t) \cup {c}
    BY <2>2, <2>12, AskDoes
  <2>16. UNCHANGED <<v2, v4>>
    BY <1>1 DEF J!Ask
  <2>17. J!TypeOK'
    BY <2>9, <2>13, <2>16 DEF J!TypeOK
  <2>18. ASSUME NEW k \in Jobs \ {t}, J!Intact(k)' PROVE J!Consistent(k)'
    <3>1. v1'[k] = v1[k]
      BY <2>18, <2>9
    <3>2. J!InFlight(k)' = J!InFlight(k) /\ \A d \in J!InFlight(k) : v3'[d] = v3[d]
      BY <1>1, <2>18, <2>14 DEF J!InFlight
    <3>3. J!RunBy(k)' = J!RunBy(k) /\ \A y \in J!RunBy(k) : v2'[y] = v2[y]
      BY <2>16 DEF J!RunBy
    <3>4. QED
      BY <2>18, <3>1, <3>2, <3>3, OtherJobs
  <2>19. ASSUME J!Intact(t)' PROVE J!Consistent(t)'
    <3>1. J!Intact(t) /\ (v1'[t].stalls = 0 => v1'[t] = r)
      BY <2>19, <2>3, <2>5, <2>10, <2>11, <2>7 DEF J!Intact
    <3>2. J!Consistent(t)
      BY <2>2, <3>1 DEF J!JobInv
    <3>3. J!InFlight(t)' = {c} /\ J!InFlight(t) = {}
      BY <2>19, <2>7, <2>10, <2>15 DEF J!Intact
    <3>4. J!RunBy(t)' = J!RunBy(t)
      BY <2>16 DEF J!RunBy
    <3>5. J!OneCall(t)'
      BY <3>2, <3>3, <2>3, <2>5, <2>10, <2>15, <2>16 DEF J!Consistent, J!OneCall, J!MarkIsTrue,
         J!LockIsTrue
    <3>6. J!MarkIsTrue(t)'
      BY <3>2, <3>3, <2>3, <2>5, <2>10, <2>15, <2>16 DEF J!Consistent, J!OneCall, J!MarkIsTrue,
         J!LockIsTrue
    <3>7. J!LockIsTrue(t)'
      BY <3>2, <3>4, <2>3, <2>5, <2>10, <2>16 DEF J!Consistent, J!OneCall, J!LockIsTrue
    <3>8. ASSUME v1'[t].stalls = 0 PROVE J!StoryIsTrue(t)'
      BY <3>1, <3>2, <3>4, <3>8, <2>3, <2>5, <2>6, <2>10, <2>16, JobConstants DEF J!Consistent,
         J!OneCall, J!LockIsTrue, J!StoryIsTrue, J!Told
    <3>9. QED
      BY <3>5, <3>6, <3>7, <3>8 DEF J!Consistent
  <2>20. QED
    BY <2>2, <2>17, <2>18, <2>19 DEF J!JobInv
<1>2. ASSUME NEW c \in Calls, J!PauseState(c)
      PROVE  (J!TypeOK /\ J!JobInv)'
  <2>1. v3[c].pc = "state"
    BY <1>2 DEF J!PauseState
  <2>2. CASE v1[v3[c].job].status \in {"waiting", "delayed", "parked"}
    <3>1. PICK t : t = v3[c].job
      OBVIOUS
    <3>2. t \in Jobs /\ v1[t] \in J!Job
      BY <3>1, <1>2, <2>1, <2>2, JobShapes DEF J!PauseState
    <3>3. c \in J!InFlight(t)
      BY <3>1, <1>2, <2>1, <2>2 DEF J!PauseState, J!InFlight
    <3>4. v3[c].pc = "state" /\ v1[t].status \in {"waiting", "delayed", "parked"}
      BY <3>1, <3>2, <1>2, <2>1, <2>2 DEF J!PauseState
    <3>5. v1' = v1
      BY <1>2, <2>1, <2>2 DEF J!PauseState
    <3>7. J!CallGoes(c, "update")
      BY <3>1, <1>2, <2>1, <2>2 DEF J!PauseState
    <3>8. v3[c].job = t /\ v3[c].pc # "idle"
      BY <3>1, <1>2, <2>1, <2>2 DEF J!PauseState
    <3>9. v3' \in [Calls -> J!CallState]
      BY <3>2, <3>7, <3>8, CallGoesDoes
    <3>10. /\ \A d \in Calls \ {c} : v3'[d] = v3[d]
           /\ v3[c].pc = "idle" \/ v3[c].job = t
           /\ v3'[c].pc = "idle" \/ v3'[c].job = t
      BY <3>2, <3>7, <3>8, CallGoesDoes
    <3>11. v3'[c].job = t /\ v3'[c].pc = "update" /\ J!InFlight(t)' = J!InFlight(t)
      BY <3>2, <3>7, <3>8, CallGoesDoes
    <3>12. UNCHANGED <<v2, v4>>
      BY <1>2, <2>1, <2>2 DEF J!PauseState
    <3>13. J!TypeOK'
      BY <3>5, <3>9, <3>12 DEF J!TypeOK
    <3>14. ASSUME NEW k \in Jobs \ {t}, J!Intact(k)' PROVE J!Consistent(k)'
      <4>1. v1'[k] = v1[k]
        BY <3>14, <3>5
      <4>2. J!InFlight(k)' = J!InFlight(k) /\ \A d \in J!InFlight(k) : v3'[d] = v3[d]
        BY <1>2, <3>14, <3>10 DEF J!InFlight
      <4>3. J!RunBy(k)' = J!RunBy(k) /\ \A y \in J!RunBy(k) : v2'[y] = v2[y]
        BY <3>12 DEF J!RunBy
      <4>4. QED
        BY <3>14, <4>1, <4>2, <4>3, OtherJobs
    <3>15. ASSUME J!Intact(t)' PROVE J!Consistent(t)'
      <4>1. J!Intact(t)
        BY <3>15, <3>4, <3>5 DEF J!Intact
      <4>2. J!Consistent(t)
        BY <3>2, <4>1 DEF J!JobInv
      <4>3. J!InFlight(t)' = {c} /\ J!InFlight(t) = {c}
        BY <4>2, <3>3, <3>11 DEF J!Consistent, J!OneCall
      <4>4. J!RunBy(t)' = J!RunBy(t)
        BY <3>12 DEF J!RunBy
      <4>5. J!OneCall(t)'
        BY <4>2, <4>3, <3>3, <3>4, <3>5, <3>11, <3>12 DEF J!Consistent, J!OneCall, J!MarkIsTrue,
           J!LockIsTrue
      <4>6. J!MarkIsTrue(t)'
        BY <4>2, <4>3, <3>3, <3>4, <3>5, <3>11, <3>12 DEF J!Consistent, J!OneCall, J!MarkIsTrue,
           J!LockIsTrue
      <4>7. J!LockIsTrue(t)'
        BY <4>2, <4>4, <3>3, <3>4, <3>5, <3>12 DEF J!Consistent, J!OneCall, J!LockIsTrue
      <4>8. ASSUME v1'[t].stalls = 0 PROVE J!StoryIsTrue(t)'
        BY <4>1, <4>2, <4>4, <4>8, <3>3, <3>4, <3>5, <3>12, JobConstants DEF J!Consistent,
           J!OneCall, J!LockIsTrue, J!StoryIsTrue, J!Told
      <4>9. QED
        BY <4>5, <4>6, <4>7, <4>8 DEF J!Consistent
    <3>16. QED
      BY <3>2, <3>13, <3>14, <3>15 DEF J!JobInv
  <2>3. CASE v1[v3[c].job].status \notin {"waiting", "delayed", "parked"}
    <3>1. PICK t : t = v3[c].job
      OBVIOUS
    <3>2. t \in Jobs /\ v1[t] \in J!Job
      BY <3>1, <1>2, <2>1, <2>3, JobShapes DEF J!PauseState
    <3>3. c \in J!InFlight(t)
      BY <3>1, <1>2, <2>1, <2>3 DEF J!PauseState, J!InFlight
    <3>4. v3[c].pc = "state"
      BY <3>1, <3>2, <1>2, <2>1, <2>3 DEF J!PauseState
    <3>5. v1' = v1
      BY <1>2, <2>1, <2>3 DEF J!PauseState
    <3>7. J!CallReturns(c)
      BY <3>1, <1>2, <2>1, <2>3 DEF J!PauseState
    <3>8. v3[c].job = t /\ v3[c].pc # "idle"
      BY <3>1, <1>2, <2>1, <2>3 DEF J!PauseState
    <3>9. v3' \in [Calls -> J!CallState]
      BY <3>2, <3>7, <3>8, CallReturnsDoes
    <3>10. /\ \A d \in Calls \ {c} : v3'[d] = v3[d]
           /\ v3[c].pc = "idle" \/ v3[c].job = t
           /\ v3'[c].pc = "idle" \/ v3'[c].job = t
      BY <3>2, <3>7, <3>8, CallReturnsDoes
    <3>11. J!InFlight(t)' = J!InFlight(t) \ {c}
      BY <3>2, <3>7, <3>8, CallReturnsDoes
    <3>12. UNCHANGED <<v2, v4>>
      BY <1>2, <2>1, <2>3 DEF J!PauseState
    <3>13. J!TypeOK'
      BY <3>5, <3>9, <3>12 DEF J!TypeOK
    <3>14. ASSUME NEW k \in Jobs \ {t}, J!Intact(k)' PROVE J!Consistent(k)'
      <4>1. v1'[k] = v1[k]
        BY <3>14, <3>5
      <4>2. J!InFlight(k)' = J!InFlight(k) /\ \A d \in J!InFlight(k) : v3'[d] = v3[d]
        BY <1>2, <3>14, <3>10 DEF J!InFlight
      <4>3. J!RunBy(k)' = J!RunBy(k) /\ \A y \in J!RunBy(k) : v2'[y] = v2[y]
        BY <3>12 DEF J!RunBy
      <4>4. QED
        BY <3>14, <4>1, <4>2, <4>3, OtherJobs
    <3>15. ASSUME J!Intact(t)' PROVE J!Consistent(t)'
      <4>1. J!Intact(t)
        BY <3>15, <3>4, <3>5 DEF J!Intact
      <4>2. J!Consistent(t)
        BY <3>2, <4>1 DEF J!JobInv
      <4>3. J!InFlight(t)' = {}
        BY <4>2, <3>3, <3>11 DEF J!Consistent, J!OneCall
      <4>4. J!RunBy(t)' = J!RunBy(t)
        BY <3>12 DEF J!RunBy
      <4>5. J!OneCall(t)'
        BY <4>2, <4>3, <3>3, <3>4, <3>5, <3>11, <3>12 DEF J!Consistent, J!OneCall, J!MarkIsTrue,
           J!LockIsTrue
      <4>6. J!MarkIsTrue(t)'
        BY <4>2, <4>3, <3>3, <3>4, <3>5, <3>11, <3>12 DEF J!Consistent, J!OneCall, J!MarkIsTrue,
           J!LockIsTrue
      <4>7. J!LockIsTrue(t)'
        BY <4>2, <4>4, <3>3, <3>4, <3>5, <3>12 DEF J!Consistent, J!OneCall, J!LockIsTrue
      <4>8. ASSUME v1'[t].stalls = 0 PROVE J!StoryIsTrue(t)'
        BY <4>1, <4>2, <4>4, <4>8, <3>3, <3>4, <3>5, <3>12, JobConstants DEF J!Consistent,
           J!OneCall, J!LockIsTrue, J!StoryIsTrue, J!Told
      <4>9. QED
        BY <4>5, <4>6, <4>7, <4>8 DEF J!Consistent
    <3>16. QED
      BY <3>2, <3>13, <3>14, <3>15 DEF J!JobInv
  <2>4. QED
    BY <2>2, <2>3, <2>1
<1>3. ASSUME NEW c \in Calls, J!PauseUpdate(c)
      PROVE  (J!TypeOK /\ J!JobInv)'
  <2>1. v3[c].pc = "update"
    BY <1>3 DEF J!PauseUpdate
  <2>2. CASE v1[v3[c].job].status = "removed"
    <3>1. PICK t : t = v3[c].job
      OBVIOUS
    <3>2. t \in Jobs /\ v1[t] \in J!Job
      BY <3>1, <1>3, <2>1, <2>2, JobShapes DEF J!PauseUpdate
    <3>3. c \in J!InFlight(t)
      BY <3>1, <1>3, <2>1, <2>2 DEF J!PauseUpdate, J!InFlight
    <3>4. v3[c].pc = "update" /\ v1[t].status = "removed"
      BY <3>1, <3>2, <1>3, <2>1, <2>2 DEF J!PauseUpdate
    <3>5. v1' = v1
      BY <1>3, <2>1, <2>2 DEF J!PauseUpdate
    <3>7. J!CallReturns(c)
      BY <3>1, <1>3, <2>1, <2>2 DEF J!PauseUpdate
    <3>8. v3[c].job = t /\ v3[c].pc # "idle"
      BY <3>1, <1>3, <2>1, <2>2 DEF J!PauseUpdate
    <3>9. v3' \in [Calls -> J!CallState]
      BY <3>2, <3>7, <3>8, CallReturnsDoes
    <3>10. /\ \A d \in Calls \ {c} : v3'[d] = v3[d]
           /\ v3[c].pc = "idle" \/ v3[c].job = t
           /\ v3'[c].pc = "idle" \/ v3'[c].job = t
      BY <3>2, <3>7, <3>8, CallReturnsDoes
    <3>11. J!InFlight(t)' = J!InFlight(t) \ {c}
      BY <3>2, <3>7, <3>8, CallReturnsDoes
    <3>12. UNCHANGED <<v2, v4>>
      BY <1>3, <2>1, <2>2 DEF J!PauseUpdate
    <3>13. J!TypeOK'
      BY <3>5, <3>9, <3>12 DEF J!TypeOK
    <3>14. ASSUME NEW k \in Jobs \ {t}, J!Intact(k)' PROVE J!Consistent(k)'
      <4>1. v1'[k] = v1[k]
        BY <3>14, <3>5
      <4>2. J!InFlight(k)' = J!InFlight(k) /\ \A d \in J!InFlight(k) : v3'[d] = v3[d]
        BY <1>3, <3>14, <3>10 DEF J!InFlight
      <4>3. J!RunBy(k)' = J!RunBy(k) /\ \A y \in J!RunBy(k) : v2'[y] = v2[y]
        BY <3>12 DEF J!RunBy
      <4>4. QED
        BY <3>14, <4>1, <4>2, <4>3, OtherJobs
    <3>15. ASSUME J!Intact(t)' PROVE J!Consistent(t)'
      <4>1. J!Intact(t)
        BY <3>15, <3>4, <3>5 DEF J!Intact
      <4>2. J!Consistent(t)
        BY <3>2, <4>1 DEF J!JobInv
      <4>3. J!InFlight(t)' = {}
        BY <4>2, <3>3, <3>11 DEF J!Consistent, J!OneCall
      <4>4. J!RunBy(t)' = J!RunBy(t)
        BY <3>12 DEF J!RunBy
      <4>5. J!OneCall(t)'
        BY <4>2, <4>3, <3>3, <3>4, <3>5, <3>11, <3>12 DEF J!Consistent, J!OneCall, J!MarkIsTrue,
           J!LockIsTrue
      <4>6. J!MarkIsTrue(t)'
        BY <4>2, <4>3, <3>3, <3>4, <3>5, <3>11, <3>12 DEF J!Consistent, J!OneCall, J!MarkIsTrue,
           J!LockIsTrue
      <4>7. J!LockIsTrue(t)'
        BY <4>2, <4>4, <3>3, <3>4, <3>5, <3>12 DEF J!Consistent, J!OneCall, J!LockIsTrue
      <4>8. ASSUME v1'[t].stalls = 0 PROVE J!StoryIsTrue(t)'
        BY <4>1, <4>2, <4>4, <4>8, <3>3, <3>4, <3>5, <3>12, JobConstants DEF J!Consistent,
           J!OneCall, J!LockIsTrue, J!StoryIsTrue, J!Told
      <4>9. QED
        BY <4>5, <4>6, <4>7, <4>8 DEF J!Consistent
    <3>16. QED
      BY <3>2, <3>13, <3>14, <3>15 DEF J!JobInv
  <2>3. CASE v1[v3[c].job].status # "removed"
    <3>1. PICK t, r : t = v3[c].job /\ r = [v1[v3[c].job] EXCEPT !.paused = TRUE]
      OBVIOUS
    <3>2. t \in Jobs /\ v1[t] \in J!Job
      BY <3>1, <1>3, <2>1, <2>3, JobShapes DEF J!PauseUpdate
    <3>3. c \in J!InFlight(t)
      BY <3>1, <1>3, <2>1, <2>3 DEF J!PauseUpdate, J!InFlight
    <3>4. v3[c].pc = "update"
      BY <3>1, <3>2, <1>3, <2>1, <2>3 DEF J!PauseUpdate
    <3>5. r \in J!Job
      BY <3>1, <3>2, <3>4, JobConstants DEF J!Job
    <3>6. /\ r.status = v1[t].status
          /\ r.paused = TRUE
          /\ r.lock = v1[t].lock
          /\ r.stalls = v1[t].stalls
          /\ r.disturbed = v1[t].disturbed
      BY <3>1, <3>2 DEF J!Job
    <3>7. /\ r.result = v1[t].result
          /\ r.ok = v1[t].ok
          /\ r.bad = v1[t].bad
          /\ r.letters = v1[t].letters
          /\ r.lost = v1[t].lost
      BY <3>1, <3>2 DEF J!Job
    <3>8. J!Set(t, r)
      BY <3>1, <3>4, <1>3, <2>1, <2>3 DEF J!PauseUpdate
    <3>9. v1' \in [Jobs -> J!Job] /\ \A k \in Jobs \ {t} : v1'[k] = v1[k]
      BY <3>2, <3>5, <3>8, SetDoes
    <3>10. /\ v1'[t].status = r.status /\ v1'[t].paused = r.paused /\ v1'[t].lock = r.lock
           /\ v1'[t].stalls = r.stalls /\ v1'[t].disturbed = r.disturbed
      BY <3>2, <3>5, <3>8, SetDoes
    <3>11. ~r.disturbed /\ r.stalls = 0 => v1'[t] = r
      BY <3>2, <3>5, <3>8, SetDoes
    <3>12. J!CallGoes(c, "move")
      BY <3>1, <1>3, <2>1, <2>3 DEF J!PauseUpdate
    <3>13. v3[c].job = t /\ v3[c].pc # "idle"
      BY <3>1, <1>3, <2>1, <2>3 DEF J!PauseUpdate
    <3>14. v3' \in [Calls -> J!CallState]
      BY <3>2, <3>12, <3>13, CallGoesDoes
    <3>15. /\ \A d \in Calls \ {c} : v3'[d] = v3[d]
           /\ v3[c].pc = "idle" \/ v3[c].job = t
           /\ v3'[c].pc = "idle" \/ v3'[c].job = t
      BY <3>2, <3>12, <3>13, CallGoesDoes
    <3>16. v3'[c].job = t /\ v3'[c].pc = "move" /\ J!InFlight(t)' = J!InFlight(t)
      BY <3>2, <3>12, <3>13, CallGoesDoes
    <3>17. UNCHANGED <<v2, v4>>
      BY <1>3, <2>1, <2>3 DEF J!PauseUpdate
    <3>18. J!TypeOK'
      BY <3>9, <3>14, <3>17 DEF J!TypeOK
    <3>19. ASSUME NEW k \in Jobs \ {t}, J!Intact(k)' PROVE J!Consistent(k)'
      <4>1. v1'[k] = v1[k]
        BY <3>19, <3>9
      <4>2. J!InFlight(k)' = J!InFlight(k) /\ \A d \in J!InFlight(k) : v3'[d] = v3[d]
        BY <1>3, <3>19, <3>15 DEF J!InFlight
      <4>3. J!RunBy(k)' = J!RunBy(k) /\ \A y \in J!RunBy(k) : v2'[y] = v2[y]
        BY <3>17 DEF J!RunBy
      <4>4. QED
        BY <3>19, <4>1, <4>2, <4>3, OtherJobs
    <3>20. ASSUME J!Intact(t)' PROVE J!Consistent(t)'
      <4>1. J!Intact(t) /\ (v1'[t].stalls = 0 => v1'[t] = r)
        BY <3>20, <3>4, <3>6, <3>10, <3>11 DEF J!Intact
      <4>2. J!Consistent(t)
        BY <3>2, <4>1 DEF J!JobInv
      <4>3. J!InFlight(t)' = {c} /\ J!InFlight(t) = {c}
        BY <4>2, <3>3, <3>16 DEF J!Consistent, J!OneCall
      <4>4. J!RunBy(t)' = J!RunBy(t)
        BY <3>17 DEF J!RunBy
      <4>5. J!OneCall(t)'
        BY <4>2, <4>3, <3>3, <3>4, <3>6, <3>10, <3>16, <3>17 DEF J!Consistent, J!OneCall,
           J!MarkIsTrue, J!LockIsTrue
      <4>6. J!MarkIsTrue(t)'
        BY <4>2, <4>3, <3>3, <3>4, <3>6, <3>10, <3>16, <3>17 DEF J!Consistent, J!OneCall,
           J!MarkIsTrue, J!LockIsTrue
      <4>7. J!LockIsTrue(t)'
        BY <4>2, <4>4, <3>3, <3>4, <3>6, <3>10, <3>17 DEF J!Consistent, J!OneCall, J!LockIsTrue
      <4>8. ASSUME v1'[t].stalls = 0 PROVE J!StoryIsTrue(t)'
        BY <4>1, <4>2, <4>4, <4>8, <3>3, <3>4, <3>6, <3>7, <3>10, <3>17,
           JobConstants DEF J!Consistent, J!OneCall, J!LockIsTrue, J!StoryIsTrue, J!Told
      <4>9. QED
        BY <4>5, <4>6, <4>7, <4>8 DEF J!Consistent
    <3>21. QED
      BY <3>2, <3>18, <3>19, <3>20 DEF J!JobInv
  <2>4. QED
    BY <2>2, <2>3, <2>1
<1>4. ASSUME NEW c \in Calls, J!PauseMove(c)
      PROVE  (J!TypeOK /\ J!JobInv)'
  <2>1. PICK t, r : t = v3[c].job /\ r = [v1[v3[c].job] EXCEPT !.status = IF @ \in {"waiting",
     "delayed", "active", "parked"} THEN "parked" ELSE @]
    OBVIOUS
  <2>2. t \in Jobs /\ v1[t] \in J!Job
    BY <2>1, <1>4, JobShapes DEF J!PauseMove
  <2>3. c \in J!InFlight(t)
    BY <2>1, <1>4 DEF J!PauseMove, J!InFlight
  <2>4. v3[c].pc = "move"
    BY <2>1, <2>2, <1>4 DEF J!PauseMove
  <2>5. r \in J!Job
    BY <2>1, <2>2, <2>4, JobConstants DEF J!Job
  <2>6. /\ r.status = IF v1[t].status \in {"waiting", "delayed", "active", "parked"}
                       THEN "parked" ELSE v1[t].status
        /\ r.paused = v1[t].paused
        /\ r.lock = v1[t].lock
        /\ r.stalls = v1[t].stalls
        /\ r.disturbed = v1[t].disturbed
    BY <2>1, <2>2 DEF J!Job
  <2>7. /\ r.result = v1[t].result
        /\ r.ok = v1[t].ok
        /\ r.bad = v1[t].bad
        /\ r.letters = v1[t].letters
        /\ r.lost = v1[t].lost
    BY <2>1, <2>2 DEF J!Job
  <2>8. J!Set(t, r)
    BY <2>1, <2>4, <1>4 DEF J!PauseMove
  <2>9. v1' \in [Jobs -> J!Job] /\ \A k \in Jobs \ {t} : v1'[k] = v1[k]
    BY <2>2, <2>5, <2>8, SetDoes
  <2>10. /\ v1'[t].status = r.status /\ v1'[t].paused = r.paused /\ v1'[t].lock = r.lock
         /\ v1'[t].stalls = r.stalls /\ v1'[t].disturbed = r.disturbed
    BY <2>2, <2>5, <2>8, SetDoes
  <2>11. ~r.disturbed /\ r.stalls = 0 => v1'[t] = r
    BY <2>2, <2>5, <2>8, SetDoes
  <2>12. J!CallReturns(c)
    BY <2>1, <1>4 DEF J!PauseMove
  <2>13. v3[c].job = t /\ v3[c].pc # "idle"
    BY <2>1, <1>4 DEF J!PauseMove
  <2>14. v3' \in [Calls -> J!CallState]
    BY <2>2, <2>12, <2>13, CallReturnsDoes
  <2>15. /\ \A d \in Calls \ {c} : v3'[d] = v3[d]
         /\ v3[c].pc = "idle" \/ v3[c].job = t
         /\ v3'[c].pc = "idle" \/ v3'[c].job = t
    BY <2>2, <2>12, <2>13, CallReturnsDoes
  <2>16. J!InFlight(t)' = J!InFlight(t) \ {c}
    BY <2>2, <2>12, <2>13, CallReturnsDoes
  <2>17. UNCHANGED <<v2, v4>>
    BY <1>4 DEF J!PauseMove
  <2>18. J!TypeOK'
    BY <2>9, <2>14, <2>17 DEF J!TypeOK
  <2>19. ASSUME NEW k \in Jobs \ {t}, J!Intact(k)' PROVE J!Consistent(k)'
    <3>1. v1'[k] = v1[k]
      BY <2>19, <2>9
    <3>2. J!InFlight(k)' = J!InFlight(k) /\ \A d \in J!InFlight(k) : v3'[d] = v3[d]
      BY <1>4, <2>19, <2>15 DEF J!InFlight
    <3>3. J!RunBy(k)' = J!RunBy(k) /\ \A y \in J!RunBy(k) : v2'[y] = v2[y]
      BY <2>17 DEF J!RunBy
    <3>4. QED
      BY <2>19, <3>1, <3>2, <3>3, OtherJobs
  <2>20. ASSUME J!Intact(t)' PROVE J!Consistent(t)'
    <3>1. J!Intact(t) /\ (v1'[t].stalls = 0 => v1'[t] = r)
      BY <2>20, <2>4, <2>6, <2>10, <2>11 DEF J!Intact
    <3>2. J!Consistent(t)
      BY <2>2, <3>1 DEF J!JobInv
    <3>3. J!InFlight(t)' = {}
      BY <3>2, <2>3, <2>16 DEF J!Consistent, J!OneCall
    <3>4. J!RunBy(t)' = J!RunBy(t)
      BY <2>17 DEF J!RunBy
    <3>5. J!OneCall(t)'
      BY <3>2, <3>3, <2>3, <2>4, <2>6, <2>10, <2>16, <2>17 DEF J!Consistent, J!OneCall,
         J!MarkIsTrue, J!LockIsTrue
    <3>6. J!MarkIsTrue(t)'
      BY <3>2, <3>3, <2>3, <2>4, <2>6, <2>10, <2>16, <2>17 DEF J!Consistent, J!OneCall,
         J!MarkIsTrue, J!LockIsTrue
    <3>7. J!LockIsTrue(t)'
      BY <3>2, <3>4, <2>3, <2>4, <2>6, <2>10, <2>17 DEF J!Consistent, J!OneCall, J!LockIsTrue
    <3>8. ASSUME v1'[t].stalls = 0 PROVE J!StoryIsTrue(t)'
      BY <3>1, <3>2, <3>4, <3>8, <2>3, <2>4, <2>6, <2>7, <2>10, <2>17,
         JobConstants DEF J!Consistent, J!OneCall, J!LockIsTrue, J!StoryIsTrue, J!Told
    <3>9. QED
      BY <3>5, <3>6, <3>7, <3>8 DEF J!Consistent
  <2>21. QED
    BY <2>2, <2>18, <2>19, <2>20 DEF J!JobInv
<1>5. ASSUME NEW c \in Calls, J!ResumePromote(c)
      PROVE  (J!TypeOK /\ J!JobInv)'
  <2>1. v3[c].pc = "promote"
    BY <1>5 DEF J!ResumePromote
  <2>2. CASE v1[v3[c].job].status \notin {"delayed", "parked"}
    <3>1. PICK t : t = v3[c].job
      OBVIOUS
    <3>2. t \in Jobs /\ v1[t] \in J!Job
      BY <3>1, <1>5, <2>1, <2>2, JobShapes DEF J!ResumePromote
    <3>3. c \in J!InFlight(t)
      BY <3>1, <1>5, <2>1, <2>2 DEF J!ResumePromote, J!InFlight
    <3>4. v3[c].pc = "promote" /\ v1[t].status \notin {"delayed", "parked"}
      BY <3>1, <3>2, <1>5, <2>1, <2>2 DEF J!ResumePromote
    <3>5. v1' = v1
      BY <1>5, <2>1, <2>2 DEF J!ResumePromote
    <3>7. J!CallReturns(c)
      BY <3>1, <1>5, <2>1, <2>2 DEF J!ResumePromote
    <3>8. v3[c].job = t /\ v3[c].pc # "idle"
      BY <3>1, <1>5, <2>1, <2>2 DEF J!ResumePromote
    <3>9. v3' \in [Calls -> J!CallState]
      BY <3>2, <3>7, <3>8, CallReturnsDoes
    <3>10. /\ \A d \in Calls \ {c} : v3'[d] = v3[d]
           /\ v3[c].pc = "idle" \/ v3[c].job = t
           /\ v3'[c].pc = "idle" \/ v3'[c].job = t
      BY <3>2, <3>7, <3>8, CallReturnsDoes
    <3>11. J!InFlight(t)' = J!InFlight(t) \ {c}
      BY <3>2, <3>7, <3>8, CallReturnsDoes
    <3>12. UNCHANGED <<v2, v4>>
      BY <1>5, <2>1, <2>2 DEF J!ResumePromote
    <3>13. J!TypeOK'
      BY <3>5, <3>9, <3>12 DEF J!TypeOK
    <3>14. ASSUME NEW k \in Jobs \ {t}, J!Intact(k)' PROVE J!Consistent(k)'
      <4>1. v1'[k] = v1[k]
        BY <3>14, <3>5
      <4>2. J!InFlight(k)' = J!InFlight(k) /\ \A d \in J!InFlight(k) : v3'[d] = v3[d]
        BY <1>5, <3>14, <3>10 DEF J!InFlight
      <4>3. J!RunBy(k)' = J!RunBy(k) /\ \A y \in J!RunBy(k) : v2'[y] = v2[y]
        BY <3>12 DEF J!RunBy
      <4>4. QED
        BY <3>14, <4>1, <4>2, <4>3, OtherJobs
    <3>15. ASSUME J!Intact(t)' PROVE J!Consistent(t)'
      <4>1. J!Intact(t)
        BY <3>15, <3>4, <3>5 DEF J!Intact
      <4>2. J!Consistent(t)
        BY <3>2, <4>1 DEF J!JobInv
      <4>3. J!InFlight(t)' = {}
        BY <4>2, <3>3, <3>11 DEF J!Consistent, J!OneCall
      <4>4. J!RunBy(t)' = J!RunBy(t)
        BY <3>12 DEF J!RunBy
      <4>5. J!OneCall(t)'
        BY <4>2, <4>3, <3>3, <3>4, <3>5, <3>11, <3>12 DEF J!Consistent, J!OneCall, J!MarkIsTrue,
           J!LockIsTrue
      <4>6. J!MarkIsTrue(t)'
        BY <4>2, <4>3, <3>3, <3>4, <3>5, <3>11, <3>12 DEF J!Consistent, J!OneCall, J!MarkIsTrue,
           J!LockIsTrue
      <4>7. J!LockIsTrue(t)'
        BY <4>2, <4>4, <3>3, <3>4, <3>5, <3>12 DEF J!Consistent, J!OneCall, J!LockIsTrue
      <4>8. ASSUME v1'[t].stalls = 0 PROVE J!StoryIsTrue(t)'
        BY <4>1, <4>2, <4>4, <4>8, <3>3, <3>4, <3>5, <3>12, JobConstants DEF J!Consistent,
           J!OneCall, J!LockIsTrue, J!StoryIsTrue, J!Told
      <4>9. QED
        BY <4>5, <4>6, <4>7, <4>8 DEF J!Consistent
    <3>16. QED
      BY <3>2, <3>13, <3>14, <3>15 DEF J!JobInv
  <2>3. CASE v1[v3[c].job].status \in {"delayed", "parked"}
    <3>1. PICK t, r : t = v3[c].job /\ r = [v1[v3[c].job] EXCEPT !.status = "waiting"]
      OBVIOUS
    <3>2. t \in Jobs /\ v1[t] \in J!Job
      BY <3>1, <1>5, <2>1, <2>3, JobShapes DEF J!ResumePromote
    <3>3. c \in J!InFlight(t)
      BY <3>1, <1>5, <2>1, <2>3 DEF J!ResumePromote, J!InFlight
    <3>4. v3[c].pc = "promote" /\ v1[t].status \in {"delayed", "parked"}
      BY <3>1, <3>2, <1>5, <2>1, <2>3 DEF J!ResumePromote
    <3>5. r \in J!Job
      BY <3>1, <3>2, <3>4, JobConstants DEF J!Job
    <3>6. /\ r.status = "waiting"
          /\ r.paused = v1[t].paused
          /\ r.lock = v1[t].lock
          /\ r.stalls = v1[t].stalls
          /\ r.disturbed = v1[t].disturbed
      BY <3>1, <3>2 DEF J!Job
    <3>7. /\ r.result = v1[t].result
          /\ r.ok = v1[t].ok
          /\ r.bad = v1[t].bad
          /\ r.letters = v1[t].letters
          /\ r.lost = v1[t].lost
      BY <3>1, <3>2 DEF J!Job
    <3>8. J!Set(t, r)
      BY <3>1, <3>4, <1>5, <2>1, <2>3 DEF J!ResumePromote
    <3>9. v1' \in [Jobs -> J!Job] /\ \A k \in Jobs \ {t} : v1'[k] = v1[k]
      BY <3>2, <3>5, <3>8, SetDoes
    <3>10. /\ v1'[t].status = r.status /\ v1'[t].paused = r.paused /\ v1'[t].lock = r.lock
           /\ v1'[t].stalls = r.stalls /\ v1'[t].disturbed = r.disturbed
      BY <3>2, <3>5, <3>8, SetDoes
    <3>11. ~r.disturbed /\ r.stalls = 0 => v1'[t] = r
      BY <3>2, <3>5, <3>8, SetDoes
    <3>12. J!CallGoes(c, "unmark")
      BY <3>1, <1>5, <2>1, <2>3 DEF J!ResumePromote
    <3>13. v3[c].job = t /\ v3[c].pc # "idle"
      BY <3>1, <1>5, <2>1, <2>3 DEF J!ResumePromote
    <3>14. v3' \in [Calls -> J!CallState]
      BY <3>2, <3>12, <3>13, CallGoesDoes
    <3>15. /\ \A d \in Calls \ {c} : v3'[d] = v3[d]
           /\ v3[c].pc = "idle" \/ v3[c].job = t
           /\ v3'[c].pc = "idle" \/ v3'[c].job = t
      BY <3>2, <3>12, <3>13, CallGoesDoes
    <3>16. v3'[c].job = t /\ v3'[c].pc = "unmark" /\ J!InFlight(t)' = J!InFlight(t)
      BY <3>2, <3>12, <3>13, CallGoesDoes
    <3>17. UNCHANGED <<v2, v4>>
      BY <1>5, <2>1, <2>3 DEF J!ResumePromote
    <3>18. J!TypeOK'
      BY <3>9, <3>14, <3>17 DEF J!TypeOK
    <3>19. ASSUME NEW k \in Jobs \ {t}, J!Intact(k)' PROVE J!Consistent(k)'
      <4>1. v1'[k] = v1[k]
        BY <3>19, <3>9
      <4>2. J!InFlight(k)' = J!InFlight(k) /\ \A d \in J!InFlight(k) : v3'[d] = v3[d]
        BY <1>5, <3>19, <3>15 DEF J!InFlight
      <4>3. J!RunBy(k)' = J!RunBy(k) /\ \A y \in J!RunBy(k) : v2'[y] = v2[y]
        BY <3>17 DEF J!RunBy
      <4>4. QED
        BY <3>19, <4>1, <4>2, <4>3, OtherJobs
    <3>20. ASSUME J!Intact(t)' PROVE J!Consistent(t)'
      <4>1. J!Intact(t) /\ (v1'[t].stalls = 0 => v1'[t] = r)
        BY <3>20, <3>4, <3>6, <3>10, <3>11 DEF J!Intact
      <4>2. J!Consistent(t)
        BY <3>2, <4>1 DEF J!JobInv
      <4>3. J!InFlight(t)' = {c} /\ J!InFlight(t) = {c}
        BY <4>2, <3>3, <3>16 DEF J!Consistent, J!OneCall
      <4>4. J!RunBy(t)' = J!RunBy(t)
        BY <3>17 DEF J!RunBy
      <4>5. J!OneCall(t)'
        BY <4>2, <4>3, <3>3, <3>4, <3>6, <3>10, <3>16, <3>17 DEF J!Consistent, J!OneCall,
           J!MarkIsTrue, J!LockIsTrue
      <4>6. J!MarkIsTrue(t)'
        BY <4>2, <4>3, <3>3, <3>4, <3>6, <3>10, <3>16, <3>17 DEF J!Consistent, J!OneCall,
           J!MarkIsTrue, J!LockIsTrue
      <4>7. J!LockIsTrue(t)'
        BY <4>2, <4>4, <3>3, <3>4, <3>6, <3>10, <3>17 DEF J!Consistent, J!OneCall, J!LockIsTrue
      <4>8. ASSUME v1'[t].stalls = 0 PROVE J!StoryIsTrue(t)'
        BY <4>1, <4>2, <4>4, <4>8, <3>3, <3>4, <3>6, <3>7, <3>10, <3>17,
           JobConstants DEF J!Consistent, J!OneCall, J!LockIsTrue, J!StoryIsTrue, J!Told
      <4>9. QED
        BY <4>5, <4>6, <4>7, <4>8 DEF J!Consistent
    <3>21. QED
      BY <3>2, <3>18, <3>19, <3>20 DEF J!JobInv
  <2>4. QED
    BY <2>2, <2>3, <2>1
<1>6. ASSUME NEW c \in Calls, J!ResumeUpdate(c)
      PROVE  (J!TypeOK /\ J!JobInv)'
  <2>1. PICK t, r : t = v3[c].job /\ r = [v1[v3[c].job] EXCEPT !.paused = FALSE]
    OBVIOUS
  <2>2. t \in Jobs /\ v1[t] \in J!Job
    BY <2>1, <1>6, JobShapes DEF J!ResumeUpdate
  <2>3. c \in J!InFlight(t)
    BY <2>1, <1>6 DEF J!ResumeUpdate, J!InFlight
  <2>4. v3[c].pc = "unmark"
    BY <2>1, <2>2, <1>6 DEF J!ResumeUpdate
  <2>5. r \in J!Job
    BY <2>1, <2>2, <2>4, JobConstants DEF J!Job
  <2>6. /\ r.status = v1[t].status
        /\ r.paused = FALSE
        /\ r.lock = v1[t].lock
        /\ r.stalls = v1[t].stalls
        /\ r.disturbed = v1[t].disturbed
    BY <2>1, <2>2 DEF J!Job
  <2>7. /\ r.result = v1[t].result
        /\ r.ok = v1[t].ok
        /\ r.bad = v1[t].bad
        /\ r.letters = v1[t].letters
        /\ r.lost = v1[t].lost
    BY <2>1, <2>2 DEF J!Job
  <2>8. J!Set(t, r)
    BY <2>1, <2>4, <1>6 DEF J!ResumeUpdate
  <2>9. v1' \in [Jobs -> J!Job] /\ \A k \in Jobs \ {t} : v1'[k] = v1[k]
    BY <2>2, <2>5, <2>8, SetDoes
  <2>10. /\ v1'[t].status = r.status /\ v1'[t].paused = r.paused /\ v1'[t].lock = r.lock
         /\ v1'[t].stalls = r.stalls /\ v1'[t].disturbed = r.disturbed
    BY <2>2, <2>5, <2>8, SetDoes
  <2>11. ~r.disturbed /\ r.stalls = 0 => v1'[t] = r
    BY <2>2, <2>5, <2>8, SetDoes
  <2>12. J!CallReturns(c)
    BY <2>1, <1>6 DEF J!ResumeUpdate
  <2>13. v3[c].job = t /\ v3[c].pc # "idle"
    BY <2>1, <1>6 DEF J!ResumeUpdate
  <2>14. v3' \in [Calls -> J!CallState]
    BY <2>2, <2>12, <2>13, CallReturnsDoes
  <2>15. /\ \A d \in Calls \ {c} : v3'[d] = v3[d]
         /\ v3[c].pc = "idle" \/ v3[c].job = t
         /\ v3'[c].pc = "idle" \/ v3'[c].job = t
    BY <2>2, <2>12, <2>13, CallReturnsDoes
  <2>16. J!InFlight(t)' = J!InFlight(t) \ {c}
    BY <2>2, <2>12, <2>13, CallReturnsDoes
  <2>17. UNCHANGED <<v2, v4>>
    BY <1>6 DEF J!ResumeUpdate
  <2>18. J!TypeOK'
    BY <2>9, <2>14, <2>17 DEF J!TypeOK
  <2>19. ASSUME NEW k \in Jobs \ {t}, J!Intact(k)' PROVE J!Consistent(k)'
    <3>1. v1'[k] = v1[k]
      BY <2>19, <2>9
    <3>2. J!InFlight(k)' = J!InFlight(k) /\ \A d \in J!InFlight(k) : v3'[d] = v3[d]
      BY <1>6, <2>19, <2>15 DEF J!InFlight
    <3>3. J!RunBy(k)' = J!RunBy(k) /\ \A y \in J!RunBy(k) : v2'[y] = v2[y]
      BY <2>17 DEF J!RunBy
    <3>4. QED
      BY <2>19, <3>1, <3>2, <3>3, OtherJobs
  <2>20. ASSUME J!Intact(t)' PROVE J!Consistent(t)'
    <3>1. J!Intact(t) /\ (v1'[t].stalls = 0 => v1'[t] = r)
      BY <2>20, <2>4, <2>6, <2>10, <2>11 DEF J!Intact
    <3>2. J!Consistent(t)
      BY <2>2, <3>1 DEF J!JobInv
    <3>3. J!InFlight(t)' = {}
      BY <3>2, <2>3, <2>16 DEF J!Consistent, J!OneCall
    <3>4. J!RunBy(t)' = J!RunBy(t)
      BY <2>17 DEF J!RunBy
    <3>5. J!OneCall(t)'
      BY <3>2, <3>3, <2>3, <2>4, <2>6, <2>10, <2>16, <2>17 DEF J!Consistent, J!OneCall,
         J!MarkIsTrue, J!LockIsTrue
    <3>6. J!MarkIsTrue(t)'
      BY <3>2, <3>3, <2>3, <2>4, <2>6, <2>10, <2>16, <2>17 DEF J!Consistent, J!OneCall,
         J!MarkIsTrue, J!LockIsTrue
    <3>7. J!LockIsTrue(t)'
      BY <3>2, <3>4, <2>3, <2>4, <2>6, <2>10, <2>17 DEF J!Consistent, J!OneCall, J!LockIsTrue
    <3>8. ASSUME v1'[t].stalls = 0 PROVE J!StoryIsTrue(t)'
      BY <3>1, <3>2, <3>4, <3>8, <2>3, <2>4, <2>6, <2>7, <2>10, <2>17,
         JobConstants DEF J!Consistent, J!OneCall, J!LockIsTrue, J!StoryIsTrue, J!Told
    <3>9. QED
      BY <3>5, <3>6, <3>7, <3>8 DEF J!Consistent
  <2>21. QED
    BY <2>2, <2>18, <2>19, <2>20 DEF J!JobInv
<1>7. ASSUME NEW c \in Calls, J!CancelState(c)
      PROVE  (J!TypeOK /\ J!JobInv)'
  <2>1. v3[c].pc = "state"
    BY <1>7 DEF J!CancelState
  <2>2. CASE v1[v3[c].job].status # "completed"
    <3>1. PICK t : t = v3[c].job
      OBVIOUS
    <3>2. t \in Jobs /\ v1[t] \in J!Job
      BY <3>1, <1>7, <2>1, <2>2, JobShapes DEF J!CancelState
    <3>3. c \in J!InFlight(t)
      BY <3>1, <1>7, <2>1, <2>2 DEF J!CancelState, J!InFlight
    <3>4. v3[c].pc = "state"
      BY <3>1, <3>2, <1>7, <2>1, <2>2 DEF J!CancelState
    <3>5. v1' = v1
      BY <1>7, <2>1, <2>2 DEF J!CancelState
    <3>7. J!CallGoes(c, "remove")
      BY <3>1, <1>7, <2>1, <2>2 DEF J!CancelState
    <3>8. v3[c].job = t /\ v3[c].pc # "idle"
      BY <3>1, <1>7, <2>1, <2>2 DEF J!CancelState
    <3>9. v3' \in [Calls -> J!CallState]
      BY <3>2, <3>7, <3>8, CallGoesDoes
    <3>10. /\ \A d \in Calls \ {c} : v3'[d] = v3[d]
           /\ v3[c].pc = "idle" \/ v3[c].job = t
           /\ v3'[c].pc = "idle" \/ v3'[c].job = t
      BY <3>2, <3>7, <3>8, CallGoesDoes
    <3>11. v3'[c].job = t /\ v3'[c].pc = "remove" /\ J!InFlight(t)' = J!InFlight(t)
      BY <3>2, <3>7, <3>8, CallGoesDoes
    <3>12. UNCHANGED <<v2, v4>>
      BY <1>7, <2>1, <2>2 DEF J!CancelState
    <3>13. J!TypeOK'
      BY <3>5, <3>9, <3>12 DEF J!TypeOK
    <3>14. ASSUME NEW k \in Jobs \ {t}, J!Intact(k)' PROVE J!Consistent(k)'
      <4>1. v1'[k] = v1[k]
        BY <3>14, <3>5
      <4>2. J!InFlight(k)' = J!InFlight(k) /\ \A d \in J!InFlight(k) : v3'[d] = v3[d]
        BY <1>7, <3>14, <3>10 DEF J!InFlight
      <4>3. J!RunBy(k)' = J!RunBy(k) /\ \A y \in J!RunBy(k) : v2'[y] = v2[y]
        BY <3>12 DEF J!RunBy
      <4>4. QED
        BY <3>14, <4>1, <4>2, <4>3, OtherJobs
    <3>15. ASSUME J!Intact(t)' PROVE J!Consistent(t)'
      <4>1. J!Intact(t)
        BY <3>15, <3>4, <3>5 DEF J!Intact
      <4>2. J!Consistent(t)
        BY <3>2, <4>1 DEF J!JobInv
      <4>3. J!InFlight(t)' = {c} /\ J!InFlight(t) = {c}
        BY <4>2, <3>3, <3>11 DEF J!Consistent, J!OneCall
      <4>4. J!RunBy(t)' = J!RunBy(t)
        BY <3>12 DEF J!RunBy
      <4>5. J!OneCall(t)'
        BY <4>2, <4>3, <3>3, <3>4, <3>5, <3>11, <3>12 DEF J!Consistent, J!OneCall, J!MarkIsTrue,
           J!LockIsTrue
      <4>6. J!MarkIsTrue(t)'
        BY <4>2, <4>3, <3>3, <3>4, <3>5, <3>11, <3>12 DEF J!Consistent, J!OneCall, J!MarkIsTrue,
           J!LockIsTrue
      <4>7. J!LockIsTrue(t)'
        BY <4>2, <4>4, <3>3, <3>4, <3>5, <3>12 DEF J!Consistent, J!OneCall, J!LockIsTrue
      <4>8. ASSUME v1'[t].stalls = 0 PROVE J!StoryIsTrue(t)'
        BY <4>1, <4>2, <4>4, <4>8, <3>3, <3>4, <3>5, <3>12, JobConstants DEF J!Consistent,
           J!OneCall, J!LockIsTrue, J!StoryIsTrue, J!Told
      <4>9. QED
        BY <4>5, <4>6, <4>7, <4>8 DEF J!Consistent
    <3>16. QED
      BY <3>2, <3>13, <3>14, <3>15 DEF J!JobInv
  <2>3. CASE v1[v3[c].job].status = "completed"
    <3>1. PICK t : t = v3[c].job
      OBVIOUS
    <3>2. t \in Jobs /\ v1[t] \in J!Job
      BY <3>1, <1>7, <2>1, <2>3, JobShapes DEF J!CancelState
    <3>3. c \in J!InFlight(t)
      BY <3>1, <1>7, <2>1, <2>3 DEF J!CancelState, J!InFlight
    <3>4. v3[c].pc = "state"
      BY <3>1, <3>2, <1>7, <2>1, <2>3 DEF J!CancelState
    <3>5. v1' = v1
      BY <1>7, <2>1, <2>3 DEF J!CancelState
    <3>7. J!CallReturns(c)
      BY <3>1, <1>7, <2>1, <2>3 DEF J!CancelState
    <3>8. v3[c].job = t /\ v3[c].pc # "idle"
      BY <3>1, <1>7, <2>1, <2>3 DEF J!CancelState
    <3>9. v3' \in [Calls -> J!CallState]
      BY <3>2, <3>7, <3>8, CallReturnsDoes
    <3>10. /\ \A d \in Calls \ {c} : v3'[d] = v3[d]
           /\ v3[c].pc = "idle" \/ v3[c].job = t
           /\ v3'[c].pc = "idle" \/ v3'[c].job = t
      BY <3>2, <3>7, <3>8, CallReturnsDoes
    <3>11. J!InFlight(t)' = J!InFlight(t) \ {c}
      BY <3>2, <3>7, <3>8, CallReturnsDoes
    <3>12. UNCHANGED <<v2, v4>>
      BY <1>7, <2>1, <2>3 DEF J!CancelState
    <3>13. J!TypeOK'
      BY <3>5, <3>9, <3>12 DEF J!TypeOK
    <3>14. ASSUME NEW k \in Jobs \ {t}, J!Intact(k)' PROVE J!Consistent(k)'
      <4>1. v1'[k] = v1[k]
        BY <3>14, <3>5
      <4>2. J!InFlight(k)' = J!InFlight(k) /\ \A d \in J!InFlight(k) : v3'[d] = v3[d]
        BY <1>7, <3>14, <3>10 DEF J!InFlight
      <4>3. J!RunBy(k)' = J!RunBy(k) /\ \A y \in J!RunBy(k) : v2'[y] = v2[y]
        BY <3>12 DEF J!RunBy
      <4>4. QED
        BY <3>14, <4>1, <4>2, <4>3, OtherJobs
    <3>15. ASSUME J!Intact(t)' PROVE J!Consistent(t)'
      <4>1. J!Intact(t)
        BY <3>15, <3>4, <3>5 DEF J!Intact
      <4>2. J!Consistent(t)
        BY <3>2, <4>1 DEF J!JobInv
      <4>3. J!InFlight(t)' = {}
        BY <4>2, <3>3, <3>11 DEF J!Consistent, J!OneCall
      <4>4. J!RunBy(t)' = J!RunBy(t)
        BY <3>12 DEF J!RunBy
      <4>5. J!OneCall(t)'
        BY <4>2, <4>3, <3>3, <3>4, <3>5, <3>11, <3>12 DEF J!Consistent, J!OneCall, J!MarkIsTrue,
           J!LockIsTrue
      <4>6. J!MarkIsTrue(t)'
        BY <4>2, <4>3, <3>3, <3>4, <3>5, <3>11, <3>12 DEF J!Consistent, J!OneCall, J!MarkIsTrue,
           J!LockIsTrue
      <4>7. J!LockIsTrue(t)'
        BY <4>2, <4>4, <3>3, <3>4, <3>5, <3>12 DEF J!Consistent, J!OneCall, J!LockIsTrue
      <4>8. ASSUME v1'[t].stalls = 0 PROVE J!StoryIsTrue(t)'
        BY <4>1, <4>2, <4>4, <4>8, <3>3, <3>4, <3>5, <3>12, JobConstants DEF J!Consistent,
           J!OneCall, J!LockIsTrue, J!StoryIsTrue, J!Told
      <4>9. QED
        BY <4>5, <4>6, <4>7, <4>8 DEF J!Consistent
    <3>16. QED
      BY <3>2, <3>13, <3>14, <3>15 DEF J!JobInv
  <2>4. QED
    BY <2>2, <2>3, <2>1
<1>8. ASSUME NEW c \in Calls, J!CancelRemove(c)
      PROVE  (J!TypeOK /\ J!JobInv)'
  <2>1. v3[c].pc = "remove" /\ (v1' = v1 \/ J!Set(v3[c].job,
     [v1[v3[c].job] EXCEPT !.status = "removed"]))
    BY <1>8 DEF J!CancelRemove
  <2>2. CASE v1' = v1
    <3>1. PICK t : t = v3[c].job
      OBVIOUS
    <3>2. t \in Jobs /\ v1[t] \in J!Job
      BY <3>1, <1>8, <2>1, <2>2, JobShapes DEF J!CancelRemove
    <3>3. c \in J!InFlight(t)
      BY <3>1, <1>8, <2>1, <2>2 DEF J!CancelRemove, J!InFlight
    <3>4. v3[c].pc = "remove"
      BY <3>1, <3>2, <1>8, <2>1, <2>2 DEF J!CancelRemove
    <3>5. v1' = v1
      BY <1>8, <2>1, <2>2 DEF J!CancelRemove
    <3>7. J!CallReturns(c)
      BY <3>1, <1>8, <2>1, <2>2 DEF J!CancelRemove
    <3>8. v3[c].job = t /\ v3[c].pc # "idle"
      BY <3>1, <1>8, <2>1, <2>2 DEF J!CancelRemove
    <3>9. v3' \in [Calls -> J!CallState]
      BY <3>2, <3>7, <3>8, CallReturnsDoes
    <3>10. /\ \A d \in Calls \ {c} : v3'[d] = v3[d]
           /\ v3[c].pc = "idle" \/ v3[c].job = t
           /\ v3'[c].pc = "idle" \/ v3'[c].job = t
      BY <3>2, <3>7, <3>8, CallReturnsDoes
    <3>11. J!InFlight(t)' = J!InFlight(t) \ {c}
      BY <3>2, <3>7, <3>8, CallReturnsDoes
    <3>12. UNCHANGED <<v2, v4>>
      BY <1>8, <2>1, <2>2 DEF J!CancelRemove
    <3>13. J!TypeOK'
      BY <3>5, <3>9, <3>12 DEF J!TypeOK
    <3>14. ASSUME NEW k \in Jobs \ {t}, J!Intact(k)' PROVE J!Consistent(k)'
      <4>1. v1'[k] = v1[k]
        BY <3>14, <3>5
      <4>2. J!InFlight(k)' = J!InFlight(k) /\ \A d \in J!InFlight(k) : v3'[d] = v3[d]
        BY <1>8, <3>14, <3>10 DEF J!InFlight
      <4>3. J!RunBy(k)' = J!RunBy(k) /\ \A y \in J!RunBy(k) : v2'[y] = v2[y]
        BY <3>12 DEF J!RunBy
      <4>4. QED
        BY <3>14, <4>1, <4>2, <4>3, OtherJobs
    <3>15. ASSUME J!Intact(t)' PROVE J!Consistent(t)'
      <4>1. J!Intact(t)
        BY <3>15, <3>4, <3>5 DEF J!Intact
      <4>2. J!Consistent(t)
        BY <3>2, <4>1 DEF J!JobInv
      <4>3. J!InFlight(t)' = {}
        BY <4>2, <3>3, <3>11 DEF J!Consistent, J!OneCall
      <4>4. J!RunBy(t)' = J!RunBy(t)
        BY <3>12 DEF J!RunBy
      <4>5. J!OneCall(t)'
        BY <4>2, <4>3, <3>3, <3>4, <3>5, <3>11, <3>12 DEF J!Consistent, J!OneCall, J!MarkIsTrue,
           J!LockIsTrue
      <4>6. J!MarkIsTrue(t)'
        BY <4>2, <4>3, <3>3, <3>4, <3>5, <3>11, <3>12 DEF J!Consistent, J!OneCall, J!MarkIsTrue,
           J!LockIsTrue
      <4>7. J!LockIsTrue(t)'
        BY <4>2, <4>4, <3>3, <3>4, <3>5, <3>12 DEF J!Consistent, J!OneCall, J!LockIsTrue
      <4>8. ASSUME v1'[t].stalls = 0 PROVE J!StoryIsTrue(t)'
        BY <4>1, <4>2, <4>4, <4>8, <3>3, <3>4, <3>5, <3>12, JobConstants DEF J!Consistent,
           J!OneCall, J!LockIsTrue, J!StoryIsTrue, J!Told
      <4>9. QED
        BY <4>5, <4>6, <4>7, <4>8 DEF J!Consistent
    <3>16. QED
      BY <3>2, <3>13, <3>14, <3>15 DEF J!JobInv
  <2>3. CASE J!Set(v3[c].job, [v1[v3[c].job] EXCEPT !.status = "removed"])
    <3>1. PICK t, r : t = v3[c].job /\ r = [v1[v3[c].job] EXCEPT !.status = "removed"]
      OBVIOUS
    <3>2. t \in Jobs /\ v1[t] \in J!Job
      BY <3>1, <1>8, <2>1, <2>3, JobShapes DEF J!CancelRemove
    <3>3. c \in J!InFlight(t)
      BY <3>1, <1>8, <2>1, <2>3 DEF J!CancelRemove, J!InFlight
    <3>4. v3[c].pc = "remove"
      BY <3>1, <3>2, <1>8, <2>1, <2>3 DEF J!CancelRemove
    <3>5. r \in J!Job
      BY <3>1, <3>2, <3>4, JobConstants DEF J!Job
    <3>6. /\ r.status = "removed"
          /\ r.paused = v1[t].paused
          /\ r.lock = v1[t].lock
          /\ r.stalls = v1[t].stalls
          /\ r.disturbed = v1[t].disturbed
      BY <3>1, <3>2 DEF J!Job
    <3>7. J!Set(t, r)
      BY <3>1, <3>4, <1>8, <2>1, <2>3 DEF J!CancelRemove
    <3>8. v1' \in [Jobs -> J!Job] /\ \A k \in Jobs \ {t} : v1'[k] = v1[k]
      BY <3>2, <3>5, <3>7, SetDoes
    <3>9. /\ v1'[t].status = r.status /\ v1'[t].paused = r.paused /\ v1'[t].lock = r.lock
          /\ v1'[t].stalls = r.stalls /\ v1'[t].disturbed = r.disturbed
      BY <3>2, <3>5, <3>7, SetDoes
    <3>10. J!CallReturns(c)
      BY <3>1, <1>8, <2>1, <2>3 DEF J!CancelRemove
    <3>11. v3[c].job = t /\ v3[c].pc # "idle"
      BY <3>1, <1>8, <2>1, <2>3 DEF J!CancelRemove
    <3>12. v3' \in [Calls -> J!CallState]
      BY <3>2, <3>10, <3>11, CallReturnsDoes
    <3>13. /\ \A d \in Calls \ {c} : v3'[d] = v3[d]
           /\ v3[c].pc = "idle" \/ v3[c].job = t
           /\ v3'[c].pc = "idle" \/ v3'[c].job = t
      BY <3>2, <3>10, <3>11, CallReturnsDoes
    <3>14. J!InFlight(t)' = J!InFlight(t) \ {c}
      BY <3>2, <3>10, <3>11, CallReturnsDoes
    <3>15. UNCHANGED <<v2, v4>>
      BY <1>8, <2>1, <2>3 DEF J!CancelRemove
    <3>16. J!TypeOK'
      BY <3>8, <3>12, <3>15 DEF J!TypeOK
    <3>17. ASSUME NEW k \in Jobs \ {t}, J!Intact(k)' PROVE J!Consistent(k)'
      <4>1. v1'[k] = v1[k]
        BY <3>17, <3>8
      <4>2. J!InFlight(k)' = J!InFlight(k) /\ \A d \in J!InFlight(k) : v3'[d] = v3[d]
        BY <1>8, <3>17, <3>13 DEF J!InFlight
      <4>3. J!RunBy(k)' = J!RunBy(k) /\ \A y \in J!RunBy(k) : v2'[y] = v2[y]
        BY <3>15 DEF J!RunBy
      <4>4. QED
        BY <3>17, <4>1, <4>2, <4>3, OtherJobs
    <3>18. ASSUME J!Intact(t)' PROVE J!Consistent(t)'
      BY <3>18, <3>6, <3>9 DEF J!Intact
    <3>19. QED
      BY <3>2, <3>16, <3>17, <3>18 DEF J!JobInv
  <2>4. QED
    BY <2>2, <2>3, <2>1
<1>9. ASSUME NEW c \in Calls, J!CallBreaks(c)
      PROVE  (J!TypeOK /\ J!JobInv)'
  <2>1. PICK t, r : t = v3[c].job /\ r = [v1[v3[c].job] EXCEPT !.disturbed = TRUE]
    OBVIOUS
  <2>2. t \in Jobs /\ v1[t] \in J!Job
    BY <2>1, <1>9, JobShapes DEF J!CallBreaks
  <2>3. c \in J!InFlight(t)
    BY <2>1, <1>9 DEF J!CallBreaks, J!InFlight
  <2>4. r \in J!Job
    BY <2>1, <2>2, JobConstants DEF J!Job
  <2>5. /\ r.status = v1[t].status
        /\ r.paused = v1[t].paused
        /\ r.lock = v1[t].lock
        /\ r.stalls = v1[t].stalls
        /\ r.disturbed = TRUE
    BY <2>1, <2>2 DEF J!Job
  <2>6. J!Set(t, r)
    BY <2>1, <1>9 DEF J!CallBreaks
  <2>7. v1' \in [Jobs -> J!Job] /\ \A k \in Jobs \ {t} : v1'[k] = v1[k]
    BY <2>2, <2>4, <2>6, SetDoes
  <2>8. /\ v1'[t].status = r.status /\ v1'[t].paused = r.paused /\ v1'[t].lock = r.lock
        /\ v1'[t].stalls = r.stalls /\ v1'[t].disturbed = r.disturbed
    BY <2>2, <2>4, <2>6, SetDoes
  <2>9. J!CallReturns(c)
    BY <2>1, <1>9 DEF J!CallBreaks
  <2>10. v3[c].job = t /\ v3[c].pc # "idle"
    BY <2>1, <1>9 DEF J!CallBreaks
  <2>11. v3' \in [Calls -> J!CallState]
    BY <2>2, <2>9, <2>10, CallReturnsDoes
  <2>12. /\ \A d \in Calls \ {c} : v3'[d] = v3[d]
         /\ v3[c].pc = "idle" \/ v3[c].job = t
         /\ v3'[c].pc = "idle" \/ v3'[c].job = t
    BY <2>2, <2>9, <2>10, CallReturnsDoes
  <2>13. J!InFlight(t)' = J!InFlight(t) \ {c}
    BY <2>2, <2>9, <2>10, CallReturnsDoes
  <2>14. UNCHANGED <<v2, v4>>
    BY <1>9 DEF J!CallBreaks
  <2>15. J!TypeOK'
    BY <2>7, <2>11, <2>14 DEF J!TypeOK
  <2>16. ASSUME NEW k \in Jobs \ {t}, J!Intact(k)' PROVE J!Consistent(k)'
    <3>1. v1'[k] = v1[k]
      BY <2>16, <2>7
    <3>2. J!InFlight(k)' = J!InFlight(k) /\ \A d \in J!InFlight(k) : v3'[d] = v3[d]
      BY <1>9, <2>16, <2>12 DEF J!InFlight
    <3>3. J!RunBy(k)' = J!RunBy(k) /\ \A y \in J!RunBy(k) : v2'[y] = v2[y]
      BY <2>14 DEF J!RunBy
    <3>4. QED
      BY <2>16, <3>1, <3>2, <3>3, OtherJobs
  <2>17. ASSUME J!Intact(t)' PROVE J!Consistent(t)'
    BY <2>17, <2>5, <2>8 DEF J!Intact
  <2>18. QED
    BY <2>2, <2>15, <2>16, <2>17 DEF J!JobInv
<1>10. ASSUME NEW j \in Jobs, J!RemoveJob(j)
      PROVE  (J!TypeOK /\ J!JobInv)'
  <2>1. PICK t, r : t = j /\ r = [v1[j] EXCEPT !.status = "removed"]
    OBVIOUS
  <2>2. t \in Jobs /\ v1[t] \in J!Job
    BY <2>1, <1>10, JobShapes DEF J!RemoveJob
  <2>3. r \in J!Job
    BY <2>1, <2>2, JobConstants DEF J!Job
  <2>4. /\ r.status = "removed"
        /\ r.paused = v1[t].paused
        /\ r.lock = v1[t].lock
        /\ r.stalls = v1[t].stalls
        /\ r.disturbed = v1[t].disturbed
    BY <2>1, <2>2 DEF J!Job
  <2>5. J!Set(t, r)
    BY <2>1, <1>10 DEF J!RemoveJob
  <2>6. v1' \in [Jobs -> J!Job] /\ \A k \in Jobs \ {t} : v1'[k] = v1[k]
    BY <2>2, <2>3, <2>5, SetDoes
  <2>7. /\ v1'[t].status = r.status /\ v1'[t].paused = r.paused /\ v1'[t].lock = r.lock
        /\ v1'[t].stalls = r.stalls /\ v1'[t].disturbed = r.disturbed
    BY <2>2, <2>3, <2>5, SetDoes
  <2>8. UNCHANGED <<v3, v2, v4>>
    BY <1>10 DEF J!RemoveJob
  <2>9. J!TypeOK'
    BY <2>6, <2>8 DEF J!TypeOK
  <2>10. ASSUME NEW k \in Jobs \ {t}, J!Intact(k)' PROVE J!Consistent(k)'
    <3>1. v1'[k] = v1[k]
      BY <2>10, <2>6
    <3>2. J!InFlight(k)' = J!InFlight(k) /\ \A d \in J!InFlight(k) : v3'[d] = v3[d]
      BY <2>8 DEF J!InFlight
    <3>3. J!RunBy(k)' = J!RunBy(k) /\ \A y \in J!RunBy(k) : v2'[y] = v2[y]
      BY <2>8 DEF J!RunBy
    <3>4. QED
      BY <2>10, <3>1, <3>2, <3>3, OtherJobs
  <2>11. ASSUME J!Intact(t)' PROVE J!Consistent(t)'
    BY <2>11, <2>4, <2>7 DEF J!Intact
  <2>12. QED
    BY <2>2, <2>9, <2>10, <2>11 DEF J!JobInv
<1>11. ASSUME NEW j \in Jobs, J!RetryJob(j)
      PROVE  (J!TypeOK /\ J!JobInv)'
  <2>1. PICK t, r : t = j /\ r = [v1[j] EXCEPT !.status = "waiting"]
    OBVIOUS
  <2>2. t \in Jobs /\ v1[t] \in J!Job
    BY <2>1, <1>11, JobShapes DEF J!RetryJob
  <2>3. v1[t].status = "failed"
    BY <2>1, <2>2, <1>11 DEF J!RetryJob
  <2>4. r \in J!Job
    BY <2>1, <2>2, <2>3, JobConstants DEF J!Job
  <2>5. /\ r.status = "waiting"
        /\ r.paused = v1[t].paused
        /\ r.lock = v1[t].lock
        /\ r.stalls = v1[t].stalls
        /\ r.disturbed = v1[t].disturbed
    BY <2>1, <2>2 DEF J!Job
  <2>6. /\ r.result = v1[t].result
        /\ r.ok = v1[t].ok
        /\ r.bad = v1[t].bad
        /\ r.letters = v1[t].letters
        /\ r.lost = v1[t].lost
    BY <2>1, <2>2 DEF J!Job
  <2>7. J!Set(t, r)
    BY <2>1, <2>3, <1>11 DEF J!RetryJob
  <2>8. v1' \in [Jobs -> J!Job] /\ \A k \in Jobs \ {t} : v1'[k] = v1[k]
    BY <2>2, <2>4, <2>7, SetDoes
  <2>9. /\ v1'[t].status = r.status /\ v1'[t].paused = r.paused /\ v1'[t].lock = r.lock
        /\ v1'[t].stalls = r.stalls /\ v1'[t].disturbed = r.disturbed
    BY <2>2, <2>4, <2>7, SetDoes
  <2>10. ~r.disturbed /\ r.stalls = 0 => v1'[t] = r
    BY <2>2, <2>4, <2>7, SetDoes
  <2>11. UNCHANGED <<v3, v2, v4>>
    BY <1>11 DEF J!RetryJob
  <2>12. J!TypeOK'
    BY <2>8, <2>11 DEF J!TypeOK
  <2>13. ASSUME NEW k \in Jobs \ {t}, J!Intact(k)' PROVE J!Consistent(k)'
    <3>1. v1'[k] = v1[k]
      BY <2>13, <2>8
    <3>2. J!InFlight(k)' = J!InFlight(k) /\ \A d \in J!InFlight(k) : v3'[d] = v3[d]
      BY <2>11 DEF J!InFlight
    <3>3. J!RunBy(k)' = J!RunBy(k) /\ \A y \in J!RunBy(k) : v2'[y] = v2[y]
      BY <2>11 DEF J!RunBy
    <3>4. QED
      BY <2>13, <3>1, <3>2, <3>3, OtherJobs
  <2>14. ASSUME J!Intact(t)' PROVE J!Consistent(t)'
    <3>1. J!Intact(t) /\ (v1'[t].stalls = 0 => v1'[t] = r)
      BY <2>14, <2>3, <2>5, <2>9, <2>10 DEF J!Intact
    <3>2. J!Consistent(t)
      BY <2>2, <3>1 DEF J!JobInv
    <3>3. J!InFlight(t)' = J!InFlight(t)
      BY <2>11 DEF J!InFlight
    <3>4. J!RunBy(t)' = J!RunBy(t)
      BY <2>11 DEF J!RunBy
    <3>5. J!OneCall(t)'
      BY <3>2, <3>3, <2>3, <2>5, <2>9, <2>11 DEF J!Consistent, J!OneCall, J!MarkIsTrue, J!LockIsTrue
    <3>6. J!MarkIsTrue(t)'
      BY <3>2, <3>3, <2>3, <2>5, <2>9, <2>11 DEF J!Consistent, J!OneCall, J!MarkIsTrue, J!LockIsTrue
    <3>7. J!LockIsTrue(t)'
      BY <3>2, <3>4, <2>3, <2>5, <2>9, <2>11 DEF J!Consistent, J!OneCall, J!LockIsTrue
    <3>8. ASSUME v1'[t].stalls = 0 PROVE J!StoryIsTrue(t)'
      BY <3>1, <3>2, <3>4, <3>8, <2>3, <2>5, <2>6, <2>9, <2>11, JobConstants DEF J!Consistent,
         J!OneCall, J!LockIsTrue, J!StoryIsTrue, J!Told
    <3>9. QED
      BY <3>5, <3>6, <3>7, <3>8 DEF J!Consistent
  <2>15. QED
    BY <2>2, <2>12, <2>13, <2>14 DEF J!JobInv
<1>12. CASE J!EmptyQueue
  <2>1. /\ v1' \in [Jobs -> J!Job] /\ UNCHANGED <<v2, v3, v4>>
        /\ \A k \in Jobs : J!Intact(k)' => v1'[k] = v1[k]
    <3>1. \A k \in Jobs : [v1[k] EXCEPT !.status = "removed"] \in J!Job
                       /\ [v1[k] EXCEPT !.status = "removed"].status = "removed"
      BY JobShapes, JobConstants DEF J!Job
    <3>2. \A k \in Jobs : v1'[k] = v1[k] \/ v1'[k] = [v1[k] EXCEPT !.status = "removed"]
      BY <1>12 DEF J!EmptyQueue, J!CleanOldJobs, J!Sweep
    <3>3. v1' = [k \in Jobs |-> v1'[k]] /\ UNCHANGED <<v2, v3, v4>>
      BY <1>12 DEF J!EmptyQueue, J!CleanOldJobs, J!Sweep
    <3>4. \A k \in Jobs : v1[k] \in J!Job
      BY JobShapes
    <3>5. \A k \in Jobs : v1'[k] \in J!Job
      BY <3>1, <3>2, <3>4
    <3>6. v1' \in [Jobs -> J!Job]
      BY <3>3, <3>5
    <3>7. QED
      BY <3>1, <3>2, <3>3, <3>6 DEF J!Intact
  <2>2. J!TypeOK'
    BY <2>1 DEF J!TypeOK
  <2>3. ASSUME NEW k \in Jobs, J!Intact(k)' PROVE J!Consistent(k)'
    <3>1. /\ v1'[k] = v1[k] /\ J!InFlight(k)' = J!InFlight(k) /\ J!RunBy(k)' = J!RunBy(k)
          /\ \A d \in J!InFlight(k) : v3'[d] = v3[d]
          /\ \A y \in J!RunBy(k) : v2'[y] = v2[y]
      BY <2>1, <2>3 DEF J!InFlight, J!RunBy
    <3>2. QED
      BY <2>3, <3>1, OtherJobs
  <2>4. QED
    BY <2>2, <2>3 DEF J!JobInv
<1>13. CASE J!CleanOldJobs
  <2>1. /\ v1' \in [Jobs -> J!Job] /\ UNCHANGED <<v2, v3, v4>>
        /\ \A k \in Jobs : J!Intact(k)' => v1'[k] = v1[k]
    <3>1. \A k \in Jobs : [v1[k] EXCEPT !.status = "removed"] \in J!Job
                       /\ [v1[k] EXCEPT !.status = "removed"].status = "removed"
      BY JobShapes, JobConstants DEF J!Job
    <3>2. \A k \in Jobs : v1'[k] = v1[k] \/ v1'[k] = [v1[k] EXCEPT !.status = "removed"]
      BY <1>13 DEF J!EmptyQueue, J!CleanOldJobs, J!Sweep
    <3>3. v1' = [k \in Jobs |-> v1'[k]] /\ UNCHANGED <<v2, v3, v4>>
      BY <1>13 DEF J!EmptyQueue, J!CleanOldJobs, J!Sweep
    <3>4. \A k \in Jobs : v1[k] \in J!Job
      BY JobShapes
    <3>5. \A k \in Jobs : v1'[k] \in J!Job
      BY <3>1, <3>2, <3>4
    <3>6. v1' \in [Jobs -> J!Job]
      BY <3>3, <3>5
    <3>7. QED
      BY <3>1, <3>2, <3>3, <3>6 DEF J!Intact
  <2>2. J!TypeOK'
    BY <2>1 DEF J!TypeOK
  <2>3. ASSUME NEW k \in Jobs, J!Intact(k)' PROVE J!Consistent(k)'
    <3>1. /\ v1'[k] = v1[k] /\ J!InFlight(k)' = J!InFlight(k) /\ J!RunBy(k)' = J!RunBy(k)
          /\ \A d \in J!InFlight(k) : v3'[d] = v3[d]
          /\ \A y \in J!RunBy(k) : v2'[y] = v2[y]
      BY <2>1, <2>3 DEF J!InFlight, J!RunBy
    <3>2. QED
      BY <2>3, <3>1, OtherJobs
  <2>4. QED
    BY <2>2, <2>3 DEF J!JobInv
<1>14. CASE J!HaltQueue
  BY <1>14 DEF J!HaltQueue, J!TypeOK, J!JobInv, J!Consistent, J!Intact, J!OneCall, J!MarkIsTrue,
     J!LockIsTrue, J!StoryIsTrue, J!Told, J!InFlight, J!RunBy
<1>15. ASSUME NEW w \in Workers, NEW j \in Jobs, J!Take(w, j)
      PROVE  (J!TypeOK /\ J!JobInv)'
  <2>1. PICK t, r : t = j /\ r = [v1[j] EXCEPT !.status = "active", !.lock = {w},
     !.disturbed = @ \/ J!InFlight(j) # {} \/ J!RunBy(j) # {}]
    OBVIOUS
  <2>2. t \in Jobs /\ v1[t] \in J!Job
    BY <2>1, <1>15, JobShapes DEF J!Take
  <2>3. v1[t].status = "waiting" /\ {w} \in SUBSET Workers
    BY <2>1, <2>2, <1>15 DEF J!Take
  <2>4. r \in J!Job
    BY <2>1, <2>2, <2>3, JobConstants DEF J!Job
  <2>5. /\ r.status = "active"
        /\ r.paused = v1[t].paused
        /\ r.lock = {w}
        /\ r.stalls = v1[t].stalls
        /\ r.disturbed = (v1[t].disturbed \/ J!InFlight(j) # {} \/ J!RunBy(j) # {})
    BY <2>1, <2>2 DEF J!Job
  <2>6. /\ r.result = v1[t].result
        /\ r.ok = v1[t].ok
        /\ r.bad = v1[t].bad
        /\ r.letters = v1[t].letters
        /\ r.lost = v1[t].lost
    BY <2>1, <2>2 DEF J!Job
  <2>7. ~r.disturbed => ~v1[t].disturbed /\ J!InFlight(t) = {} /\ J!RunBy(t) = {}
    BY <2>1, <2>2 DEF J!Job
  <2>8. J!Set(t, r)
    BY <2>1, <2>3, <1>15 DEF J!Take
  <2>9. v1' \in [Jobs -> J!Job] /\ \A k \in Jobs \ {t} : v1'[k] = v1[k]
    BY <2>2, <2>4, <2>8, SetDoes
  <2>10. /\ v1'[t].status = r.status /\ v1'[t].paused = r.paused /\ v1'[t].lock = r.lock
         /\ v1'[t].stalls = r.stalls /\ v1'[t].disturbed = r.disturbed
    BY <2>2, <2>4, <2>8, SetDoes
  <2>11. ~r.disturbed /\ r.stalls = 0 => v1'[t] = r
    BY <2>2, <2>4, <2>8, SetDoes
  <2>12. PICK x : x = [pc |-> "run", job |-> t]
    OBVIOUS
  <2>13. x \in J!WorkerState /\ x.pc = "run" /\ x.job = t
    BY <2>2, <2>12 DEF J!WorkerState
  <2>14. v2' = [v2 EXCEPT ![w] = x] /\ v2[w].pc = "idle"
    BY <2>1, <2>12, <1>15 DEF J!Take
  <2>15. v2' \in [Workers -> J!WorkerState]
    BY <2>2, <2>13, <2>14, WorkerTakes
  <2>16. /\ \A y \in Workers \ {w} : v2'[y] = v2[y]
         /\ v2[w].pc = "idle" \/ v2[w].job = t
         /\ v2'[w].pc = "idle" \/ v2'[w].job = t
    BY <2>2, <2>13, <2>14, WorkerTakes
  <2>17. v2'[w].pc = "run" /\ v2'[w].job = t /\ J!RunBy(t)' = J!RunBy(t) \cup {w}
    BY <2>2, <2>13, <2>14, WorkerTakes
  <2>18. UNCHANGED <<v3, v4>>
    BY <1>15 DEF J!Take
  <2>19. J!TypeOK'
    BY <2>9, <2>15, <2>18 DEF J!TypeOK
  <2>20. ASSUME NEW k \in Jobs \ {t}, J!Intact(k)' PROVE J!Consistent(k)'
    <3>1. v1'[k] = v1[k]
      BY <2>20, <2>9
    <3>2. J!InFlight(k)' = J!InFlight(k) /\ \A d \in J!InFlight(k) : v3'[d] = v3[d]
      BY <2>18 DEF J!InFlight
    <3>3. J!RunBy(k)' = J!RunBy(k) /\ \A y \in J!RunBy(k) : v2'[y] = v2[y]
      BY <1>15, <2>20, <2>16 DEF J!RunBy
    <3>4. QED
      BY <2>20, <3>1, <3>2, <3>3, OtherJobs
  <2>21. ASSUME J!Intact(t)' PROVE J!Consistent(t)'
    <3>1. J!Intact(t) /\ (v1'[t].stalls = 0 => v1'[t] = r)
      BY <2>21, <2>3, <2>5, <2>10, <2>11, <2>7 DEF J!Intact
    <3>2. J!Consistent(t)
      BY <2>2, <3>1 DEF J!JobInv
    <3>3. J!InFlight(t)' = {} /\ J!InFlight(t) = {}
      BY <2>21, <2>7, <2>10, <2>18 DEF J!Intact, J!InFlight
    <3>4. J!RunBy(t)' = {w} /\ J!RunBy(t) = {}
      BY <2>21, <2>7, <2>10, <2>17 DEF J!Intact
    <3>5. J!OneCall(t)'
      BY <3>2, <3>3, <2>3, <2>5, <2>10, <2>18 DEF J!Consistent, J!OneCall, J!MarkIsTrue,
         J!LockIsTrue
    <3>6. J!MarkIsTrue(t)'
      BY <3>2, <3>3, <2>3, <2>5, <2>10, <2>18 DEF J!Consistent, J!OneCall, J!MarkIsTrue,
         J!LockIsTrue
    <3>7. J!LockIsTrue(t)'
      BY <3>2, <3>4, <2>3, <2>5, <2>10, <2>18 DEF J!Consistent, J!OneCall, J!LockIsTrue
    <3>8. ASSUME v1'[t].stalls = 0 PROVE J!StoryIsTrue(t)'
      BY <3>1, <3>2, <3>4, <3>8, <2>3, <2>5, <2>6, <2>10, <2>17, <2>18,
         JobConstants DEF J!Consistent, J!OneCall, J!LockIsTrue, J!StoryIsTrue, J!Told
    <3>9. QED
      BY <3>5, <3>6, <3>7, <3>8 DEF J!Consistent
  <2>22. QED
    BY <2>2, <2>19, <2>20, <2>21 DEF J!JobInv
<1>16. ASSUME NEW w \in Workers, J!Answered(w)
      PROVE  (J!TypeOK /\ J!JobInv)'
  <2>1. PICK t : t = v2[w].job
    OBVIOUS
  <2>2. t \in Jobs /\ v1[t] \in J!Job
    BY <2>1, <1>16, JobShapes DEF J!Answered, J!Returning
  <2>3. w \in J!RunBy(t)
    BY <2>1, <1>16 DEF J!Answered, J!Returning, J!RunBy
  <2>4. v2[w].pc = "run"
    BY <2>1, <2>2, <1>16 DEF J!Answered
  <2>5. v1' = v1
    BY <1>16 DEF J!Answered, J!Returning
  <2>7. PICK x : x = [pc |-> "returning", job |-> t, result |-> "silent"]
    OBVIOUS
  <2>8. x \in J!WorkerState /\ x.pc = "returning" /\ x.job = t /\ x.result = "silent"
    BY <2>2, <2>7 DEF J!WorkerState
  <2>9. v2' = [v2 EXCEPT ![w] = x] /\ v2[w].pc # "idle" /\ v2[w].job = t
    BY <2>1, <2>7, <1>16 DEF J!TypeOK, J!Answered, J!Returning
  <2>10. v2' \in [Workers -> J!WorkerState]
    BY <2>2, <2>8, <2>9, WorkerGoes
  <2>11. /\ \A y \in Workers \ {w} : v2'[y] = v2[y]
         /\ v2[w].pc = "idle" \/ v2[w].job = t
         /\ v2'[w].pc = "idle" \/ v2'[w].job = t
    BY <2>2, <2>8, <2>9, WorkerGoes
  <2>12. /\ v2'[w].pc = "returning" /\ v2'[w].job = t /\ J!RunBy(t)' = J!RunBy(t)
         /\ v2'[w].result = "silent"
    BY <2>2, <2>8, <2>9, WorkerGoes
  <2>13. UNCHANGED <<v3, v4>>
    BY <1>16 DEF J!Answered, J!Returning
  <2>14. J!TypeOK'
    BY <2>5, <2>10, <2>13 DEF J!TypeOK
  <2>15. ASSUME NEW k \in Jobs \ {t}, J!Intact(k)' PROVE J!Consistent(k)'
    <3>1. v1'[k] = v1[k]
      BY <2>15, <2>5
    <3>2. J!InFlight(k)' = J!InFlight(k) /\ \A d \in J!InFlight(k) : v3'[d] = v3[d]
      BY <2>13 DEF J!InFlight
    <3>3. J!RunBy(k)' = J!RunBy(k) /\ \A y \in J!RunBy(k) : v2'[y] = v2[y]
      BY <1>16, <2>15, <2>11 DEF J!RunBy
    <3>4. QED
      BY <2>15, <3>1, <3>2, <3>3, OtherJobs
  <2>16. ASSUME J!Intact(t)' PROVE J!Consistent(t)'
    <3>1. J!Intact(t)
      BY <2>16, <2>4, <2>5 DEF J!Intact
    <3>2. J!Consistent(t)
      BY <2>2, <3>1 DEF J!JobInv
    <3>3. J!InFlight(t)' = J!InFlight(t)
      BY <2>13 DEF J!InFlight
    <3>4. J!RunBy(t)' = {w} /\ J!RunBy(t) = {w}
      BY <3>2, <2>3, <2>12 DEF J!Consistent, J!LockIsTrue
    <3>5. J!OneCall(t)'
      BY <3>2, <3>3, <2>3, <2>4, <2>5, <2>13 DEF J!Consistent, J!OneCall, J!MarkIsTrue, J!LockIsTrue
    <3>6. J!MarkIsTrue(t)'
      BY <3>2, <3>3, <2>3, <2>4, <2>5, <2>13 DEF J!Consistent, J!OneCall, J!MarkIsTrue, J!LockIsTrue
    <3>7. J!LockIsTrue(t)'
      BY <3>2, <3>4, <2>3, <2>4, <2>5, <2>13 DEF J!Consistent, J!OneCall, J!LockIsTrue
    <3>8. ASSUME v1'[t].stalls = 0 PROVE J!StoryIsTrue(t)'
      BY <3>1, <3>2, <3>4, <3>8, <2>3, <2>4, <2>5, <2>12, <2>13, JobConstants DEF J!Consistent,
         J!OneCall, J!LockIsTrue, J!StoryIsTrue, J!Told
    <3>9. QED
      BY <3>5, <3>6, <3>7, <3>8 DEF J!Consistent
  <2>17. QED
    BY <2>2, <2>14, <2>15, <2>16 DEF J!JobInv
<1>17. ASSUME NEW w \in Workers, J!Succeed(w)
      PROVE  (J!TypeOK /\ J!JobInv)'
  <2>1. PICK t, r : t = v2[w].job /\ r = [v1[v2[w].job] EXCEPT !.ok = J!Bump(@)]
    OBVIOUS
  <2>2. t \in Jobs /\ v1[t] \in J!Job
    BY <2>1, <1>17, JobShapes DEF J!Succeed, J!Returning
  <2>3. w \in J!RunBy(t)
    BY <2>1, <1>17 DEF J!Succeed, J!Returning, J!RunBy
  <2>4. v2[w].pc = "run" /\ J!Bump(v1[t].ok) \in J!Counted
    BY <2>1, <2>2, <1>17, JobConstants DEF J!Succeed, J!Job
  <2>5. r \in J!Job
    BY <2>1, <2>2, <2>4, JobConstants DEF J!Job
  <2>6. /\ r.status = v1[t].status
        /\ r.paused = v1[t].paused
        /\ r.lock = v1[t].lock
        /\ r.stalls = v1[t].stalls
        /\ r.disturbed = v1[t].disturbed
    BY <2>1, <2>2 DEF J!Job
  <2>7. /\ r.result = v1[t].result
        /\ r.ok = J!Bump(v1[t].ok)
        /\ r.bad = v1[t].bad
        /\ r.letters = v1[t].letters
        /\ r.lost = v1[t].lost
    BY <2>1, <2>2 DEF J!Job
  <2>8. J!Set(t, r)
    BY <2>1, <2>4, <1>17 DEF J!Succeed, J!Returning
  <2>9. v1' \in [Jobs -> J!Job] /\ \A k \in Jobs \ {t} : v1'[k] = v1[k]
    BY <2>2, <2>5, <2>8, SetDoes
  <2>10. /\ v1'[t].status = r.status /\ v1'[t].paused = r.paused /\ v1'[t].lock = r.lock
         /\ v1'[t].stalls = r.stalls /\ v1'[t].disturbed = r.disturbed
    BY <2>2, <2>5, <2>8, SetDoes
  <2>11. ~r.disturbed /\ r.stalls = 0 => v1'[t] = r
    BY <2>2, <2>5, <2>8, SetDoes
  <2>12. PICK x : x = [pc |-> "returning", job |-> t, result |-> "ok"]
    OBVIOUS
  <2>13. x \in J!WorkerState /\ x.pc = "returning" /\ x.job = t /\ x.result = "ok"
    BY <2>2, <2>12 DEF J!WorkerState
  <2>14. v2' = [v2 EXCEPT ![w] = x] /\ v2[w].pc # "idle" /\ v2[w].job = t
    BY <2>1, <2>12, <1>17 DEF J!TypeOK, J!Succeed, J!Returning
  <2>15. v2' \in [Workers -> J!WorkerState]
    BY <2>2, <2>13, <2>14, WorkerGoes
  <2>16. /\ \A y \in Workers \ {w} : v2'[y] = v2[y]
         /\ v2[w].pc = "idle" \/ v2[w].job = t
         /\ v2'[w].pc = "idle" \/ v2'[w].job = t
    BY <2>2, <2>13, <2>14, WorkerGoes
  <2>17. /\ v2'[w].pc = "returning" /\ v2'[w].job = t /\ J!RunBy(t)' = J!RunBy(t)
         /\ v2'[w].result = "ok"
    BY <2>2, <2>13, <2>14, WorkerGoes
  <2>18. UNCHANGED <<v3, v4>>
    BY <1>17 DEF J!Succeed, J!Returning
  <2>19. J!TypeOK'
    BY <2>9, <2>15, <2>18 DEF J!TypeOK
  <2>20. ASSUME NEW k \in Jobs \ {t}, J!Intact(k)' PROVE J!Consistent(k)'
    <3>1. v1'[k] = v1[k]
      BY <2>20, <2>9
    <3>2. J!InFlight(k)' = J!InFlight(k) /\ \A d \in J!InFlight(k) : v3'[d] = v3[d]
      BY <2>18 DEF J!InFlight
    <3>3. J!RunBy(k)' = J!RunBy(k) /\ \A y \in J!RunBy(k) : v2'[y] = v2[y]
      BY <1>17, <2>20, <2>16 DEF J!RunBy
    <3>4. QED
      BY <2>20, <3>1, <3>2, <3>3, OtherJobs
  <2>21. ASSUME J!Intact(t)' PROVE J!Consistent(t)'
    <3>1. J!Intact(t) /\ (v1'[t].stalls = 0 => v1'[t] = r)
      BY <2>21, <2>4, <2>6, <2>10, <2>11 DEF J!Intact
    <3>2. J!Consistent(t)
      BY <2>2, <3>1 DEF J!JobInv
    <3>3. J!InFlight(t)' = J!InFlight(t)
      BY <2>18 DEF J!InFlight
    <3>4. J!RunBy(t)' = {w} /\ J!RunBy(t) = {w}
      BY <3>2, <2>3, <2>17 DEF J!Consistent, J!LockIsTrue
    <3>5. J!OneCall(t)'
      BY <3>2, <3>3, <2>3, <2>4, <2>6, <2>10, <2>18 DEF J!Consistent, J!OneCall, J!MarkIsTrue,
         J!LockIsTrue
    <3>6. J!MarkIsTrue(t)'
      BY <3>2, <3>3, <2>3, <2>4, <2>6, <2>10, <2>18 DEF J!Consistent, J!OneCall, J!MarkIsTrue,
         J!LockIsTrue
    <3>7. J!LockIsTrue(t)'
      BY <3>2, <3>4, <2>3, <2>4, <2>6, <2>10, <2>18 DEF J!Consistent, J!OneCall, J!LockIsTrue
    <3>8. ASSUME v1'[t].stalls = 0 PROVE J!StoryIsTrue(t)'
      BY <3>1, <3>2, <3>4, <3>8, <2>3, <2>4, <2>6, <2>7, <2>10, <2>17, <2>18,
         JobConstants DEF J!Consistent, J!OneCall, J!LockIsTrue, J!StoryIsTrue, J!Told
    <3>9. QED
      BY <3>5, <3>6, <3>7, <3>8 DEF J!Consistent
  <2>22. QED
    BY <2>2, <2>19, <2>20, <2>21 DEF J!JobInv
<1>18. ASSUME NEW w \in Workers, J!ThrowOn(w)
      PROVE  (J!TypeOK /\ J!JobInv)'
  <2>1. v2[w].pc = "run"
    BY <1>18 DEF J!ThrowOn
  <2>2. CASE v1[v2[w].job].lock # {w} \/ v1[v2[w].job].status = "removed"
    <3>1. PICK t, r : t = v2[w].job /\ r = v1[v2[w].job]
      OBVIOUS
    <3>2. t \in Jobs /\ v1[t] \in J!Job
      BY <3>1, <1>18, <2>2, JobShapes DEF J!ThrowOn, J!Retries
    <3>3. w \in J!RunBy(t)
      BY <3>1, <1>18, <2>2 DEF J!ThrowOn, J!Retries, J!RunBy
    <3>4. v1[t].lock # {w} \/ v1[t].status = "removed"
      BY <3>1, <3>2, <1>18, <2>2
    <3>5. r \in J!Job
      BY <3>1, <3>2, <3>4, JobConstants DEF J!Job
    <3>6. /\ r.status = v1[t].status
          /\ r.paused = v1[t].paused
          /\ r.lock = v1[t].lock
          /\ r.stalls = v1[t].stalls
          /\ r.disturbed = v1[t].disturbed
      BY <3>1, <3>2 DEF J!Job
    <3>7. J!Set(t, r)
      BY <3>1, <3>4, <1>18, <2>2 DEF J!ThrowOn, J!Retries
    <3>8. v1' \in [Jobs -> J!Job] /\ \A k \in Jobs \ {t} : v1'[k] = v1[k]
      BY <3>2, <3>5, <3>7, SetDoes
    <3>9. /\ v1'[t].status = r.status /\ v1'[t].paused = r.paused /\ v1'[t].lock = r.lock
          /\ v1'[t].stalls = r.stalls /\ v1'[t].disturbed = r.disturbed
      BY <3>2, <3>5, <3>7, SetDoes
    <3>10. v2' = [v2 EXCEPT ![w] = J!Idle] /\ v2[w].job = t
      BY <3>1, <1>18, <2>2 DEF J!ThrowOn, J!Retries
    <3>11. v2' \in [Workers -> J!WorkerState]
      BY <3>2, <3>10, WorkerLeaves
    <3>12. /\ \A y \in Workers \ {w} : v2'[y] = v2[y]
           /\ v2[w].pc = "idle" \/ v2[w].job = t
           /\ v2'[w].pc = "idle" \/ v2'[w].job = t
      BY <3>2, <3>10, WorkerLeaves
    <3>13. J!RunBy(t)' = J!RunBy(t) \ {w}
      BY <3>2, <3>10, WorkerLeaves
    <3>14. UNCHANGED <<v3, v4>>
      BY <1>18, <2>2 DEF J!ThrowOn, J!Retries
    <3>15. J!TypeOK'
      BY <3>8, <3>11, <3>14 DEF J!TypeOK
    <3>16. ASSUME NEW k \in Jobs \ {t}, J!Intact(k)' PROVE J!Consistent(k)'
      <4>1. v1'[k] = v1[k]
        BY <3>16, <3>8
      <4>2. J!InFlight(k)' = J!InFlight(k) /\ \A d \in J!InFlight(k) : v3'[d] = v3[d]
        BY <3>14 DEF J!InFlight
      <4>3. J!RunBy(k)' = J!RunBy(k) /\ \A y \in J!RunBy(k) : v2'[y] = v2[y]
        BY <1>18, <3>16, <3>12 DEF J!RunBy
      <4>4. QED
        BY <3>16, <4>1, <4>2, <4>3, OtherJobs
    <3>17. ASSUME J!Intact(t)' PROVE J!Consistent(t)'
      <4>1. J!Intact(t)
        BY <3>17, <3>4, <3>6, <3>9 DEF J!Intact
      <4>2. J!Consistent(t)
        BY <3>2, <4>1 DEF J!JobInv
      <4>3. QED
        BY <3>3, <3>4, <4>1, <4>2 DEF J!Consistent, J!LockIsTrue, J!Intact
    <3>18. QED
      BY <3>2, <3>15, <3>16, <3>17 DEF J!JobInv
  <2>3. CASE v1[v2[w].job].lock = {w} /\ v1[v2[w].job].status # "removed"
    <3>1. PICK t, r : t = v2[w].job /\ r = [v1[v2[w].job] EXCEPT !.tries = v1[v2[w].job].tries + 1,
       !.lock = {}, !.status = "delayed"]
      OBVIOUS
    <3>2. t \in Jobs /\ v1[t] \in J!Job
      BY <3>1, <1>18, <2>1, <2>3, JobShapes DEF J!ThrowOn, J!Retries
    <3>3. w \in J!RunBy(t)
      BY <3>1, <1>18, <2>1, <2>3 DEF J!ThrowOn, J!Retries, J!RunBy
    <3>4. /\ v2[w].pc = "run"
          /\ v1[t].lock = {w}
          /\ v1[t].status # "removed"
          /\ v1[t].tries + 1 \in 0..MaxAttempts
          /\ v1[t].tries + 1 < MaxAttempts
          /\ {} \in SUBSET Workers
      <4>1. v2[w].pc = "run" /\ v1[t].tries < MaxAttempts - 1
        BY <3>1, <1>18 DEF J!ThrowOn, J!Retries
      <4>2. v1[t].lock = {w} /\ v1[t].status # "removed"
        BY <3>1, <2>3
      <4>3. v1[t].tries \in Nat /\ MaxAttempts \in Nat
        <5>1. MaxAttempts \in Nat
          BY ServicesAssumption
        <5>2. v1[t].tries \in 0..MaxAttempts
          BY <3>2 DEF J!Job
        <5>3. QED BY <5>1, <5>2
      <4>4. v1[t].tries + 1 \in 0..MaxAttempts /\ v1[t].tries + 1 < MaxAttempts
        BY <4>1, <4>3
      <4>5. QED BY <4>1, <4>2, <4>4
    <3>5. r \in J!Job
      BY <3>1, <3>2, <3>4, JobConstants DEF J!Job
    <3>6. /\ r.status = "delayed"
          /\ r.paused = v1[t].paused
          /\ r.lock = {}
          /\ r.stalls = v1[t].stalls
          /\ r.disturbed = v1[t].disturbed
      BY <3>1, <3>2 DEF J!Job
    <3>7. /\ r.result = v1[t].result
          /\ r.ok = v1[t].ok
          /\ r.bad = v1[t].bad
          /\ r.letters = v1[t].letters
          /\ r.lost = v1[t].lost
      BY <3>1, <3>2 DEF J!Job
    <3>8. J!Set(t, r)
      BY <3>1, <3>4, <1>18, <2>1, <2>3 DEF J!ThrowOn, J!Retries
    <3>9. v1' \in [Jobs -> J!Job] /\ \A k \in Jobs \ {t} : v1'[k] = v1[k]
      BY <3>2, <3>5, <3>8, SetDoes
    <3>10. /\ v1'[t].status = r.status /\ v1'[t].paused = r.paused /\ v1'[t].lock = r.lock
           /\ v1'[t].stalls = r.stalls /\ v1'[t].disturbed = r.disturbed
      BY <3>2, <3>5, <3>8, SetDoes
    <3>11. ~r.disturbed /\ r.stalls = 0 => v1'[t] = r
      BY <3>2, <3>5, <3>8, SetDoes
    <3>12. v2' = [v2 EXCEPT ![w] = J!Idle] /\ v2[w].job = t
      BY <3>1, <1>18, <2>1, <2>3 DEF J!ThrowOn, J!Retries
    <3>13. v2' \in [Workers -> J!WorkerState]
      BY <3>2, <3>12, WorkerLeaves
    <3>14. /\ \A y \in Workers \ {w} : v2'[y] = v2[y]
           /\ v2[w].pc = "idle" \/ v2[w].job = t
           /\ v2'[w].pc = "idle" \/ v2'[w].job = t
      BY <3>2, <3>12, WorkerLeaves
    <3>15. J!RunBy(t)' = J!RunBy(t) \ {w}
      BY <3>2, <3>12, WorkerLeaves
    <3>16. UNCHANGED <<v3, v4>>
      BY <1>18, <2>1, <2>3 DEF J!ThrowOn, J!Retries
    <3>17. J!TypeOK'
      BY <3>9, <3>13, <3>16 DEF J!TypeOK
    <3>18. ASSUME NEW k \in Jobs \ {t}, J!Intact(k)' PROVE J!Consistent(k)'
      <4>1. v1'[k] = v1[k]
        BY <3>18, <3>9
      <4>2. J!InFlight(k)' = J!InFlight(k) /\ \A d \in J!InFlight(k) : v3'[d] = v3[d]
        BY <3>16 DEF J!InFlight
      <4>3. J!RunBy(k)' = J!RunBy(k) /\ \A y \in J!RunBy(k) : v2'[y] = v2[y]
        BY <1>18, <3>18, <3>14 DEF J!RunBy
      <4>4. QED
        BY <3>18, <4>1, <4>2, <4>3, OtherJobs
    <3>19. ASSUME J!Intact(t)' PROVE J!Consistent(t)'
      <4>1. J!Intact(t) /\ (v1'[t].stalls = 0 => v1'[t] = r)
        BY <3>19, <3>4, <3>6, <3>10, <3>11 DEF J!Intact
      <4>2. J!Consistent(t)
        BY <3>2, <4>1 DEF J!JobInv
      <4>3. J!InFlight(t)' = J!InFlight(t)
        BY <3>16 DEF J!InFlight
      <4>4. J!RunBy(t)' = {}
        BY <4>2, <3>3, <3>15 DEF J!Consistent, J!LockIsTrue
      <4>5. J!OneCall(t)'
        BY <4>2, <4>3, <3>3, <3>4, <3>6, <3>10, <3>16 DEF J!Consistent, J!OneCall, J!MarkIsTrue,
           J!LockIsTrue
      <4>6. J!MarkIsTrue(t)'
        BY <4>2, <4>3, <3>3, <3>4, <3>6, <3>10, <3>16 DEF J!Consistent, J!OneCall, J!MarkIsTrue,
           J!LockIsTrue
      <4>7. J!LockIsTrue(t)'
        BY <4>2, <4>4, <3>3, <3>4, <3>6, <3>10, <3>16 DEF J!Consistent, J!OneCall, J!LockIsTrue
      <4>8. ASSUME v1'[t].stalls = 0 PROVE J!StoryIsTrue(t)'
        BY <4>1, <4>2, <4>4, <4>8, <3>3, <3>4, <3>6, <3>7, <3>10, <3>15, <3>16,
           JobConstants DEF J!Consistent, J!OneCall, J!LockIsTrue, J!StoryIsTrue, J!Told
      <4>9. QED
        BY <4>5, <4>6, <4>7, <4>8 DEF J!Consistent
    <3>20. QED
      BY <3>2, <3>17, <3>18, <3>19 DEF J!JobInv
  <2>4. QED
    BY <2>2, <2>3, <2>1
<1>19. ASSUME NEW w \in Workers, J!Bury(w)
      PROVE  (J!TypeOK /\ J!JobInv)'
  <2>1. J!Set(v2[w].job, [v1[v2[w].job] EXCEPT !.letters = J!Bump(@)]) \/ J!Set(v2[w].job,
     [v1[v2[w].job] EXCEPT !.lost = TRUE])
    BY <1>19 DEF J!Bury
  <2>2. CASE J!Set(v2[w].job, [v1[v2[w].job] EXCEPT !.letters = J!Bump(@)])
    <3>1. PICK t, r : t = v2[w].job /\ r = [v1[v2[w].job] EXCEPT !.letters = J!Bump(@)]
      OBVIOUS
    <3>2. t \in Jobs /\ v1[t] \in J!Job
      BY <3>1, <1>19, <2>2, JobShapes DEF J!Bury
    <3>3. w \in J!RunBy(t)
      BY <3>1, <1>19, <2>2 DEF J!Bury, J!RunBy
    <3>4. v2[w].pc = "run" /\ J!Bump(v1[t].letters) \in J!Counted
      BY <3>1, <3>2, <1>19, <2>2, JobConstants DEF J!Bury, J!Job
    <3>5. r \in J!Job
      BY <3>1, <3>2, <3>4, JobConstants DEF J!Job
    <3>6. /\ r.status = v1[t].status
          /\ r.paused = v1[t].paused
          /\ r.lock = v1[t].lock
          /\ r.stalls = v1[t].stalls
          /\ r.disturbed = v1[t].disturbed
      BY <3>1, <3>2 DEF J!Job
    <3>7. /\ r.result = v1[t].result
          /\ r.ok = v1[t].ok
          /\ r.bad = v1[t].bad
          /\ r.letters = J!Bump(v1[t].letters)
          /\ r.lost = v1[t].lost
      BY <3>1, <3>2 DEF J!Job
    <3>8. J!Set(t, r)
      BY <3>1, <3>4, <1>19, <2>2 DEF J!Bury
    <3>9. v1' \in [Jobs -> J!Job] /\ \A k \in Jobs \ {t} : v1'[k] = v1[k]
      BY <3>2, <3>5, <3>8, SetDoes
    <3>10. /\ v1'[t].status = r.status /\ v1'[t].paused = r.paused /\ v1'[t].lock = r.lock
           /\ v1'[t].stalls = r.stalls /\ v1'[t].disturbed = r.disturbed
      BY <3>2, <3>5, <3>8, SetDoes
    <3>11. ~r.disturbed /\ r.stalls = 0 => v1'[t] = r
      BY <3>2, <3>5, <3>8, SetDoes
    <3>12. PICK x : x = [pc |-> "buried", job |-> t]
      OBVIOUS
    <3>13. x \in J!WorkerState /\ x.pc = "buried" /\ x.job = t
      BY <3>2, <3>12 DEF J!WorkerState
    <3>14. v2[w] = [pc |-> "run", job |-> t]
      BY <3>1, <3>4, <1>19, <2>2, JobShapes
    <3>15. [v2[w] EXCEPT !.pc = "buried"] = x
      BY <3>14, <3>12
    <3>16. v2' = [v2 EXCEPT ![w] = x] /\ v2[w].pc # "idle" /\ v2[w].job = t
      BY <3>1, <3>12, <3>15, <1>19, <2>2 DEF J!TypeOK, J!Bury
    <3>17. v2' \in [Workers -> J!WorkerState]
      BY <3>2, <3>13, <3>16, WorkerGoes
    <3>18. /\ \A y \in Workers \ {w} : v2'[y] = v2[y]
           /\ v2[w].pc = "idle" \/ v2[w].job = t
           /\ v2'[w].pc = "idle" \/ v2'[w].job = t
      BY <3>2, <3>13, <3>16, WorkerGoes
    <3>19. v2'[w].pc = "buried" /\ v2'[w].job = t /\ J!RunBy(t)' = J!RunBy(t)
      BY <3>2, <3>13, <3>16, WorkerGoes
    <3>20. UNCHANGED <<v3, v4>>
      BY <1>19, <2>2 DEF J!Bury
    <3>21. J!TypeOK'
      BY <3>9, <3>17, <3>20 DEF J!TypeOK
    <3>22. ASSUME NEW k \in Jobs \ {t}, J!Intact(k)' PROVE J!Consistent(k)'
      <4>1. v1'[k] = v1[k]
        BY <3>22, <3>9
      <4>2. J!InFlight(k)' = J!InFlight(k) /\ \A d \in J!InFlight(k) : v3'[d] = v3[d]
        BY <3>20 DEF J!InFlight
      <4>3. J!RunBy(k)' = J!RunBy(k) /\ \A y \in J!RunBy(k) : v2'[y] = v2[y]
        BY <1>19, <3>22, <3>18 DEF J!RunBy
      <4>4. QED
        BY <3>22, <4>1, <4>2, <4>3, OtherJobs
    <3>23. ASSUME J!Intact(t)' PROVE J!Consistent(t)'
      <4>1. J!Intact(t) /\ (v1'[t].stalls = 0 => v1'[t] = r)
        BY <3>23, <3>4, <3>6, <3>10, <3>11 DEF J!Intact
      <4>2. J!Consistent(t)
        BY <3>2, <4>1 DEF J!JobInv
      <4>3. J!InFlight(t)' = J!InFlight(t)
        BY <3>20 DEF J!InFlight
      <4>4. J!RunBy(t)' = {w} /\ J!RunBy(t) = {w}
        BY <4>2, <3>3, <3>19 DEF J!Consistent, J!LockIsTrue
      <4>5. J!OneCall(t)'
        BY <4>2, <4>3, <3>3, <3>4, <3>6, <3>10, <3>20 DEF J!Consistent, J!OneCall, J!MarkIsTrue,
           J!LockIsTrue
      <4>6. J!MarkIsTrue(t)'
        BY <4>2, <4>3, <3>3, <3>4, <3>6, <3>10, <3>20 DEF J!Consistent, J!OneCall, J!MarkIsTrue,
           J!LockIsTrue
      <4>7. J!LockIsTrue(t)'
        BY <4>2, <4>4, <3>3, <3>4, <3>6, <3>10, <3>20 DEF J!Consistent, J!OneCall, J!LockIsTrue
      <4>8. ASSUME v1'[t].stalls = 0 PROVE J!StoryIsTrue(t)'
        BY <4>1, <4>2, <4>4, <4>8, <3>3, <3>4, <3>6, <3>7, <3>10, <3>19, <3>20,
           JobConstants DEF J!Consistent, J!OneCall, J!LockIsTrue, J!StoryIsTrue, J!Told
      <4>9. QED
        BY <4>5, <4>6, <4>7, <4>8 DEF J!Consistent
    <3>24. QED
      BY <3>2, <3>21, <3>22, <3>23 DEF J!JobInv
  <2>3. CASE J!Set(v2[w].job, [v1[v2[w].job] EXCEPT !.lost = TRUE])
    <3>1. PICK t, r : t = v2[w].job /\ r = [v1[v2[w].job] EXCEPT !.lost = TRUE]
      OBVIOUS
    <3>2. t \in Jobs /\ v1[t] \in J!Job
      BY <3>1, <1>19, <2>3, JobShapes DEF J!Bury
    <3>3. w \in J!RunBy(t)
      BY <3>1, <1>19, <2>3 DEF J!Bury, J!RunBy
    <3>4. v2[w].pc = "run"
      BY <3>1, <3>2, <1>19, <2>3 DEF J!Bury
    <3>5. r \in J!Job
      BY <3>1, <3>2, <3>4, JobConstants DEF J!Job
    <3>6. /\ r.status = v1[t].status
          /\ r.paused = v1[t].paused
          /\ r.lock = v1[t].lock
          /\ r.stalls = v1[t].stalls
          /\ r.disturbed = v1[t].disturbed
      BY <3>1, <3>2 DEF J!Job
    <3>7. /\ r.result = v1[t].result
          /\ r.ok = v1[t].ok
          /\ r.bad = v1[t].bad
          /\ r.letters = v1[t].letters
          /\ r.lost = TRUE
      BY <3>1, <3>2 DEF J!Job
    <3>8. J!Set(t, r)
      BY <3>1, <3>4, <1>19, <2>3 DEF J!Bury
    <3>9. v1' \in [Jobs -> J!Job] /\ \A k \in Jobs \ {t} : v1'[k] = v1[k]
      BY <3>2, <3>5, <3>8, SetDoes
    <3>10. /\ v1'[t].status = r.status /\ v1'[t].paused = r.paused /\ v1'[t].lock = r.lock
           /\ v1'[t].stalls = r.stalls /\ v1'[t].disturbed = r.disturbed
      BY <3>2, <3>5, <3>8, SetDoes
    <3>11. ~r.disturbed /\ r.stalls = 0 => v1'[t] = r
      BY <3>2, <3>5, <3>8, SetDoes
    <3>12. PICK x : x = [pc |-> "buried", job |-> t]
      OBVIOUS
    <3>13. x \in J!WorkerState /\ x.pc = "buried" /\ x.job = t
      BY <3>2, <3>12 DEF J!WorkerState
    <3>14. v2[w] = [pc |-> "run", job |-> t]
      BY <3>1, <3>4, <1>19, <2>3, JobShapes
    <3>15. [v2[w] EXCEPT !.pc = "buried"] = x
      BY <3>14, <3>12
    <3>16. v2' = [v2 EXCEPT ![w] = x] /\ v2[w].pc # "idle" /\ v2[w].job = t
      BY <3>1, <3>12, <3>15, <1>19, <2>3 DEF J!TypeOK, J!Bury
    <3>17. v2' \in [Workers -> J!WorkerState]
      BY <3>2, <3>13, <3>16, WorkerGoes
    <3>18. /\ \A y \in Workers \ {w} : v2'[y] = v2[y]
           /\ v2[w].pc = "idle" \/ v2[w].job = t
           /\ v2'[w].pc = "idle" \/ v2'[w].job = t
      BY <3>2, <3>13, <3>16, WorkerGoes
    <3>19. v2'[w].pc = "buried" /\ v2'[w].job = t /\ J!RunBy(t)' = J!RunBy(t)
      BY <3>2, <3>13, <3>16, WorkerGoes
    <3>20. UNCHANGED <<v3, v4>>
      BY <1>19, <2>3 DEF J!Bury
    <3>21. J!TypeOK'
      BY <3>9, <3>17, <3>20 DEF J!TypeOK
    <3>22. ASSUME NEW k \in Jobs \ {t}, J!Intact(k)' PROVE J!Consistent(k)'
      <4>1. v1'[k] = v1[k]
        BY <3>22, <3>9
      <4>2. J!InFlight(k)' = J!InFlight(k) /\ \A d \in J!InFlight(k) : v3'[d] = v3[d]
        BY <3>20 DEF J!InFlight
      <4>3. J!RunBy(k)' = J!RunBy(k) /\ \A y \in J!RunBy(k) : v2'[y] = v2[y]
        BY <1>19, <3>22, <3>18 DEF J!RunBy
      <4>4. QED
        BY <3>22, <4>1, <4>2, <4>3, OtherJobs
    <3>23. ASSUME J!Intact(t)' PROVE J!Consistent(t)'
      <4>1. J!Intact(t) /\ (v1'[t].stalls = 0 => v1'[t] = r)
        BY <3>23, <3>4, <3>6, <3>10, <3>11 DEF J!Intact
      <4>2. J!Consistent(t)
        BY <3>2, <4>1 DEF J!JobInv
      <4>3. J!InFlight(t)' = J!InFlight(t)
        BY <3>20 DEF J!InFlight
      <4>4. J!RunBy(t)' = {w} /\ J!RunBy(t) = {w}
        BY <4>2, <3>3, <3>19 DEF J!Consistent, J!LockIsTrue
      <4>5. J!OneCall(t)'
        BY <4>2, <4>3, <3>3, <3>4, <3>6, <3>10, <3>20 DEF J!Consistent, J!OneCall, J!MarkIsTrue,
           J!LockIsTrue
      <4>6. J!MarkIsTrue(t)'
        BY <4>2, <4>3, <3>3, <3>4, <3>6, <3>10, <3>20 DEF J!Consistent, J!OneCall, J!MarkIsTrue,
           J!LockIsTrue
      <4>7. J!LockIsTrue(t)'
        BY <4>2, <4>4, <3>3, <3>4, <3>6, <3>10, <3>20 DEF J!Consistent, J!OneCall, J!LockIsTrue
      <4>8. ASSUME v1'[t].stalls = 0 PROVE J!StoryIsTrue(t)'
        BY <4>1, <4>2, <4>4, <4>8, <3>3, <3>4, <3>6, <3>7, <3>10, <3>19, <3>20,
           JobConstants DEF J!Consistent, J!OneCall, J!LockIsTrue, J!StoryIsTrue, J!Told
      <4>9. QED
        BY <4>5, <4>6, <4>7, <4>8 DEF J!Consistent
    <3>24. QED
      BY <3>2, <3>21, <3>22, <3>23 DEF J!JobInv
  <2>4. QED
    BY <2>2, <2>3, <2>1
<1>20. ASSUME NEW w \in Workers, J!TellFailure(w)
      PROVE  (J!TypeOK /\ J!JobInv)'
  <2>1. PICK t, r : t = v2[w].job /\ r = [v1[v2[w].job] EXCEPT !.bad = J!Bump(@)]
    OBVIOUS
  <2>2. t \in Jobs /\ v1[t] \in J!Job
    BY <2>1, <1>20, JobShapes DEF J!TellFailure, J!Returning
  <2>3. w \in J!RunBy(t)
    BY <2>1, <1>20 DEF J!TellFailure, J!Returning, J!RunBy
  <2>4. v2[w].pc = "buried" /\ J!Bump(v1[t].bad) \in J!Counted
    BY <2>1, <2>2, <1>20, JobConstants DEF J!TellFailure, J!Job
  <2>5. r \in J!Job
    BY <2>1, <2>2, <2>4, JobConstants DEF J!Job
  <2>6. /\ r.status = v1[t].status
        /\ r.paused = v1[t].paused
        /\ r.lock = v1[t].lock
        /\ r.stalls = v1[t].stalls
        /\ r.disturbed = v1[t].disturbed
    BY <2>1, <2>2 DEF J!Job
  <2>7. /\ r.result = v1[t].result
        /\ r.ok = v1[t].ok
        /\ r.bad = J!Bump(v1[t].bad)
        /\ r.letters = v1[t].letters
        /\ r.lost = v1[t].lost
    BY <2>1, <2>2 DEF J!Job
  <2>8. J!Set(t, r)
    BY <2>1, <2>4, <1>20 DEF J!TellFailure, J!Returning
  <2>9. v1' \in [Jobs -> J!Job] /\ \A k \in Jobs \ {t} : v1'[k] = v1[k]
    BY <2>2, <2>5, <2>8, SetDoes
  <2>10. /\ v1'[t].status = r.status /\ v1'[t].paused = r.paused /\ v1'[t].lock = r.lock
         /\ v1'[t].stalls = r.stalls /\ v1'[t].disturbed = r.disturbed
    BY <2>2, <2>5, <2>8, SetDoes
  <2>11. ~r.disturbed /\ r.stalls = 0 => v1'[t] = r
    BY <2>2, <2>5, <2>8, SetDoes
  <2>12. PICK x : x = [pc |-> "returning", job |-> t, result |-> "bad"]
    OBVIOUS
  <2>13. x \in J!WorkerState /\ x.pc = "returning" /\ x.job = t /\ x.result = "bad"
    BY <2>2, <2>12 DEF J!WorkerState
  <2>14. v2' = [v2 EXCEPT ![w] = x] /\ v2[w].pc # "idle" /\ v2[w].job = t
    BY <2>1, <2>12, <1>20 DEF J!TypeOK, J!TellFailure, J!Returning
  <2>15. v2' \in [Workers -> J!WorkerState]
    BY <2>2, <2>13, <2>14, WorkerGoes
  <2>16. /\ \A y \in Workers \ {w} : v2'[y] = v2[y]
         /\ v2[w].pc = "idle" \/ v2[w].job = t
         /\ v2'[w].pc = "idle" \/ v2'[w].job = t
    BY <2>2, <2>13, <2>14, WorkerGoes
  <2>17. /\ v2'[w].pc = "returning" /\ v2'[w].job = t /\ J!RunBy(t)' = J!RunBy(t)
         /\ v2'[w].result = "bad"
    BY <2>2, <2>13, <2>14, WorkerGoes
  <2>18. UNCHANGED <<v3, v4>>
    BY <1>20 DEF J!TellFailure, J!Returning
  <2>19. J!TypeOK'
    BY <2>9, <2>15, <2>18 DEF J!TypeOK
  <2>20. ASSUME NEW k \in Jobs \ {t}, J!Intact(k)' PROVE J!Consistent(k)'
    <3>1. v1'[k] = v1[k]
      BY <2>20, <2>9
    <3>2. J!InFlight(k)' = J!InFlight(k) /\ \A d \in J!InFlight(k) : v3'[d] = v3[d]
      BY <2>18 DEF J!InFlight
    <3>3. J!RunBy(k)' = J!RunBy(k) /\ \A y \in J!RunBy(k) : v2'[y] = v2[y]
      BY <1>20, <2>20, <2>16 DEF J!RunBy
    <3>4. QED
      BY <2>20, <3>1, <3>2, <3>3, OtherJobs
  <2>21. ASSUME J!Intact(t)' PROVE J!Consistent(t)'
    <3>1. J!Intact(t) /\ (v1'[t].stalls = 0 => v1'[t] = r)
      BY <2>21, <2>4, <2>6, <2>10, <2>11 DEF J!Intact
    <3>2. J!Consistent(t)
      BY <2>2, <3>1 DEF J!JobInv
    <3>3. J!InFlight(t)' = J!InFlight(t)
      BY <2>18 DEF J!InFlight
    <3>4. J!RunBy(t)' = {w} /\ J!RunBy(t) = {w}
      BY <3>2, <2>3, <2>17 DEF J!Consistent, J!LockIsTrue
    <3>5. J!OneCall(t)'
      BY <3>2, <3>3, <2>3, <2>4, <2>6, <2>10, <2>18 DEF J!Consistent, J!OneCall, J!MarkIsTrue,
         J!LockIsTrue
    <3>6. J!MarkIsTrue(t)'
      BY <3>2, <3>3, <2>3, <2>4, <2>6, <2>10, <2>18 DEF J!Consistent, J!OneCall, J!MarkIsTrue,
         J!LockIsTrue
    <3>7. J!LockIsTrue(t)'
      BY <3>2, <3>4, <2>3, <2>4, <2>6, <2>10, <2>18 DEF J!Consistent, J!OneCall, J!LockIsTrue
    <3>8. ASSUME v1'[t].stalls = 0 PROVE J!StoryIsTrue(t)'
      BY <3>1, <3>2, <3>4, <3>8, <2>3, <2>4, <2>6, <2>7, <2>10, <2>17, <2>18,
         JobConstants DEF J!Consistent, J!OneCall, J!LockIsTrue, J!StoryIsTrue, J!Told
    <3>9. QED
      BY <3>5, <3>6, <3>7, <3>8 DEF J!Consistent
  <2>22. QED
    BY <2>2, <2>19, <2>20, <2>21 DEF J!JobInv
<1>21. ASSUME NEW w \in Workers, J!Return(w)
      PROVE  (J!TypeOK /\ J!JobInv)'
  <2>1. v2[w].pc = "returning"
    BY <1>21 DEF J!Return
  <2>2. CASE v1[v2[w].job].lock # {w} \/ v1[v2[w].job].status = "removed"
    <3>1. PICK t, r : t = v2[w].job /\ r = v1[v2[w].job]
      OBVIOUS
    <3>2. t \in Jobs /\ v1[t] \in J!Job
      BY <3>1, <1>21, <2>2, JobShapes DEF J!Return
    <3>3. w \in J!RunBy(t)
      BY <3>1, <1>21, <2>2 DEF J!Return, J!RunBy
    <3>4. v1[t].lock # {w} \/ v1[t].status = "removed"
      BY <3>1, <3>2, <1>21, <2>2
    <3>5. r \in J!Job
      BY <3>1, <3>2, <3>4, JobConstants DEF J!Job
    <3>6. /\ r.status = v1[t].status
          /\ r.paused = v1[t].paused
          /\ r.lock = v1[t].lock
          /\ r.stalls = v1[t].stalls
          /\ r.disturbed = v1[t].disturbed
      BY <3>1, <3>2 DEF J!Job
    <3>7. J!Set(t, r)
      BY <3>1, <3>4, <1>21, <2>2 DEF J!Return
    <3>8. v1' \in [Jobs -> J!Job] /\ \A k \in Jobs \ {t} : v1'[k] = v1[k]
      BY <3>2, <3>5, <3>7, SetDoes
    <3>9. /\ v1'[t].status = r.status /\ v1'[t].paused = r.paused /\ v1'[t].lock = r.lock
          /\ v1'[t].stalls = r.stalls /\ v1'[t].disturbed = r.disturbed
      BY <3>2, <3>5, <3>7, SetDoes
    <3>10. v2' = [v2 EXCEPT ![w] = J!Idle] /\ v2[w].job = t
      BY <3>1, <1>21, <2>2 DEF J!Return
    <3>11. v2' \in [Workers -> J!WorkerState]
      BY <3>2, <3>10, WorkerLeaves
    <3>12. /\ \A y \in Workers \ {w} : v2'[y] = v2[y]
           /\ v2[w].pc = "idle" \/ v2[w].job = t
           /\ v2'[w].pc = "idle" \/ v2'[w].job = t
      BY <3>2, <3>10, WorkerLeaves
    <3>13. J!RunBy(t)' = J!RunBy(t) \ {w}
      BY <3>2, <3>10, WorkerLeaves
    <3>14. UNCHANGED <<v3, v4>>
      BY <1>21, <2>2 DEF J!Return
    <3>15. J!TypeOK'
      BY <3>8, <3>11, <3>14 DEF J!TypeOK
    <3>16. ASSUME NEW k \in Jobs \ {t}, J!Intact(k)' PROVE J!Consistent(k)'
      <4>1. v1'[k] = v1[k]
        BY <3>16, <3>8
      <4>2. J!InFlight(k)' = J!InFlight(k) /\ \A d \in J!InFlight(k) : v3'[d] = v3[d]
        BY <3>14 DEF J!InFlight
      <4>3. J!RunBy(k)' = J!RunBy(k) /\ \A y \in J!RunBy(k) : v2'[y] = v2[y]
        BY <1>21, <3>16, <3>12 DEF J!RunBy
      <4>4. QED
        BY <3>16, <4>1, <4>2, <4>3, OtherJobs
    <3>17. ASSUME J!Intact(t)' PROVE J!Consistent(t)'
      <4>1. J!Intact(t)
        BY <3>17, <3>4, <3>6, <3>9 DEF J!Intact
      <4>2. J!Consistent(t)
        BY <3>2, <4>1 DEF J!JobInv
      <4>3. QED
        BY <3>3, <3>4, <4>1, <4>2 DEF J!Consistent, J!LockIsTrue, J!Intact
    <3>18. QED
      BY <3>2, <3>15, <3>16, <3>17 DEF J!JobInv
  <2>3. CASE v1[v2[w].job].lock = {w} /\ v1[v2[w].job].status # "removed"
    <3>1. PICK t, r : t = v2[w].job /\ r = [v1[v2[w].job] EXCEPT !.status = "completed",
       !.lock = {}, !.result = v2[w].result]
      OBVIOUS
    <3>2. t \in Jobs /\ v1[t] \in J!Job
      BY <3>1, <1>21, <2>1, <2>3, JobShapes DEF J!Return
    <3>3. w \in J!RunBy(t)
      BY <3>1, <1>21, <2>1, <2>3 DEF J!Return, J!RunBy
    <3>4. /\ v2[w].pc = "returning"
          /\ v1[t].lock = {w}
          /\ v1[t].status # "removed"
          /\ v2[w].result \in {"ok", "bad", "silent"}
          /\ {} \in SUBSET Workers
      BY <3>1, <3>2, <1>21, <2>1, <2>3, JobShapes DEF J!Return
    <3>5. r \in J!Job
      BY <3>1, <3>2, <3>4, JobConstants DEF J!Job
    <3>6. /\ r.status = "completed"
          /\ r.paused = v1[t].paused
          /\ r.lock = {}
          /\ r.stalls = v1[t].stalls
          /\ r.disturbed = v1[t].disturbed
      BY <3>1, <3>2 DEF J!Job
    <3>7. /\ r.result = v2[w].result
          /\ r.ok = v1[t].ok
          /\ r.bad = v1[t].bad
          /\ r.letters = v1[t].letters
          /\ r.lost = v1[t].lost
      BY <3>1, <3>2 DEF J!Job
    <3>8. J!Set(t, r)
      BY <3>1, <3>4, <1>21, <2>1, <2>3 DEF J!Return
    <3>9. v1' \in [Jobs -> J!Job] /\ \A k \in Jobs \ {t} : v1'[k] = v1[k]
      BY <3>2, <3>5, <3>8, SetDoes
    <3>10. /\ v1'[t].status = r.status /\ v1'[t].paused = r.paused /\ v1'[t].lock = r.lock
           /\ v1'[t].stalls = r.stalls /\ v1'[t].disturbed = r.disturbed
      BY <3>2, <3>5, <3>8, SetDoes
    <3>11. ~r.disturbed /\ r.stalls = 0 => v1'[t] = r
      BY <3>2, <3>5, <3>8, SetDoes
    <3>12. v2' = [v2 EXCEPT ![w] = J!Idle] /\ v2[w].job = t
      BY <3>1, <1>21, <2>1, <2>3 DEF J!Return
    <3>13. v2' \in [Workers -> J!WorkerState]
      BY <3>2, <3>12, WorkerLeaves
    <3>14. /\ \A y \in Workers \ {w} : v2'[y] = v2[y]
           /\ v2[w].pc = "idle" \/ v2[w].job = t
           /\ v2'[w].pc = "idle" \/ v2'[w].job = t
      BY <3>2, <3>12, WorkerLeaves
    <3>15. J!RunBy(t)' = J!RunBy(t) \ {w}
      BY <3>2, <3>12, WorkerLeaves
    <3>16. UNCHANGED <<v3, v4>>
      BY <1>21, <2>1, <2>3 DEF J!Return
    <3>17. J!TypeOK'
      BY <3>9, <3>13, <3>16 DEF J!TypeOK
    <3>18. ASSUME NEW k \in Jobs \ {t}, J!Intact(k)' PROVE J!Consistent(k)'
      <4>1. v1'[k] = v1[k]
        BY <3>18, <3>9
      <4>2. J!InFlight(k)' = J!InFlight(k) /\ \A d \in J!InFlight(k) : v3'[d] = v3[d]
        BY <3>16 DEF J!InFlight
      <4>3. J!RunBy(k)' = J!RunBy(k) /\ \A y \in J!RunBy(k) : v2'[y] = v2[y]
        BY <1>21, <3>18, <3>14 DEF J!RunBy
      <4>4. QED
        BY <3>18, <4>1, <4>2, <4>3, OtherJobs
    <3>19. ASSUME J!Intact(t)' PROVE J!Consistent(t)'
      <4>1. J!Intact(t) /\ (v1'[t].stalls = 0 => v1'[t] = r)
        BY <3>19, <3>4, <3>6, <3>10, <3>11 DEF J!Intact
      <4>2. J!Consistent(t)
        BY <3>2, <4>1 DEF J!JobInv
      <4>3. J!InFlight(t)' = J!InFlight(t)
        BY <3>16 DEF J!InFlight
      <4>4. J!RunBy(t)' = {}
        BY <4>2, <3>3, <3>15 DEF J!Consistent, J!LockIsTrue
      <4>5. J!OneCall(t)'
        BY <4>2, <4>3, <3>3, <3>4, <3>6, <3>10, <3>16 DEF J!Consistent, J!OneCall, J!MarkIsTrue,
           J!LockIsTrue
      <4>6. J!MarkIsTrue(t)'
        BY <4>2, <4>3, <3>3, <3>4, <3>6, <3>10, <3>16 DEF J!Consistent, J!OneCall, J!MarkIsTrue,
           J!LockIsTrue
      <4>7. J!LockIsTrue(t)'
        BY <4>2, <4>4, <3>3, <3>4, <3>6, <3>10, <3>16 DEF J!Consistent, J!OneCall, J!LockIsTrue
      <4>8. ASSUME v1'[t].stalls = 0 PROVE J!StoryIsTrue(t)'
        BY <4>1, <4>2, <4>4, <4>8, <3>3, <3>4, <3>6, <3>7, <3>10, <3>15, <3>16,
           JobConstants DEF J!Consistent, J!OneCall, J!LockIsTrue, J!StoryIsTrue, J!Told
      <4>9. QED
        BY <4>5, <4>6, <4>7, <4>8 DEF J!Consistent
    <3>20. QED
      BY <3>2, <3>17, <3>18, <3>19 DEF J!JobInv
  <2>4. QED
    BY <2>2, <2>3, <2>1
<1>22. ASSUME NEW j \in Jobs, J!BackoffEnds(j)
      PROVE  (J!TypeOK /\ J!JobInv)'
  <2>1. PICK t, r : t = j /\ r = [v1[j] EXCEPT !.status = "waiting"]
    OBVIOUS
  <2>2. t \in Jobs /\ v1[t] \in J!Job
    BY <2>1, <1>22, JobShapes DEF J!BackoffEnds
  <2>3. v1[t].status = "delayed"
    BY <2>1, <2>2, <1>22 DEF J!BackoffEnds
  <2>4. r \in J!Job
    BY <2>1, <2>2, <2>3, JobConstants DEF J!Job
  <2>5. /\ r.status = "waiting"
        /\ r.paused = v1[t].paused
        /\ r.lock = v1[t].lock
        /\ r.stalls = v1[t].stalls
        /\ r.disturbed = v1[t].disturbed
    BY <2>1, <2>2 DEF J!Job
  <2>6. /\ r.result = v1[t].result
        /\ r.ok = v1[t].ok
        /\ r.bad = v1[t].bad
        /\ r.letters = v1[t].letters
        /\ r.lost = v1[t].lost
    BY <2>1, <2>2 DEF J!Job
  <2>7. J!Set(t, r)
    BY <2>1, <2>3, <1>22 DEF J!BackoffEnds
  <2>8. v1' \in [Jobs -> J!Job] /\ \A k \in Jobs \ {t} : v1'[k] = v1[k]
    BY <2>2, <2>4, <2>7, SetDoes
  <2>9. /\ v1'[t].status = r.status /\ v1'[t].paused = r.paused /\ v1'[t].lock = r.lock
        /\ v1'[t].stalls = r.stalls /\ v1'[t].disturbed = r.disturbed
    BY <2>2, <2>4, <2>7, SetDoes
  <2>10. ~r.disturbed /\ r.stalls = 0 => v1'[t] = r
    BY <2>2, <2>4, <2>7, SetDoes
  <2>11. UNCHANGED <<v3, v2, v4>>
    BY <1>22 DEF J!BackoffEnds
  <2>12. J!TypeOK'
    BY <2>8, <2>11 DEF J!TypeOK
  <2>13. ASSUME NEW k \in Jobs \ {t}, J!Intact(k)' PROVE J!Consistent(k)'
    <3>1. v1'[k] = v1[k]
      BY <2>13, <2>8
    <3>2. J!InFlight(k)' = J!InFlight(k) /\ \A d \in J!InFlight(k) : v3'[d] = v3[d]
      BY <2>11 DEF J!InFlight
    <3>3. J!RunBy(k)' = J!RunBy(k) /\ \A y \in J!RunBy(k) : v2'[y] = v2[y]
      BY <2>11 DEF J!RunBy
    <3>4. QED
      BY <2>13, <3>1, <3>2, <3>3, OtherJobs
  <2>14. ASSUME J!Intact(t)' PROVE J!Consistent(t)'
    <3>1. J!Intact(t) /\ (v1'[t].stalls = 0 => v1'[t] = r)
      BY <2>14, <2>3, <2>5, <2>9, <2>10 DEF J!Intact
    <3>2. J!Consistent(t)
      BY <2>2, <3>1 DEF J!JobInv
    <3>3. J!InFlight(t)' = J!InFlight(t)
      BY <2>11 DEF J!InFlight
    <3>4. J!RunBy(t)' = J!RunBy(t)
      BY <2>11 DEF J!RunBy
    <3>5. J!OneCall(t)'
      BY <3>2, <3>3, <2>3, <2>5, <2>9, <2>11 DEF J!Consistent, J!OneCall, J!MarkIsTrue, J!LockIsTrue
    <3>6. J!MarkIsTrue(t)'
      BY <3>2, <3>3, <2>3, <2>5, <2>9, <2>11 DEF J!Consistent, J!OneCall, J!MarkIsTrue, J!LockIsTrue
    <3>7. J!LockIsTrue(t)'
      BY <3>2, <3>4, <2>3, <2>5, <2>9, <2>11 DEF J!Consistent, J!OneCall, J!LockIsTrue
    <3>8. ASSUME v1'[t].stalls = 0 PROVE J!StoryIsTrue(t)'
      BY <3>1, <3>2, <3>4, <3>8, <2>3, <2>5, <2>6, <2>9, <2>11, JobConstants DEF J!Consistent,
         J!OneCall, J!LockIsTrue, J!StoryIsTrue, J!Told
    <3>9. QED
      BY <3>5, <3>6, <3>7, <3>8 DEF J!Consistent
  <2>15. QED
    BY <2>2, <2>12, <2>13, <2>14 DEF J!JobInv
<1>23. ASSUME NEW w \in Workers, J!Stall(w)
      PROVE  (J!TypeOK /\ J!JobInv)'
  <2>1. v2[w].pc # "idle"
    BY <1>23 DEF J!Stall
  <2>2. CASE v1[v2[w].job].lock # {w}
    <3>1. PICK t, r : t = v2[w].job /\ r = v1[v2[w].job]
      OBVIOUS
    <3>2. t \in Jobs /\ v1[t] \in J!Job
      BY <3>1, <1>23, <2>2, JobShapes DEF J!Stall
    <3>3. w \in J!RunBy(t)
      BY <3>1, <1>23, <2>2 DEF J!Stall, J!RunBy
    <3>4. v1[t].lock # {w}
      BY <3>1, <3>2, <1>23, <2>2
    <3>5. r \in J!Job
      BY <3>1, <3>2, <3>4, JobConstants DEF J!Job
    <3>6. /\ r.status = v1[t].status
          /\ r.paused = v1[t].paused
          /\ r.lock = v1[t].lock
          /\ r.stalls = v1[t].stalls
          /\ r.disturbed = v1[t].disturbed
      BY <3>1, <3>2 DEF J!Job
    <3>7. J!Set(t, r)
      BY <3>1, <3>4, <1>23, <2>2 DEF J!Stall
    <3>8. v1' \in [Jobs -> J!Job] /\ \A k \in Jobs \ {t} : v1'[k] = v1[k]
      BY <3>2, <3>5, <3>7, SetDoes
    <3>9. /\ v1'[t].status = r.status /\ v1'[t].paused = r.paused /\ v1'[t].lock = r.lock
          /\ v1'[t].stalls = r.stalls /\ v1'[t].disturbed = r.disturbed
      BY <3>2, <3>5, <3>7, SetDoes
    <3>10. v2' = [v2 EXCEPT ![w] = J!Idle] /\ v2[w].job = t
      BY <3>1, <1>23, <2>2 DEF J!Stall
    <3>11. v2' \in [Workers -> J!WorkerState]
      BY <3>2, <3>10, WorkerLeaves
    <3>12. /\ \A y \in Workers \ {w} : v2'[y] = v2[y]
           /\ v2[w].pc = "idle" \/ v2[w].job = t
           /\ v2'[w].pc = "idle" \/ v2'[w].job = t
      BY <3>2, <3>10, WorkerLeaves
    <3>13. J!RunBy(t)' = J!RunBy(t) \ {w}
      BY <3>2, <3>10, WorkerLeaves
    <3>14. UNCHANGED <<v3, v4>>
      BY <1>23, <2>2 DEF J!Stall
    <3>15. J!TypeOK'
      BY <3>8, <3>11, <3>14 DEF J!TypeOK
    <3>16. ASSUME NEW k \in Jobs \ {t}, J!Intact(k)' PROVE J!Consistent(k)'
      <4>1. v1'[k] = v1[k]
        BY <3>16, <3>8
      <4>2. J!InFlight(k)' = J!InFlight(k) /\ \A d \in J!InFlight(k) : v3'[d] = v3[d]
        BY <3>14 DEF J!InFlight
      <4>3. J!RunBy(k)' = J!RunBy(k) /\ \A y \in J!RunBy(k) : v2'[y] = v2[y]
        BY <1>23, <3>16, <3>12 DEF J!RunBy
      <4>4. QED
        BY <3>16, <4>1, <4>2, <4>3, OtherJobs
    <3>17. ASSUME J!Intact(t)' PROVE J!Consistent(t)'
      <4>1. J!Intact(t)
        BY <3>17, <3>4, <3>6, <3>9 DEF J!Intact
      <4>2. J!Consistent(t)
        BY <3>2, <4>1 DEF J!JobInv
      <4>3. QED
        BY <3>3, <3>4, <4>1, <4>2 DEF J!Consistent, J!LockIsTrue, J!Intact
    <3>18. QED
      BY <3>2, <3>15, <3>16, <3>17 DEF J!JobInv
  <2>3. CASE v1[v2[w].job].lock = {w}
    <3>1. PICK t, r : t = v2[w].job /\ r = [v1[v2[w].job] EXCEPT !.lock = {}, !.stalls = @ + 1,
       !.status = IF @ # "active" THEN @
                  ELSE IF v1[v2[w].job].stalls = 0 THEN "waiting" ELSE "failed"]
      OBVIOUS
    <3>2. t \in Jobs /\ v1[t] \in J!Job
      BY <3>1, <1>23, <2>1, <2>3, JobShapes DEF J!Stall
    <3>3. w \in J!RunBy(t)
      BY <3>1, <1>23, <2>1, <2>3 DEF J!Stall, J!RunBy
    <3>4. /\ v1[t].lock = {w}
          /\ v1[t].stalls \in Nat
          /\ v1[t].stalls + 1 \in 0..MaxStalls
          /\ {} \in SUBSET Workers
      <4>1. v1[t].stalls < MaxStalls
        BY <3>1, <1>23 DEF J!Stall
      <4>2. v1[t].stalls \in Nat /\ MaxStalls \in Nat
        <5>1. MaxStalls \in Nat
          BY ServicesAssumption
        <5>2. v1[t].stalls \in 0..MaxStalls
          BY <3>2 DEF J!Job
        <5>3. QED BY <5>1, <5>2
      <4>3. v1[t].stalls + 1 \in 0..MaxStalls
        BY <4>1, <4>2
      <4>4. QED BY <2>3, <3>1, <4>2, <4>3
    <3>5. r \in J!Job
      BY <3>1, <3>2, <3>4, JobConstants DEF J!Job
    <3>6. /\ r.status = IF v1[t].status # "active" THEN v1[t].status
                        ELSE IF v1[t].stalls = 0 THEN "waiting" ELSE "failed"
          /\ r.paused = v1[t].paused
          /\ r.lock = {}
          /\ r.stalls = v1[t].stalls + 1
          /\ r.disturbed = v1[t].disturbed
      BY <3>1, <3>2 DEF J!Job
    <3>7. /\ r.result = v1[t].result
          /\ r.ok = v1[t].ok
          /\ r.bad = v1[t].bad
          /\ r.letters = v1[t].letters
          /\ r.lost = v1[t].lost
      BY <3>1, <3>2 DEF J!Job
    <3>8. J!Set(t, r)
      BY <3>1, <3>4, <1>23, <2>1, <2>3 DEF J!Stall
    <3>9. v1' \in [Jobs -> J!Job] /\ \A k \in Jobs \ {t} : v1'[k] = v1[k]
      BY <3>2, <3>5, <3>8, SetDoes
    <3>10. /\ v1'[t].status = r.status /\ v1'[t].paused = r.paused /\ v1'[t].lock = r.lock
           /\ v1'[t].stalls = r.stalls /\ v1'[t].disturbed = r.disturbed
      BY <3>2, <3>5, <3>8, SetDoes
    <3>11. ~r.disturbed /\ r.stalls = 0 => v1'[t] = r
      BY <3>2, <3>5, <3>8, SetDoes
    <3>12. v2' = [v2 EXCEPT ![w] = J!Idle] /\ v2[w].job = t
      BY <3>1, <1>23, <2>1, <2>3 DEF J!Stall
    <3>13. v2' \in [Workers -> J!WorkerState]
      BY <3>2, <3>12, WorkerLeaves
    <3>14. /\ \A y \in Workers \ {w} : v2'[y] = v2[y]
           /\ v2[w].pc = "idle" \/ v2[w].job = t
           /\ v2'[w].pc = "idle" \/ v2'[w].job = t
      BY <3>2, <3>12, WorkerLeaves
    <3>15. J!RunBy(t)' = J!RunBy(t) \ {w}
      BY <3>2, <3>12, WorkerLeaves
    <3>16. UNCHANGED <<v3, v4>>
      BY <1>23, <2>1, <2>3 DEF J!Stall
    <3>17. J!TypeOK'
      BY <3>9, <3>13, <3>16 DEF J!TypeOK
    <3>18. ASSUME NEW k \in Jobs \ {t}, J!Intact(k)' PROVE J!Consistent(k)'
      <4>1. v1'[k] = v1[k]
        BY <3>18, <3>9
      <4>2. J!InFlight(k)' = J!InFlight(k) /\ \A d \in J!InFlight(k) : v3'[d] = v3[d]
        BY <3>16 DEF J!InFlight
      <4>3. J!RunBy(k)' = J!RunBy(k) /\ \A y \in J!RunBy(k) : v2'[y] = v2[y]
        BY <1>23, <3>18, <3>14 DEF J!RunBy
      <4>4. QED
        BY <3>18, <4>1, <4>2, <4>3, OtherJobs
    <3>19. ASSUME J!Intact(t)' PROVE J!Consistent(t)'
      <4>1. J!Intact(t) /\ (v1'[t].stalls = 0 => v1'[t] = r)
        BY <3>19, <3>4, <3>6, <3>10, <3>11 DEF J!Intact
      <4>2. J!Consistent(t)
        BY <3>2, <4>1 DEF J!JobInv
      <4>3. J!InFlight(t)' = J!InFlight(t)
        BY <3>16 DEF J!InFlight
      <4>4. J!RunBy(t)' = {}
        BY <4>2, <3>3, <3>15 DEF J!Consistent, J!LockIsTrue
      <4>5. J!OneCall(t)'
        BY <4>2, <4>3, <3>3, <3>4, <3>6, <3>10, <3>16 DEF J!Consistent, J!OneCall, J!MarkIsTrue,
           J!LockIsTrue
      <4>6. J!MarkIsTrue(t)'
        BY <4>2, <4>3, <3>3, <3>4, <3>6, <3>10, <3>16 DEF J!Consistent, J!OneCall, J!MarkIsTrue,
           J!LockIsTrue
      <4>7. J!LockIsTrue(t)'
        BY <4>2, <4>4, <3>3, <3>4, <3>6, <3>10, <3>16 DEF J!Consistent, J!OneCall, J!LockIsTrue
      <4>8. ASSUME v1'[t].stalls = 0 PROVE J!StoryIsTrue(t)'
        BY <4>1, <4>2, <4>4, <4>8, <3>3, <3>4, <3>6, <3>7, <3>10, <3>15, <3>16,
           JobConstants DEF J!Consistent, J!OneCall, J!LockIsTrue, J!StoryIsTrue, J!Told
      <4>9. QED
        BY <4>5, <4>6, <4>7, <4>8 DEF J!Consistent
    <3>20. QED
      BY <3>2, <3>17, <3>18, <3>19 DEF J!JobInv
  <2>4. QED
    BY <2>2, <2>3, <2>1
<1>24. CASE UNCHANGED J!vars
  BY <1>24 DEF J!vars, J!TypeOK, J!JobInv, J!Consistent, J!Intact, J!OneCall, J!MarkIsTrue,
     J!LockIsTrue, J!StoryIsTrue, J!Told, J!InFlight, J!RunBy
<1>25. QED
  BY <1>1, <1>2, <1>3, <1>4, <1>5, <1>6, <1>7, <1>8, <1>9, <1>10, <1>11, <1>12, <1>13, <1>14,
     <1>15, <1>16, <1>17, <1>18, <1>19, <1>20, <1>21, <1>22, <1>23, <1>24 DEF J!Next, J!Control,
     J!Progress, J!Finish

LEMMA JobsFollow == J!JobInv => J!PauseIsExact /\ J!OutcomesAgree
<1> SUFFICES ASSUME J!JobInv, NEW j \in Jobs, J!Quiet(j)
             PROVE  /\ v1[j].paused <=> v1[j].status = "parked"
                    /\ v1[j].stalls = 0 /\ J!RunBy(j) = {} =>
                          /\ v1[j].status = "completed" <=> v1[j].result # "none"
                          /\ v1[j].status # "failed"
                          /\ v1[j].ok = IF v1[j].result = "ok" THEN 1 ELSE 0
                          /\ v1[j].bad = IF v1[j].result = "bad" THEN 1 ELSE 0
                          /\ v1[j].letters = IF v1[j].result = "bad" /\ ~v1[j].lost THEN 1 ELSE 0
  BY DEF J!PauseIsExact, J!OutcomesAgree
<1>1. J!Consistent(j) /\ J!InFlight(j) = {}
  BY DEF J!JobInv, J!Intact, J!Quiet
<1>2. v1[j].paused <=> v1[j].status = "parked"
  BY <1>1 DEF J!Consistent, J!MarkIsTrue
<1>3. ASSUME v1[j].stalls = 0, J!RunBy(j) = {} PROVE J!StoryIsTrue(j) /\ J!Told(j, v1[j].result)
  BY <1>1, <1>3 DEF J!Consistent, J!StoryIsTrue
<1>4. QED
  BY <1>2, <1>3 DEF J!StoryIsTrue, J!Told

LEMMA JobsSubject ==
    /\ MCInit /\ subject = "jobs" => J!Init
    /\ [MCNext]_all => UNCHANGED subject
    /\ [MCNext]_all /\ subject = "jobs" => [J!Next]_(J!vars)
<1>1. MCInit /\ subject = "jobs" => J!Init
  BY DEF MCInit
<1>2. [MCNext]_all => UNCHANGED subject
  BY DEF MCNext, all
<1>3. [MCNext]_all /\ subject = "jobs" => [J!Next]_(J!vars)
  BY DEF MCNext, all, J!vars
<1>4. QED
  BY <1>1, <1>2, <1>3

(* A job whose calls never overlapped is marked as paused exactly when it  *)
(* is parked, for any number of jobs, workers and control calls, any limit *)
(* of attempts and any number of worker deaths (QueueService.pauseJob and  *)
(* resumeJob with Bull). *)
THEOREM PausesAreExact == MCSpec => []PauseIsExact
<1> DEFINE Inv == subject = "jobs" => J!TypeOK /\ J!JobInv
<1>1. MCInit => Inv
  BY JobsSubject, InitJobs
<1>2. Inv /\ [MCNext]_all => Inv'
  BY JobsSubject, StepJobs
<1>3. Inv => PauseIsExact
  BY JobsFollow DEF PauseIsExact
<1>4. QED
  BY <1>1, <1>2, <1>3, PTL DEF MCSpec

(* What Bull keeps, what the workflow hears and what the dead letter queue *)
(* holds agree about a job whose worker never died, for the same instances *)
(* (ComputeJobProcessor.processJob and its error handling). *)
THEOREM OutcomesAreTold == MCSpec => []OutcomesAgree
<1> DEFINE Inv == subject = "jobs" => J!TypeOK /\ J!JobInv
<1>1. MCInit => Inv
  BY JobsSubject, InitJobs
<1>2. Inv /\ [MCNext]_all => Inv'
  BY JobsSubject, StepJobs
<1>3. Inv => OutcomesAgree
  BY JobsFollow DEF OutcomesAgree
<1>4. QED
  BY <1>1, <1>2, <1>3, PTL DEF MCSpec

=============================================================================
