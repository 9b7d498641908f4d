------------------------ MODULE IndexerRangesProofs ------------------------
(***************************************************************************)
(* Proofs about IndexerRanges, for any number of instances, jobs and       *)
(* ranges, any range size, and every scenario: locks that expire, records  *)
(* that vanish or are rewritten, crashes, jobs run twice.                  *)
(*                                                                         *)
(* CompletedIsIndexed is not inductive: a job about to write "completed"   *)
(* must be one that fetched the whole range (JobOk), and it is, because    *)
(* the record of a range that was cut cannot be found by its key.  That    *)
(* the last block of a job is one of the blocks it fetched, which          *)
(* ProgressIsReached needs, comes from the cycle that queued it: it gave   *)
(* back every range that starts ahead of the safe head (CycleOk).          *)
(* OneHandPerRange rests on HandInv and LockInv, NoWholeRangeAbandoned and *)
(* the rest of the type invariant on WholeInv, stated where they are used. *)
(***************************************************************************)
EXTENDS IndexerRanges, FiniteSetTheorems, TLAPS

(* Everything but the list of assigned ranges and the history of the       *)
(* locks, which are needed for the last part only.                         *)
TypeInv ==
    /\ scenario \in Scenarios
    /\ head \in Nat /\ progress \in Nat
    /\ written \in 0..NumRanges
    /\ rng \in [Ranges -> Record]
    /\ lock \in [Ranges -> Instances \cup {Nobody}]
    /\ cycle \in [Instances -> CycleState]
    /\ job \in [Jobs -> JobState]
    /\ indexed \subseteq Nat
    /\ cut \subseteq Ranges

(* A cycle that is busy with a range has one, and one that is about to     *)
(* queue it knows that its first block is confirmed.                       *)
CycleOk(c) ==
    /\ c.pc \in {"check", "unlock", "write", "enqueue", "relGet", "relSet", "relUnlock"} =>
          c.r \in Ranges
    /\ c.pc = "enqueue" => First(c.r) <= c.safe

(* A job has a part of a range that is not empty, its blocks are indexed   *)
(* once it is past fetching, and it writes a record only of a whole range. *)
JobOk(w, blocks) ==
    w.pc # "none" =>
        /\ w.r \in Ranges
        /\ First(w.r) <= w.to /\ w.to <= Last(w.r)
        /\ w.pc \in {"get", "set", "unlock", "readProgress", "writeProgress"} =>
              First(w.r)..w.to \subseteq blocks
        /\ w.pc = "set" => w.to = Last(w.r)

CyclesOk == \A i \in Instances : CycleOk(cycle[i])
JobsOk == \A j \in Jobs : JobOk(job[j], indexed)

IInv == TypeInv /\ CyclesOk /\ JobsOk /\ CompletedIsIndexed /\ ProgressIsReached

-----------------------------------------------------------------------------
(* Arithmetic of the ranges, typing of the constants *)

LEMMA RangeBounds ==
    ASSUME NEW r \in Ranges
    PROVE  First(r) \in Nat /\ Last(r) \in Nat /\ First(r) <= Last(r)
<1>1. r \in Nat /\ r >= 1 /\ RangeSize \in Nat /\ RangeSize >= 1
  BY IndexerAssumption DEF Ranges
<1>2. (r - 1) * RangeSize \in Nat /\ r * RangeSize = (r - 1) * RangeSize + RangeSize
  BY <1>1
<1>3. QED BY <1>1, <1>2 DEF First, Last

LEMMA ConstantsTyped ==
    /\ Absent \in Record /\ Pending \in Record
    /\ Idle \in CycleState /\ CycleOk(Idle)
    /\ NoJob \in JobState
BY DEF Absent, Pending, Record, Status, Idle, CycleState, CycleOk, NoJob, JobState

LEMMA CycleTyped ==
    ASSUME TypeInv, CyclesOk, NEW i \in Instances
    PROVE  cycle[i] \in CycleState /\ CycleOk(cycle[i])
BY DEF TypeInv, CyclesOk

LEMMA JobTyped ==
    ASSUME TypeInv, JobsOk, NEW j \in Jobs
    PROVE  job[j] \in JobState /\ JobOk(job[j], indexed)
BY DEF TypeInv, JobsOk

-----------------------------------------------------------------------------
(* What one cycle, or one job, does keeps the others sound *)

LEMMA MoveKeeps ==
    ASSUME TypeInv, CyclesOk, NEW i \in Instances, NEW c \in CycleState, CycleOk(c), Move(i, c)
    PROVE  cycle' \in [Instances -> CycleState] /\ CyclesOk'
<1>1. cycle' = [cycle EXCEPT ![i] = c] /\ cycle \in [Instances -> CycleState]
  BY DEF Move, TypeInv
<1>2. \A k \in Instances : cycle'[k] = IF k = i THEN c ELSE cycle[k]
  BY <1>1
<1>3. \A k \in Instances : CycleOk(cycle'[k])
  BY <1>2 DEF CyclesOk
<1>4. QED BY <1>1, <1>3 DEF CyclesOk

LEMMA JobOkMonotone ==
    ASSUME NEW w, NEW A, NEW B, A \subseteq B, JobOk(w, A)
    PROVE  JobOk(w, B)
BY DEF JobOk

LEMMA StepKeeps ==
    ASSUME TypeInv, JobsOk, NEW j \in Jobs, NEW w \in JobState, JobOk(w, indexed'),
           Step(j, w), indexed \subseteq indexed'
    PROVE  job' \in [Jobs -> JobState] /\ JobsOk'
<1>1. job' = [job EXCEPT ![j] = w] /\ job \in [Jobs -> JobState]
  BY DEF Step, TypeInv
<1>2. \A k \in Jobs : job'[k] = IF k = j THEN w ELSE job[k]
  BY <1>1
<1>3. \A k \in Jobs : JobOk(job[k], indexed')
  BY JobOkMonotone DEF JobsOk
<1>4. \A k \in Jobs : JobOk(job'[k], indexed')
  BY <1>2, <1>3
<1>5. QED BY <1>1, <1>4 DEF JobsOk

(* A record may take any status but "completed", or that of a range whose  *)
(* blocks are all indexed.                                                 *)
LEMMA RecordKeeps ==
    ASSUME TypeInv, CompletedIsIndexed, NEW r \in Ranges, NEW rec \in Record,
           rng' = [rng EXCEPT ![r] = rec], indexed \subseteq indexed',
           rec.status = "completed" => First(r)..Last(r) \subseteq indexed'
    PROVE  rng' \in [Ranges -> Record] /\ CompletedIsIndexed'
BY DEF TypeInv, CompletedIsIndexed

LEMMA RecordsUnchanged ==
    ASSUME CompletedIsIndexed, UNCHANGED rng, indexed \subseteq indexed'
    PROVE  CompletedIsIndexed'
BY DEF CompletedIsIndexed

LEMMA StoredTyped ==
    ASSUME TypeInv, NEW r \in Ranges, NEW to
    PROVE  /\ Stored(r, to) \in Record
           /\ Stored(r, to).status # "absent" => to = Last(r)
BY ConstantsTyped DEF Stored, TypeInv, Absent

LEMMA WithStatusTyped ==
    ASSUME NEW rec \in Record, NEW s \in Status
    PROVE  [rec EXCEPT !.status = s] \in Record /\ [rec EXCEPT !.status = s].status = s
BY DEF Record

LEMMA DropLockTyped ==
    ASSUME TypeInv, NEW r \in Ranges, NEW to, NEW caller, DropLock(r, to, caller)
    PROVE  lock' \in [Ranges -> Instances \cup {Nobody}]
BY DEF TypeInv, DropLock

LEMMA CycleStepKeeps ==
    ASSUME IInv, NEW i \in Instances, NEW c \in CycleState, CycleOk(c), Move(i, c),
           UNCHANGED <<scenario, head, written, progress, job, indexed>>, cut' \subseteq Ranges,
           lock' \in [Ranges -> Instances \cup {Nobody}],
           rng' \in [Ranges -> Record], CompletedIsIndexed'
    PROVE  IInv'
<1>1. cycle' \in [Instances -> CycleState] /\ CyclesOk'
  BY MoveKeeps DEF IInv
<1>2. TypeInv'
  BY <1>1 DEF IInv, TypeInv
<1>3. JobsOk' /\ ProgressIsReached'
  BY DEF IInv, JobsOk, ProgressIsReached
<1>4. QED BY <1>1, <1>2, <1>3 DEF IInv

LEMMA JobStepKeeps ==
    ASSUME IInv, NEW j \in Jobs, NEW w \in JobState, JobOk(w, indexed'), Step(j, w), JobOnly,
           indexed \subseteq indexed', indexed' \subseteq Nat,
           lock' \in [Ranges -> Instances \cup {Nobody}],
           rng' \in [Ranges -> Record], CompletedIsIndexed',
           progress' \in Nat, ProgressIsReached'
    PROVE  IInv'
<1>1. job' \in [Jobs -> JobState] /\ JobsOk'
  BY StepKeeps DEF IInv
<1>2. TypeInv'
  BY <1>1 DEF IInv, TypeInv, JobOnly
<1>3. CyclesOk'
  BY DEF IInv, CyclesOk, JobOnly
<1>4. QED BY <1>1, <1>2, <1>3 DEF IInv

-----------------------------------------------------------------------------
(* The polling cycle *)

LEMMA LoopKeeps ==
    ASSUME IInv, NEW i \in Instances, NEW safe \in Nat, NEW ranges, Loop(i, safe, ranges)
    PROVE  \E c \in CycleState : CycleOk(c) /\ Move(i, c)
<1> DEFINE d == [Idle EXCEPT !.pc = "list", !.left = 1..scenario.total, !.safe = safe]
<1>1. scenario.total \in 0..NumRanges
  BY IndexerAssumption DEF IInv, TypeInv
<1>2. 1..scenario.total \subseteq Ranges
  BY <1>1, IndexerAssumption DEF Ranges
<1>3. d \in CycleState /\ CycleOk(d)
  BY <1>2, ConstantsTyped DEF Idle, CycleState, CycleOk
<1>4. Move(i, d) \/ Move(i, Idle)
  BY DEF Loop
<1>5. QED BY <1>3, <1>4, ConstantsTyped

LEMMA PollKeeps ==
    ASSUME IInv, NEW i \in Instances, Poll(i)
    PROVE  IInv'
<1>1. PICK c \in CycleState : CycleOk(c) /\ Move(i, c)
  BY LoopKeeps DEF Poll, IInv, TypeInv
<1>2. UNCHANGED <<scenario, head, written, rng, lock, progress, job, indexed, cut>>
  BY DEF Poll
<1>3. CompletedIsIndexed'
  BY <1>2, RecordsUnchanged DEF IInv
<1>4. QED BY <1>1, <1>2, <1>3, CycleStepKeeps DEF IInv, TypeInv

(* An instance that only reads, or only moves on. *)
LEMMA ReadKeeps ==
    ASSUME IInv, NEW i \in Instances, NEW c \in CycleState, CycleOk(c), Move(i, c),
           UNCHANGED <<rng, lock>>, CycleOnly
    PROVE  IInv'
<1>1. CompletedIsIndexed'
  BY RecordsUnchanged DEF IInv, CycleOnly
<1>2. QED BY <1>1, CycleStepKeeps DEF IInv, TypeInv, CycleOnly

LEMMA ReadRecordKeeps ==
    ASSUME IInv, NEW i \in Instances, NEW r \in Ranges, ReadRecord(i, r)
    PROVE  IInv'
<1> DEFINE c == [cycle[i] EXCEPT !.left = @ \ {r}, !.cand = IF Listed(rng[r]) THEN @ \cup {r} ELSE @]
<1>1. cycle[i] \in CycleState /\ CycleOk(cycle[i])
  BY CycleTyped DEF IInv
<1>2. c \in CycleState /\ CycleOk(c)
  BY <1>1 DEF CycleState, CycleOk
<1>3. Move(i, c) /\ UNCHANGED <<rng, lock>> /\ CycleOnly
  BY DEF ReadRecord
<1> HIDE DEF c
<1>4. QED BY <1>2, <1>3, ReadKeeps

LEMMA ToIdleKeeps ==
    ASSUME IInv, NEW i \in Instances, NoneLeft(i) \/ Stopped(i)
    PROVE  IInv'
<1>1. Move(i, Idle) /\ UNCHANGED <<rng, lock>> /\ CycleOnly
  BY DEF NoneLeft, Stopped
<1>2. QED BY <1>1, ConstantsTyped, ReadKeeps

LEMMA TryLockKeeps ==
    ASSUME IInv, NEW i \in Instances, NEW r \in Ranges, TryLock(i, r)
    PROVE  IInv'
<1> DEFINE c == [cycle[i] EXCEPT !.pc = "check", !.r = r]
           d == [cycle[i] EXCEPT !.cand = @ \ {r}]
<1>1. cycle[i] \in CycleState /\ CycleOk(cycle[i])
  BY CycleTyped DEF IInv
<1>2. c \in CycleState /\ CycleOk(c) /\ d \in CycleState /\ CycleOk(d)
  BY <1>1 DEF CycleState, CycleOk
<1>3. \/ lock' = [lock EXCEPT ![r] = i] /\ Move(i, c)
      \/ UNCHANGED lock /\ Move(i, d)
  BY DEF TryLock
<1>4. UNCHANGED rng /\ CycleOnly
  BY DEF TryLock
<1>5. lock' \in [Ranges -> Instances \cup {Nobody}]
  BY <1>3 DEF IInv, TypeInv
<1>6. CompletedIsIndexed'
  BY <1>4, RecordsUnchanged DEF IInv, CycleOnly
<1> HIDE DEF c, d
<1>7. QED BY <1>2, <1>3, <1>4, <1>5, <1>6, CycleStepKeeps DEF IInv, TypeInv, CycleOnly

LEMMA CheckRecordKeeps ==
    ASSUME IInv, NEW i \in Instances, CheckRecord(i)
    PROVE  IInv'
<1> DEFINE rec == rng[cycle[i].r]
           c == [cycle[i] EXCEPT !.pc = IF Refused(rec) THEN "unlock" ELSE "write", !.seen = rec]
<1>1. cycle[i] \in CycleState /\ CycleOk(cycle[i]) /\ cycle[i].r \in Ranges
  BY CycleTyped DEF IInv, CheckRecord, CycleOk
<1>2. rec \in Record
  BY <1>1 DEF IInv, TypeInv
<1>3. c \in CycleState /\ CycleOk(c)
  BY <1>1, <1>2 DEF CycleState, CycleOk
<1>4. Move(i, c) /\ UNCHANGED <<rng, lock>> /\ CycleOnly
  BY DEF CheckRecord
<1> HIDE DEF c
<1>5. QED BY <1>3, <1>4, ReadKeeps

LEMMA DropCandidateKeeps ==
    ASSUME IInv, NEW i \in Instances, DropCandidate(i)
    PROVE  IInv'
<1> DEFINE c == [cycle[i] EXCEPT !.pc = "list", !.cand = @ \ {cycle[i].r}, !.r = 0, !.seen = Absent]
<1>1. cycle[i] \in CycleState /\ CycleOk(cycle[i]) /\ cycle[i].r \in Ranges
  BY CycleTyped DEF IInv, DropCandidate, CycleOk
<1>2. c \in CycleState /\ CycleOk(c)
  BY <1>1, ConstantsTyped DEF CycleState, CycleOk
<1>3. Move(i, c) /\ UNCHANGED rng /\ CycleOnly /\ DropLock(cycle[i].r, Last(cycle[i].r), {i})
  BY DEF DropCandidate
<1>4. lock' \in [Ranges -> Instances \cup {Nobody}]
  BY <1>1, <1>3, DropLockTyped DEF IInv
<1>5. CompletedIsIndexed'
  BY <1>3, RecordsUnchanged DEF IInv, CycleOnly
<1> HIDE DEF c
<1>6. QED BY <1>2, <1>3, <1>4, <1>5, CycleStepKeeps DEF IInv, TypeInv, CycleOnly

LEMMA TakenTyped ==
    ASSUME NEW rec \in Record
    PROVE  Taken(rec) \in Record /\ Taken(rec).status = "processing"
BY DEF Taken, Record, Status

LEMMA AcquireKeeps ==
    ASSUME IInv, NEW i \in Instances, Acquire(i)
    PROVE  IInv'
<1> DEFINE r == cycle[i].r
           c == [cycle[i] EXCEPT !.pc = "relGet", !.to = Last(r), !.cand = {}, !.seen = Absent]
           d == [cycle[i] EXCEPT !.pc = "enqueue", !.cand = {}, !.seen = Absent]
<1>1. cycle[i] \in CycleState /\ CycleOk(cycle[i]) /\ r \in Ranges
  BY CycleTyped DEF IInv, Acquire, CycleOk
<1>2. First(r) \in Nat /\ Last(r) \in Nat /\ cycle[i].safe \in Nat /\ cycle[i].seen \in Record
  BY <1>1, RangeBounds DEF CycleState
<1>3. c \in CycleState /\ CycleOk(c)
  BY <1>1, <1>2, ConstantsTyped DEF CycleState, CycleOk
<1>4. First(r) <= cycle[i].safe => d \in CycleState /\ CycleOk(d)
  BY <1>1, ConstantsTyped DEF CycleState, CycleOk
<1>5. Move(i, IF First(r) > cycle[i].safe THEN c ELSE d) /\ rng' = [rng EXCEPT ![r] = Taken(cycle[i].seen)]
      /\ UNCHANGED lock /\ CycleOnly
  BY DEF Acquire
<1>6. rng' \in [Ranges -> Record] /\ CompletedIsIndexed'
  BY <1>1, <1>2, <1>5, TakenTyped, RecordKeeps DEF IInv, CycleOnly
<1> HIDE DEF c, d, r
<1>7. CASE First(r) > cycle[i].safe
  BY <1>3, <1>5, <1>6, <1>7, CycleStepKeeps DEF IInv, TypeInv, CycleOnly
<1>8. CASE ~(First(r) > cycle[i].safe)
  <2>1. First(r) <= cycle[i].safe /\ Move(i, d)
    BY <1>2, <1>5, <1>8
  <2>2. QED BY <1>4, <1>5, <1>6, <2>1, CycleStepKeeps DEF IInv, TypeInv, CycleOnly
<1>9. QED BY <1>7, <1>8

(* The job gets a part of the range that is not empty: its first block is  *)
(* confirmed.                                                              *)
LEMMA EnqueueKeeps ==
    ASSUME IInv, NEW i \in Instances, NEW j \in Jobs, Enqueue(i, j)
    PROVE  IInv'
<1> DEFINE r == cycle[i].r
           safe == cycle[i].safe
           to == IF Last(r) > safe THEN safe ELSE Last(r)
           w == [NoJob EXCEPT !.pc = "fetch", !.r = r, !.to = to, !.attempt = 1]
<1>1. cycle[i] \in CycleState /\ r \in Ranges /\ First(r) <= safe
  BY CycleTyped DEF IInv, Enqueue, CycleOk
<1>2. First(r) \in Nat /\ Last(r) \in Nat /\ First(r) <= Last(r) /\ safe \in Nat
  BY <1>1, RangeBounds DEF CycleState
<1>3. to \in Nat /\ First(r) <= to /\ to <= Last(r)
  BY <1>1, <1>2
<1>4. /\ job' = [job EXCEPT ![j] = w]
      /\ Loop(i, safe, Append(assigned[i], [r |-> r, to |-> to]))
      /\ cut' = IF to < Last(r) THEN cut \cup {r} ELSE cut
      /\ UNCHANGED <<scenario, head, written, rng, lock, progress, indexed>>
  BY DEF Enqueue
<1> HIDE DEF to, r, safe
<1>5. w \in JobState /\ JobOk(w, indexed')
  BY <1>1, <1>3, ConstantsTyped DEF NoJob, JobState, JobOk
<1> HIDE DEF w
<1>6. job' \in [Jobs -> JobState] /\ JobsOk'
  BY <1>4, <1>5, StepKeeps DEF IInv, Step
<1>7. PICK c \in CycleState : CycleOk(c) /\ Move(i, c)
  BY <1>2, <1>4, LoopKeeps
<1>8. cycle' \in [Instances -> CycleState] /\ CyclesOk'
  BY <1>7, MoveKeeps DEF IInv
<1>9. TypeInv'
  BY <1>1, <1>4, <1>6, <1>8 DEF IInv, TypeInv
<1>10. CompletedIsIndexed' /\ ProgressIsReached'
  BY <1>4 DEF IInv, CompletedIsIndexed, ProgressIsReached
<1>11. QED BY <1>6, <1>8, <1>9, <1>10 DEF IInv

-----------------------------------------------------------------------------
(* Releases, shutdowns and crashes *)

LEMMA StopKeeps ==
    ASSUME IInv, NEW i \in Instances, Stop(i)
    PROVE  IInv'
<1> DEFINE c == [Idle EXCEPT !.pc = "stop", !.stopping = TRUE]
<1>1. c \in CycleState /\ CycleOk(c)
  BY ConstantsTyped DEF Idle, CycleState, CycleOk
<1>2. Move(i, c) /\ UNCHANGED <<rng, lock>> /\ CycleOnly
  BY DEF Stop
<1> HIDE DEF c
<1>3. QED BY <1>1, <1>2, ReadKeeps

LEMMA StopNextKeeps ==
    ASSUME IInv, NEW i \in Instances, NEW r \in Ranges, NEW to \in First(r)..Last(r),
           StopNext(i, r, to)
    PROVE  IInv'
<1> DEFINE c == [cycle[i] EXCEPT !.pc = "relGet", !.r = r, !.to = to, !.seen = Absent]
<1>1. cycle[i] \in CycleState /\ to \in Nat
  BY CycleTyped, RangeBounds DEF IInv
<1>2. c \in CycleState /\ CycleOk(c)
  BY <1>1, ConstantsTyped DEF CycleState, CycleOk
<1>3. Move(i, c) /\ UNCHANGED <<scenario, head, written, rng, lock, progress, job, indexed, cut>>
  BY DEF StopNext
<1>4. CompletedIsIndexed'
  BY <1>3, RecordsUnchanged DEF IInv
<1> HIDE DEF c
<1>5. QED BY <1>2, <1>3, <1>4, CycleStepKeeps DEF IInv, TypeInv

LEMMA ReleaseGetKeeps ==
    ASSUME IInv, NEW i \in Instances, ReleaseGet(i)
    PROVE  IInv'
<1> DEFINE rec == Stored(cycle[i].r, cycle[i].to)
           c == [cycle[i] EXCEPT !.pc = IF rec.status = "processing" THEN "relSet" ELSE "relUnlock",
                                 !.seen = rec]
<1>1. cycle[i] \in CycleState /\ cycle[i].r \in Ranges
  BY CycleTyped DEF IInv, ReleaseGet, CycleOk
<1>2. rec \in Record
  BY <1>1, StoredTyped DEF IInv
<1>3. Move(i, c) /\ UNCHANGED <<rng, lock>> /\ CycleOnly
  BY DEF ReleaseGet
<1> HIDE DEF rec
<1>4. c \in CycleState /\ CycleOk(c)
  BY <1>1, <1>2 DEF CycleState, CycleOk
<1> HIDE DEF c
<1>5. QED BY <1>3, <1>4, ReadKeeps

LEMMA ReleaseSetKeeps ==
    ASSUME IInv, NEW i \in Instances, ReleaseSet(i)
    PROVE  IInv'
<1> DEFINE c == [cycle[i] EXCEPT !.pc = "relUnlock"]
           rec == [cycle[i].seen EXCEPT !.status = "failed"]
<1>1. cycle[i] \in CycleState /\ cycle[i].r \in Ranges /\ cycle[i].seen \in Record
  BY CycleTyped DEF IInv, ReleaseSet, CycleOk, CycleState
<1>2. c \in CycleState /\ CycleOk(c)
  BY <1>1 DEF CycleState, CycleOk
<1>3. rec \in Record /\ rec.status # "completed"
  BY <1>1, WithStatusTyped DEF Status
<1>4. Move(i, c) /\ rng' = [rng EXCEPT ![cycle[i].r] = rec] /\ UNCHANGED lock /\ CycleOnly
  BY DEF ReleaseSet, SetStatus
<1> HIDE DEF c, rec
<1>5. rng' \in [Ranges -> Record] /\ CompletedIsIndexed'
  BY <1>1, <1>3, <1>4, RecordKeeps DEF IInv, CycleOnly
<1>6. QED BY <1>2, <1>4, <1>5, CycleStepKeeps DEF IInv, TypeInv, CycleOnly

LEMMA ReleaseUnlockKeeps ==
    ASSUME IInv, NEW i \in Instances, ReleaseUnlock(i)
    PROVE  IInv'
<1> DEFINE c == [Idle EXCEPT !.pc = "stop", !.stopping = TRUE]
<1>1. cycle[i].r \in Ranges
  BY CycleTyped DEF IInv, ReleaseUnlock, CycleOk
<1>2. c \in CycleState /\ CycleOk(c)
  BY ConstantsTyped DEF Idle, CycleState, CycleOk
<1>3. Move(i, c) \/ Move(i, Idle)
  BY DEF ReleaseUnlock
<1>4. UNCHANGED rng /\ CycleOnly /\ DropLock(cycle[i].r, cycle[i].to, {i})
  BY DEF ReleaseUnlock
<1>5. lock' \in [Ranges -> Instances \cup {Nobody}]
  BY <1>1, <1>4, DropLockTyped DEF IInv
<1>6. CompletedIsIndexed'
  BY <1>4, RecordsUnchanged DEF IInv, CycleOnly
<1> HIDE DEF c
<1>7. QED BY <1>2, <1>3, <1>4, <1>5, <1>6, ConstantsTyped, CycleStepKeeps
          DEF IInv, TypeInv, CycleOnly

LEMMA CrashKeeps ==
    ASSUME IInv, NEW i \in Instances, Crash(i)
    PROVE  IInv'
<1>1. Move(i, Idle) /\ UNCHANGED <<scenario, head, written, rng, lock, progress, job, indexed, cut>>
  BY DEF Crash
<1>2. CompletedIsIndexed'
  BY <1>1, RecordsUnchanged DEF IInv
<1>3. QED BY <1>1, <1>2, ConstantsTyped, CycleStepKeeps DEF IInv, TypeInv

-----------------------------------------------------------------------------
(* The chain, the coordinator and what expires *)

LEMMA EnvironmentKeeps ==
    ASSUME IInv,
           Confirm \/ InitializeRange \/ Restart \/ (\E r \in Ranges : Expire(r) \/ Evict(r))
    PROVE  IInv'
<1>1. UNCHANGED <<scenario, progress, cycle, job, indexed, cut>>
  BY DEF Confirm, InitializeRange, Restart, Expire, Evict
<1>2. CyclesOk' /\ JobsOk' /\ ProgressIsReached'
  BY <1>1 DEF IInv, CyclesOk, JobsOk, ProgressIsReached
<1>3. CASE Confirm \/ Restart
  BY <1>1, <1>2, <1>3, RecordsUnchanged, IndexerAssumption DEF IInv, TypeInv, Confirm, Restart
<1>4. CASE InitializeRange
  <2>1. scenario.total \in 0..NumRanges /\ written \in 0..NumRanges /\ NumRanges \in Nat
    BY IndexerAssumption DEF IInv, TypeInv
  <2>2. written + 1 \in Ranges /\ written' \in 0..NumRanges
    BY <1>4, <2>1 DEF InitializeRange, Ranges
  <2>3. rng' \in [Ranges -> Record] /\ CompletedIsIndexed'
    BY <1>1, <1>4, <2>2, ConstantsTyped, RecordKeeps DEF IInv, InitializeRange, Pending
  <2>4. TypeInv'
    BY <1>1, <1>4, <2>2, <2>3 DEF IInv, TypeInv, InitializeRange
  <2>5. QED BY <1>2, <2>3, <2>4 DEF IInv
<1>5. ASSUME NEW r \in Ranges, Expire(r) PROVE IInv'
  BY <1>1, <1>2, <1>5, RecordsUnchanged DEF IInv, TypeInv, Expire
<1>6. ASSUME NEW r \in Ranges, Evict(r) PROVE IInv'
  <2>1. rng' \in [Ranges -> Record] /\ CompletedIsIndexed'
    BY <1>1, <1>6, ConstantsTyped, RecordKeeps DEF IInv, Evict, Absent
  <2>2. lock' \in [Ranges -> Instances \cup {Nobody}]
    BY <1>6 DEF IInv, TypeInv, Evict
  <2>3. TypeInv'
    BY <1>1, <1>6, <2>1, <2>2 DEF IInv, TypeInv, Evict
  <2>4. QED BY <1>2, <2>1, <2>3 DEF IInv
<1>7. QED BY <1>3, <1>4, <1>5, <1>6

-----------------------------------------------------------------------------
(* The fetch-range jobs *)

(* A job that changes nothing but its own state. *)
LEMMA JobMoveKeeps ==
    ASSUME IInv, NEW j \in Jobs, NEW w \in JobState, JobOk(w, indexed), Step(j, w), JobOnly,
           UNCHANGED <<rng, progress, indexed>>,
           lock' \in [Ranges -> Instances \cup {Nobody}]
    PROVE  IInv'
<1>1. CompletedIsIndexed' /\ ProgressIsReached'
  BY DEF IInv, CompletedIsIndexed, ProgressIsReached
<1>2. QED BY <1>1, JobStepKeeps DEF IInv, TypeInv

LEMMA FetchKeeps ==
    ASSUME IInv, NEW j \in Jobs, Fetch(j)
    PROVE  IInv'
<1> DEFINE w == [job[j] EXCEPT !.pc = "get"]
           blocks == First(job[j].r)..job[j].to
<1>1. job[j] \in JobState /\ JobOk(job[j], indexed) /\ job[j].r \in Ranges
  BY JobTyped DEF IInv, Fetch, JobOk
<1>2. blocks \subseteq Nat
  BY <1>1, RangeBounds
<1>3. /\ indexed' = indexed \cup blocks /\ Step(j, w) /\ UNCHANGED <<rng, lock, progress>> /\ JobOnly
  BY DEF Fetch
<1>4. w \in JobState /\ JobOk(w, indexed')
  BY <1>1, <1>3 DEF JobState, JobOk, Fetch
<1>5. indexed \subseteq indexed' /\ indexed' \subseteq Nat
  BY <1>2, <1>3 DEF IInv, TypeInv
<1>6. CompletedIsIndexed' /\ ProgressIsReached'
  BY <1>3, <1>5 DEF IInv, CompletedIsIndexed, ProgressIsReached
<1> HIDE DEF w, blocks
<1>7. QED BY <1>3, <1>4, <1>5, <1>6, JobStepKeeps DEF IInv, TypeInv

LEMMA FetchFailsKeeps ==
    ASSUME IInv, NEW j \in Jobs, FetchFails(j)
    PROVE  IInv'
<1> DEFINE w == IF job[j].retries < MaxRetries
                THEN [job[j] EXCEPT !.retries = @ + 1, !.attempt = 1]
                ELSE [job[j] EXCEPT !.pc = "relGet"]
<1>1. job[j] \in JobState /\ JobOk(job[j], indexed)
  BY JobTyped DEF IInv
<1>2. Step(j, w) /\ UNCHANGED <<rng, lock, progress, indexed>> /\ JobOnly /\ job[j].pc = "fetch"
  BY DEF FetchFails
<1>3. job[j].retries + 1 \in Nat
  BY <1>1 DEF JobState
<1>4. w \in JobState
  BY <1>1, <1>3 DEF JobState
<1>5. /\ w.pc \in {"fetch", "relGet"} /\ w.r = job[j].r /\ w.to = job[j].to
  BY <1>1, <1>2 DEF JobState
<1> HIDE DEF w
<1>6. JobOk(w, indexed)
  BY <1>1, <1>2, <1>5 DEF JobOk
<1>7. QED BY <1>2, <1>4, <1>6, JobMoveKeeps DEF IInv, TypeInv

(* A record is found only under the key of the whole range. *)
LEMMA CompleteGetKeeps ==
    ASSUME IInv, NEW j \in Jobs, CompleteGet(j)
    PROVE  IInv'
<1> DEFINE rec == Stored(job[j].r, job[j].to)
           w == [job[j] EXCEPT !.pc = IF rec.status = "absent" THEN "unlock" ELSE "set", !.seen = rec]
<1>1. job[j] \in JobState /\ JobOk(job[j], indexed) /\ job[j].r \in Ranges /\ job[j].pc = "get"
  BY JobTyped DEF IInv, CompleteGet, JobOk
<1>2. rec \in Record /\ (rec.status # "absent" => job[j].to = Last(job[j].r))
  BY <1>1, StoredTyped DEF IInv
<1>3. Step(j, w) /\ UNCHANGED <<rng, lock, progress, indexed>> /\ JobOnly
  BY DEF CompleteGet
<1> HIDE DEF rec
<1>4. w \in JobState /\ JobOk(w, indexed)
  BY <1>1, <1>2 DEF JobState, JobOk
<1> HIDE DEF w
<1>5. QED BY <1>3, <1>4, JobMoveKeeps DEF IInv, TypeInv

LEMMA CompleteSetKeeps ==
    ASSUME IInv, NEW j \in Jobs, CompleteSet(j)
    PROVE  IInv'
<1> DEFINE w == [job[j] EXCEPT !.pc = "unlock", !.seen = Absent]
           rec == [job[j].seen EXCEPT !.status = "completed"]
<1>1. job[j] \in JobState /\ JobOk(job[j], indexed) /\ job[j].r \in Ranges /\ job[j].seen \in Record
  BY JobTyped DEF IInv, CompleteSet, JobOk, JobState
<1>2. First(job[j].r)..Last(job[j].r) \subseteq indexed
  BY <1>1 DEF CompleteSet, JobOk
<1>3. /\ Step(j, w) /\ rng' = [rng EXCEPT ![job[j].r] = rec]
      /\ UNCHANGED <<lock, progress, indexed>> /\ JobOnly
  BY DEF CompleteSet, SetStatus
<1>4. w \in JobState /\ JobOk(w, indexed')
  BY <1>1, <1>3, ConstantsTyped DEF CompleteSet, JobState, JobOk
<1>5. rec \in Record
  BY <1>1, WithStatusTyped DEF Status
<1> HIDE DEF w, rec
<1>6. rng' \in [Ranges -> Record] /\ CompletedIsIndexed'
  BY <1>1, <1>2, <1>3, <1>5, RecordKeeps DEF IInv
<1>7. ProgressIsReached'
  BY <1>3 DEF IInv, ProgressIsReached
<1>8. QED BY <1>3, <1>4, <1>6, <1>7, JobStepKeeps DEF IInv, TypeInv

LEMMA CompleteUnlockKeeps ==
    ASSUME IInv, NEW j \in Jobs, CompleteUnlock(j)
    PROVE  IInv'
<1> DEFINE w == [job[j] EXCEPT !.pc = "readProgress", !.seen = Absent]
<1>1. job[j] \in JobState /\ JobOk(job[j], indexed) /\ job[j].r \in Ranges
  BY JobTyped DEF IInv, CompleteUnlock, JobOk
<1>2. Step(j, w) /\ UNCHANGED <<rng, progress, indexed>> /\ JobOnly /\ DropLock(job[j].r, job[j].to, {})
  BY DEF CompleteUnlock
<1>3. w \in JobState /\ JobOk(w, indexed)
  BY <1>1, ConstantsTyped DEF CompleteUnlock, JobState, JobOk
<1>4. lock' \in [Ranges -> Instances \cup {Nobody}]
  BY <1>1, <1>2, DropLockTyped DEF IInv
<1> HIDE DEF w
<1>5. QED BY <1>2, <1>3, <1>4, JobMoveKeeps

LEMMA ReadProgressKeeps ==
    ASSUME IInv, NEW j \in Jobs, ReadProgress(j)
    PROVE  IInv'
<1> DEFINE w == [job[j] EXCEPT !.pc = "writeProgress", !.cur = progress]
<1>1. job[j] \in JobState /\ JobOk(job[j], indexed) /\ progress \in Nat
  BY JobTyped DEF IInv, TypeInv
<1>2. Step(j, w) /\ UNCHANGED <<rng, lock, progress, indexed>> /\ JobOnly
  BY DEF ReadProgress
<1>3. w \in JobState /\ JobOk(w, indexed)
  BY <1>1 DEF ReadProgress, JobState, JobOk
<1> HIDE DEF w
<1>4. QED BY <1>2, <1>3, JobMoveKeeps DEF IInv, TypeInv

LEMMA WriteProgressKeeps ==
    ASSUME IInv, NEW j \in Jobs, WriteProgress(j)
    PROVE  IInv'
<1>1. job[j] \in JobState /\ JobOk(job[j], indexed) /\ job[j].r \in Ranges /\ job[j].to \in Nat
  BY JobTyped DEF IInv, WriteProgress, JobOk, JobState
<1>2. job[j].to \in indexed
  BY <1>1, RangeBounds DEF WriteProgress, JobOk
<1>3. /\ progress' = IF job[j].to > job[j].cur THEN job[j].to ELSE progress
      /\ Step(j, NoJob) /\ UNCHANGED <<rng, lock, indexed>> /\ JobOnly
  BY DEF WriteProgress
<1>4. progress' \in Nat /\ ProgressIsReached'
  BY <1>1, <1>2, <1>3 DEF IInv, TypeInv, ProgressIsReached
<1>5. NoJob \in JobState /\ JobOk(NoJob, indexed')
  BY ConstantsTyped DEF NoJob, JobOk
<1>6. CompletedIsIndexed'
  BY <1>3 DEF IInv, CompletedIsIndexed
<1>7. QED BY <1>3, <1>4, <1>5, <1>6, JobStepKeeps DEF IInv, TypeInv

LEMMA JobReleaseGetKeeps ==
    ASSUME IInv, NEW j \in Jobs, JobReleaseGet(j)
    PROVE  IInv'
<1> DEFINE rec == Stored(job[j].r, job[j].to)
           w == [job[j] EXCEPT !.pc = IF rec.status = "processing" THEN "relSet" ELSE "relUnlock",
                               !.seen = rec]
<1>1. job[j] \in JobState /\ JobOk(job[j], indexed) /\ job[j].r \in Ranges /\ job[j].pc = "relGet"
  BY JobTyped DEF IInv, JobReleaseGet, JobOk
<1>2. rec \in Record
  BY <1>1, StoredTyped DEF IInv
<1>3. Step(j, w) /\ UNCHANGED <<rng, lock, progress, indexed>> /\ JobOnly
  BY DEF JobReleaseGet
<1> HIDE DEF rec
<1>4. w \in JobState /\ JobOk(w, indexed)
  BY <1>1, <1>2 DEF JobState, JobOk
<1> HIDE DEF w
<1>5. QED BY <1>3, <1>4, JobMoveKeeps DEF IInv, TypeInv

LEMMA JobReleaseSetKeeps ==
    ASSUME IInv, NEW j \in Jobs, JobReleaseSet(j)
    PROVE  IInv'
<1> DEFINE w == [job[j] EXCEPT !.pc = "relUnlock"]
           rec == [job[j].seen EXCEPT !.status = "failed"]
<1>1. job[j] \in JobState /\ JobOk(job[j], indexed) /\ job[j].r \in Ranges /\ job[j].seen \in Record
  BY JobTyped DEF IInv, JobReleaseSet, JobOk, JobState
<1>2. w \in JobState /\ JobOk(w, indexed)
  BY <1>1 DEF JobReleaseSet, JobState, JobOk
<1>3. rec \in Record /\ rec.status # "completed"
  BY <1>1, WithStatusTyped DEF Status
<1>4. /\ Step(j, w) /\ rng' = [rng EXCEPT ![job[j].r] = rec]
      /\ UNCHANGED <<lock, progress, indexed>> /\ JobOnly
  BY DEF JobReleaseSet, SetStatus
<1> HIDE DEF w, rec
<1>5. rng' \in [Ranges -> Record] /\ CompletedIsIndexed'
  BY <1>1, <1>3, <1>4, RecordKeeps DEF IInv
<1>6. ProgressIsReached'
  BY <1>4 DEF IInv, ProgressIsReached
<1>7. QED BY <1>2, <1>4, <1>5, <1>6, JobStepKeeps DEF IInv, TypeInv

LEMMA JobReleaseUnlockKeeps ==
    ASSUME IInv, NEW j \in Jobs, JobReleaseUnlock(j)
    PROVE  IInv'
<1> DEFINE w == [job[j] EXCEPT !.pc = "fetch", !.attempt = @ + 1, !.seen = Absent]
<1>1. job[j] \in JobState /\ JobOk(job[j], indexed) /\ job[j].r \in Ranges
  BY JobTyped DEF IInv, JobReleaseUnlock, JobOk
<1>2. /\ Step(j, IF job[j].attempt < MaxAttempts THEN w ELSE NoJob)
      /\ UNCHANGED <<rng, progress, indexed>> /\ JobOnly /\ DropLock(job[j].r, job[j].to, {})
  BY DEF JobReleaseUnlock
<1>3. w \in JobState /\ JobOk(w, indexed)
  <2>1. job[j].attempt + 1 \in Nat /\ job[j].pc = "relUnlock"
    BY <1>1 DEF JobReleaseUnlock, JobState
  <2>2. w \in JobState
    BY <1>1, <2>1, ConstantsTyped DEF JobState
  <2>3. w.pc = "fetch" /\ w.r = job[j].r /\ w.to = job[j].to
    BY <1>1 DEF JobState
  <2> HIDE DEF w
  <2>4. JobOk(w, indexed)
    BY <1>1, <2>1, <2>3 DEF JobOk
  <2>5. QED BY <2>2, <2>4
<1>4. NoJob \in JobState /\ JobOk(NoJob, indexed)
  BY ConstantsTyped DEF NoJob, JobOk
<1>5. lock' \in [Ranges -> Instances \cup {Nobody}]
  BY <1>1, <1>2, DropLockTyped DEF IInv
<1> HIDE DEF w
<1>6. QED BY <1>2, <1>3, <1>4, <1>5, JobMoveKeeps

LEMMA StallKeeps ==
    ASSUME IInv, NEW j \in Jobs, Stall(j)
    PROVE  IInv'
<1> DEFINE w == [job[j] EXCEPT !.pc = "fetch", !.seen = Absent, !.cur = 0]
<1>1. job[j] \in JobState /\ JobOk(job[j], indexed)
  BY JobTyped DEF IInv
<1>2. Step(j, w) /\ UNCHANGED <<rng, lock, progress, indexed>> /\ JobOnly
  BY DEF Stall
<1>3. w \in JobState /\ JobOk(w, indexed)
  BY <1>1, ConstantsTyped DEF Stall, JobState, JobOk
<1> HIDE DEF w
<1>4. QED BY <1>2, <1>3, JobMoveKeeps DEF IInv, TypeInv

-----------------------------------------------------------------------------
(* The theorems *)

LEMMA InitInv == Init => IInv
<1> SUFFICES ASSUME Init PROVE IInv
  OBVIOUS
<1>1. TypeInv
  BY IndexerAssumption, ConstantsTyped DEF Init, TypeInv
<1>2. CyclesOk /\ JobsOk
  BY ConstantsTyped DEF Init, CyclesOk, JobsOk, NoJob, JobOk
<1>3. CompletedIsIndexed /\ ProgressIsReached
  BY DEF Init, CompletedIsIndexed, ProgressIsReached, Absent
<1>4. QED BY <1>1, <1>2, <1>3 DEF IInv

LEMMA NextInv == IInv /\ [Next]_vars => IInv'
<1> SUFFICES ASSUME IInv, [Next]_vars PROVE IInv'
  OBVIOUS
<1>1. CASE Confirm \/ InitializeRange
  BY <1>1, EnvironmentKeeps
<1>2. ASSUME NEW i \in Instances, CycleStep(i) PROVE IInv'
  <2>1. CASE Poll(i) BY <2>1, PollKeeps
  <2>2. CASE \E r \in Ranges : ReadRecord(i, r) BY <2>2, ReadRecordKeeps
  <2>3. CASE NoneLeft(i) \/ Stopped(i) BY <2>3, ToIdleKeeps
  <2>4. CASE \E r \in Ranges : TryLock(i, r) BY <2>4, TryLockKeeps
  <2>5. CASE CheckRecord(i) BY <2>5, CheckRecordKeeps
  <2>6. CASE DropCandidate(i) BY <2>6, DropCandidateKeeps
  <2>7. CASE Acquire(i) BY <2>7, AcquireKeeps
  <2>8. CASE \E j \in Jobs : Enqueue(i, j) BY <2>8, EnqueueKeeps
  <2>9. CASE \E r \in Ranges : \E to \in First(r)..Last(r) : StopNext(i, r, to)
    BY <2>9, StopNextKeeps
  <2>10. CASE ReleaseGet(i) BY <2>10, ReleaseGetKeeps
  <2>11. CASE ReleaseSet(i) BY <2>11, ReleaseSetKeeps
  <2>12. CASE ReleaseUnlock(i) BY <2>12, ReleaseUnlockKeeps
  <2>13. QED
    BY <1>2, <2>1, <2>2, <2>3, <2>4, <2>5, <2>6, <2>7, <2>8, <2>9, <2>10, <2>11, <2>12
       DEF CycleStep
<1>3. ASSUME NEW j \in Jobs, JobStep(j) PROVE IInv'
  BY <1>3, FetchKeeps, CompleteGetKeeps, CompleteSetKeeps, CompleteUnlockKeeps, ReadProgressKeeps,
     WriteProgressKeeps, JobReleaseGetKeeps, JobReleaseSetKeeps, JobReleaseUnlockKeeps DEF JobStep
<1>4. CASE FaultStep
  BY <1>4, EnvironmentKeeps, StopKeeps, CrashKeeps, FetchFailsKeeps, StallKeeps DEF FaultStep
<1>5. CASE UNCHANGED vars
  BY <1>5 DEF vars, IInv, TypeInv, CyclesOk, JobsOk, CompletedIsIndexed, ProgressIsReached
<1>6. QED BY <1>1, <1>2, <1>3, <1>4, <1>5 DEF Next

LEMMA Invariant == Spec => []IInv
BY InitInv, NextInv, PTL DEF Spec

(* A range is marked completed only when all its blocks are indexed        *)
(* (markRangeComplete), in every scenario.                                 *)
THEOREM CompletedRangesAreIndexed == Spec => []CompletedIsIndexed
<1>1. IInv => CompletedIsIndexed
  BY DEF IInv
<1>2. QED BY <1>1, Invariant, PTL

(* The global progress is a block that was indexed (updateGlobalProgress). *)
THEOREM ProgressIsIndexed == Spec => []ProgressIsReached
<1>1. IInv => ProgressIsReached
  BY DEF IInv
<1>2. QED BY <1>1, Invariant, PTL

-----------------------------------------------------------------------------
(* One hand per range.  The facts below say who is at a range: a cycle     *)
(* that took its lock and is acquiring it (Acquires), one that writes its  *)
(* record next (Writes), a cycle or a job that holds it (CycleHas,         *)
(* JobHas).  OneHandPerRange counts the last two.  It is not inductive:    *)
(* that a second instance does not write the record of a range in hand     *)
(* follows from the status the first one left (Settled), and that two do   *)
(* not write it at once from the lock, unless one of them was robbed of    *)
(* it (OneHand).  The coordinator only writes records nobody has yet       *)
(* (NoneAhead), and without failed fetches and shutdowns nothing is        *)
(* released but what lies ahead of the safe head (Orderly).                *)

Calm == scenario.events \subseteq {"grow", "crash", "expire", "evict"}

Acquires(c, r) == c.r = r /\ c.pc \in {"check", "unlock", "write"}
Writes(c, r) == c.r = r /\ c.pc = "write"
CycleHas(c, r) == c.r = r /\ c.pc \in {"enqueue", "relGet", "relSet"}
JobHas(w, r) == w.r = r /\ w.pc \in Working

InHand(r) ==
    \/ \E i \in Instances : CycleHas(cycle[i], r)
    \/ \E j \in Jobs : JobHas(job[j], r)

Orderly ==
    /\ \A i \in Instances : cycle[i].pc # "stop" /\ ~cycle[i].stopping
    /\ \A j \in Jobs : job[j].pc \notin {"relGet", "relSet", "relUnlock"}

NoneAhead ==
    \A r \in Ranges : r > written =>
        /\ rng[r] = Absent
        /\ \A i \in Instances : ~Writes(cycle[i], r)
        /\ ~InHand(r)

OneHand(r) ==
    /\ \A i, k \in Instances : Acquires(cycle[i], r) /\ Acquires(cycle[k], r) => i = k
    /\ \A i \in Instances : Acquires(cycle[i], r) => lock[r] # Nobody
    /\ \A i, k \in Instances : CycleHas(cycle[i], r) /\ CycleHas(cycle[k], r) => i = k
    /\ \A j, k \in Jobs : JobHas(job[j], r) /\ JobHas(job[k], r) => j = k
    /\ \A i \in Instances, j \in Jobs : ~(CycleHas(cycle[i], r) /\ JobHas(job[j], r))

Settled(r) ==
    InHand(r) => /\ rng[r].status \in {"processing", "absent"}
                 /\ \A i \in Instances : ~Writes(cycle[i], r)

HandInv ==
    Calm => /\ Orderly /\ NoneAhead
            /\ \A r \in Ranges \ robbed : OneHand(r) /\ Settled(r)

LEMMA MovedTo ==
    ASSUME TypeInv, NEW i \in Instances, NEW c, Move(i, c)
    PROVE  cycle'[i] = c /\ \A k \in Instances \ {i} : cycle'[k] = cycle[k]
BY DEF TypeInv, Move

LEMMA SteppedTo ==
    ASSUME TypeInv, NEW j \in Jobs, NEW w, Step(j, w)
    PROVE  job'[j] = w /\ \A k \in Jobs \ {j} : job'[k] = job[k]
BY DEF TypeInv, Step

(* A cycle, or a job, that is at no range where it was not before. *)
CycleFades(c, d) ==
    \A r \in Ranges : /\ Acquires(c, r) => Acquires(d, r)
                      /\ Writes(c, r) => Writes(d, r)
                      /\ CycleHas(c, r) => CycleHas(d, r)

JobFades(w, v) == \A r \in Ranges : JobHas(w, r) => JobHas(v, r)

(* Deleting a lock leaves the range to nobody, or robs somebody. *)
LocksStand ==
    \A r \in Ranges \ robbed' :
        lock'[r] = lock[r] \/ \A i \in Instances : ~Acquires(cycle[i], r)'

LEMMA FadingKeeps ==
    ASSUME HandInv, UNCHANGED <<scenario, written, rng>>, robbed \subseteq robbed', LocksStand,
           \A i \in Instances : CycleFades(cycle'[i], cycle[i]),
           \A j \in Jobs : JobFades(job'[j], job[j]),
           Calm => Orderly'
    PROVE  HandInv'
<1> SUFFICES ASSUME Calm PROVE HandInv'
  BY DEF HandInv, Calm
<1>1. \A r \in Ranges : InHand(r)' => InHand(r)
  BY DEF InHand, CycleFades, JobFades
<1>2. NoneAhead'
  <2> SUFFICES ASSUME NEW r \in Ranges, r > written
               PROVE  rng[r] = Absent /\ (\A i \in Instances : ~Writes(cycle'[i], r)) /\ ~InHand(r)'
    BY DEF NoneAhead, Writes
  <2>1. rng[r] = Absent /\ (\A i \in Instances : ~Writes(cycle[i], r)) /\ ~InHand(r)
    BY DEF HandInv, NoneAhead
  <2>2. QED BY <2>1, <1>1 DEF CycleFades
<1>3. ASSUME NEW r \in Ranges, r \notin robbed' PROVE OneHand(r)' /\ Settled(r)'
  <2>1. OneHand(r) /\ Settled(r)
    BY <1>3 DEF HandInv
  <2>2. \A i \in Instances : /\ Acquires(cycle'[i], r) => Acquires(cycle[i], r)
                             /\ Writes(cycle'[i], r) => Writes(cycle[i], r)
                             /\ CycleHas(cycle'[i], r) => CycleHas(cycle[i], r)
    BY DEF CycleFades
  <2>3. \A j \in Jobs : JobHas(job'[j], r) => JobHas(job[j], r)
    BY DEF JobFades
  <2>4. \A i \in Instances : Acquires(cycle'[i], r) => lock'[r] # Nobody
    BY <1>3, <2>1, <2>2 DEF LocksStand, OneHand, Acquires
  <2>5. OneHand(r)'
    BY <2>1, <2>2, <2>3, <2>4 DEF OneHand, Acquires, CycleHas, JobHas
  <2>6. Settled(r)'
    BY <1>1, <2>1, <2>2 DEF Settled, Writes
  <2>7. QED BY <2>5, <2>6
<1>4. QED BY <1>2, <1>3 DEF HandInv

LEMMA FadesItself == \A c, w : CycleFades(c, c) /\ JobFades(w, w)
BY DEF CycleFades, JobFades

(* A cycle that moves on, with or without a lock deleted. *)
LEMMA CycleFading ==
    ASSUME TypeInv, HandInv, NEW i \in Instances, NEW c, Move(i, c), CycleFades(c, cycle[i]),
           Calm => c.pc # "stop" /\ ~c.stopping,
           UNCHANGED <<scenario, written, rng, job>>, robbed \subseteq robbed', LocksStand
    PROVE  HandInv'
<1>1. cycle'[i] = c /\ \A k \in Instances \ {i} : cycle'[k] = cycle[k]
  BY MovedTo
<1>2. \A k \in Instances : CycleFades(cycle'[k], cycle[k])
  BY <1>1, FadesItself
<1>3. Calm => Orderly'
  BY <1>1 DEF HandInv, Orderly
<1>4. \A j \in Jobs : JobFades(job'[j], job[j])
  BY FadesItself
<1>5. QED BY <1>2, <1>3, <1>4, FadingKeeps

LEMMA JobFading ==
    ASSUME TypeInv, HandInv, NEW j \in Jobs, NEW w, Step(j, w), JobFades(w, job[j]),
           Calm => w.pc \notin {"relGet", "relSet", "relUnlock"},
           UNCHANGED <<scenario, written, rng, cycle>>, robbed \subseteq robbed', LocksStand
    PROVE  HandInv'
<1>1. job'[j] = w /\ \A k \in Jobs \ {j} : job'[k] = job[k]
  BY SteppedTo
<1>2. \A k \in Jobs : JobFades(job'[k], job[k])
  BY <1>1, FadesItself
<1>3. Calm => Orderly'
  BY <1>1 DEF HandInv, Orderly
<1>4. \A i \in Instances : CycleFades(cycle'[i], cycle[i])
  BY FadesItself
<1>5. QED BY <1>2, <1>3, <1>4, FadingKeeps

LEMMA SameLocksStand == ASSUME UNCHANGED <<lock, robbed>> PROVE LocksStand /\ robbed \subseteq robbed'
BY DEF LocksStand

LEMMA DropLockStands ==
    ASSUME TypeInv, NEW r \in Ranges, NEW to, NEW caller, DropLock(r, to, caller),
           \A i \in Instances : Acquires(cycle[i], r)' => i \notin caller /\ Acquires(cycle[i], r)
    PROVE  LocksStand /\ robbed \subseteq robbed'
<1>1. CASE to # Last(r)
  BY <1>1 DEF DropLock, LocksStand
<1>2. CASE to = Last(r)
  <2>1. /\ \A q \in Ranges \ {r} : lock'[q] = lock[q]
        /\ robbed' = IF Acquirers(r) \subseteq caller THEN robbed ELSE robbed \cup {r}
    BY <1>2 DEF DropLock, TypeInv
  <2>2. r \notin robbed' => \A i \in Instances : ~Acquires(cycle[i], r)'
    BY <2>1 DEF Acquirers, Acquires
  <2>3. QED BY <2>1, <2>2 DEF LocksStand
<1>3. QED BY <1>1, <1>2

(* The steps of a cycle that give nothing to it. *)
LEMMA QuietCycleKeepsHands ==
    ASSUME IInv, HandInv, NEW i \in Instances,
           \/ Poll(i) \/ NoneLeft(i) \/ Stopped(i) \/ Crash(i) \/ ReleaseGet(i)
           \/ \E r \in Ranges : ReadRecord(i, r)
    PROVE  HandInv'
<1>0. /\ TypeInv /\ cycle[i] \in CycleState
      /\ Calm => cycle[i].pc # "stop" /\ ~cycle[i].stopping
  BY CycleTyped DEF IInv, HandInv, Orderly
<1>1. UNCHANGED <<scenario, written, rng, job, lock, robbed>>
  BY DEF Poll, NoneLeft, Stopped, Crash, ReleaseGet, ReadRecord, CycleOnly
<1>2. PICK c : /\ Move(i, c) /\ CycleFades(c, cycle[i])
               /\ Calm => c.pc # "stop" /\ ~c.stopping
  <2>1. CASE Poll(i)
    <3>1. PICK all, c : /\ Move(i, c)
                        /\ c = Idle \/ c = [Idle EXCEPT !.pc = "list", !.left = all, !.safe = head]
      BY <2>1 DEF Poll, Loop
    <3>2. Idle \in CycleState /\ Idle.pc = "idle" /\ ~Idle.stopping
      BY ConstantsTyped DEF Idle
    <3>3. c.pc \in {"idle", "list"} /\ ~c.stopping
      BY <3>1, <3>2 DEF CycleState
    <3>4. QED BY <3>1, <3>3 DEF CycleFades, Acquires, Writes, CycleHas
  <2>2. CASE NoneLeft(i) \/ Stopped(i) \/ Crash(i)
    <3>1. Move(i, Idle) /\ Idle.pc = "idle" /\ ~Idle.stopping
      BY <2>2 DEF NoneLeft, Stopped, Crash, Idle
    <3>2. QED BY <3>1 DEF CycleFades, Acquires, Writes, CycleHas
  <2>3. CASE ReleaseGet(i)
    <3>1. PICK c : /\ Move(i, c) /\ cycle[i].pc = "relGet"
                   /\ \E q \in {"relSet", "relUnlock"}, s \in {Stored(cycle[i].r, cycle[i].to)} :
                            c = [cycle[i] EXCEPT !.pc = q, !.seen = s]
      BY <2>3 DEF ReleaseGet
    <3>2. c.r = cycle[i].r /\ c.pc \in {"relSet", "relUnlock"} /\ c.stopping = cycle[i].stopping
      BY <1>0, <3>1 DEF CycleState
    <3>3. QED BY <1>0, <3>1, <3>2 DEF CycleFades, Acquires, Writes, CycleHas
  <2>4. CASE \E r \in Ranges : ReadRecord(i, r)
    <3>1. PICK c : Move(i, c) /\ \E A, B : c = [cycle[i] EXCEPT !.left = A, !.cand = B]
      BY <2>4 DEF ReadRecord
    <3>2. c.r = cycle[i].r /\ c.pc = cycle[i].pc /\ c.stopping = cycle[i].stopping
      BY <1>0, <3>1 DEF CycleState
    <3>3. QED BY <1>0, <3>1, <3>2 DEF CycleFades, Acquires, Writes, CycleHas
  <2>5. QED BY <2>1, <2>2, <2>3, <2>4
<1>3. QED BY <1>0, <1>1, <1>2, SameLocksStand, CycleFading

LEMMA NoStopWhenCalm ==
    ASSUME NEW i \in Instances, Stop(i)
    PROVE  ~Calm
BY DEF Stop, Calm

LEMMA StopsKeepHands ==
    ASSUME IInv, HandInv, NEW i \in Instances,
           Stop(i) \/ \E r \in Ranges : \E to \in First(r)..Last(r) : StopNext(i, r, to)
    PROVE  HandInv'
<1>1. UNCHANGED scenario
  BY DEF Stop, StopNext, CycleOnly
<1>2. ~Calm
  BY NoStopWhenCalm DEF StopNext, HandInv, Orderly
<1>3. QED BY <1>1, <1>2 DEF HandInv, Calm

(* The lock is free, so nobody but the one that takes it is acquiring.     *)
LEMMA TryLockKeepsHands ==
    ASSUME IInv, HandInv, NEW i \in Instances, NEW q \in Ranges, TryLock(i, q)
    PROVE  HandInv'
<1>0. /\ TypeInv /\ cycle[i] \in CycleState
      /\ UNCHANGED <<scenario, written, rng, job, robbed>>
  BY CycleTyped DEF IInv, TryLock, CycleOnly
<1>1. CASE UNCHANGED lock /\ Move(i, [cycle[i] EXCEPT !.cand = @ \ {q}])
  <2>1. PICK c : Move(i, c) /\ c = [cycle[i] EXCEPT !.cand = @ \ {q}]
    BY <1>1
  <2>2. c.r = cycle[i].r /\ c.pc = cycle[i].pc /\ c.stopping = cycle[i].stopping
    BY <1>0, <2>1 DEF CycleState
  <2>3. CycleFades(c, cycle[i])
    BY <2>2 DEF CycleFades, Acquires, Writes, CycleHas
  <2>4. Calm => c.pc # "stop" /\ ~c.stopping
    BY <2>2 DEF HandInv, Orderly
  <2>5. QED BY <1>0, <1>1, <2>1, <2>3, <2>4, SameLocksStand, CycleFading
<1>2. CASE /\ lock[q] = Nobody /\ lock' = [lock EXCEPT ![q] = i]
           /\ Move(i, [cycle[i] EXCEPT !.pc = "check", !.r = q])
  <2> SUFFICES ASSUME Calm PROVE HandInv'
    BY <1>0 DEF HandInv, Calm
  <2>1. PICK c : Move(i, c) /\ c = [cycle[i] EXCEPT !.pc = "check", !.r = q]
    BY <1>2
  <2>2. c.r = q /\ c.pc = "check" /\ c.stopping = cycle[i].stopping
    BY <1>0, <2>1 DEF CycleState
  <2>3. cycle'[i] = c /\ \A k \in Instances \ {i} : cycle'[k] = cycle[k]
    BY <1>0, <2>1, MovedTo
  <2>4. lock'[q] = i /\ i # Nobody /\ \A r \in Ranges \ {q} : lock'[r] = lock[r]
    BY <1>0, <1>2, IndexerAssumption DEF TypeInv
  <2>5. Orderly'
    BY <1>0, <2>2, <2>3 DEF HandInv, Orderly
  <2>6. \A k \in Instances, r \in Ranges : /\ Writes(cycle'[k], r) => Writes(cycle[k], r)
                                           /\ CycleHas(cycle'[k], r) => CycleHas(cycle[k], r)
    BY <2>2, <2>3 DEF Writes, CycleHas
  <2>7. \A r \in Ranges : InHand(r)' => InHand(r)
    BY <1>0, <2>6 DEF InHand
  <2>8. NoneAhead'
    BY <1>0, <2>6, <2>7 DEF HandInv, NoneAhead, Writes
  <2>9. ASSUME NEW r \in Ranges, r \notin robbed' PROVE OneHand(r)' /\ Settled(r)'
    <3>1. OneHand(r) /\ Settled(r)
      BY <1>0, <2>9 DEF HandInv
    <3>2. \A k \in Instances \ {i} : Acquires(cycle'[k], r) => Acquires(cycle[k], r) /\ r # q
      BY <1>2, <2>3, <3>1 DEF OneHand
    <3>3. Acquires(cycle'[i], r) => r = q
      BY <2>2, <2>3 DEF Acquires
    <3>4. /\ \A k, l \in Instances : Acquires(cycle'[k], r) /\ Acquires(cycle'[l], r) => k = l
          /\ \A k \in Instances : Acquires(cycle'[k], r) => lock'[r] # Nobody
      BY <2>4, <3>1, <3>2, <3>3 DEF OneHand
    <3>5. OneHand(r)'
      BY <1>0, <2>6, <3>1, <3>4 DEF OneHand, Acquires, CycleHas, JobHas
    <3>6. Settled(r)'
      BY <1>0, <2>6, <2>7, <3>1 DEF Settled, Writes
    <3>7. QED BY <3>5, <3>6
  <2>10. QED BY <2>5, <2>8, <2>9 DEF HandInv
<1>3. QED BY <1>1, <1>2 DEF TryLock

(* A record that is not refused is that of a range in nobody's hand.       *)
LEMMA CheckRecordKeepsHands ==
    ASSUME IInv, HandInv, NEW i \in Instances, CheckRecord(i)
    PROVE  HandInv'
<1> DEFINE q == cycle[i].r
<1>0. /\ TypeInv /\ cycle[i] \in CycleState /\ q \in Ranges /\ cycle[i].pc = "check"
      /\ UNCHANGED <<scenario, written, rng, job, lock, robbed>>
  BY CycleTyped DEF IInv, CheckRecord, CycleOnly, CycleOk
<1> SUFFICES ASSUME Calm PROVE HandInv'
  BY <1>0 DEF HandInv, Calm
<1>1. PICK c : /\ Move(i, c)
               /\ c = [cycle[i] EXCEPT !.pc = IF Refused(rng[q]) THEN "unlock" ELSE "write",
                                       !.seen = rng[q]]
  BY DEF CheckRecord
<1>2. /\ c.r = q /\ c.stopping = cycle[i].stopping
      /\ c.pc = IF Refused(rng[q]) THEN "unlock" ELSE "write"
  BY <1>0, <1>1 DEF CycleState
<1>3. cycle'[i] = c /\ \A k \in Instances \ {i} : cycle'[k] = cycle[k]
  BY <1>0, <1>1, MovedTo
<1>4. Orderly'
  BY <1>0, <1>2, <1>3 DEF HandInv, Orderly
<1>5. \A k \in Instances, r \in Ranges :
          /\ Acquires(cycle'[k], r) <=> Acquires(cycle[k], r)
          /\ CycleHas(cycle'[k], r) => CycleHas(cycle[k], r)
          /\ Writes(cycle'[k], r) => Writes(cycle[k], r) \/ (r = q /\ ~Refused(rng[q]))
  BY <1>0, <1>2, <1>3 DEF Acquires, CycleHas, Writes
<1>6. \A r \in Ranges : InHand(r)' => InHand(r)
  BY <1>0, <1>5 DEF InHand
<1>7. NoneAhead'
  <2>1. \A r \in Ranges : r > written => rng[r] = Absent /\ Refused(rng[r])
    BY DEF HandInv, NoneAhead, Refused, Absent
  <2>2. QED BY <1>0, <1>5, <1>6, <2>1 DEF HandInv, NoneAhead, Writes
<1>8. ASSUME NEW r \in Ranges, r \notin robbed' PROVE OneHand(r)' /\ Settled(r)'
  <2>1. OneHand(r) /\ Settled(r)
    BY <1>0, <1>8 DEF HandInv
  <2>2. OneHand(r)'
    BY <1>0, <1>5, <2>1 DEF OneHand, Acquires, CycleHas, JobHas
  <2>3. InHand(r) /\ r = q => Refused(rng[q])
    BY <2>1 DEF Settled, Refused
  <2>4. Settled(r)'
    BY <1>0, <1>5, <1>6, <2>1, <2>3 DEF Settled, Writes
  <2>5. QED BY <2>2, <2>4
<1>9. QED BY <1>4, <1>7, <1>8 DEF HandInv

(* The cycle goes from acquiring to holding: it was the only one to        *)
(* acquire, and nobody held the range.                                     *)
LEMMA AcquireKeepsHands ==
    ASSUME IInv, HandInv, NEW i \in Instances, Acquire(i)
    PROVE  HandInv'
<1> PICK q : q = cycle[i].r
  OBVIOUS
<1>0. /\ TypeInv /\ cycle[i] \in CycleState /\ q \in Ranges /\ cycle[i].pc = "write"
      /\ UNCHANGED <<scenario, written, job, lock, robbed>>
  BY CycleTyped DEF IInv, Acquire, CycleOnly, CycleOk
<1> SUFFICES ASSUME Calm PROVE HandInv'
  BY <1>0 DEF HandInv, Calm
<1>1. PICK c : /\ Move(i, c)
               /\ \/ c = [cycle[i] EXCEPT !.pc = "relGet", !.to = Last(q), !.cand = {}, !.seen = Absent]
                  \/ c = [cycle[i] EXCEPT !.pc = "enqueue", !.cand = {}, !.seen = Absent]
  BY DEF Acquire
<1>2. c.r = q /\ c.stopping = cycle[i].stopping /\ c.pc \in {"relGet", "enqueue"}
  BY <1>0, <1>1 DEF CycleState
<1>3. cycle'[i] = c /\ \A k \in Instances \ {i} : cycle'[k] = cycle[k]
  BY <1>0, <1>1, MovedTo
<1>4. rng'[q].status = "processing" /\ \A r \in Ranges \ {q} : rng'[r] = rng[r]
  <2>1. rng' = [rng EXCEPT ![q] = Taken(cycle[i].seen)] /\ cycle[i].seen \in Record
    BY <1>0 DEF Acquire, CycleState
  <2>2. QED BY <1>0, <2>1, TakenTyped DEF TypeInv
<1>5. Orderly'
  BY <1>0, <1>2, <1>3 DEF HandInv, Orderly
<1>6. /\ \A k \in Instances, r \in Ranges :
             /\ Acquires(cycle'[k], r) => Acquires(cycle[k], r) /\ k # i
             /\ CycleHas(cycle'[k], r) => CycleHas(cycle[k], r) \/ (k = i /\ r = q)
             /\ Writes(cycle'[k], r) => Writes(cycle[k], r) /\ k # i
      /\ Acquires(cycle[i], q) /\ Writes(cycle[i], q)
  BY <1>0, <1>2, <1>3 DEF Acquires, CycleHas, Writes
<1>7. ~(q > written)
  BY <1>0, <1>6 DEF HandInv, NoneAhead
<1>8. \A r \in Ranges \ {q} : InHand(r)' => InHand(r)
  BY <1>0, <1>6 DEF InHand
<1>9. NoneAhead'
  BY <1>0, <1>4, <1>6, <1>7, <1>8 DEF HandInv, NoneAhead, Writes
<1>10. ASSUME NEW r \in Ranges, r \notin robbed' PROVE OneHand(r)' /\ Settled(r)'
  <2>1. OneHand(r) /\ Settled(r)
    BY <1>0, <1>10 DEF HandInv
  <2>2. CASE r # q
    <3>1. OneHand(r)'
      BY <1>0, <1>6, <2>1, <2>2 DEF OneHand, Acquires, CycleHas, JobHas
    <3>2. Settled(r)'
      BY <1>0, <1>4, <1>6, <1>8, <2>1, <2>2 DEF Settled, Writes
    <3>3. QED BY <3>1, <3>2
  <2>3. CASE r = q
    <3>1. ~InHand(q)
      BY <1>6, <2>1, <2>3 DEF Settled
    <3>2. \A k \in Instances : ~Acquires(cycle'[k], q) /\ ~Writes(cycle'[k], q)
      BY <1>6, <2>1, <2>3 DEF OneHand, Acquires, Writes
    <3>3. OneHand(q)'
      BY <1>0, <1>6, <3>1, <3>2 DEF OneHand, Acquires, CycleHas, JobHas, InHand
    <3>4. Settled(q)'
      BY <1>4, <3>2 DEF Settled, Writes
    <3>5. QED BY <2>3, <3>3, <3>4
  <2>4. QED BY <2>2, <2>3
<1>11. QED BY <1>5, <1>9, <1>10 DEF HandInv

LEMMA UnlockingKeepsHands ==
    ASSUME IInv, HandInv, NEW i \in Instances, DropCandidate(i) \/ ReleaseUnlock(i)
    PROVE  HandInv'
<1>0. /\ TypeInv /\ cycle[i] \in CycleState /\ cycle[i].r \in Ranges
      /\ Calm => cycle[i].pc # "stop" /\ ~cycle[i].stopping
      /\ UNCHANGED <<scenario, written, rng, job>>
  BY CycleTyped DEF IInv, HandInv, Orderly, DropCandidate, ReleaseUnlock, CycleOnly, CycleOk
<1>1. PICK to, c : /\ Move(i, c) /\ DropLock(cycle[i].r, to, {i})
                   /\ c.pc \in {"list", "idle", "stop"} /\ (Calm => c.pc # "stop" /\ ~c.stopping)
  <2>1. CASE DropCandidate(i)
    <3>1. PICK c, A : /\ Move(i, c) /\ DropLock(cycle[i].r, Last(cycle[i].r), {i})
                      /\ c = [cycle[i] EXCEPT !.pc = "list", !.cand = A, !.r = 0, !.seen = Absent]
      BY <2>1 DEF DropCandidate
    <3>2. c.pc = "list" /\ c.stopping = cycle[i].stopping
      BY <1>0, <3>1 DEF CycleState
    <3>3. QED BY <1>0, <3>1, <3>2
  <2>2. CASE ReleaseUnlock(i)
    <3>1. PICK c : /\ Move(i, c) /\ DropLock(cycle[i].r, cycle[i].to, {i})
                   /\ c = IF cycle[i].stopping THEN [Idle EXCEPT !.pc = "stop", !.stopping = TRUE]
                                               ELSE Idle
      BY <2>2 DEF ReleaseUnlock
    <3>2. c.pc \in {"idle", "stop"} /\ (~cycle[i].stopping => c.pc = "idle" /\ ~c.stopping)
      BY <3>1 DEF Idle
    <3>3. QED BY <1>0, <3>1, <3>2
  <2>3. QED BY <2>1, <2>2
<1>2. cycle'[i] = c /\ \A k \in Instances \ {i} : cycle'[k] = cycle[k]
  BY <1>0, <1>1, MovedTo
<1>3. \A k \in Instances, r \in Ranges : Acquires(cycle[k], r)' => k # i /\ Acquires(cycle[k], r)
  BY <1>1, <1>2 DEF Acquires
<1>4. LocksStand /\ robbed \subseteq robbed'
  <2>1. PICK q \in Ranges : q = cycle[i].r
    BY <1>0
  <2>2. QED BY <1>0, <1>1, <1>3, <2>1, DropLockStands
<1>5. CycleFades(c, cycle[i])
  BY <1>1 DEF CycleFades, Acquires, Writes, CycleHas
<1>6. QED BY <1>0, <1>1, <1>4, <1>5, CycleFading

(* The holder writes what became of the range and has it no more: it was   *)
(* the only one.                                                           *)
LEMMA ReleaseSetKeepsHands ==
    ASSUME IInv, HandInv, NEW i \in Instances, ReleaseSet(i)
    PROVE  HandInv'
<1>0. PICK q \in Ranges : q = cycle[i].r
  BY CycleTyped DEF IInv, ReleaseSet, CycleOk
<1>1. /\ TypeInv /\ cycle[i] \in CycleState /\ cycle[i].pc = "relSet"
      /\ UNCHANGED <<scenario, written, job, lock, robbed>>
      /\ \A r \in Ranges \ {q} : rng'[r] = rng[r]
  BY <1>0, CycleTyped DEF IInv, TypeInv, ReleaseSet, CycleOnly, SetStatus
<1> SUFFICES ASSUME Calm PROVE HandInv'
  BY <1>1 DEF HandInv, Calm
<1>2. PICK c : Move(i, c) /\ c = [cycle[i] EXCEPT !.pc = "relUnlock"]
  BY DEF ReleaseSet
<1>3. c.r = q /\ c.stopping = cycle[i].stopping /\ c.pc = "relUnlock"
  BY <1>0, <1>1, <1>2 DEF CycleState
<1>4. cycle'[i] = c /\ \A k \in Instances \ {i} : cycle'[k] = cycle[k]
  BY <1>1, <1>2, MovedTo
<1>5. Orderly'
  BY <1>1, <1>3, <1>4 DEF HandInv, Orderly
<1>6. /\ \A k \in Instances, r \in Ranges :
             /\ Acquires(cycle'[k], r) => Acquires(cycle[k], r)
             /\ CycleHas(cycle'[k], r) => CycleHas(cycle[k], r) /\ k # i
             /\ Writes(cycle'[k], r) => Writes(cycle[k], r)
      /\ CycleHas(cycle[i], q)
  BY <1>0, <1>1, <1>3, <1>4 DEF Acquires, CycleHas, Writes
<1>7. ~(q > written)
  BY <1>6 DEF HandInv, NoneAhead, InHand
<1>8. \A r \in Ranges : InHand(r)' => InHand(r)
  BY <1>1, <1>6 DEF InHand
<1>9. NoneAhead'
  BY <1>1, <1>6, <1>7, <1>8 DEF HandInv, NoneAhead, Writes
<1>10. ASSUME NEW r \in Ranges, r \notin robbed' PROVE OneHand(r)' /\ Settled(r)'
  <2>1. OneHand(r) /\ Settled(r)
    BY <1>1, <1>10 DEF HandInv
  <2>2. OneHand(r)'
    BY <1>1, <1>6, <2>1 DEF OneHand, Acquires, CycleHas, JobHas
  <2>3. r = q => ~InHand(r)'
    BY <1>1, <1>6, <2>1 DEF OneHand, InHand
  <2>4. Settled(r)'
    BY <1>1, <1>6, <1>8, <2>1, <2>3 DEF Settled, Writes
  <2>5. QED BY <2>2, <2>4
<1>11. QED BY <1>5, <1>9, <1>10 DEF HandInv

LEMMA CompleteSetKeepsHands ==
    ASSUME IInv, HandInv, NEW j \in Jobs, CompleteSet(j)
    PROVE  HandInv'
<1>0. PICK q \in Ranges : q = job[j].r
  BY JobTyped DEF IInv, CompleteSet, JobOk
<1>1. /\ TypeInv /\ job[j] \in JobState /\ job[j].pc = "set"
      /\ UNCHANGED <<scenario, written, cycle, lock, robbed>>
      /\ \A r \in Ranges \ {q} : rng'[r] = rng[r]
  BY <1>0, JobTyped DEF IInv, TypeInv, CompleteSet, JobOnly, SetStatus
<1> SUFFICES ASSUME Calm PROVE HandInv'
  BY <1>1 DEF HandInv, Calm
<1>2. PICK w : Step(j, w) /\ w = [job[j] EXCEPT !.pc = "unlock", !.seen = Absent]
  BY DEF CompleteSet
<1>3. w.r = q /\ w.pc = "unlock"
  BY <1>0, <1>1, <1>2 DEF JobState
<1>4. job'[j] = w /\ \A k \in Jobs \ {j} : job'[k] = job[k]
  BY <1>1, <1>2, SteppedTo
<1>5. Orderly'
  BY <1>1, <1>3, <1>4 DEF HandInv, Orderly
<1>6. /\ \A k \in Jobs, r \in Ranges : JobHas(job'[k], r) => JobHas(job[k], r) /\ k # j
      /\ JobHas(job[j], q)
  BY <1>0, <1>1, <1>3, <1>4 DEF JobHas, Working
<1>7. ~(q > written)
  BY <1>6 DEF HandInv, NoneAhead, InHand
<1>8. \A r \in Ranges : InHand(r)' => InHand(r)
  BY <1>1, <1>6 DEF InHand
<1>9. NoneAhead'
  BY <1>1, <1>7, <1>8 DEF HandInv, NoneAhead, Writes
<1>10. ASSUME NEW r \in Ranges, r \notin robbed' PROVE OneHand(r)' /\ Settled(r)'
  <2>1. OneHand(r) /\ Settled(r)
    BY <1>1, <1>10 DEF HandInv
  <2>2. OneHand(r)'
    BY <1>1, <1>6, <2>1 DEF OneHand, Acquires, CycleHas, JobHas
  <2>3. r = q => ~InHand(r)'
    BY <1>1, <1>6, <2>1 DEF OneHand, InHand
  <2>4. Settled(r)'
    BY <1>1, <1>8, <2>1, <2>3 DEF Settled, Writes
  <2>5. QED BY <2>2, <2>4
<1>11. QED BY <1>5, <1>9, <1>10 DEF HandInv

(* The range goes from the cycle to a job that was free. *)
LEMMA EnqueueKeepsHands ==
    ASSUME IInv, HandInv, NEW i \in Instances, NEW j \in Jobs, Enqueue(i, j)
    PROVE  HandInv'
<1>0. PICK q \in Ranges : q = cycle[i].r
  BY CycleTyped DEF IInv, Enqueue, CycleOk
<1>1. /\ TypeInv /\ cycle[i] \in CycleState /\ cycle[i].pc = "enqueue" /\ job[j].pc = "none"
      /\ UNCHANGED <<scenario, written, rng, lock, robbed>>
  BY CycleTyped DEF IInv, Enqueue
<1> SUFFICES ASSUME Calm PROVE HandInv'
  BY <1>1 DEF HandInv, Calm
<1>2. PICK to, w : Step(j, w) /\ w = [NoJob EXCEPT !.pc = "fetch", !.r = q, !.to = to, !.attempt = 1]
  BY <1>0 DEF Enqueue, Step
<1>3. w.r = q /\ w.pc = "fetch"
  BY <1>2 DEF NoJob
<1>4. job'[j] = w /\ \A k \in Jobs \ {j} : job'[k] = job[k]
  BY <1>1, <1>2, SteppedTo
<1>5. PICK all, safe, c : /\ Move(i, c)
                          /\ c = Idle \/ c = [Idle EXCEPT !.pc = "list", !.left = all, !.safe = safe]
  BY DEF Enqueue, Loop
<1>6. c.pc \in {"idle", "list"} /\ ~c.stopping
  <2>1. Idle \in CycleState /\ Idle.pc = "idle" /\ ~Idle.stopping
    BY ConstantsTyped DEF Idle
  <2>2. QED BY <1>5, <2>1 DEF CycleState
<1>7. cycle'[i] = c /\ \A k \in Instances \ {i} : cycle'[k] = cycle[k]
  BY <1>1, <1>5, MovedTo
<1>8. Orderly'
  BY <1>3, <1>4, <1>6, <1>7 DEF HandInv, Orderly
<1>9. /\ \A k \in Instances, r \in Ranges :
             /\ Acquires(cycle'[k], r) => Acquires(cycle[k], r)
             /\ CycleHas(cycle'[k], r) => CycleHas(cycle[k], r) /\ k # i
             /\ Writes(cycle'[k], r) => Writes(cycle[k], r)
      /\ CycleHas(cycle[i], q)
  BY <1>0, <1>1, <1>6, <1>7 DEF Acquires, CycleHas, Writes
<1>10. \A k \in Jobs, r \in Ranges : JobHas(job'[k], r) => JobHas(job[k], r) \/ (k = j /\ r = q)
  BY <1>3, <1>4 DEF JobHas
<1>11. ~(q > written)
  BY <1>9 DEF HandInv, NoneAhead, InHand
<1>12. \A r \in Ranges : InHand(r)' => InHand(r)
  BY <1>9, <1>10 DEF InHand
<1>13. NoneAhead'
  BY <1>1, <1>9, <1>12 DEF HandInv, NoneAhead, Writes
<1>14. ASSUME NEW r \in Ranges, r \notin robbed' PROVE OneHand(r)' /\ Settled(r)'
  <2>1. OneHand(r) /\ Settled(r)
    BY <1>1, <1>14 DEF HandInv
  <2>2. r = q => \A k \in Jobs : ~JobHas(job[k], r)
    BY <1>9, <2>1 DEF OneHand
  <2>3. r = q => \A k \in Instances : ~CycleHas(cycle'[k], r)
    BY <1>9, <2>1 DEF OneHand
  <2>4. OneHand(r)'
    BY <1>1, <1>9, <1>10, <2>1, <2>2, <2>3 DEF OneHand, Acquires, CycleHas, JobHas
  <2>5. Settled(r)'
    BY <1>1, <1>9, <1>12, <2>1 DEF Settled, Writes
  <2>6. QED BY <2>4, <2>5
<1>15. QED BY <1>8, <1>13, <1>14 DEF HandInv

LEMMA QuietJobKeepsHands ==
    ASSUME IInv, HandInv, NEW j \in Jobs,
           \/ Fetch(j) \/ CompleteGet(j) \/ CompleteUnlock(j) \/ ReadProgress(j) \/ WriteProgress(j)
    PROVE  HandInv'
<1>1. /\ TypeInv /\ job[j] \in JobState /\ job[j].r \in Ranges
      /\ UNCHANGED <<scenario, written, rng, cycle>>
  BY JobTyped DEF IInv, Fetch, CompleteGet, CompleteUnlock, ReadProgress, WriteProgress, JobOnly, JobOk
<1>2. LocksStand /\ robbed \subseteq robbed'
  <2>1. CASE CompleteUnlock(j)
    <3>1. PICK r, to : r \in Ranges /\ DropLock(r, to, {})
      BY <1>1, <2>1 DEF CompleteUnlock
    <3>2. \A i \in Instances : Acquires(cycle[i], r)' => Acquires(cycle[i], r)
      BY <1>1 DEF Acquires
    <3>3. QED BY <1>1, <3>1, <3>2, DropLockStands
  <2>2. CASE Fetch(j) \/ CompleteGet(j) \/ ReadProgress(j) \/ WriteProgress(j)
    BY <2>2, SameLocksStand DEF Fetch, CompleteGet, ReadProgress, WriteProgress
  <2>3. QED BY <2>1, <2>2
<1>3. PICK w : /\ Step(j, w)
               /\ \/ w = [job[j] EXCEPT !.pc = "get"] /\ job[j].pc = "fetch"
                  \/ \E p \in {"unlock", "set"}, s \in {Stored(job[j].r, job[j].to)} :
                         w = [job[j] EXCEPT !.pc = p, !.seen = s] /\ job[j].pc = "get"
                  \/ w = [job[j] EXCEPT !.pc = "readProgress", !.seen = Absent]
                  \/ w = [job[j] EXCEPT !.pc = "writeProgress", !.cur = progress]
                  \/ w = NoJob
  BY DEF Fetch, CompleteGet, CompleteUnlock, ReadProgress, WriteProgress
<1>4. \/ w.r = job[j].r /\ w.pc \in {"get", "set"} /\ job[j].pc \in {"fetch", "get"}
      \/ w.pc \in {"unlock", "readProgress", "writeProgress", "none"}
  <2>1. CASE w = NoJob
    BY <2>1 DEF NoJob
  <2>2. CASE w # NoJob
    BY <1>1, <1>3, <2>2 DEF JobState
  <2>3. QED BY <2>1, <2>2
<1>5. JobFades(w, job[j]) /\ w.pc \notin {"relGet", "relSet", "relUnlock"}
  BY <1>4 DEF JobFades, JobHas, Working
<1>6. QED BY <1>1, <1>2, <1>3, <1>5, JobFading

LEMMA OtherJobsKeepHands ==
    ASSUME HandInv, NEW j \in Jobs,
           \/ JobReleaseGet(j) \/ JobReleaseSet(j) \/ JobReleaseUnlock(j) \/ FetchFails(j) \/ Stall(j)
    PROVE  HandInv'
<1>1. UNCHANGED scenario
  BY DEF JobReleaseGet, JobReleaseSet, JobReleaseUnlock, FetchFails, Stall, JobOnly
<1>2. ~Calm
  <2>1. CASE JobReleaseGet(j) \/ JobReleaseSet(j) \/ JobReleaseUnlock(j)
    BY <2>1 DEF HandInv, Orderly, JobReleaseGet, JobReleaseSet, JobReleaseUnlock
  <2>2. CASE FetchFails(j) \/ Stall(j)
    BY <2>2 DEF Calm, FetchFails, Stall
  <2>3. QED BY <2>1, <2>2
<1>3. QED BY <1>1, <1>2 DEF HandInv, Calm

(* The coordinator writes the record of a range nobody has. *)
LEMMA InitializeKeepsHands ==
    ASSUME IInv, HandInv, InitializeRange
    PROVE  HandInv'
<1>0. PICK q : q = written + 1
  OBVIOUS
<1>1. /\ TypeInv /\ written \in Nat /\ written' = q
      /\ UNCHANGED <<scenario, lock, robbed, cycle, job>>
      /\ \A r \in Ranges \ {q} : rng'[r] = rng[r]
  BY <1>0 DEF IInv, TypeInv, InitializeRange
<1> SUFFICES ASSUME Calm PROVE HandInv'
  BY <1>1 DEF HandInv, Calm
<1>2. \A r \in Ranges : InHand(r)' = InHand(r)
  BY <1>1 DEF InHand
<1>3. q \in Ranges => ~InHand(q) /\ \A i \in Instances : ~Writes(cycle[i], q)
  BY <1>0, <1>1 DEF HandInv, NoneAhead
<1>4. Orderly'
  BY <1>1 DEF HandInv, Orderly
<1>5. NoneAhead'
  <2>1. \A r \in Ranges : r > q => r > written /\ r # q
    BY <1>0, <1>1 DEF Ranges
  <2>2. QED BY <1>1, <1>2, <2>1 DEF HandInv, NoneAhead, Writes
<1>6. ASSUME NEW r \in Ranges, r \notin robbed' PROVE OneHand(r)' /\ Settled(r)'
  <2>1. OneHand(r) /\ Settled(r)
    BY <1>1, <1>6 DEF HandInv
  <2>2. OneHand(r)'
    BY <1>1, <2>1 DEF OneHand, Acquires, CycleHas, JobHas
  <2>3. Settled(r)'
    BY <1>1, <1>2, <1>3, <2>1 DEF Settled, Writes
  <2>4. QED BY <2>2, <2>3
<1>7. QED BY <1>4, <1>5, <1>6 DEF HandInv

LEMMA EvictKeepsHands ==
    ASSUME IInv, HandInv, NEW q \in Ranges, Evict(q)
    PROVE  HandInv'
<1>1. /\ UNCHANGED <<scenario, written, robbed, cycle, job>>
      /\ rng'[q] = Absent /\ \A r \in Ranges \ {q} : rng'[r] = rng[r]
      /\ \A r \in Ranges \ {q} : lock'[r] = lock[r]
      /\ \A i \in Instances : ~Acquires(cycle[i], q)
  BY DEF IInv, TypeInv, Evict, Acquiring, Acquirers, Acquires
<1> SUFFICES ASSUME Calm PROVE HandInv'
  BY <1>1 DEF HandInv, Calm
<1>2. \A r \in Ranges : InHand(r)' = InHand(r)
  BY <1>1 DEF InHand
<1>3. Orderly' /\ NoneAhead'
  BY <1>1, <1>2 DEF HandInv, Orderly, NoneAhead, Writes
<1>4. ASSUME NEW r \in Ranges, r \notin robbed' PROVE OneHand(r)' /\ Settled(r)'
  <2>1. OneHand(r) /\ Settled(r)
    BY <1>1, <1>4 DEF HandInv
  <2>2. OneHand(r)'
    BY <1>1, <2>1 DEF OneHand, Acquires, CycleHas, JobHas
  <2>3. r = q => rng'[r].status = "absent"
    BY <1>1 DEF Absent
  <2>4. Settled(r)'
    BY <1>1, <1>2, <2>1, <2>3 DEF Settled, Writes
  <2>5. QED BY <2>2, <2>4
<1>5. QED BY <1>3, <1>4 DEF HandInv

LEMMA EnvironmentKeepsHands ==
    ASSUME IInv, HandInv, Confirm \/ Restart \/ \E r \in Ranges : Expire(r)
    PROVE  HandInv'
<1>1. CASE Restart
  BY <1>1 DEF HandInv, Calm, Restart
<1>2. CASE Confirm \/ \E r \in Ranges : Expire(r)
  <2>1. UNCHANGED <<scenario, written, robbed, cycle, job, rng>>
    BY <1>2 DEF Confirm, Expire
  <2>2. LocksStand
    <3>1. CASE Confirm
      BY <3>1, SameLocksStand DEF Confirm
    <3>2. ASSUME NEW r \in Ranges, Expire(r) PROVE LocksStand
      <4>1. \A q \in Ranges \ {r} : lock'[q] = lock[q]
        BY <3>2 DEF IInv, TypeInv, Expire
      <4>2. \A i \in Instances : ~Acquires(cycle[i], r)'
        BY <2>1, <3>2 DEF Expire, Acquiring, Acquirers, Acquires
      <4>3. QED BY <4>1, <4>2 DEF LocksStand
    <3>3. QED BY <1>2, <3>1, <3>2
  <2>3. /\ \A i \in Instances : CycleFades(cycle'[i], cycle[i])
        /\ \A j \in Jobs : JobFades(job'[j], job[j])
    BY <2>1, FadesItself
  <2>4. Calm => Orderly'
    BY <2>1 DEF HandInv, Orderly
  <2>5. QED BY <2>1, <2>2, <2>3, <2>4, FadingKeeps
<1>3. QED BY <1>1, <1>2

LEMMA InitHands == Init => HandInv
<1> SUFFICES ASSUME Init PROVE HandInv
  OBVIOUS
<1>1. /\ \A i \in Instances : cycle[i].pc = "idle" /\ ~cycle[i].stopping
      /\ \A j \in Jobs : job[j].pc = "none"
      /\ \A r \in Ranges : rng[r] = Absent
  BY DEF Init, Idle, NoJob
<1>2. \A r \in Ranges : ~InHand(r)
  BY <1>1 DEF InHand, CycleHas, JobHas, Working
<1>3. Orderly
  BY <1>1 DEF Orderly
<1>4. NoneAhead
  BY <1>1, <1>2 DEF NoneAhead, Writes
<1>5. \A r \in Ranges : OneHand(r) /\ Settled(r)
  BY <1>1, <1>2 DEF OneHand, Settled, InHand, Acquires
<1>6. QED BY <1>3, <1>4, <1>5 DEF HandInv

LEMMA NextHands == IInv /\ HandInv /\ [Next]_vars => HandInv'
<1> SUFFICES ASSUME IInv, HandInv, [Next]_vars PROVE HandInv'
  OBVIOUS
<1>1. CASE Confirm \/ InitializeRange
  BY <1>1, EnvironmentKeepsHands, InitializeKeepsHands
<1>2. ASSUME NEW i \in Instances, CycleStep(i) PROVE HandInv'
  BY <1>2, QuietCycleKeepsHands, TryLockKeepsHands, CheckRecordKeepsHands, UnlockingKeepsHands,
     AcquireKeepsHands, EnqueueKeepsHands, StopsKeepHands, ReleaseSetKeepsHands DEF CycleStep
<1>3. ASSUME NEW j \in Jobs, JobStep(j) PROVE HandInv'
  BY <1>3, QuietJobKeepsHands, CompleteSetKeepsHands, OtherJobsKeepHands DEF JobStep
<1>4. CASE FaultStep
  BY <1>4, EnvironmentKeepsHands, EvictKeepsHands, StopsKeepHands, QuietCycleKeepsHands,
     OtherJobsKeepHands DEF FaultStep
<1>5. CASE UNCHANGED vars
  <2>1. /\ UNCHANGED <<scenario, written, rng, lock, robbed, cycle, job>>
        /\ \A i \in Instances : CycleFades(cycle'[i], cycle[i])
        /\ \A j \in Jobs : JobFades(job'[j], job[j])
    BY <1>5, FadesItself DEF vars
  <2>2. Calm => Orderly'
    BY <2>1 DEF HandInv, Orderly
  <2>3. QED BY <2>1, <2>2, SameLocksStand, FadingKeeps
<1>6. QED BY <1>1, <1>2, <1>3, <1>4, <1>5 DEF Next

-----------------------------------------------------------------------------
(* While locks and records last, nobody is robbed of a lock: whoever took  *)
(* it, and the job it queued, keep it until they delete it themselves.     *)

Lasting == scenario.events \subseteq {"grow", "crash"}

Keeps(c, r) ==
    c.r = r /\ c.pc \in {"check", "unlock", "write", "enqueue", "relGet", "relSet", "relUnlock"}
JobKeeps(w, r) == w.r = r /\ w.pc \in {"fetch", "get", "set", "unlock"}

OneKeeper(r) ==
    /\ \A i \in Instances : Keeps(cycle[i], r) => lock[r] # Nobody
    /\ \A j \in Jobs : JobKeeps(job[j], r) => lock[r] # Nobody
    /\ \A i, k \in Instances : Keeps(cycle[i], r) /\ Keeps(cycle[k], r) => i = k
    /\ \A j, k \in Jobs : JobKeeps(job[j], r) /\ JobKeeps(job[k], r) => j = k
    /\ \A i \in Instances, j \in Jobs : ~(Keeps(cycle[i], r) /\ JobKeeps(job[j], r))

LockInv == Lasting => robbed = {} /\ \A r \in Ranges : OneKeeper(r)

(* Nobody comes to keep a lock, and a lock is deleted under nobody. *)
LEMMA KeepersFade ==
    ASSUME LockInv, UNCHANGED scenario, Lasting => robbed' = robbed,
           \A i \in Instances, r \in Ranges : Keeps(cycle'[i], r) => Keeps(cycle[i], r),
           \A j \in Jobs, r \in Ranges : JobKeeps(job'[j], r) => JobKeeps(job[j], r),
           \A r \in Ranges : Lasting =>
               \/ lock'[r] = lock[r]
               \/ /\ \A i \in Instances : ~Keeps(cycle'[i], r)
                  /\ \A j \in Jobs : ~JobKeeps(job'[j], r)
    PROVE  LockInv'
<1> SUFFICES ASSUME Lasting PROVE LockInv'
  BY DEF LockInv, Lasting
<1>1. ASSUME NEW r \in Ranges PROVE OneKeeper(r)'
  <2>1. OneKeeper(r)
    BY DEF LockInv
  <2>2. QED BY <2>1 DEF OneKeeper, Keeps, JobKeeps
<1>2. QED BY <1>1 DEF LockInv

LEMMA NoJobReleases ==
    ASSUME HandInv, Lasting, NEW j \in Jobs
    PROVE  job[j].pc \notin {"relGet", "relSet", "relUnlock"}
BY DEF HandInv, Lasting, Calm, Orderly

LEMMA NoCycleStops ==
    ASSUME HandInv, Lasting, NEW i \in Instances
    PROVE  cycle[i].pc # "stop"
BY DEF HandInv, Lasting, Calm, Orderly

LEMMA AcquirersKeep == \A i \in Instances, r \in Ranges : i \in Acquirers(r) => Keeps(cycle[i], r)
BY DEF Acquirers, Keeps

(* The steps of a cycle that neither take nor delete a lock. *)
LEMMA CycleKeepsLocks ==
    ASSUME IInv, HandInv, LockInv, NEW i \in Instances,
           \/ Poll(i) \/ NoneLeft(i) \/ Stopped(i) \/ Crash(i) \/ CheckRecord(i) \/ Acquire(i)
           \/ ReleaseGet(i) \/ ReleaseSet(i) \/ Stop(i)
           \/ \E r \in Ranges : ReadRecord(i, r) \/ \E to \in First(r)..Last(r) : StopNext(i, r, to)
    PROVE  LockInv'
<1>0. /\ TypeInv /\ cycle[i] \in CycleState
      /\ UNCHANGED <<scenario, job, lock, robbed>>
  BY CycleTyped DEF IInv, Poll, NoneLeft, Stopped, Crash, CheckRecord, Acquire, ReleaseGet, ReleaseSet,
        Stop, ReadRecord, StopNext, CycleOnly
<1> SUFFICES ASSUME Lasting PROVE LockInv'
  BY <1>0 DEF LockInv, Lasting
<1>1. PICK c : Move(i, c) /\ \A r \in Ranges : Keeps(c, r) => Keeps(cycle[i], r)
  <2>1. CASE Poll(i)
    <3>1. PICK all, c : /\ Move(i, c)
                        /\ c = Idle \/ c = [Idle EXCEPT !.pc = "list", !.left = all, !.safe = head]
      BY <2>1 DEF Poll, Loop
    <3>2. Idle \in CycleState /\ Idle.pc = "idle"
      BY ConstantsTyped DEF Idle
    <3>3. c.pc \in {"idle", "list"}
      BY <3>1, <3>2 DEF CycleState
    <3>4. QED BY <3>1, <3>3 DEF Keeps
  <2>2. CASE NoneLeft(i) \/ Stopped(i) \/ Crash(i)
    <3>1. Move(i, Idle) /\ Idle.pc = "idle"
      BY <2>2 DEF NoneLeft, Stopped, Crash, Idle
    <3>2. QED BY <3>1 DEF Keeps
  <2>3. CASE CheckRecord(i)
    <3>1. PICK p, s, c : Move(i, c) /\ c = [cycle[i] EXCEPT !.pc = p, !.seen = s]
      BY <2>3 DEF CheckRecord
    <3>2. c.r = cycle[i].r
      BY <1>0, <3>1 DEF CycleState
    <3>3. QED BY <2>3, <3>1, <3>2 DEF CheckRecord, Keeps
  <2>4. CASE Acquire(i)
    <3>1. PICK to, c : /\ Move(i, c)
                       /\ \/ c = [cycle[i] EXCEPT !.pc = "relGet", !.to = to, !.cand = {}, !.seen = Absent]
                          \/ c = [cycle[i] EXCEPT !.pc = "enqueue", !.cand = {}, !.seen = Absent]
      BY <2>4 DEF Acquire
    <3>2. c.r = cycle[i].r
      BY <1>0, <3>1 DEF CycleState
    <3>3. QED BY <2>4, <3>1, <3>2 DEF Acquire, Keeps
  <2>5. CASE ReleaseGet(i)
    <3>1. PICK p, s, c : Move(i, c) /\ c = [cycle[i] EXCEPT !.pc = p, !.seen = s]
      BY <2>5 DEF ReleaseGet
    <3>2. c.r = cycle[i].r
      BY <1>0, <3>1 DEF CycleState
    <3>3. QED BY <2>5, <3>1, <3>2 DEF ReleaseGet, Keeps
  <2>6. CASE ReleaseSet(i)
    <3>1. PICK c : Move(i, c) /\ c = [cycle[i] EXCEPT !.pc = "relUnlock"]
      BY <2>6 DEF ReleaseSet
    <3>2. c.r = cycle[i].r
      BY <1>0, <3>1 DEF CycleState
    <3>3. QED BY <2>6, <3>1, <3>2 DEF ReleaseSet, Keeps
  <2>7. CASE \E r \in Ranges : ReadRecord(i, r)
    <3>1. PICK A, B, c : Move(i, c) /\ c = [cycle[i] EXCEPT !.left = A, !.cand = B]
      BY <2>7 DEF ReadRecord
    <3>2. c.r = cycle[i].r /\ c.pc = cycle[i].pc
      BY <1>0, <3>1 DEF CycleState
    <3>3. QED BY <3>1, <3>2 DEF Keeps
  <2>8. CASE Stop(i) \/ \E r \in Ranges : \E to \in First(r)..Last(r) : StopNext(i, r, to)
    BY <2>8, NoCycleStops DEF Stop, StopNext, Lasting
  <2>9. QED BY <2>1, <2>2, <2>3, <2>4, <2>5, <2>6, <2>7, <2>8
<1>2. cycle'[i] = c /\ \A k \in Instances \ {i} : cycle'[k] = cycle[k]
  BY <1>0, <1>1, MovedTo
<1>3. QED BY <1>0, <1>1, <1>2, KeepersFade

(* The steps of a job that do not delete a lock. *)
LEMMA JobKeepsLocks ==
    ASSUME IInv, HandInv, LockInv, NEW j \in Jobs,
           \/ Fetch(j) \/ CompleteGet(j) \/ CompleteSet(j) \/ ReadProgress(j) \/ WriteProgress(j)
           \/ JobReleaseGet(j) \/ JobReleaseSet(j) \/ JobReleaseUnlock(j) \/ FetchFails(j) \/ Stall(j)
    PROVE  LockInv'
<1>0. TypeInv /\ job[j] \in JobState /\ UNCHANGED <<scenario, cycle>>
  BY JobTyped DEF IInv, Fetch, CompleteGet, CompleteSet, ReadProgress, WriteProgress, JobReleaseGet,
        JobReleaseSet, JobReleaseUnlock, FetchFails, Stall, JobOnly
<1> SUFFICES ASSUME Lasting PROVE LockInv'
  BY <1>0 DEF LockInv, Lasting
<1>1. \/ Fetch(j) \/ CompleteGet(j) \/ CompleteSet(j) \/ ReadProgress(j) \/ WriteProgress(j)
  BY NoJobReleases DEF JobReleaseGet, JobReleaseSet, JobReleaseUnlock, FetchFails, Stall, Lasting
<1>2. UNCHANGED <<lock, robbed>>
  BY <1>1 DEF Fetch, CompleteGet, CompleteSet, ReadProgress, WriteProgress
<1>3. PICK w, s : /\ Step(j, w)
                  /\ \/ w = [job[j] EXCEPT !.pc = "get"] /\ job[j].pc = "fetch"
                     \/ w = [job[j] EXCEPT !.pc = "unlock", !.seen = s] /\ job[j].pc \in {"get", "set"}
                     \/ w = [job[j] EXCEPT !.pc = "set", !.seen = s] /\ job[j].pc = "get"
                     \/ w = [job[j] EXCEPT !.pc = "writeProgress", !.cur = progress]
                     \/ w = NoJob
  BY <1>1 DEF Fetch, CompleteGet, CompleteSet, ReadProgress, WriteProgress
<1>4. \A r \in Ranges : JobKeeps(w, r) => JobKeeps(job[j], r)
  <2>1. CASE w = NoJob
    BY <2>1 DEF NoJob, JobKeeps
  <2>2. CASE w # NoJob
    BY <1>0, <1>3, <2>2 DEF JobState, JobKeeps
  <2>3. QED BY <2>1, <2>2
<1>5. job'[j] = w /\ \A k \in Jobs \ {j} : job'[k] = job[k]
  BY <1>0, <1>3, SteppedTo
<1>6. QED BY <1>0, <1>2, <1>4, <1>5, KeepersFade

LEMMA TryLockKeepsLocks ==
    ASSUME IInv, LockInv, NEW i \in Instances, NEW q \in Ranges, TryLock(i, q)
    PROVE  LockInv'
<1>0. /\ TypeInv /\ cycle[i] \in CycleState /\ UNCHANGED <<scenario, job, robbed>>
  BY CycleTyped DEF IInv, TryLock, CycleOnly
<1> SUFFICES ASSUME Lasting PROVE LockInv'
  BY <1>0 DEF LockInv, Lasting
<1>1. CASE UNCHANGED lock /\ Move(i, [cycle[i] EXCEPT !.cand = @ \ {q}])
  <2>1. PICK c : Move(i, c) /\ c = [cycle[i] EXCEPT !.cand = @ \ {q}]
    BY <1>1
  <2>2. c.r = cycle[i].r /\ c.pc = cycle[i].pc
    BY <1>0, <2>1 DEF CycleState
  <2>3. cycle'[i] = c /\ \A k \in Instances \ {i} : cycle'[k] = cycle[k]
    BY <1>0, <2>1, MovedTo
  <2>4. \A k \in Instances, r \in Ranges : Keeps(cycle'[k], r) => Keeps(cycle[k], r)
    BY <2>2, <2>3 DEF Keeps
  <2>5. QED BY <1>0, <1>1, <2>4, KeepersFade
<1>2. CASE /\ lock[q] = Nobody /\ lock' = [lock EXCEPT ![q] = i]
           /\ Move(i, [cycle[i] EXCEPT !.pc = "check", !.r = q])
  <2>1. PICK c : Move(i, c) /\ c = [cycle[i] EXCEPT !.pc = "check", !.r = q]
    BY <1>2
  <2>2. c.r = q /\ c.pc = "check"
    BY <1>0, <2>1 DEF CycleState
  <2>3. cycle'[i] = c /\ \A k \in Instances \ {i} : cycle'[k] = cycle[k]
    BY <1>0, <2>1, MovedTo
  <2>4. lock'[q] # Nobody /\ \A r \in Ranges \ {q} : lock'[r] = lock[r]
    BY <1>0, <1>2, IndexerAssumption DEF TypeInv
  <2>5. ASSUME NEW r \in Ranges PROVE OneKeeper(r)'
    <3>1. OneKeeper(r)
      BY DEF LockInv
    <3>2. \A k \in Instances \ {i} : Keeps(cycle'[k], r) => Keeps(cycle[k], r)
      BY <2>3
    <3>3. Keeps(cycle'[i], r) => r = q
      BY <2>2, <2>3 DEF Keeps
    <3>4. r = q => /\ \A k \in Instances : ~Keeps(cycle[k], r)
                   /\ \A j \in Jobs : ~JobKeeps(job[j], r)
      BY <1>2, <3>1 DEF OneKeeper
    <3>5. QED BY <1>0, <2>4, <3>1, <3>2, <3>3, <3>4 DEF OneKeeper, Keeps, JobKeeps
  <2>6. QED BY <1>0, <2>5 DEF LockInv
<1>3. QED BY <1>1, <1>2 DEF TryLock

(* Who deletes a lock is the only one to keep it, and keeps it no more.    *)
LEMMA UnlockingKeepsLocks ==
    ASSUME IInv, HandInv, LockInv, NEW i \in Instances, DropCandidate(i) \/ ReleaseUnlock(i)
    PROVE  LockInv'
<1>0. PICK q \in Ranges : q = cycle[i].r
  BY CycleTyped DEF IInv, DropCandidate, ReleaseUnlock, CycleOk
<1>1. /\ TypeInv /\ cycle[i] \in CycleState /\ UNCHANGED <<scenario, job>>
      /\ Keeps(cycle[i], q)
  BY <1>0, CycleTyped DEF IInv, DropCandidate, ReleaseUnlock, CycleOnly, Keeps
<1> SUFFICES ASSUME Lasting PROVE LockInv'
  BY <1>1 DEF LockInv, Lasting
<1>2. PICK to, c : /\ Move(i, c) /\ DropLock(q, to, {i})
                   /\ c.pc \in {"list", "idle", "stop"}
  <2>1. CASE DropCandidate(i)
    <3>1. PICK c, A : /\ Move(i, c) /\ DropLock(q, Last(q), {i})
                      /\ c = [cycle[i] EXCEPT !.pc = "list", !.cand = A, !.r = 0, !.seen = Absent]
      BY <1>0, <2>1 DEF DropCandidate
    <3>2. c.pc = "list"
      BY <1>1, <3>1 DEF CycleState
    <3>3. QED BY <3>1, <3>2
  <2>2. CASE ReleaseUnlock(i)
    <3>1. PICK c : /\ Move(i, c) /\ DropLock(q, cycle[i].to, {i})
                   /\ c = IF cycle[i].stopping THEN [Idle EXCEPT !.pc = "stop", !.stopping = TRUE]
                                               ELSE Idle
      BY <1>0, <2>2 DEF ReleaseUnlock
    <3>2. c.pc \in {"idle", "stop"}
      BY <3>1 DEF Idle
    <3>3. QED BY <3>1, <3>2
  <2>3. QED BY <2>1, <2>2
<1>3. cycle'[i] = c /\ \A k \in Instances \ {i} : cycle'[k] = cycle[k]
  BY <1>1, <1>2, MovedTo
<1>4. \A k \in Instances, r \in Ranges : Keeps(cycle'[k], r) => Keeps(cycle[k], r) /\ k # i
  BY <1>2, <1>3 DEF Keeps
<1>5. OneKeeper(q)
  BY DEF LockInv
<1>6. /\ \A k \in Instances : ~Keeps(cycle'[k], q)
      /\ \A j \in Jobs : ~JobKeeps(job[j], q)
  BY <1>1, <1>4, <1>5 DEF OneKeeper
<1>7. Acquirers(q) \subseteq {i}
  BY <1>1, <1>5, AcquirersKeep DEF OneKeeper, Acquirers
<1>8. robbed' = robbed /\ \A r \in Ranges \ {q} : lock'[r] = lock[r]
  BY <1>1, <1>2, <1>7 DEF DropLock, TypeInv
<1>9. QED BY <1>1, <1>4, <1>6, <1>8, KeepersFade

LEMMA CompleteUnlockKeepsLocks ==
    ASSUME IInv, HandInv, LockInv, NEW j \in Jobs, CompleteUnlock(j) 
    PROVE  LockInv'
<1>0. PICK q \in Ranges : q = job[j].r
  BY JobTyped DEF IInv, CompleteUnlock, JobOk
<1>1. /\ TypeInv /\ job[j] \in JobState /\ UNCHANGED <<scenario, cycle>>
      /\ JobKeeps(job[j], q)
  BY <1>0, JobTyped DEF IInv, CompleteUnlock, JobOnly, JobKeeps
<1> SUFFICES ASSUME Lasting PROVE LockInv'
  BY <1>1 DEF LockInv, Lasting
<1>2. PICK to, w : /\ Step(j, w) /\ DropLock(q, to, {})
                   /\ w = [job[j] EXCEPT !.pc = "readProgress", !.seen = Absent]
  BY <1>0 DEF CompleteUnlock
<1>3. w.pc = "readProgress"
  BY <1>1, <1>2 DEF JobState
<1>4. job'[j] = w /\ \A k \in Jobs \ {j} : job'[k] = job[k]
  BY <1>1, <1>2, SteppedTo
<1>5. \A k \in Jobs, r \in Ranges : JobKeeps(job'[k], r) => JobKeeps(job[k], r) /\ k # j
  BY <1>3, <1>4 DEF JobKeeps
<1>6. OneKeeper(q)
  BY DEF LockInv
<1>7. /\ \A k \in Instances : ~Keeps(cycle[k], q)
      /\ \A k \in Jobs : ~JobKeeps(job'[k], q)
  BY <1>1, <1>5, <1>6 DEF OneKeeper
<1>8. Acquirers(q) = {}
  BY <1>7, AcquirersKeep DEF Acquirers
<1>9. robbed' = robbed /\ \A r \in Ranges \ {q} : lock'[r] = lock[r]
  BY <1>1, <1>2, <1>8 DEF DropLock, TypeInv
<1>10. QED BY <1>1, <1>5, <1>7, <1>9, KeepersFade

(* The lock goes with the range from the cycle to the job. *)
LEMMA EnqueueKeepsLocks ==
    ASSUME IInv, LockInv, NEW i \in Instances, NEW j \in Jobs, Enqueue(i, j)
    PROVE  LockInv'
<1>0. PICK q \in Ranges : q = cycle[i].r
  BY CycleTyped DEF IInv, Enqueue, CycleOk
<1>1. /\ TypeInv /\ cycle[i] \in CycleState /\ job[j].pc = "none" /\ Keeps(cycle[i], q)
      /\ UNCHANGED <<scenario, lock, robbed>>
  BY <1>0, CycleTyped DEF IInv, Enqueue, Keeps
<1> SUFFICES ASSUME Lasting PROVE LockInv'
  BY <1>1 DEF LockInv, Lasting
<1>2. PICK to, w : Step(j, w) /\ w = [NoJob EXCEPT !.pc = "fetch", !.r = q, !.to = to, !.attempt = 1]
  BY <1>0 DEF Enqueue, Step
<1>3. w.r = q /\ w.pc = "fetch"
  BY <1>2 DEF NoJob
<1>4. job'[j] = w /\ \A k \in Jobs \ {j} : job'[k] = job[k]
  BY <1>1, <1>2, SteppedTo
<1>5. PICK all, safe, c : /\ Move(i, c)
                          /\ c = Idle \/ c = [Idle EXCEPT !.pc = "list", !.left = all, !.safe = safe]
  BY DEF Enqueue, Loop
<1>6. c.pc \in {"idle", "list"}
  <2>1. Idle \in CycleState /\ Idle.pc = "idle"
    BY ConstantsTyped DEF Idle
  <2>2. QED BY <1>5, <2>1 DEF CycleState
<1>7. cycle'[i] = c /\ \A k \in Instances \ {i} : cycle'[k] = cycle[k]
  BY <1>1, <1>5, MovedTo
<1>8. \A k \in Instances, r \in Ranges : Keeps(cycle'[k], r) => Keeps(cycle[k], r) /\ k # i
  BY <1>6, <1>7 DEF Keeps
<1>9. \A k \in Jobs, r \in Ranges : JobKeeps(job'[k], r) => JobKeeps(job[k], r) \/ (k = j /\ r = q)
  BY <1>3, <1>4 DEF JobKeeps
<1>10. ASSUME NEW r \in Ranges PROVE OneKeeper(r)'
  <2>1. OneKeeper(r)
    BY DEF LockInv
  <2>2. r = q => /\ lock[r] # Nobody
                 /\ \A k \in Instances : ~Keeps(cycle'[k], r)
                 /\ \A k \in Jobs : ~JobKeeps(job[k], r)
    BY <1>1, <1>8, <2>1 DEF OneKeeper
  <2>3. QED BY <1>1, <1>8, <1>9, <2>1, <2>2 DEF OneKeeper, Keeps, JobKeeps
<1>11. QED BY <1>1, <1>10 DEF LockInv

LEMMA EnvironmentKeepsLocks ==
    ASSUME LockInv,
           \/ Confirm \/ InitializeRange \/ Restart \/ UNCHANGED vars
           \/ \E r \in Ranges : Expire(r) \/ Evict(r)
    PROVE  LockInv'
<1>1. UNCHANGED <<scenario, cycle, job, robbed>>
  BY DEF Confirm, InitializeRange, Restart, Expire, Evict, vars
<1>2. Lasting => UNCHANGED lock
  BY DEF Lasting, Confirm, InitializeRange, Restart, Expire, Evict, vars
<1>3. QED BY <1>1, <1>2, KeepersFade

LEMMA InitLocks == Init => LockInv
<1> SUFFICES ASSUME Init PROVE LockInv
  OBVIOUS
<1>1. /\ \A i \in Instances : cycle[i].pc = "idle"
      /\ \A j \in Jobs : job[j].pc = "none"
      /\ robbed = {}
  BY DEF Init, Idle, NoJob
<1>2. QED BY <1>1 DEF LockInv, OneKeeper, Keeps, JobKeeps

LEMMA NextLocks == IInv /\ HandInv /\ LockInv /\ [Next]_vars => LockInv'
<1> SUFFICES ASSUME IInv, HandInv, LockInv, [Next]_vars PROVE LockInv'
  OBVIOUS
<1>1. CASE Confirm \/ InitializeRange \/ UNCHANGED vars
  BY <1>1, EnvironmentKeepsLocks
<1>2. ASSUME NEW i \in Instances, CycleStep(i) PROVE LockInv'
  BY <1>2, CycleKeepsLocks, TryLockKeepsLocks, UnlockingKeepsLocks, EnqueueKeepsLocks DEF CycleStep
<1>3. ASSUME NEW j \in Jobs, JobStep(j) PROVE LockInv'
  BY <1>3, JobKeepsLocks, CompleteUnlockKeepsLocks DEF JobStep
<1>4. CASE FaultStep
  BY <1>4, EnvironmentKeepsLocks, CycleKeepsLocks, JobKeepsLocks DEF FaultStep
<1>5. QED BY <1>1, <1>2, <1>3, <1>4 DEF Next

LEMMA AtMostOneHand ==
    ASSUME NEW r, OneHand(r)
    PROVE  Cardinality(JobsOn(r)) + Cardinality(CyclesOn(r)) <= 1
<1>1. JobsOn(r) = {} \/ \E j \in Jobs : JobsOn(r) = {j} /\ CyclesOn(r) = {}
  <2>1. \A j \in JobsOn(r) : JobsOn(r) = {j} /\ CyclesOn(r) = {}
    BY DEF OneHand, JobsOn, CyclesOn, JobHas, CycleHas
  <2>2. QED BY <2>1 DEF JobsOn
<1>2. CyclesOn(r) = {} \/ \E i \in Instances : CyclesOn(r) = {i}
  BY DEF OneHand, CyclesOn, CycleHas
<1>3. Cardinality({}) = 0 /\ \A x : Cardinality({x}) = 1
  BY FS_EmptySet, FS_Singleton
<1>4. CASE JobsOn(r) = {}
  <2>1. Cardinality(JobsOn(r)) = 0 /\ Cardinality(CyclesOn(r)) \in {0, 1}
    BY <1>2, <1>3, <1>4
  <2>2. QED BY <2>1
<1>5. CASE \E j \in Jobs : JobsOn(r) = {j} /\ CyclesOn(r) = {}
  <2>1. Cardinality(JobsOn(r)) = 1 /\ Cardinality(CyclesOn(r)) = 0
    BY <1>3, <1>5
  <2>2. QED BY <2>1
<1>6. QED BY <1>1, <1>4, <1>5

(* A range is in one hand at a time unless an instance was robbed of its   *)
(* lock, and nobody is while locks and records last: for any number of     *)
(* instances and jobs (tryAcquireRange, markRangeComplete,                 *)
(* releaseBlockRange).                                                     *)
THEOREM RangesAreInOneHand == Spec => []OneHandPerRange
<1>1. Init => IInv /\ HandInv /\ LockInv
  BY InitInv, InitHands, InitLocks
<1>2. IInv /\ HandInv /\ LockInv /\ [Next]_vars => (IInv /\ HandInv /\ LockInv)'
  BY NextInv, NextHands, NextLocks
<1>3. HandInv /\ LockInv => OneHandPerRange
  BY AtMostOneHand DEF HandInv, Calm, LockInv, Lasting, OneHandPerRange
<1>4. QED BY <1>1, <1>2, <1>3, PTL DEF Spec

-----------------------------------------------------------------------------
(* Whole ranges are not abandoned.  The facts needed besides the ones      *)
(* above: a job, a release and an entry of assignedRanges are about the    *)
(* key of the whole range unless the range was cut, so that a release and  *)
(* a completion find the record and change its status.                     *)

Assignments == [r : Ranges, to : Nat]
Whole(a) == a.r \in cut \/ a.to = Last(a.r)

WholeInv ==
    /\ assigned \in [Instances -> Seq(Assignments)] /\ robbed \subseteq Ranges
    /\ \A i \in Instances : \A n \in DOMAIN assigned[i] : Whole(assigned[i][n])
    /\ \A i \in Instances : cycle[i].pc \in {"relGet", "relSet"} => Whole(cycle[i])
    /\ \A j \in Jobs : job[j].pc # "none" => Whole(job[j])
    /\ NoWholeRangeAbandoned

(* How many elements of K are up to n: it numbers the elements of K.       *)
LEMMA RankIsOnto ==
    ASSUME NEW K \in SUBSET Nat, IsFiniteSet(K), NEW k \in 1..Cardinality(K)
    PROVE  \E n \in K : Cardinality({m \in K : m <= n}) = k
<1> DEFINE UpTo(n) == {m \in K : m <= n}
           rank == [n \in K |-> Cardinality(UpTo(n))]
<1>1. Cardinality(K) \in Nat
  BY FS_CardinalityType
<1>2. \A n \in K : IsFiniteSet(UpTo(n)) /\ Cardinality(UpTo(n)) \in 1..Cardinality(K)
  <2> SUFFICES ASSUME NEW n \in K
               PROVE  IsFiniteSet(UpTo(n)) /\ Cardinality(UpTo(n)) \in 1..Cardinality(K)
    OBVIOUS
  <2>1. UpTo(n) \in SUBSET K /\ {n} \in SUBSET UpTo(n)
    OBVIOUS
  <2>2. IsFiniteSet(UpTo(n)) /\ Cardinality(UpTo(n)) <= Cardinality(K)
    BY <2>1, FS_Subset
  <2> HIDE DEF UpTo
  <2>3. Cardinality({n}) <= Cardinality(UpTo(n)) /\ Cardinality({n}) = 1
    BY <2>1, <2>2, FS_Subset, FS_Singleton
  <2>4. Cardinality(UpTo(n)) \in Nat
    BY <2>2, FS_CardinalityType
  <2>5. QED BY <1>1, <2>2, <2>3, <2>4
<1>3. ASSUME NEW m \in K, NEW n \in K, m < n PROVE rank[m] # rank[n]
  <2>0. m \in Nat /\ n \in Nat /\ \A l \in K : l \in Nat
    OBVIOUS
  <2>1. UpTo(m) \in SUBSET UpTo(n) /\ n \in UpTo(n) /\ n \notin UpTo(m)
    <3>1. \A l \in K : l <= m => l <= n
      BY <1>3, <2>0
    <3>2. n <= n /\ ~(n <= m)
      BY <1>3, <2>0
    <3>3. QED BY <3>1, <3>2
  <2> HIDE DEF UpTo
  <2>2. Cardinality(UpTo(m)) # Cardinality(UpTo(n))
    BY <1>2, <2>1, FS_Subset
  <2>3. QED BY <2>2
<1>4. rank \in [K -> 1..Cardinality(K)]
  BY <1>2
<1> HIDE DEF rank
<1>5. \A m, n \in K : rank[m] = rank[n] => m = n
  <2> SUFFICES ASSUME NEW m \in K, NEW n \in K, m # n PROVE rank[m] # rank[n]
    OBVIOUS
  <2>1. m < n \/ n < m
    OBVIOUS
  <2>2. QED BY <1>3, <2>1
<1>6. rank \in Injection(K, 1..Cardinality(K))
  BY <1>4, <1>5 DEF Injection, IsInjective
<1>7. IsFiniteSet(1..Cardinality(K)) /\ Cardinality(1..Cardinality(K)) = Cardinality(K)
  BY <1>1, FS_Interval
<1>8. rank \in Surjection(K, 1..Cardinality(K))
  BY <1>6, <1>7, FS_Injection
<1>9. \E n \in K : rank[n] = k
  BY <1>8 DEF Surjection
<1>10. QED BY <1>9 DEF rank

(* What a poll leaves of the assigned ranges was assigned before. *)
LEMMA UnconfirmedWereAssigned ==
    ASSUME NEW S, NEW s \in Seq(S)
    PROVE  /\ Unconfirmed(s) \in Seq(S)
           /\ \A k \in DOMAIN Unconfirmed(s) : \E n \in DOMAIN s : Unconfirmed(s)[k] = s[n]
<1> DEFINE K == {n \in DOMAIN s : s[n].to > head}
           nth(k) == CHOOSE n \in K : Cardinality({m \in K : m <= n}) = k
           t == [k \in 1..Cardinality(K) |-> s[nth(k)]]
<1>1. DOMAIN s = 1..Len(s) /\ Len(s) \in Nat
  OBVIOUS
<1>2. K \in SUBSET Nat /\ K \in SUBSET (1..Len(s))
  BY <1>1
<1> HIDE DEF K
<1>3. IsFiniteSet(K) /\ Cardinality(K) \in Nat
  <2>1. IsFiniteSet(1..Len(s))
    BY <1>1, FS_Interval
  <2>2. QED BY <1>2, <2>1, FS_Subset, FS_CardinalityType
<1>4. ASSUME NEW k \in 1..Cardinality(K) PROVE nth(k) \in K
  BY <1>2, <1>3, RankIsOnto
<1> HIDE DEF nth
<1>5. \A k \in 1..Cardinality(K) : nth(k) \in DOMAIN s /\ t[k] = s[nth(k)] /\ t[k] \in S
  <2> SUFFICES ASSUME NEW k \in 1..Cardinality(K)
               PROVE  nth(k) \in DOMAIN s /\ t[k] = s[nth(k)] /\ t[k] \in S
    OBVIOUS
  <2>1. PICK n : n = nth(k)
    OBVIOUS
  <2>2. n \in 1..Len(s)
    BY <1>2, <1>4, <2>1
  <2>3. s[n] \in S /\ t[k] = s[n]
    BY <1>1, <2>1, <2>2
  <2>4. QED BY <1>1, <2>1, <2>2, <2>3
<1>6. t \in Seq(S) /\ DOMAIN t = 1..Cardinality(K)
  BY <1>3, <1>5
<1>7. Unconfirmed(s) = t
  BY DEF Unconfirmed, K, nth
<1> HIDE DEF t
<1>8. QED BY <1>5, <1>6, <1>7

AssignedOk ==
    /\ assigned \in [Instances -> Seq(Assignments)] /\ robbed \subseteq Ranges
    /\ \A i \in Instances : \A n \in DOMAIN assigned[i] : Whole(assigned[i][n])

LEMMA HandsAreCounted ==
    NoWholeRangeAbandoned <=>
        ("crash" \notin scenario.events =>
            \A r \in Ranges \ cut : rng[r].status = "processing" => InHand(r))
BY DEF NoWholeRangeAbandoned, InHand, JobsOn, CyclesOn, JobHas, CycleHas

(* A cycle that leaves a range does not leave it in processing. *)
LEMMA CycleLeavesNothing ==
    ASSUME TypeInv, WholeInv, NEW i \in Instances, NEW c, Move(i, c), UNCHANGED <<scenario, job, cut>>,
           AssignedOk', c.pc \in {"relGet", "relSet"} => Whole(c),
           \A r \in Ranges \ cut :
               "crash" \notin scenario.events /\ rng'[r].status = "processing" =>
                   \/ CycleHas(c, r)
                   \/ rng[r].status = "processing" /\ ~CycleHas(cycle[i], r)
    PROVE  WholeInv'
<1>1. cycle'[i] = c /\ \A k \in Instances \ {i} : cycle'[k] = cycle[k]
  BY MovedTo
<1>2. \A k \in Instances : cycle'[k].pc \in {"relGet", "relSet"} => Whole(cycle[k])'
  BY <1>1 DEF WholeInv, Whole
<1>3. \A j \in Jobs : job'[j].pc # "none" => Whole(job[j])'
  BY DEF WholeInv, Whole
<1>4. ASSUME NEW r \in Ranges \ cut, "crash" \notin scenario.events, rng'[r].status = "processing"
      PROVE  InHand(r)'
  <2>1. CASE CycleHas(c, r)
    BY <1>1, <2>1 DEF InHand
  <2>2. CASE rng[r].status = "processing" /\ ~CycleHas(cycle[i], r)
    <3>1. InHand(r)
      BY <1>4, <2>2, HandsAreCounted DEF WholeInv
    <3>2. QED BY <1>1, <2>2, <3>1 DEF InHand
  <2>3. QED BY <1>4, <2>1, <2>2
<1>5. NoWholeRangeAbandoned'
  <2>1. "crash" \notin scenario'.events =>
            \A r \in Ranges \ cut' : rng'[r].status = "processing" => InHand(r)'
    BY <1>4
  <2>2. QED BY <2>1 DEF NoWholeRangeAbandoned, InHand, JobsOn, CyclesOn, JobHas, CycleHas
<1>6. QED BY <1>2, <1>3, <1>5 DEF WholeInv, AssignedOk

LEMMA JobLeavesNothing ==
    ASSUME TypeInv, WholeInv, NEW j \in Jobs, NEW w, Step(j, w), JobOnly, robbed' \subseteq Ranges,
           w.pc # "none" => Whole(w),
           \A r \in Ranges \ cut :
               "crash" \notin scenario.events /\ rng'[r].status = "processing" =>
                   \/ JobHas(w, r)
                   \/ rng[r].status = "processing" /\ ~JobHas(job[j], r)
    PROVE  WholeInv'
<1>0. UNCHANGED <<scenario, cycle, assigned, cut>>
  BY DEF JobOnly
<1>1. job'[j] = w /\ \A k \in Jobs \ {j} : job'[k] = job[k]
  BY SteppedTo
<1>2. \A k \in Jobs : job'[k].pc # "none" => Whole(job[k])'
  BY <1>0, <1>1 DEF WholeInv, Whole
<1>3. /\ assigned' \in [Instances -> Seq(Assignments)]
      /\ \A i \in Instances : cycle'[i].pc \in {"relGet", "relSet"} => Whole(cycle[i])'
      /\ \A i \in Instances : \A n \in DOMAIN assigned'[i] : Whole(assigned[i][n])'
  BY <1>0 DEF WholeInv, Whole
<1>4. ASSUME NEW r \in Ranges \ cut, "crash" \notin scenario.events, rng'[r].status = "processing"
      PROVE  InHand(r)'
  <2>1. CASE JobHas(w, r)
    BY <1>1, <2>1 DEF InHand
  <2>2. CASE rng[r].status = "processing" /\ ~JobHas(job[j], r)
    <3>1. InHand(r)
      BY <1>4, <2>2, HandsAreCounted DEF WholeInv
    <3>2. QED BY <1>0, <1>1, <2>2, <3>1 DEF InHand
  <2>3. QED BY <1>4, <2>1, <2>2
<1>5. NoWholeRangeAbandoned'
  <2>1. "crash" \notin scenario'.events =>
            \A r \in Ranges \ cut' : rng'[r].status = "processing" => InHand(r)'
    BY <1>0, <1>4
  <2>2. QED BY <2>1 DEF NoWholeRangeAbandoned, InHand, JobsOn, CyclesOn, JobHas, CycleHas
<1>6. QED BY <1>2, <1>3, <1>5 DEF WholeInv

LEMMA SameAssigned ==
    ASSUME WholeInv, UNCHANGED <<assigned, cut>>, robbed' \subseteq Ranges
    PROVE  AssignedOk'
BY DEF WholeInv, AssignedOk, Whole

LEMMA DropLockRobs ==
    ASSUME WholeInv, NEW r \in Ranges, NEW to, NEW caller, DropLock(r, to, caller)
    PROVE  robbed' \subseteq Ranges
BY DEF WholeInv, DropLock

(* One instance's list is replaced by entries that are whole or cut. *)
LEMMA AssignedChanges ==
    ASSUME WholeInv, NEW i \in Instances, NEW s \in Seq(Assignments),
           assigned' = [assigned EXCEPT ![i] = s], cut \subseteq cut', UNCHANGED robbed,
           \A n \in DOMAIN s : s[n].r \in cut' \/ s[n].to = Last(s[n].r)
    PROVE  AssignedOk'
<1>1. assigned'[i] = s /\ \A k \in Instances \ {i} : assigned'[k] = assigned[k]
  BY DEF WholeInv
<1>2. assigned' \in [Instances -> Seq(Assignments)]
  BY DEF WholeInv
<1>3. \A k \in Instances \ {i} : \A n \in DOMAIN assigned[k] : Whole(assigned[k][n])
  BY DEF WholeInv
<1>4. \A k \in Instances : \A n \in DOMAIN assigned'[k] : Whole(assigned[k][n])'
  BY <1>1, <1>3 DEF Whole
<1>5. QED BY <1>2, <1>4 DEF AssignedOk, WholeInv

LEMMA CycleHasIt ==
    \A c, r : CycleHas(c, r) <=> c.r = r /\ c.pc \in {"enqueue", "relGet", "relSet"}
BY DEF CycleHas

LEMMA PollLeaves ==
    ASSUME TypeInv, WholeInv, NEW i \in Instances, Poll(i)
    PROVE  WholeInv'
<1>1. PICK all, c : /\ Move(i, c)
                    /\ c = Idle \/ c = [Idle EXCEPT !.pc = "list", !.left = all, !.safe = head]
  BY DEF Poll, Loop
<1>2. c.pc \in {"idle", "list"}
  <2>1. Idle \in CycleState /\ Idle.pc = "idle"
    BY ConstantsTyped DEF Idle
  <2>2. QED BY <1>1, <2>1 DEF CycleState
<1>3. /\ UNCHANGED <<scenario, rng, job, cut, robbed>> /\ cycle[i].pc = "idle"
      /\ assigned' = [assigned EXCEPT ![i] = Unconfirmed(assigned[i])]
  BY DEF Poll, Loop
<1>4. PICK s : s = assigned[i]
  OBVIOUS
<1>5. s \in Seq(Assignments) /\ \A n \in DOMAIN s : Whole(s[n])
  BY <1>4 DEF WholeInv
<1>6. PICK t : t = Unconfirmed(s)
  OBVIOUS
<1>7. t \in Seq(Assignments) /\ \A k \in DOMAIN t : \E n \in DOMAIN s : t[k] = s[n]
  BY <1>5, <1>6, UnconfirmedWereAssigned
<1>8. \A k \in DOMAIN t : t[k].r \in cut' \/ t[k].to = Last(t[k].r)
  BY <1>3, <1>5, <1>7 DEF Whole
<1>9. AssignedOk'
  BY <1>3, <1>4, <1>6, <1>7, <1>8, AssignedChanges
<1>10. QED BY <1>1, <1>2, <1>3, <1>9, CycleLeavesNothing, CycleHasIt

LEMMA ListingLeaves ==
    ASSUME TypeInv, WholeInv, NEW i \in Instances,
           NoneLeft(i) \/ Stopped(i) \/ Stop(i) \/ \E r \in Ranges : ReadRecord(i, r) \/ TryLock(i, r)
    PROVE  WholeInv'
<1>1. /\ UNCHANGED <<scenario, rng, job, cut, robbed, assigned>>
      /\ cycle[i].pc \in {"list", "stop", "idle"} /\ cycle[i] \in CycleState
  BY DEF TypeInv, NoneLeft, Stopped, Stop, ReadRecord, TryLock, CycleOnly
<1>2. PICK c :
         /\ Move(i, c)
         /\ \/ c = Idle
            \/ c = [Idle EXCEPT !.pc = "stop", !.stopping = TRUE]
            \/ \E A, B : c = [cycle[i] EXCEPT !.left = A, !.cand = B]
            \/ \E B : c = [cycle[i] EXCEPT !.cand = B]
            \/ \E q : c = [cycle[i] EXCEPT !.pc = "check", !.r = q]
  <2>1. CASE NoneLeft(i) \/ Stopped(i) \/ Stop(i)
    BY <2>1 DEF NoneLeft, Stopped, Stop
  <2>2. CASE \E r \in Ranges : ReadRecord(i, r)
    BY <2>2, ZenonT(60) DEF ReadRecord
  <2>3. CASE \E r \in Ranges : TryLock(i, r)
    BY <2>3 DEF TryLock
  <2>4. QED BY <2>1, <2>2, <2>3
<1>3. c.pc \in {"idle", "stop", "list", "check"}
  <2>1. Idle \in CycleState /\ Idle.pc = "idle"
    BY ConstantsTyped DEF Idle
  <2>2. QED BY <1>1, <1>2, <2>1 DEF CycleState
<1>4. AssignedOk'
  BY <1>1, SameAssigned DEF WholeInv
<1>5. QED BY <1>1, <1>2, <1>3, <1>4, CycleLeavesNothing, CycleHasIt

LEMMA CheckingLeaves ==
    ASSUME TypeInv, CyclesOk, WholeInv, NEW i \in Instances,
           CheckRecord(i) \/ DropCandidate(i) \/ ReleaseUnlock(i)
    PROVE  WholeInv'
<1>1. /\ UNCHANGED <<scenario, rng, job, cut, assigned>> /\ cycle[i].r \in Ranges
      /\ cycle[i].pc \in {"check", "unlock", "relUnlock"} /\ cycle[i] \in CycleState
  BY CycleTyped DEF CheckRecord, DropCandidate, ReleaseUnlock, CycleOnly, CycleOk
<1>2. PICK c, p, s, B :
         /\ Move(i, c)
         /\ \/ c = Idle
            \/ c = [Idle EXCEPT !.pc = "stop", !.stopping = TRUE]
            \/ c = [cycle[i] EXCEPT !.pc = p, !.seen = s] /\ p \in {"unlock", "write"}
            \/ c = [cycle[i] EXCEPT !.pc = "list", !.cand = B, !.r = 0, !.seen = Absent]
  BY DEF CheckRecord, DropCandidate, ReleaseUnlock
<1>3. c.pc \in {"idle", "stop", "list", "unlock", "write"}
  <2>1. Idle \in CycleState /\ Idle.pc = "idle"
    BY ConstantsTyped DEF Idle
  <2>2. QED BY <1>1, <1>2, <2>1 DEF CycleState
<1>4. robbed' \subseteq Ranges
  <2>1. CASE CheckRecord(i)
    BY <2>1 DEF CheckRecord, WholeInv
  <2>2. CASE DropCandidate(i) \/ ReleaseUnlock(i)
    <3>1. PICK q \in Ranges : q = cycle[i].r
      BY <1>1
    <3>2. \E to : DropLock(q, to, {i})
      BY <2>2, <3>1 DEF DropCandidate, ReleaseUnlock
    <3>3. QED BY <3>1, <3>2, DropLockRobs
  <2>3. QED BY <2>1, <2>2
<1>5. AssignedOk'
  BY <1>1, <1>4, SameAssigned
<1>6. QED BY <1>1, <1>2, <1>3, <1>5, CycleLeavesNothing, CycleHasIt

LEMMA AcquireLeaves ==
    ASSUME TypeInv, CyclesOk, WholeInv, NEW i \in Instances, Acquire(i)
    PROVE  WholeInv'
<1>0. PICK q \in Ranges : q = cycle[i].r
  BY CycleTyped DEF Acquire, CycleOk
<1>1. /\ UNCHANGED <<scenario, job, cut, assigned, robbed>> /\ cycle[i] \in CycleState
      /\ cycle[i].pc = "write" /\ \A r \in Ranges \ {q} : rng'[r] = rng[r]
  BY <1>0, CycleTyped DEF TypeInv, Acquire, CycleOnly
<1>2. PICK c : /\ Move(i, c)
               /\ \/ c = [cycle[i] EXCEPT !.pc = "relGet", !.to = Last(q), !.cand = {}, !.seen = Absent]
                  \/ c = [cycle[i] EXCEPT !.pc = "enqueue", !.cand = {}, !.seen = Absent]
  BY <1>0 DEF Acquire
<1>3. c.r = q /\ c.pc \in {"relGet", "enqueue"} /\ (c.pc = "relGet" => c.to = Last(q))
  BY <1>0, <1>1, <1>2 DEF CycleState
<1>4. AssignedOk'
  BY <1>1, SameAssigned DEF WholeInv
<1>5. c.pc \in {"relGet", "relSet"} => Whole(c)
  BY <1>3 DEF Whole
<1>6. \A r \in Ranges : CycleHas(c, r) \/ (rng'[r] = rng[r] /\ ~CycleHas(cycle[i], r))
  BY <1>0, <1>1, <1>3, CycleHasIt
<1>7. QED BY <1>1, <1>2, <1>4, <1>5, <1>6, CycleLeavesNothing

(* A release finds the record of a range that was not cut. *)
LEMMA ReleaseLeaves ==
    ASSUME TypeInv, CyclesOk, WholeInv, NEW i \in Instances, ReleaseGet(i) \/ ReleaseSet(i)
    PROVE  WholeInv'
<1>0. PICK q \in Ranges : q = cycle[i].r
  BY CycleTyped DEF ReleaseGet, ReleaseSet, CycleOk
<1>1. /\ UNCHANGED <<scenario, job, cut, assigned, robbed>> /\ cycle[i] \in CycleState
      /\ cycle[i].pc \in {"relGet", "relSet"} /\ Whole(cycle[i])
      /\ \A r \in Ranges \ {q} : rng'[r] = rng[r]
  BY <1>0, CycleTyped DEF TypeInv, WholeInv, ReleaseGet, ReleaseSet, SetStatus, CycleOnly
<1>2. AssignedOk'
  BY <1>1, SameAssigned DEF WholeInv
<1>3. CASE ReleaseGet(i)
  <2>1. PICK c, s : /\ Move(i, c) /\ s = Stored(q, cycle[i].to) /\ rng' = rng
                    /\ c = [cycle[i] EXCEPT !.pc = IF s.status = "processing" THEN "relSet" ELSE "relUnlock",
                                            !.seen = s]
    BY <1>0, <1>3 DEF ReleaseGet
  <2>2. /\ c.r = q /\ c.to = cycle[i].to
        /\ c.pc = IF s.status = "processing" THEN "relSet" ELSE "relUnlock"
    BY <1>0, <1>1, <2>1 DEF CycleState
  <2>3. c.pc \in {"relGet", "relSet"} => Whole(c)
    BY <1>0, <1>1, <2>2 DEF Whole
  <2>4. q \notin cut => s = rng[q]
    BY <1>0, <1>1, <2>1 DEF Whole, Stored
  <2>5. \A r \in Ranges \ cut : rng'[r].status = "processing" =>
            CycleHas(c, r) \/ (rng[r].status = "processing" /\ ~CycleHas(cycle[i], r))
    BY <1>0, <2>1, <2>2, <2>4, CycleHasIt
  <2>6. QED BY <1>1, <1>2, <2>1, <2>3, <2>5, CycleLeavesNothing
<1>4. CASE ReleaseSet(i)
  <2>1. PICK c : Move(i, c) /\ c = [cycle[i] EXCEPT !.pc = "relUnlock"]
    BY <1>4 DEF ReleaseSet
  <2>2. c.pc = "relUnlock"
    BY <1>1, <2>1 DEF CycleState
  <2>3. rng'[q].status = "failed"
    <3>1. rng' = [rng EXCEPT ![q] = [cycle[i].seen EXCEPT !.status = "failed"]] /\ cycle[i].seen \in Record
      BY <1>0, <1>1, <1>4 DEF ReleaseSet, SetStatus, CycleState
    <3>2. QED BY <3>1 DEF TypeInv, Record
  <2>4. \A r \in Ranges : rng'[r].status = "processing" =>
            rng[r].status = "processing" /\ ~CycleHas(cycle[i], r)
    BY <1>0, <1>1, <2>3, CycleHasIt
  <2>5. QED BY <1>1, <1>2, <2>1, <2>2, <2>4, CycleLeavesNothing
<1>5. QED BY <1>3, <1>4

LEMMA StopNextLeaves ==
    ASSUME TypeInv, WholeInv, NEW i \in Instances, NEW r \in Ranges, NEW to, StopNext(i, r, to)
    PROVE  WholeInv'
<1>1. /\ UNCHANGED <<scenario, rng, job, cut, robbed>> /\ cycle[i] \in CycleState
      /\ cycle[i].pc = "stop"
  BY DEF TypeInv, StopNext
<1>2. PICK s : s = assigned[i]
  OBVIOUS
<1>3. /\ s \in Seq(Assignments) /\ s # <<>> /\ Head(s) = [r |-> r, to |-> to]
      /\ assigned' = [assigned EXCEPT ![i] = Tail(s)]
      /\ \A n \in DOMAIN s : Whole(s[n])
  BY <1>2 DEF WholeInv, StopNext
<1>4. s[1] = [r |-> r, to |-> to] /\ 1 \in DOMAIN s
  BY <1>3
<1>5. PICK c : Move(i, c) /\ c = [cycle[i] EXCEPT !.pc = "relGet", !.r = r, !.to = to, !.seen = Absent]
  BY DEF StopNext
<1>6. c.r = r /\ c.to = to /\ c.pc = "relGet"
  BY <1>1, <1>5 DEF CycleState
<1>7. Whole(c)
  BY <1>3, <1>4, <1>6 DEF Whole
<1>8. AssignedOk'
  <2>1. PICK t : t = Tail(s)
    OBVIOUS
  <2>2. t \in Seq(Assignments) /\ \A n \in DOMAIN t : n + 1 \in DOMAIN s /\ t[n] = s[n + 1]
    BY <1>3, <2>1
  <2>3. \A n \in DOMAIN t : t[n].r \in cut' \/ t[n].to = Last(t[n].r)
    BY <1>1, <1>3, <2>2 DEF Whole
  <2>4. QED BY <1>1, <1>3, <2>1, <2>2, <2>3, AssignedChanges
<1>9. QED BY <1>1, <1>5, <1>7, <1>8, CycleLeavesNothing, CycleHasIt

LEMMA CrashLeaves ==
    ASSUME TypeInv, WholeInv, NEW i \in Instances, Crash(i)
    PROVE  WholeInv'
<1>1. /\ UNCHANGED <<scenario, rng, job, cut, robbed>> /\ "crash" \in scenario.events
      /\ Move(i, Idle) /\ Idle.pc = "idle" /\ assigned' = [assigned EXCEPT ![i] = <<>>]
  BY DEF Crash, Idle
<1>2. PICK s : s = <<>>
  OBVIOUS
<1>3. s \in Seq(Assignments) /\ DOMAIN s = {}
  BY <1>2
<1>4. AssignedOk'
  BY <1>1, <1>2, <1>3, AssignedChanges
<1>5. QED BY <1>1, <1>4, CycleLeavesNothing

(* A range that is cut is noted when its job is queued. *)
LEMMA EnqueueLeaves ==
    ASSUME TypeInv, CyclesOk, WholeInv, NEW i \in Instances, NEW j \in Jobs, Enqueue(i, j)
    PROVE  WholeInv'
<1>0. PICK q \in Ranges : q = cycle[i].r
  BY CycleTyped DEF Enqueue, CycleOk
<1>1. cycle[i] \in CycleState /\ CycleOk(cycle[i]) /\ cycle[i].safe \in Nat /\ Last(q) \in Nat
  BY <1>0, CycleTyped, RangeBounds DEF CycleState
<1>2. PICK to : to = IF Last(q) > cycle[i].safe THEN cycle[i].safe ELSE Last(q)
  OBVIOUS
<1>3. /\ UNCHANGED <<scenario, rng, robbed>> /\ cycle[i].pc = "enqueue" /\ job[j].pc = "none"
      /\ job' = [job EXCEPT ![j] = [NoJob EXCEPT !.pc = "fetch", !.r = q, !.to = to, !.attempt = 1]]
      /\ assigned' = [assigned EXCEPT ![i] = Append(assigned[i], [r |-> q, to |-> to])]
      /\ cut' = IF to < Last(q) THEN cut \cup {q} ELSE cut
  BY <1>0, <1>2 DEF Enqueue, Loop
<1>4. to \in Nat /\ cut \subseteq cut' /\ (q \in cut' \/ to = Last(q))
  BY <1>1, <1>2, <1>3
<1>5. PICK w : w = [NoJob EXCEPT !.pc = "fetch", !.r = q, !.to = to, !.attempt = 1]
  OBVIOUS
<1>6. w.r = q /\ w.to = to /\ w.pc = "fetch"
  BY <1>5 DEF NoJob
<1>7. job'[j] = w /\ \A k \in Jobs \ {j} : job'[k] = job[k]
  BY <1>3, <1>5 DEF TypeInv
<1>8. PICK all, safe, c : /\ Move(i, c)
                          /\ c = Idle \/ c = [Idle EXCEPT !.pc = "list", !.left = all, !.safe = safe]
  BY DEF Enqueue, Loop
<1>9. c.pc \in {"idle", "list"}
  <2>1. Idle \in CycleState /\ Idle.pc = "idle"
    BY ConstantsTyped DEF Idle
  <2>2. QED BY <1>8, <2>1 DEF CycleState
<1>10. cycle'[i] = c /\ \A k \in Instances \ {i} : cycle'[k] = cycle[k]
  BY <1>8, MovedTo
<1>11. PICK s, t : s = assigned[i] /\ t = Append(s, [r |-> q, to |-> to])
  OBVIOUS
<1>12. s \in Seq(Assignments) /\ \A n \in DOMAIN s : Whole(s[n])
  BY <1>11 DEF WholeInv
<1>13. [r |-> q, to |-> to] \in Assignments
  BY <1>4 DEF Assignments
<1>14. /\ t \in Seq(Assignments)
       /\ \A n \in DOMAIN t : t[n] = [r |-> q, to |-> to] \/ (n \in DOMAIN s /\ t[n] = s[n])
  BY <1>11, <1>12, <1>13
<1>15. \A n \in DOMAIN t : t[n].r \in cut' \/ t[n].to = Last(t[n].r)
  BY <1>4, <1>12, <1>14 DEF Whole
<1>16. AssignedOk'
  BY <1>3, <1>4, <1>11, <1>14, <1>15, AssignedChanges
<1>17. \A k \in Instances : cycle'[k].pc \in {"relGet", "relSet"} => Whole(cycle[k])'
  BY <1>4, <1>9, <1>10 DEF WholeInv, Whole
<1>18. \A k \in Jobs : job'[k].pc # "none" => Whole(job[k])'
  BY <1>4, <1>6, <1>7 DEF WholeInv, Whole
<1>19. NoWholeRangeAbandoned'
  <2>1. ASSUME NEW r \in Ranges \ cut', "crash" \notin scenario.events, rng[r].status = "processing"
        PROVE  InHand(r)'
    <3>1. r \in Ranges \ cut
      BY <1>4
    <3>2. InHand(r)
      BY <2>1, <3>1, HandsAreCounted DEF WholeInv
    <3>3. CASE r = q
      BY <1>6, <1>7, <3>3 DEF InHand, JobHas, Working
    <3>4. CASE r # q
      <4>1. ~CycleHas(cycle[i], r) /\ ~JobHas(job[j], r)
        BY <1>0, <1>3, <3>4 DEF CycleHas, JobHas, Working
      <4>2. QED BY <1>7, <1>10, <3>2, <4>1 DEF InHand
    <3>5. QED BY <3>3, <3>4
  <2>2. "crash" \notin scenario'.events =>
            \A r \in Ranges \ cut' : rng'[r].status = "processing" => InHand(r)'
    BY <1>3, <2>1
  <2>3. QED BY <2>2 DEF NoWholeRangeAbandoned, InHand, JobsOn, CyclesOn, JobHas, CycleHas
<1>20. QED BY <1>16, <1>17, <1>18, <1>19 DEF WholeInv, AssignedOk

LEMMA JobHasIt == \A w, r : JobHas(w, r) <=> w.r = r /\ w.pc \in Working
BY DEF JobHas

(* The steps of a job that leave its range in hand, or had it no more. *)
LEMMA JobGoesOn ==
    ASSUME TypeInv, JobsOk, WholeInv, NEW j \in Jobs,
           \/ Fetch(j) \/ FetchFails(j) \/ Stall(j) \/ CompleteUnlock(j) \/ ReadProgress(j)
           \/ WriteProgress(j) \/ JobReleaseUnlock(j)
    PROVE  WholeInv'
<1>0. PICK q \in Ranges : q = job[j].r
  BY JobTyped DEF Fetch, FetchFails, Stall, CompleteUnlock, ReadProgress, WriteProgress,
        JobReleaseUnlock, JobOk
<1>1. /\ job[j] \in JobState /\ job[j].pc # "none" /\ Whole(job[j]) /\ JobOnly /\ UNCHANGED rng
  BY DEF TypeInv, WholeInv, Fetch, FetchFails, Stall, CompleteUnlock, ReadProgress, WriteProgress,
         JobReleaseUnlock
<1>2. robbed' \subseteq Ranges
  <2>1. CASE CompleteUnlock(j) \/ JobReleaseUnlock(j)
    <3>1. \E to : DropLock(q, to, {})
      BY <1>0, <2>1 DEF CompleteUnlock, JobReleaseUnlock
    <3>2. QED BY <3>1, DropLockRobs
  <2>2. CASE Fetch(j) \/ FetchFails(j) \/ Stall(j) \/ ReadProgress(j) \/ WriteProgress(j)
    BY <2>2 DEF WholeInv, Fetch, FetchFails, Stall, ReadProgress, WriteProgress
  <2>3. QED BY <2>1, <2>2
<1>3. PICK w :
         /\ Step(j, w)
         /\ \/ w = NoJob /\ job[j].pc \notin Working
            \/ w = [job[j] EXCEPT !.pc = "get"]
            \/ \E n : w = [job[j] EXCEPT !.retries = n, !.attempt = 1] /\ job[j].pc = "fetch"
            \/ w = [job[j] EXCEPT !.pc = "relGet"]
            \/ w = [job[j] EXCEPT !.pc = "fetch", !.seen = Absent, !.cur = 0]
            \/ \E n : w = [job[j] EXCEPT !.pc = "fetch", !.attempt = n, !.seen = Absent]
            \/ w = [job[j] EXCEPT !.pc = "readProgress", !.seen = Absent] /\ job[j].pc \notin Working
            \/ w = [job[j] EXCEPT !.pc = "writeProgress", !.cur = progress] /\ job[j].pc \notin Working
  <2>1. CASE Fetch(j) \/ Stall(j)
    BY <2>1 DEF Fetch, Stall
  <2>2. CASE FetchFails(j)
    BY <2>2 DEF FetchFails
  <2>3. CASE CompleteUnlock(j) \/ ReadProgress(j) \/ WriteProgress(j)
    BY <2>3 DEF CompleteUnlock, ReadProgress, WriteProgress, Working
  <2>4. CASE JobReleaseUnlock(j)
    BY <2>4 DEF JobReleaseUnlock, Working
  <2>5. QED BY <2>1, <2>2, <2>3, <2>4
<1>4. \/ w = NoJob /\ job[j].pc \notin Working
      \/ w.r = q /\ w.to = job[j].to /\ (w.pc \in Working \/ job[j].pc \notin Working)
  <2>1. CASE w = NoJob
    BY <1>3, <2>1 DEF NoJob, Working
  <2>2. CASE w # NoJob
    BY <1>0, <1>1, <1>3, <2>2 DEF JobState, Working
  <2>3. QED BY <2>1, <2>2
<1>5. w.pc # "none" => Whole(w)
  BY <1>0, <1>1, <1>4 DEF Whole, NoJob
<1>6. \A r \in Ranges : JobHas(w, r) \/ (rng'[r] = rng[r] /\ ~JobHas(job[j], r))
  BY <1>0, <1>1, <1>4, JobHasIt
<1>7. QED BY <1>1, <1>2, <1>3, <1>5, <1>6, JobLeavesNothing

(* A job that finds the record changes its status before it leaves. *)
LEMMA JobGets ==
    ASSUME TypeInv, JobsOk, WholeInv, NEW j \in Jobs, CompleteGet(j) \/ JobReleaseGet(j)
    PROVE  WholeInv'
<1>0. PICK q \in Ranges : q = job[j].r
  BY JobTyped DEF CompleteGet, JobReleaseGet, JobOk
<1>1. /\ job[j] \in JobState /\ job[j].pc # "none" /\ Whole(job[j]) /\ JobOnly
      /\ UNCHANGED <<rng, robbed>>
  BY DEF TypeInv, WholeInv, CompleteGet, JobReleaseGet
<1>2. PICK w, s, p :
         /\ Step(j, w) /\ s = Stored(q, job[j].to)
         /\ w = [job[j] EXCEPT !.pc = p, !.seen = s]
         /\ p \in {"set", "relSet"} \/ (p \in {"unlock", "relUnlock"} /\ s.status # "processing")
  BY <1>0 DEF CompleteGet, JobReleaseGet
<1>3. w.r = q /\ w.to = job[j].to /\ w.pc = p
  BY <1>0, <1>1, <1>2 DEF JobState
<1>4. w.pc # "none" => Whole(w)
  BY <1>0, <1>1, <1>3 DEF Whole
<1>5. q \notin cut => s = rng[q]
  BY <1>0, <1>1, <1>2 DEF Whole, Stored
<1>6. \A r \in Ranges \ cut : rng'[r].status = "processing" =>
          JobHas(w, r) \/ (rng[r].status = "processing" /\ ~JobHas(job[j], r))
  BY <1>0, <1>1, <1>2, <1>3, <1>5, JobHasIt DEF Working
<1>7. robbed' \subseteq Ranges
  BY <1>1 DEF WholeInv
<1>8. QED BY <1>1, <1>2, <1>4, <1>6, <1>7, JobLeavesNothing

LEMMA JobSets ==
    ASSUME TypeInv, JobsOk, WholeInv, NEW j \in Jobs, CompleteSet(j) \/ JobReleaseSet(j)
    PROVE  WholeInv'
<1>0. PICK q \in Ranges : q = job[j].r
  BY JobTyped DEF CompleteSet, JobReleaseSet, JobOk
<1>1. /\ job[j] \in JobState /\ job[j].pc # "none" /\ Whole(job[j]) /\ JobOnly
      /\ UNCHANGED robbed /\ job[j].seen \in Record
  BY DEF TypeInv, WholeInv, CompleteSet, JobReleaseSet, JobState
<1>2. PICK w : /\ Step(j, w)
               /\ \/ w = [job[j] EXCEPT !.pc = "unlock", !.seen = Absent]
                  \/ w = [job[j] EXCEPT !.pc = "relUnlock"]
  BY DEF CompleteSet, JobReleaseSet
<1>3. w.r = q /\ w.to = job[j].to /\ w.pc \in {"unlock", "relUnlock"}
  BY <1>0, <1>1, <1>2 DEF JobState
<1>4. w.pc # "none" => Whole(w)
  BY <1>0, <1>1, <1>3 DEF Whole
<1>5. rng'[q].status \in {"completed", "failed"} /\ \A r \in Ranges \ {q} : rng'[r] = rng[r]
  <2>1. PICK t \in {"completed", "failed"} : rng' = [rng EXCEPT ![q] = [job[j].seen EXCEPT !.status = t]]
    BY <1>0 DEF CompleteSet, JobReleaseSet, SetStatus
  <2>2. QED BY <1>1, <2>1 DEF TypeInv, Record
<1>6. \A r \in Ranges : rng'[r].status = "processing" =>
          rng[r].status = "processing" /\ ~JobHas(job[j], r)
  BY <1>0, <1>5, JobHasIt
<1>7. robbed' \subseteq Ranges
  BY <1>1 DEF WholeInv
<1>8. QED BY <1>1, <1>2, <1>4, <1>6, <1>7, JobLeavesNothing

LEMMA EnvironmentLeaves ==
    ASSUME TypeInv, WholeInv,
           \/ Confirm \/ InitializeRange \/ Restart \/ UNCHANGED vars
           \/ \E r \in Ranges : Expire(r) \/ Evict(r)
    PROVE  WholeInv'
<1>1. UNCHANGED <<scenario, cycle, job, assigned, cut, robbed>>
  BY DEF Confirm, InitializeRange, Restart, Expire, Evict, vars
<1>2. \A r \in Ranges : rng'[r] = rng[r] \/ rng'[r].status # "processing"
  <2>1. CASE Confirm \/ Restart \/ UNCHANGED vars \/ \E r \in Ranges : Expire(r)
    BY <2>1 DEF Confirm, Restart, vars, Expire
  <2>2. CASE InitializeRange
    BY <2>2 DEF TypeInv, InitializeRange, Pending
  <2>3. CASE \E r \in Ranges : Evict(r)
    BY <2>3 DEF TypeInv, Evict, Absent
  <2>4. QED BY <2>1, <2>2, <2>3
<1>3. NoWholeRangeAbandoned'
  BY <1>1, <1>2 DEF WholeInv, NoWholeRangeAbandoned, JobsOn, CyclesOn
<1>4. QED BY <1>1, <1>3 DEF WholeInv, Whole

LEMMA InitWhole == Init => WholeInv
<1> SUFFICES ASSUME Init PROVE WholeInv
  OBVIOUS
<1>1. /\ \A i \in Instances : cycle[i].pc = "idle" /\ assigned[i] = <<>>
      /\ \A j \in Jobs : job[j].pc = "none"
      /\ \A r \in Ranges : rng[r].status = "absent"
      /\ robbed = {} /\ assigned \in [Instances -> Seq(Assignments)]
  BY DEF Init, Idle, NoJob, Absent
<1>2. NoWholeRangeAbandoned
  BY <1>1 DEF NoWholeRangeAbandoned
<1>3. QED BY <1>1, <1>2 DEF WholeInv

LEMMA NextWhole == IInv /\ WholeInv /\ [Next]_vars => WholeInv'
<1> SUFFICES ASSUME IInv, WholeInv, [Next]_vars PROVE WholeInv'
  OBVIOUS
<1>0. TypeInv /\ CyclesOk /\ JobsOk
  BY DEF IInv
<1>1. CASE Confirm \/ InitializeRange \/ UNCHANGED vars
  BY <1>0, <1>1, EnvironmentLeaves
<1>2. ASSUME NEW i \in Instances, CycleStep(i) PROVE WholeInv'
  BY <1>0, <1>2, PollLeaves, ListingLeaves, CheckingLeaves, AcquireLeaves, EnqueueLeaves, ReleaseLeaves,
     StopNextLeaves DEF CycleStep
<1>3. ASSUME NEW j \in Jobs, JobStep(j) PROVE WholeInv'
  BY <1>0, <1>3, JobGoesOn, JobGets, JobSets DEF JobStep
<1>4. CASE FaultStep
  BY <1>0, <1>4, EnvironmentLeaves, ListingLeaves, CrashLeaves, JobGoesOn DEF FaultStep
<1>5. QED BY <1>1, <1>2, <1>3, <1>4 DEF Next

LEMMA WholeInvariant == Spec => [](IInv /\ WholeInv)
<1>1. Init => IInv /\ WholeInv
  BY InitInv, InitWhole
<1>2. IInv /\ WholeInv /\ [Next]_vars => (IInv /\ WholeInv)'
  BY NextInv, NextWhole
<1>3. QED BY <1>1, <1>2, PTL DEF Spec

(* The type invariant. *)
THEOREM RangesAreTyped == Spec => []TypeOK
<1>1. IInv /\ WholeInv => TypeOK
  BY DEF IInv, TypeInv, WholeInv, TypeOK, Assignments
<1>2. QED BY <1>1, WholeInvariant, PTL

(* Unless an instance crashes, a range that was not cut is in processing   *)
(* only while a cycle or a job holds it (releaseBlockRange,                *)
(* markRangeComplete).                                                     *)
THEOREM WholeRangesAreNotAbandoned == Spec => []NoWholeRangeAbandoned
<1>1. IInv /\ WholeInv => NoWholeRangeAbandoned
  BY DEF WholeInv
<1>2. QED BY <1>1, WholeInvariant, PTL
=============================================================================
