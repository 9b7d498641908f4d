--------------------------- MODULE IndexerRanges ---------------------------
(***************************************************************************)
(* How the indexer instances share out the blocks of a chain:              *)
(* BlockCoordinatorService keeps one record and one lock per range of      *)
(* blocks in Redis, ScalableIndexerService acquires ranges and queues a    *)
(* fetch-range job for each, BlockFetchProcessor fetches the logs and      *)
(* marks the range complete, or releases it after its last retry.          *)
(*                                                                         *)
(* An action is the code between two awaits that reach Redis, the queue or *)
(* the chain: a record is read in one step and written whole in a later    *)
(* one.  The keys of a range hold both its ends, so a call about a range   *)
(* that was cut short at the safe head finds no record and no lock.        *)
(* extendRangeLock has no action: it compares the lock's owner with the    *)
(* instanceId of the stored range, which is -1, and never extends.         *)
(*                                                                         *)
(* A behaviour follows one scenario: the safe head it starts from, how     *)
(* many ranges the coordinator writes (up to endBlock), and what the       *)
(* environment may do:                                                     *)
(*   "grow"     more blocks are confirmed                                  *)
(*   "expire"   a lock outlives its TTL (INDEXER_LOCK_TTL_SECONDS)         *)
(*   "crash"    an instance dies in the middle of a polling cycle          *)
(*   "stall"    the worker of a job dies, the queue runs the job again     *)
(*   "fetch"    fetching the logs of a range fails                         *)
(*   "stop"     an instance shuts down between two cycles                  *)
(*   "restart"  the coordinator starts again and rewrites every record     *)
(*   "evict"    a record outlives its 24 hours or is cleaned up            *)
(***************************************************************************)
EXTENDS Integers, Sequences, FiniteSets

CONSTANTS
    Instances,    \* indexer instances, each running one cycle at a time
    Nobody,       \* a lock that is free
    MaxJobs,      \* fetch-range jobs in the queue at once (the bound)
    NumRanges,    \* ranges the coordinator can write (the bound)
    RangeSize,    \* INDEXER_RANGE_SIZE
    MaxAcquired,  \* maxConcurrentRanges
    MaxTries,     \* acquisitions of a failed range, 3 in the code
    MaxRetries,   \* BlockFetchProcessor.maxRetries
    MaxAttempts,  \* attempts of the indexer-blocks queue
    Scenarios     \* what may happen in a behaviour and where it starts

AllEvents == {"grow", "expire", "crash", "stall", "fetch", "stop", "restart", "evict"}

ASSUME IndexerAssumption ==
    /\ Nobody \notin Instances
    /\ MaxJobs \in Nat /\ NumRanges \in Nat /\ RangeSize \in Nat \ {0}
    /\ MaxAcquired \in Nat \ {0} /\ MaxTries \in Nat
    /\ MaxRetries \in Nat /\ MaxAttempts \in Nat
    /\ Scenarios \subseteq [events : SUBSET AllEvents, head : Nat, total : 0..NumRanges]

VARIABLES
    scenario,  \* the scenario of this behaviour, chosen at its start
    head,      \* the last block with enough confirmations
    written,   \* how many records the coordinator has written since it started
    rng,       \* the record of each range
    lock,      \* the owner of each range's lock
    progress,  \* indexer:global:progress:current
    cycle,     \* the polling cycle, or the shutdown, of each instance
    assigned,  \* assignedRanges of each instance
    job,       \* the fetch-range jobs
    indexed,   \* history: blocks whose events were queued for ingestion
    cut,       \* history: ranges that were cut short at the safe head
    robbed     \* history: ranges whose lock was deleted under another instance

vars == <<scenario, head, written, rng, lock, progress, cycle, assigned, job, indexed, cut, robbed>>

Ranges == 1..NumRanges
Jobs == 1..MaxJobs
First(r) == (r - 1) * RangeSize + 1
Last(r) == r * RangeSize

Status == {"absent", "pending", "processing", "completed", "failed"}
Record == [status : Status, tries : Nat]
Absent == [status |-> "absent", tries |-> 0]
Pending == [status |-> "pending", tries |-> 0]

(* A cycle at rest, or one that knows the safe head and is about to list   *)
(* the keys, read the records left to read, lock the first candidate,      *)
(* read its record, drop its lock, write its record or queue its job; a    *)
(* shutdown about to take its next range; or one of the two in             *)
(* releaseBlockRange, for a range ahead of the safe head or for stop().    *)
CycleState == [pc : {"idle", "list", "check", "unlock", "write", "enqueue",
                     "stop", "relGet", "relSet", "relUnlock"},
               safe : Nat, left : SUBSET Ranges, cand : SUBSET Ranges,
               r : Ranges \cup {0}, to : Nat, seen : Record, stopping : BOOLEAN]

Idle == [pc |-> "idle", safe |-> 0, left |-> {}, cand |-> {}, r |-> 0, to |-> 0,
         seen |-> Absent, stopping |-> FALSE]

(* A free slot, a job that waits or fetches, one in markRangeComplete (its *)
(* record, its lock, the global progress) or one in releaseBlockRange.     *)
JobState == [pc : {"none", "fetch", "get", "set", "unlock", "readProgress", "writeProgress",
                   "relGet", "relSet", "relUnlock"},
             r : Ranges \cup {0}, to : Nat, retries : Nat, attempt : Nat,
             seen : Record, cur : Nat]

NoJob == [pc |-> "none", r |-> 0, to |-> 0, retries |-> 0, attempt |-> 0,
          seen |-> Absent, cur |-> 0]

TypeOK ==
    /\ scenario \in Scenarios
    /\ head \in Nat /\ progress \in Nat
    /\ written \in 0..NumRanges
    /\ rng \in [Ranges -> Record]
    /\ lock \in [Ranges -> Instances \cup {Nobody}]
    /\ cycle \in [Instances -> CycleState]
    /\ assigned \in [Instances -> Seq([r : Ranges, to : Nat])]
    /\ job \in [Jobs -> JobState]
    /\ indexed \subseteq Nat
    /\ cut \subseteq Ranges
    /\ robbed \subseteq Ranges

Init ==
    /\ scenario \in Scenarios
    /\ head = scenario.head
    /\ written = 0
    /\ rng = [r \in Ranges |-> Absent]
    /\ lock = [r \in Ranges |-> Nobody]
    /\ progress = 0
    /\ cycle = [i \in Instances |-> Idle]
    /\ assigned = [i \in Instances |-> <<>>]
    /\ job = [j \in Jobs |-> NoJob]
    /\ indexed = {}
    /\ cut = {}
    /\ robbed = {}

-----------------------------------------------------------------------------
(* The Redis keys *)

(* Mutant: the record is looked up by the first block only. *)
StoredByStart(r, to) == rng[r]

(* The record under the key range-<First(r)>-<to>. *)
Stored(r, to) == IF to = Last(r) THEN rng[r] ELSE Absent

(* acquireBlockRange lists what is pending or failed not too often. *)
Listed(rec) == rec.status = "pending" \/ (rec.status = "failed" /\ rec.tries < MaxTries)

(* Mutant: a range being processed is not refused. *)
RefusedIfMissing(rec) == rec.status = "absent"

(* tryAcquireRange refuses a missing record and one being processed.  The  *)
(* retryCount is counted up to MaxTries: more makes no difference to Listed. *)
Refused(rec) == rec.status \in {"absent", "processing"}

Taken(rec) ==
    [status |-> "processing",
     tries |-> IF rec.status = "failed" /\ rec.tries < MaxTries THEN rec.tries + 1 ELSE rec.tries]

SetStatus(r, rec, status) == rng' = [rng EXCEPT ![r] = [rec EXCEPT !.status = status]]

(* The instances whose tryAcquireRange took the lock of range r and runs.  *)
Acquirers(r) == {i \in Instances : cycle[i].r = r /\ cycle[i].pc \in {"check", "unlock", "write"}}
Acquiring(r) == Acquirers(r) # {}

(* Deleting the key of the lock, whoever holds it: the caller, a job or    *)
(* the cycle of one instance, may rob another one of it.                   *)
DropLock(r, to, caller) ==
    IF to = Last(r)
    THEN /\ lock' = [lock EXCEPT ![r] = Nobody]
         /\ robbed' = IF Acquirers(r) \subseteq caller THEN robbed ELSE robbed \cup {r}
    ELSE UNCHANGED <<lock, robbed>>

-----------------------------------------------------------------------------
(* The chain and the coordinator *)

(* One more block is confirmed. *)
Confirm ==
    /\ "grow" \in scenario.events
    /\ head < Last(scenario.total)
    /\ head' = head + 1
    /\ UNCHANGED <<scenario, written, rng, lock, robbed, progress, cycle, assigned, job, indexed, cut>>

(* Mutant: the loop writes one record too many. *)
InitializeOneMore ==
    /\ written <= scenario.total
    /\ written' = written + 1
    /\ rng' = [rng EXCEPT ![written + 1] = Pending]
    /\ UNCHANGED <<scenario, head, lock, robbed, progress, cycle, assigned, job, indexed, cut>>

(* initializeRanges: one record per step, over whatever is there. *)
InitializeRange ==
    /\ written < scenario.total
    /\ written' = written + 1
    /\ rng' = [rng EXCEPT ![written + 1] = Pending]
    /\ UNCHANGED <<scenario, head, lock, robbed, progress, cycle, assigned, job, indexed, cut>>

Restart ==
    /\ "restart" \in scenario.events
    /\ written = scenario.total
    /\ written' = 0
    /\ UNCHANGED <<scenario, head, rng, lock, robbed, progress, cycle, assigned, job, indexed, cut>>

(* tryAcquireRange takes less time than the lock it took, or the record it *)
(* read, lives: neither expires under it.                                  *)
Expire(r) ==
    /\ "expire" \in scenario.events
    /\ lock[r] # Nobody
    /\ ~Acquiring(r)
    /\ lock' = [lock EXCEPT ![r] = Nobody]
    /\ UNCHANGED <<scenario, head, written, rng, robbed, progress, cycle, assigned, job, indexed, cut>>

(* cleanupOldRanges also deletes the lock of the completed range it deletes. *)
Evict(r) ==
    /\ "evict" \in scenario.events
    /\ rng[r] # Absent
    /\ ~Acquiring(r)
    /\ rng' = [rng EXCEPT ![r] = Absent]
    /\ \/ UNCHANGED <<lock, robbed>>
       \/ /\ rng[r].status = "completed"
          /\ lock' = [lock EXCEPT ![r] = Nobody] /\ UNCHANGED robbed
    /\ UNCHANGED <<scenario, head, written, progress, cycle, assigned, job, indexed, cut>>

-----------------------------------------------------------------------------
(* A polling cycle: acquireAndProcessRanges, acquireBlockRange,            *)
(* tryAcquireRange                                                         *)

Move(i, c) == cycle' = [cycle EXCEPT ![i] = c]

CycleOnly == UNCHANGED <<scenario, head, written, progress, assigned, job, indexed, cut>>

(* The loop goes on while fewer than MaxAcquired ranges are assigned. *)
Loop(i, safe, ranges) ==
    /\ assigned' = [assigned EXCEPT ![i] = ranges]
    /\ Move(i, IF Len(ranges) < MaxAcquired
               THEN [Idle EXCEPT !.pc = "list", !.left = 1..scenario.total, !.safe = safe]
               ELSE Idle)

(* The assigned ranges whose last block is not confirmed yet, in order. *)
Unconfirmed(ranges) ==
    LET kept == {n \in DOMAIN ranges : ranges[n].to > head}
        nth(k) == CHOOSE n \in kept : Cardinality({m \in kept : m <= n}) = k
    IN  [k \in 1..Cardinality(kept) |-> ranges[nth(k)]]

(* Mutant: the safe head is one block short. *)
PollShort(i) ==
    /\ cycle[i].pc = "idle"
    /\ Loop(i, head - 1, Unconfirmed(assigned[i]))
    /\ UNCHANGED <<scenario, head, written, rng, lock, robbed, progress, job, indexed, cut>>

(* The entries whose last block is confirmed are forgotten first. *)
Poll(i) ==
    /\ cycle[i].pc = "idle"
    /\ Loop(i, head, Unconfirmed(assigned[i]))
    /\ UNCHANGED <<scenario, head, written, rng, lock, robbed, progress, job, indexed, cut>>

ReadRecord(i, r) ==
    /\ cycle[i].pc = "list"
    /\ r \in cycle[i].left
    /\ Move(i, [cycle[i] EXCEPT !.left = @ \ {r},
                                !.cand = IF Listed(rng[r]) THEN @ \cup {r} ELSE @])
    /\ UNCHANGED <<rng, lock, robbed>> /\ CycleOnly

NoneLeft(i) ==
    /\ cycle[i].pc = "list"
    /\ cycle[i].left = {} /\ cycle[i].cand = {}
    /\ Move(i, Idle)
    /\ UNCHANGED <<rng, lock, robbed>> /\ CycleOnly

(* The first candidate's lock, SET NX; the next candidate if it is taken. *)
TryLock(i, r) ==
    /\ cycle[i].pc = "list"
    /\ cycle[i].left = {}
    /\ r \in cycle[i].cand /\ \A q \in cycle[i].cand : r <= q
    /\ \/ /\ lock[r] = Nobody
          /\ lock' = [lock EXCEPT ![r] = i]
          /\ Move(i, [cycle[i] EXCEPT !.pc = "check", !.r = r])
          /\ UNCHANGED robbed
       \/ /\ lock[r] # Nobody
          /\ Move(i, [cycle[i] EXCEPT !.cand = @ \ {r}])
          /\ UNCHANGED <<lock, robbed>>
    /\ UNCHANGED rng /\ CycleOnly

CheckRecord(i) ==
    /\ cycle[i].pc = "check"
    /\ LET rec == rng[cycle[i].r]
       IN  Move(i, [cycle[i] EXCEPT !.pc = IF Refused(rec) THEN "unlock" ELSE "write", !.seen = rec])
    /\ UNCHANGED <<rng, lock, robbed>> /\ CycleOnly

DropCandidate(i) ==
    /\ cycle[i].pc = "unlock"
    /\ DropLock(cycle[i].r, Last(cycle[i].r), {i})
    /\ Move(i, [cycle[i] EXCEPT !.pc = "list", !.cand = @ \ {cycle[i].r}, !.r = 0, !.seen = Absent])
    /\ UNCHANGED rng /\ CycleOnly

(* The range is acquired; one that starts ahead of the safe head is given  *)
(* back at once.                                                           *)
Acquire(i) ==
    /\ cycle[i].pc = "write"
    /\ LET c == cycle[i]
       IN  /\ rng' = [rng EXCEPT ![c.r] = Taken(c.seen)]
           /\ Move(i, IF First(c.r) > c.safe
                      THEN [c EXCEPT !.pc = "relGet", !.to = Last(c.r), !.cand = {}, !.seen = Absent]
                      ELSE [c EXCEPT !.pc = "enqueue", !.cand = {}, !.seen = Absent])
    /\ UNCHANGED <<lock, robbed>> /\ CycleOnly

(* The range, cut at the safe head, is assigned and its job is added. *)
Enqueue(i, j) ==
    /\ cycle[i].pc = "enqueue"
    /\ job[j].pc = "none" /\ \A k \in Jobs : job[k].pc = "none" => j <= k
    /\ LET c == cycle[i]
           to == IF Last(c.r) > c.safe THEN c.safe ELSE Last(c.r)
       IN  /\ job' = [job EXCEPT ![j] = [NoJob EXCEPT !.pc = "fetch", !.r = c.r, !.to = to, !.attempt = 1]]
           /\ Loop(i, c.safe, Append(assigned[i], [r |-> c.r, to |-> to]))
           /\ cut' = IF to < Last(c.r) THEN cut \cup {c.r} ELSE cut
    /\ UNCHANGED <<scenario, head, written, rng, lock, robbed, progress, indexed>>

-----------------------------------------------------------------------------
(* releaseBlockRange in a cycle and in stop(), onModuleDestroy             *)

(* stop() releases what is assigned, one range after the other. *)
Stop(i) ==
    /\ "stop" \in scenario.events
    /\ cycle[i].pc = "idle"
    /\ Move(i, [Idle EXCEPT !.pc = "stop", !.stopping = TRUE])
    /\ UNCHANGED <<rng, lock, robbed>> /\ CycleOnly

StopNext(i, r, to) ==
    /\ cycle[i].pc = "stop"
    /\ assigned[i] # <<>> /\ Head(assigned[i]) = [r |-> r, to |-> to]
    /\ assigned' = [assigned EXCEPT ![i] = Tail(@)]
    /\ Move(i, [cycle[i] EXCEPT !.pc = "relGet", !.r = r, !.to = to, !.seen = Absent])
    /\ UNCHANGED <<scenario, head, written, rng, lock, robbed, progress, job, indexed, cut>>

Stopped(i) ==
    /\ cycle[i].pc = "stop"
    /\ assigned[i] = <<>>
    /\ Move(i, Idle)
    /\ UNCHANGED <<rng, lock, robbed>> /\ CycleOnly

ReleaseGet(i) ==
    /\ cycle[i].pc = "relGet"
    /\ LET rec == Stored(cycle[i].r, cycle[i].to)
       IN  Move(i, [cycle[i] EXCEPT !.pc = IF rec.status = "processing" THEN "relSet" ELSE "relUnlock",
                                    !.seen = rec])
    /\ UNCHANGED <<rng, lock, robbed>> /\ CycleOnly

ReleaseSet(i) ==
    /\ cycle[i].pc = "relSet"
    /\ SetStatus(cycle[i].r, cycle[i].seen, "failed")
    /\ Move(i, [cycle[i] EXCEPT !.pc = "relUnlock"])
    /\ UNCHANGED <<lock, robbed>> /\ CycleOnly

ReleaseUnlock(i) ==
    /\ cycle[i].pc = "relUnlock"
    /\ DropLock(cycle[i].r, cycle[i].to, {i})
    /\ Move(i, IF cycle[i].stopping THEN [Idle EXCEPT !.pc = "stop", !.stopping = TRUE] ELSE Idle)
    /\ UNCHANGED rng /\ CycleOnly

Crash(i) ==
    /\ "crash" \in scenario.events
    /\ cycle[i].pc # "idle"
    /\ Move(i, Idle)
    /\ assigned' = [assigned EXCEPT ![i] = <<>>]
    /\ UNCHANGED <<scenario, head, written, rng, lock, robbed, progress, job, indexed, cut>>

-----------------------------------------------------------------------------
(* A fetch-range job: handleBlockRange, markRangeComplete,                 *)
(* updateGlobalProgress, releaseBlockRange                                 *)

Step(j, w) == job' = [job EXCEPT ![j] = w]

JobOnly == UNCHANGED <<scenario, head, written, cycle, assigned, cut>>

Fetch(j) ==
    /\ job[j].pc = "fetch"
    /\ indexed' = indexed \cup (First(job[j].r)..job[j].to)
    /\ Step(j, [job[j] EXCEPT !.pc = "get"])
    /\ UNCHANGED <<rng, lock, robbed, progress>> /\ JobOnly

(* A failure queues the range again as a new job, the last one releases    *)
(* it.  What a failed fetch queued does not count as indexed.              *)
FetchFails(j) ==
    /\ "fetch" \in scenario.events
    /\ job[j].pc = "fetch"
    /\ Step(j, IF job[j].retries < MaxRetries
               THEN [job[j] EXCEPT !.retries = @ + 1, !.attempt = 1]
               ELSE [job[j] EXCEPT !.pc = "relGet"])
    /\ UNCHANGED <<rng, lock, robbed, progress, indexed>> /\ JobOnly

CompleteGet(j) ==
    /\ job[j].pc = "get"
    /\ LET rec == Stored(job[j].r, job[j].to)
       IN  Step(j, [job[j] EXCEPT !.pc = IF rec.status = "absent" THEN "unlock" ELSE "set", !.seen = rec])
    /\ UNCHANGED <<rng, lock, robbed, progress, indexed>> /\ JobOnly

CompleteSet(j) ==
    /\ job[j].pc = "set"
    /\ SetStatus(job[j].r, job[j].seen, "completed")
    /\ Step(j, [job[j] EXCEPT !.pc = "unlock", !.seen = Absent])
    /\ UNCHANGED <<lock, robbed, progress, indexed>> /\ JobOnly

CompleteUnlock(j) ==
    /\ job[j].pc = "unlock"
    /\ DropLock(job[j].r, job[j].to, {})
    /\ Step(j, [job[j] EXCEPT !.pc = "readProgress", !.seen = Absent])
    /\ UNCHANGED <<rng, progress, indexed>> /\ JobOnly

ReadProgress(j) ==
    /\ job[j].pc = "readProgress"
    /\ Step(j, [job[j] EXCEPT !.pc = "writeProgress", !.cur = progress])
    /\ UNCHANGED <<rng, lock, robbed, progress, indexed>> /\ JobOnly

(* Mutant: progress goes to the end of the range, cut or not. *)
WriteRangeEnd(j) ==
    /\ job[j].pc = "writeProgress"
    /\ progress' = IF Last(job[j].r) > job[j].cur THEN Last(job[j].r) ELSE progress
    /\ Step(j, NoJob)
    /\ UNCHANGED <<rng, lock, robbed, indexed>> /\ JobOnly

WriteProgress(j) ==
    /\ job[j].pc = "writeProgress"
    /\ progress' = IF job[j].to > job[j].cur THEN job[j].to ELSE progress
    /\ Step(j, NoJob)
    /\ UNCHANGED <<rng, lock, robbed, indexed>> /\ JobOnly

(* Mutant: a release drops the lock and leaves the record. *)
JobReleaseLock(j) ==
    /\ job[j].pc = "relGet"
    /\ Step(j, [job[j] EXCEPT !.pc = "relUnlock"])
    /\ UNCHANGED <<rng, lock, robbed, progress, indexed>> /\ JobOnly

JobReleaseGet(j) ==
    /\ job[j].pc = "relGet"
    /\ LET rec == Stored(job[j].r, job[j].to)
       IN  Step(j, [job[j] EXCEPT !.pc = IF rec.status = "processing" THEN "relSet" ELSE "relUnlock",
                                  !.seen = rec])
    /\ UNCHANGED <<rng, lock, robbed, progress, indexed>> /\ JobOnly

JobReleaseSet(j) ==
    /\ job[j].pc = "relSet"
    /\ SetStatus(job[j].r, job[j].seen, "failed")
    /\ Step(j, [job[j] EXCEPT !.pc = "relUnlock"])
    /\ UNCHANGED <<lock, robbed, progress, indexed>> /\ JobOnly

(* The handler throws: the queue runs the job again until its last attempt. *)
JobReleaseUnlock(j) ==
    /\ job[j].pc = "relUnlock"
    /\ DropLock(job[j].r, job[j].to, {})
    /\ Step(j, IF job[j].attempt < MaxAttempts
               THEN [job[j] EXCEPT !.pc = "fetch", !.attempt = @ + 1, !.seen = Absent]
               ELSE NoJob)
    /\ UNCHANGED <<rng, progress, indexed>> /\ JobOnly

Stall(j) ==
    /\ "stall" \in scenario.events
    /\ job[j].pc \notin {"none", "fetch"}
    /\ Step(j, [job[j] EXCEPT !.pc = "fetch", !.seen = Absent, !.cur = 0])
    /\ UNCHANGED <<rng, lock, robbed, progress, indexed>> /\ JobOnly

-----------------------------------------------------------------------------
CycleStep(i) ==
    \/ Poll(i) \/ (\E r \in Ranges : ReadRecord(i, r)) \/ NoneLeft(i)
    \/ (\E r \in Ranges : TryLock(i, r)) \/ CheckRecord(i) \/ DropCandidate(i) \/ Acquire(i)
    \/ (\E j \in Jobs : Enqueue(i, j))
    \/ (\E r \in Ranges : \E to \in First(r)..Last(r) : StopNext(i, r, to)) \/ Stopped(i)
    \/ ReleaseGet(i) \/ ReleaseSet(i) \/ ReleaseUnlock(i)

JobStep(j) ==
    \/ Fetch(j) \/ CompleteGet(j) \/ CompleteSet(j) \/ CompleteUnlock(j)
    \/ ReadProgress(j) \/ WriteProgress(j)
    \/ JobReleaseGet(j) \/ JobReleaseSet(j) \/ JobReleaseUnlock(j)

FaultStep ==
    \/ Restart
    \/ \E r \in Ranges : Expire(r) \/ Evict(r)
    \/ \E i \in Instances : Stop(i) \/ Crash(i)
    \/ \E j \in Jobs : FetchFails(j) \/ Stall(j)

Next ==
    \/ Confirm \/ InitializeRange \/ FaultStep
    \/ \E i \in Instances : CycleStep(i)
    \/ \E j \in Jobs : JobStep(j)

Spec == Init /\ [][Next]_vars

(* The coordinator's loop, the instances' timers and the queue's workers   *)
(* go on; the chain need not grow and no fault need happen.                *)
Fairness ==
    /\ WF_vars(InitializeRange)
    /\ \A i \in Instances : WF_vars(CycleStep(i))
    /\ \A j \in Jobs : WF_vars(JobStep(j))

FairSpec == Spec /\ Fairness
-----------------------------------------------------------------------------
(* Properties *)

Working == {"fetch", "get", "set", "relGet", "relSet"}

(* The jobs, and the cycles, that hold range r and have yet to write what  *)
(* became of it.                                                           *)
JobsOn(r) == {j \in Jobs : job[j].r = r /\ job[j].pc \in Working}
CyclesOn(r) == {i \in Instances : cycle[i].r = r /\ cycle[i].pc \in {"enqueue", "relGet", "relSet"}}

(* A range is marked completed only when the events of all its blocks were *)
(* queued for ingestion, whatever was cut, released, restarted or run      *)
(* twice: a job that fetched a part of a range never marks the whole.      *)
(* (handleBlockRange, markRangeComplete)                                   *)
CompletedIsIndexed ==
    \A r \in Ranges : rng[r].status = "completed" => First(r)..Last(r) \subseteq indexed

(* The global progress is the last block of a range that was fetched, never *)
(* a block nobody fetched. (updateGlobalProgress)                          *)
ProgressIsReached == progress # 0 => progress \in indexed

(* A range is in one hand at a time: two instances never hold it and no    *)
(* second job is queued for it, although the lists of candidates are stale *)
(* when they are used, locks expire and records are evicted, unless the    *)
(* lock of the range was deleted under an instance that had taken it:      *)
(* unlocking does not look at the owner.  While locks and records outlive  *)
(* their ranges nobody is robbed of a lock, however instances crash.       *)
(* (tryAcquireRange, markRangeComplete, releaseBlockRange)                 *)
OneHandPerRange ==
    /\ scenario.events \subseteq {"grow", "crash"} => robbed = {}
    /\ scenario.events \subseteq {"grow", "crash", "expire", "evict"} =>
           \A r \in Ranges \ robbed : Cardinality(JobsOn(r)) + Cardinality(CyclesOn(r)) <= 1

(* Unless an instance crashes, a range that was handed out whole is in     *)
(* processing only while a cycle or a job still holds it: nothing is left  *)
(* in a status in which nobody can acquire it. (releaseBlockRange,         *)
(* markRangeComplete)                                                      *)
NoWholeRangeAbandoned ==
    "crash" \notin scenario.events =>
        \A r \in Ranges \ cut : rng[r].status = "processing" => JobsOn(r) # {} \/ CyclesOn(r) # {}

(* The same of every range, as the test of markRangeComplete has it.  It   *)
(* does not hold of a range cut at the safe head: the keys its completion  *)
(* and its release look for do not exist.                                  *)
NoRangeAbandoned ==
    \A r \in Ranges : rng[r].status = "processing" => JobsOn(r) # {} \/ CyclesOn(r) # {}

(* When every block is confirmed and nothing fails, all ranges are         *)
(* completed in the end and stay so.                                       *)
CatchUpCompletes ==
    (scenario.events \subseteq {"expire"} /\ head = Last(scenario.total)) =>
        <>[](\A r \in 1..scenario.total : rng[r].status = "completed")
=============================================================================
