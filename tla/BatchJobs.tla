----------------------------- MODULE BatchJobs -----------------------------
(***************************************************************************)
(* One batch of QueueService (addBatchJob in                               *)
(* src/src/compute-job-queue/queue.service.ts): the loops of its           *)
(* strategies, the progress object they share with cancelBatchJob, and the *)
(* answers of the queue.                                                   *)
(*                                                                         *)
(* A chunk is what the loop awaits together: one job in the sequential and *)
(* priority loops, maxConcurrency jobs in the parallel one, whose          *)
(* Promise.all gives up at the first error while the rest of the chunk     *)
(* goes on.  job.finished() resolves with whatever the processor returned, *)
(* {success: false} included.  The queue is external.                      *)
(***************************************************************************)
EXTENDS Integers, Sequences, FiniteSets

CONSTANTS
    NumItems,     \* jobs of the batch
    Priority,     \* priority of each item, a function on 1..NumItems
    Kind          \* items of one kind get the same job id in the same millisecond

VARIABLES
    config,     \* the strategy and its parameters
    order,      \* the items in the order the loop takes them
    loop,       \* "idle", "running", "returned" or "threw"
    next,       \* how many items the loop has taken
    queued,     \* the items whose payload a job of the queue carries
    jobOf,      \* the item whose payload the job of this item carries
    progress,   \* BatchJobProgress
    late        \* history: cancelled after everything else had ended

vars == <<config, order, loop, next, queued, jobOf, progress, late>>

Items == 1..NumItems

Configs ==
    [strategy : {"sequential", "priority-based"}, chunk : {1}, continueOnError : BOOLEAN]
    \cup [strategy : {"parallel"}, chunk : 1..NumItems, continueOnError : BOOLEAN]

(* open: submitted, and the loop or an abandoned chunk waits for it. *)
SlotStatus == {"pending", "open", "completed", "failed"}

NoProgress == [status |-> "none", completed |-> 0, failed |-> 0,
               slots |-> [i \in Items |-> "pending"]]

TypeOK ==
    /\ config \in Configs
    /\ order \in [Items -> Items]
    /\ loop \in {"idle", "running", "returned", "threw"}
    /\ next \in 0..NumItems
    /\ queued \subseteq Items
    /\ jobOf \in [Items -> 0..NumItems]
    /\ progress \in [status : {"none", "running", "completed", "failed", "cancelled"},
                     completed : 0..NumItems, failed : 0..NumItems,
                     slots : [Items -> SlotStatus]]
    /\ late \in BOOLEAN

-----------------------------------------------------------------------------
Open == {i \in Items : progress.slots[i] = "open"}

Quiet == loop \in {"returned", "threw"} /\ Open = {}

(* sort is stable: equal priorities keep their order. *)
ByPriority ==
    CHOOSE s \in [Items -> Items] :
        \A i, j \in Items : i < j =>
            /\ s[i] # s[j]
            /\ \/ Priority[s[i]] < Priority[s[j]]
               \/ Priority[s[i]] = Priority[s[j]] /\ s[i] < s[j]

(* addBatchJob: the progress is stored and a loop starts. *)
AddBatchJob ==
    /\ loop = "idle"
    /\ config' \in Configs
    /\ order' = IF config'.strategy = "priority-based" THEN ByPriority ELSE [i \in Items |-> i]
    /\ loop' = "running"
    /\ progress' = [progress EXCEPT !.status = "running"]
    /\ UNCHANGED <<next, queued, jobOf, late>>

(* Mutant of NextChunk: the loop does not wait for the chunk before. *)
NextChunkUnawaited ==
    /\ loop = "running" /\ next < NumItems
    /\ LET chunk == {order[k] : k \in {k \in Items : next < k /\ k <= next + config.chunk}} IN
         /\ progress' = [progress EXCEPT !.slots =
                            [i \in Items |-> IF i \in chunk THEN "open" ELSE @[i]]]
         /\ jobOf' = [i \in Items |-> IF i \in chunk THEN i ELSE jobOf[i]]
         /\ queued' = queued \cup chunk
         /\ next' = IF next + config.chunk < NumItems THEN next + config.chunk ELSE NumItems
    /\ UNCHANGED <<config, order, loop, late>>

(* The next chunk is submitted once the one before has been answered.      *)
(* Items of one kind submitted in the same millisecond get the same id,    *)
(* and the queue keeps the first job under it. *)
NextChunk ==
    /\ loop = "running" /\ next < NumItems /\ Open = {}
    /\ LET chunk == {order[k] : k \in {k \in Items : next < k /\ k <= next + config.chunk}} IN
         /\ progress' = [progress EXCEPT !.slots =
                            [i \in Items |-> IF i \in chunk THEN "open" ELSE @[i]]]
         /\ \E merged \in SUBSET chunk :
              /\ \A i \in merged : \E k \in chunk \ merged : k < i /\ Kind[k] = Kind[i]
              /\ queued' = queued \cup (chunk \ merged)
              /\ jobOf' = [i \in Items |->
                    IF i \in merged
                    THEN CHOOSE k \in chunk \ merged :
                             Kind[k] = Kind[i] /\ \A l \in chunk \ merged : Kind[l] = Kind[i] => k <= l
                    ELSE IF i \in chunk THEN i ELSE jobOf[i]]
         /\ next' = IF next + config.chunk < NumItems THEN next + config.chunk ELSE NumItems
    /\ UNCHANGED <<config, order, loop, late>>

(* The job has ended: its promise resolves whether it succeeded or not. *)
JobFinished(i) ==
    /\ progress.slots[i] = "open"
    /\ progress' = [progress EXCEPT !.slots[i] = "completed", !.completed = @ + 1]
    /\ UNCHANGED <<config, order, loop, next, queued, jobOf, late>>

(* Mutant of JobRejected: a late error does not count. *)
JobRejectedUncounted(i) ==
    /\ progress.slots[i] = "open"
    /\ progress' =
         [progress EXCEPT !.slots[i] = "failed",
              !.failed = IF loop = "threw" THEN @ ELSE @ + 1,
              !.status = IF config.continueOnError THEN @ ELSE "failed"]
    /\ loop' = IF config.continueOnError THEN loop ELSE "threw"
    /\ UNCHANGED <<config, order, next, queued, jobOf, late>>

(* Adding the job failed or the queue failed it.  Unless errors are        *)
(* ignored, the batch is failed and its loop ends: addBatchJob throws.     *)
JobRejected(i) ==
    /\ progress.slots[i] = "open"
    /\ progress' =
         [progress EXCEPT !.slots[i] = "failed", !.failed = @ + 1,
              !.status = IF config.continueOnError THEN @ ELSE "failed"]
    /\ loop' = IF config.continueOnError THEN loop ELSE "threw"
    /\ UNCHANGED <<config, order, next, queued, jobOf, late>>

(* After the last chunk: the status is written whatever it was. *)
LoopEnds ==
    /\ loop = "running" /\ next = NumItems /\ Open = {}
    /\ loop' = "returned"
    /\ progress' = [progress EXCEPT !.status = "completed"]
    /\ UNCHANGED <<config, order, next, queued, jobOf, late>>

(* cancelBatchJob asks for nothing but that the batch exists, and the      *)
(* loops never read the status. *)
CancelBatchJob ==
    /\ loop # "idle"
    /\ progress' = [progress EXCEPT !.status = "cancelled"]
    /\ late' = Quiet
    /\ UNCHANGED <<config, order, loop, next, queued, jobOf>>

-----------------------------------------------------------------------------
Init ==
    /\ config = [strategy |-> "sequential", chunk |-> 1, continueOnError |-> TRUE]
    /\ order = [i \in Items |-> i]
    /\ loop = "idle"
    /\ next = 0
    /\ queued = {}
    /\ jobOf = [i \in Items |-> 0]
    /\ progress = NoProgress
    /\ late = FALSE

Next ==
    \/ AddBatchJob \/ NextChunk \/ LoopEnds \/ CancelBatchJob
    \/ \E i \in Items : JobFinished(i) \/ JobRejected(i)

Spec == Init /\ [][Next]_vars

-----------------------------------------------------------------------------
Slots(s) == {i \in Items : progress.slots[i] = s}

(* The loops, the jobs a failed chunk leaves behind and cancelBatchJob all *)
(* write one progress object.  Its counters are those of its slots at any  *)
(* time; once nothing is left running, it says failed exactly when an      *)
(* error was to stop the batch, completed when every item has an answer,   *)
(* and cancelled only if the cancel came last: one that came while the     *)
(* batch was running is overwritten. *)
ProgressIsTrue ==
    /\ progress.completed = Cardinality(Slots("completed"))
    /\ progress.failed = Cardinality(Slots("failed"))
    /\ Quiet =>
         /\ loop = "threw" <=> progress.failed > 0 /\ ~config.continueOnError
         /\ loop = "returned" => Slots("pending") = {}
         /\ late => progress.status = "cancelled"
         /\ ~late => progress.status \in
              {IF loop = "threw" THEN "failed" ELSE "completed", "cancelled"}
         /\ ~late /\ progress.status = "cancelled" => loop = "threw"

(* Every strategy keeps to its concurrency, and takes the items in its     *)
(* order: an item is never submitted before one the loop has to take       *)
(* first, and two answers are awaited together only within a chunk.  An    *)
(* item shown as completed has a job that carries its payload, or that of  *)
(* another item of its kind in its chunk. *)
OrderIsKept ==
    \A a, b \in Items : a < b =>
        /\ progress.slots[order[b]] # "pending" => progress.slots[order[a]] # "pending"
        /\ {order[a], order[b]} \subseteq Open => b - a < config.chunk
        /\ Priority[order[b]] < Priority[order[a]] => config.strategy # "priority-based"
        /\ progress.slots[order[b]] = "completed" =>
              LET i == order[b]  k == jobOf[i] IN
              /\ k \in queued
              /\ Kind[k] = Kind[i]
              /\ config.chunk = 1 => k = i

-----------------------------------------------------------------------------
(* Why both hold: the loop takes the items one after the other in an order *)
(* that has each of them once, those it has not taken are pending, and     *)
(* those still open are of its last chunk. *)

OrderIsOnce ==
    /\ \A a, b \in Items : order[a] = order[b] => a = b
    /\ \A i \in Items : \E a \in Items : order[a] = i
    /\ config.strategy = "priority-based" =>
          \A a, b \in Items : a < b => Priority[order[a]] <= Priority[order[b]]

ChunksInTurn ==
    \A a \in Items :
        /\ progress.slots[order[a]] = "pending" <=> a > next
        /\ progress.slots[order[a]] = "open" => a > next - config.chunk

JobsAreTheirs ==
    \A i \in Items : progress.slots[i] # "pending" =>
        /\ jobOf[i] \in queued /\ jobOf[i] \in Items
        /\ Kind[jobOf[i]] = Kind[i]
        /\ config.chunk = 1 => jobOf[i] = i

CountersAreTrue ==
    /\ progress.completed = Cardinality(Slots("completed"))
    /\ progress.failed = Cardinality(Slots("failed"))

StatusIsTrue ==
    /\ loop = "idle" => progress = NoProgress
    /\ loop = "threw" <=> Slots("failed") # {} /\ ~config.continueOnError
    /\ loop = "returned" => next = NumItems /\ Open = {}
    /\ late => Quiet /\ progress.status = "cancelled"
    /\ loop = "returned" /\ ~late => progress.status = "completed"
    /\ loop = "threw" => progress.status \in {"failed", "cancelled"}

BatchInv == OrderIsOnce /\ ChunksInTurn /\ JobsAreTheirs /\ CountersAreTrue /\ StatusIsTrue

=============================================================================
