--------------------------- MODULE EventIngestion ---------------------------
(***************************************************************************)
(* What becomes of the events of a chain: EventIngestionProcessor stores   *)
(* them, or queues them again one by one, or gives them to the dead letter *)
(* queue; ScalableIndexerService samples the stored ones for a             *)
(* reorganisation, and then deletes them and has their blocks fetched      *)
(* again (src/src/indexer).                                                *)
(*                                                                         *)
(* A block holds one event, of one transaction, which a reorganisation     *)
(* puts into another block of the same number: the event is then a block   *)
(* number and the number of its fork, and the unique index of              *)
(* IndexedEvent, which leaves the hash of the block out, lets only one     *)
(* fork's event in.  A range runs from its first block to the last one;    *)
(* how ranges are shared out, and what their locks and the fetching of     *)
(* logs may meet, is IndexerRanges; here a range is acquired, fetched and  *)
(* marked complete in one step each.                                       *)
(***************************************************************************)
EXTENDS Naturals, FiniteSets

CONSTANTS
    NumBlocks,
    Forks,        \* how often a block may be replaced, plus one (the bound)
    Checkers,     \* instances that look for a reorganisation
    MaxQueue,     \* jobs of indexer-events at once (the bound)
    MaxRetries,   \* EventIngestionProcessor.maxRetries
    MaxAttempts,  \* attempts of the indexer-events queue
    MaxFailures   \* failures of the database, the queues and the workers (the bound)

VARIABLES
    fork,     \* the fork each block is on
    range,    \* the record of the range that begins at each block
    fetch,    \* the fetch-range job of that range
    queue,    \* the jobs of indexer-events
    work,     \* the batch whose events are stored one by one (one worker: the bound)
    rows,     \* the table of IndexedEvent
    letters,  \* the events in indexer-dead-letter
    check,    \* checkForReorgs of each instance
    past      \* history: the failures, and the blocks that were let go after one

vars == <<fork, range, fetch, queue, work, rows, letters, check, past>>

Blocks == 1..NumBlocks

Upwards(b) == b..NumBlocks

Event == Blocks \X (1..Forks)

Idle == [pc |-> "idle"]

Job == [kind : {"batch", "single"}, events : SUBSET Event, retry : 0..MaxRetries, left : 1..MaxAttempts]

Batch(es) == [kind |-> "batch", events |-> es, retry |-> 0, left |-> MaxAttempts]

Single(e, retry, left) == [kind |-> "single", events |-> {e}, retry |-> retry, left |-> left]

TypeOK ==
    /\ fork \in [Blocks -> 1..Forks]
    /\ range \in [Blocks -> {"absent", "pending", "processing", "completed"}]
    /\ fetch \in [Blocks -> {"none", "fetch", "mark"}]
    /\ queue \subseteq Job /\ Cardinality(queue) <= MaxQueue
    /\ work \in {Idle} \cup [pc : {"each"}, job : Job, todo : SUBSET Event, stored : BOOLEAN]
    /\ rows \subseteq Event /\ letters \subseteq Event
    /\ check \in [Checkers -> {Idle} \cup [pc : {"sample"}, left : SUBSET Event]
                                \cup [pc : {"reset"}, left : SUBSET Event, at : Blocks]]
    /\ past \in [dropped : SUBSET Blocks, failures : 0..MaxFailures]

-----------------------------------------------------------------------------
(* The chain and the ranges *)

Reorganise(b) ==
    /\ \A c \in Upwards(b) : fork[c] < Forks
    /\ fork' = [c \in Blocks |-> IF c >= b THEN fork[c] + 1 ELSE fork[c]]
    /\ UNCHANGED <<range, fetch, queue, work, rows, letters, check, past>>

(* A pending range whose lock is free. *)
AcquireRange(b) ==
    /\ range[b] = "pending" /\ fetch[b] = "none"
    /\ range' = [range EXCEPT ![b] = "processing"]
    /\ fetch' = [fetch EXCEPT ![b] = "fetch"]
    /\ UNCHANGED <<fork, queue, work, rows, letters, check, past>>

Working(j) == work # Idle /\ work.job = j

(* Bounds: MaxQueue jobs, and none equal to the one at work. *)
Enqueue(j) ==
    /\ ~Working(j)
    /\ queue' = queue \cup {j}
    /\ Cardinality(queue') <= MaxQueue

QueueEvents(b) ==
    /\ fetch[b] = "fetch"
    /\ fetch' = [fetch EXCEPT ![b] = "mark"]
    /\ Enqueue(Batch({<<c, fork[c]>> : c \in Upwards(b)}))
    /\ UNCHANGED <<fork, range, work, rows, letters, check, past>>

(* The record is overwritten even if it was reset in the meantime. *)
MarkComplete(b) ==
    /\ fetch[b] = "mark"
    /\ range' = [range EXCEPT ![b] = "completed"]
    /\ fetch' = [fetch EXCEPT ![b] = "none"]
    /\ past' = [past EXCEPT !.dropped = IF range[b] = "pending" THEN Upwards(b) ELSE @]
    /\ UNCHANGED <<fork, queue, work, rows, letters, check>>

-----------------------------------------------------------------------------
(* EventIngestionProcessor *)

(* Two forks' events differ in no column of the unique index: the second   *)
(* is ignored, by ON CONFLICT DO NOTHING or as error 23505.                *)
Store(es) == rows' = rows \cup {e \in es : \A r \in rows : r[1] # e[1]}

(* Something fails, and bs are let go for it. *)
Failure(bs) ==
    /\ past.failures < MaxFailures
    /\ past' = [dropped |-> bs, failures |-> past.failures + 1]

(* Bull gives a job that threw out again until its attempts are used up. *)
Throw(j) == (queue \ {j}) \cup (IF j.left > 1 THEN {[j EXCEPT !.left = @ - 1]} ELSE {})

(* The whole batch in one transaction, or one event. *)
Ingest(j) ==
    /\ j \in queue /\ ~Working(j)
    /\ Store(j.events)
    /\ queue' = queue \ {j}
    /\ UNCHANGED <<fork, range, fetch, work, letters, check, past>>

(* The worker dies before the job is done, which is given out again. *)
IngestAndDie(j) ==
    /\ j \in queue /\ ~Working(j)
    /\ Store(j.events)
    /\ Failure({})
    /\ UNCHANGED <<fork, range, fetch, queue, work, letters, check>>

BatchFails(j) ==
    /\ j \in queue /\ j.kind = "batch" /\ work = Idle
    /\ work' = [pc |-> "each", job |-> j, todo |-> j.events, stored |-> FALSE]
    /\ UNCHANGED <<fork, range, fetch, queue, rows, letters, check>>
    /\ Failure({})

First(es) == CHOOSE e \in es : \A f \in es : e[1] <= f[1]

StoreNext ==
    /\ work # Idle /\ work.todo # {}
    /\ LET e == First(work.todo) IN
         /\ Store({e})
         /\ work' = [work EXCEPT !.todo = @ \ {e}, !.stored = TRUE]
    /\ UNCHANGED <<fork, range, fetch, queue, letters, check, past>>

(* Events of a batch are always queued again: it holds no retryCount. *)
RequeueNext ==
    /\ work # Idle /\ work.todo # {}
    /\ LET e == First(work.todo) IN
         /\ Enqueue(Single(e, 1, 1))
         /\ work' = [work EXCEPT !.todo = @ \ {e}]
    /\ UNCHANGED <<fork, range, fetch, rows, letters, check, past>>

(* A batch of which nothing was stored is thrown back. *)
BatchEnds ==
    /\ work # Idle /\ work.todo = {}
    /\ queue' = IF work.stored THEN queue \ {work.job} ELSE Throw(work.job)
    /\ work' = Idle
    /\ UNCHANGED <<fork, range, fetch, rows, letters, check, past>>

(* Adding to a queue fails.  A job without attempts left stays among the   *)
(* failed ones.                                                            *)
AddFails(j, es) ==
    /\ queue' = Throw(j)
    /\ Failure(IF j.left = 1 THEN {e[1] : e \in es} ELSE {})
    /\ UNCHANGED <<fork, range, fetch, rows, letters, check>>

RequeueBreaks ==
    /\ work # Idle /\ work.todo # {}
    /\ work' = Idle
    /\ AddFails(work.job, work.todo)

(* The worker dies, and the job is given out again. *)
Stall ==
    /\ work # Idle
    /\ work' = Idle
    /\ UNCHANGED <<fork, range, fetch, queue, rows, letters, check>>
    /\ Failure({})

(* The last retry leads to the dead letters; the job throws in any case. *)
SingleFails(j) ==
    /\ j \in queue /\ j.kind = "single"
    /\ \E e \in j.events :
          IF j.retry >= MaxRetries
          THEN letters' = letters \cup {e} /\ queue' = Throw(j)
          ELSE /\ queue' = Throw(j) \cup {Single(e, j.retry + 1, 1)}
               /\ Cardinality(queue') <= MaxQueue
               /\ UNCHANGED letters
    /\ UNCHANGED <<fork, range, fetch, work, rows, check>>
    /\ Failure({})

SingleBreaks(j) ==
    /\ j \in queue /\ j.kind = "single"
    /\ AddFails(j, j.events)
    /\ UNCHANGED work

(* retryDeadLetterJob, with the attempts of the queue. *)
RetryDeadLetterJob(e) ==
    /\ e \in letters
    /\ letters' = letters \ {e}
    /\ Enqueue(Single(e, 0, MaxAttempts))
    /\ UNCHANGED <<fork, range, fetch, work, rows, check, past>>

-----------------------------------------------------------------------------
(* ScalableIndexerService.checkForReorgs *)

(* Bound: a check begins when it has something to find. *)
CheckForReorgs(i) ==
    /\ check[i] = Idle /\ \E e \in rows : e[2] # fork[e[1]]
    /\ check' = [check EXCEPT ![i] = [pc |-> "sample", left |-> rows]]
    /\ UNCHANGED <<fork, range, fetch, queue, work, rows, letters, past>>

(* The samples are compared from the highest block down. *)
Last(es) == CHOOSE e \in es : \A f \in es : e[1] >= f[1]

Rest(left) == IF left = {} THEN Idle ELSE [pc |-> "sample", left |-> left]

(* The sample is still on the chain, or the chain does not answer. *)
Pass(i) ==
    /\ check[i].pc = "sample"
    /\ LET left == check[i].left IN check' = [check EXCEPT ![i] = Rest(left \ {Last(left)})]
    /\ UNCHANGED <<fork, range, fetch, queue, work, rows, letters, past>>

(* handleReorg deletes what is stored from the block on ... *)
DeleteEvents(i) ==
    /\ check[i].pc = "sample"
    /\ LET left == check[i].left
           e == Last(left)
       IN /\ fork[e[1]] # e[2]
          /\ rows' = {r \in rows : r[1] < e[1]}
          /\ check' = [check EXCEPT ![i] = [pc |-> "reset", left |-> left \ {e}, at |-> e[1]]]
    /\ UNCHANGED <<fork, range, fetch, queue, work, letters, past>>

(* Mutant of ResetRange: a record that is there already is kept. *)
ResetAbsentRange(i) ==
    /\ check[i].pc = "reset"
    /\ range' = [range EXCEPT ![check[i].at] = IF @ = "absent" THEN "pending" ELSE @]
    /\ check' = [check EXCEPT ![i] = Rest(check[i].left)]
    /\ UNCHANGED <<fork, fetch, queue, work, rows, letters, past>>

(* ... and writes the record of a range that begins there. *)
ResetRange(i) ==
    /\ check[i].pc = "reset"
    /\ range' = [range EXCEPT ![check[i].at] = "pending"]
    /\ check' = [check EXCEPT ![i] = Rest(check[i].left)]
    /\ UNCHANGED <<fork, fetch, queue, work, rows, letters, past>>

(* The error is logged, and the events stay deleted. *)
ResetFails(i) ==
    /\ check[i].pc = "reset"
    /\ Failure(Upwards(check[i].at))
    /\ check' = [check EXCEPT ![i] = Rest(check[i].left)]
    /\ UNCHANGED <<fork, range, fetch, queue, work, rows, letters>>

-----------------------------------------------------------------------------
Init ==
    /\ fork = [b \in Blocks |-> 1]
    /\ range = [b \in Blocks |-> IF b = 1 THEN "pending" ELSE "absent"]
    /\ fetch = [b \in Blocks |-> "none"]
    /\ queue = {} /\ work = Idle /\ rows = {} /\ letters = {}
    /\ past = [dropped |-> {}, failures |-> 0]
    /\ check = [i \in Checkers |-> Idle]

(* Bound: a behaviour ends with the first block that is let go. *)
Next ==
    /\ past.dropped = {}
    /\ \/ \E b \in Blocks : Reorganise(b) \/ AcquireRange(b) \/ QueueEvents(b) \/ MarkComplete(b)
       \/ \E j \in queue : Ingest(j) \/ IngestAndDie(j) \/ BatchFails(j) \/ SingleFails(j) \/ SingleBreaks(j)
       \/ StoreNext \/ RequeueNext \/ BatchEnds \/ RequeueBreaks \/ Stall
       \/ \E e \in letters : RetryDeadLetterJob(e)
       \/ \E i \in Checkers :
             CheckForReorgs(i) \/ Pass(i) \/ DeleteEvents(i) \/ ResetRange(i) \/ ResetFails(i)

Spec == Init /\ [][Next]_vars

-----------------------------------------------------------------------------
(* Somewhere there is an event of block b, of this fork or of another one. *)
Somewhere(b) ==
    \E e \in rows \cup letters \cup UNION {j.events : j \in queue} : e[1] = b

(* The block is still to be fetched, or about to be said so. *)
Awaited(b) ==
    \/ \E c \in 1..b : range[c] = "pending" \/ fetch[c] = "fetch"
    \/ \E i \in Checkers : check[i].pc = "reset" /\ check[i].at <= b

(* No event vanishes: as long as no reset of a range is lost and no queue  *)
(* refuses an event, every block has its event in the table, in a job or   *)
(* among the dead letters, or is going to be fetched.  A stale event       *)
(* counts, since it keeps the new one out until the check deletes it.      *)
NoEventVanishes == \A b \in Blocks \ past.dropped : Somewhere(b) \/ Awaited(b)

-----------------------------------------------------------------------------
(* Why no event vanishes: what the jobs, the batch at work and the checks  *)
(* hold, and where the events are that the batch has dealt with already. *)

SinglesAreSingle ==
    /\ IsFiniteSet(queue)
    /\ \A j \in queue : j.kind = "single" => \A e, f \in j.events : e = f

WorkIsQueued == work # Idle => work.job \in queue /\ work.job.kind = "batch"

SamplesAreLeft == \A i \in Checkers : check[i].pc = "sample" => check[i].left # {}

HeldBesides(j, b) ==
    \/ Awaited(b)
    \/ \E e \in rows \cup letters : e[1] = b
    \/ \E k \in queue : k # j /\ \E e \in k.events : e[1] = b

DealtWithIsHeld ==
    past.dropped = {} /\ work # Idle =>
        \A e \in work.job.events : e \notin work.todo => HeldBesides(work.job, e[1])

IngestionInv ==
    /\ SinglesAreSingle /\ WorkIsQueued /\ SamplesAreLeft
    /\ NoEventVanishes /\ DealtWithIsHeld
=============================================================================
