-------------------------- MODULE RewardPipeline ---------------------------
(***************************************************************************)
(* RewardPipelineService                                                   *)
(* (src/src/reward-engine/reward-pipeline.service.ts): rows of reward      *)
(* calculations, the queue of their ids in memory, the one processing      *)
(* loop, and the manual retry of failed ones.  The processor that pays is  *)
(* another service, reached by messages: a request that timed out may      *)
(* still be paid.                                                          *)
(***************************************************************************)
EXTENDS Naturals, Sequences

CONSTANTS
    Calcs,         \* the calculations
    Requests,      \* events and retries in flight (the bound)
    MaxQueue,      \* bound of the queue
    MaxPaid        \* bound: payments of one calculation

VARIABLES
    row,       \* the stored calculations
    queue,     \* processingQueue
    work,      \* the loop: what processCalculation is waiting for
    late,      \* requests that timed out and may still be paid
    request,   \* calls of processRewardEvent and retryFailedCalculation
    paid,      \* history: payments of each calculation
    unsure,    \* history: a payment was recorded as failed, or may have been
    doubled,   \* history: reset by a retry that held an old row
    lost       \* history: in memory when the process stopped

vars == <<row, queue, work, late, request, paid, unsure, doubled, lost>>

Row == {"absent", "pending", "success", "failure"}

Idle == [pc |-> "idle"]

TypeOK ==
    /\ row \in [Calcs -> Row]
    /\ queue \in Seq(Calcs) /\ Len(queue) <= MaxQueue
    /\ work \in {Idle} \cup [pc : {"find", "send"}, id : Calcs]
                       \cup [pc : {"save"}, id : Calcs, result : {"success", "failure"}]
    /\ late \subseteq Calcs
    /\ request \in [Requests -> {Idle} \cup [pc : {"push"}, id : Calcs]
                                   \cup [pc : {"save"}, id : Calcs, read : Row]]
    /\ paid \in [Calcs -> 0..MaxPaid]
    /\ unsure \subseteq Calcs /\ doubled \subseteq Calcs /\ lost \subseteq Calcs

-----------------------------------------------------------------------------
Queued(c) == \E i \in DOMAIN queue : queue[i] = c

InWork(c) == work # Idle /\ work.id = c

Pushing(c) == \E r \in Requests : request[r].pc = "push" /\ request[r].id = c

GoPush(r, c) == request' = [request EXCEPT ![r] = [pc |-> "push", id |-> c]]

GoSave(r, c) == request' = [request EXCEPT ![r] = [pc |-> "save", id |-> c, read |-> row[c]]]

(* processRewardEvent: the rows are saved, then their ids are queued. *)
ProcessRewardEvent(r, c) ==
    /\ request[r] = Idle /\ row[c] = "absent"
    /\ row' = [row EXCEPT ![c] = "pending"]
    /\ GoPush(r, c)
    /\ UNCHANGED <<queue, work, late, paid, unsure, doubled, lost>>

Push(r) ==
    /\ request[r].pc = "push" /\ Len(queue) < MaxQueue
    /\ queue' = Append(queue, request[r].id)
    /\ request' = [request EXCEPT ![r] = Idle]
    /\ UNCHANGED <<row, work, late, paid, unsure, doubled, lost>>

(* The timer takes one id, unless the one before is still being processed. *)
Shift ==
    /\ work = Idle /\ queue # <<>>
    /\ work' = [pc |-> "find", id |-> Head(queue)]
    /\ queue' = Tail(queue)
    /\ UNCHANGED <<row, late, request, paid, unsure, doubled, lost>>

(* A row that is processed already is skipped. *)
Find ==
    /\ work.pc = "find"
    /\ work' = IF row[work.id] = "pending" THEN [pc |-> "send", id |-> work.id] ELSE Idle
    /\ UNCHANGED <<row, queue, late, request, paid, unsure, doubled, lost>>

Pay(c) == paid' = [paid EXCEPT ![c] = @ + 1]

(* The processor pays and its answer arrives, it refuses, or nothing       *)
(* arrives in 30 seconds and the calculation is taken for failed. *)
Answer ==
    /\ work.pc = "send" /\ paid[work.id] < MaxPaid
    /\ \/ /\ Pay(work.id)
          /\ work' = [pc |-> "save", id |-> work.id, result |-> "success"]
          /\ UNCHANGED <<late, unsure>>
       \/ /\ work' = [pc |-> "save", id |-> work.id, result |-> "failure"]
          /\ UNCHANGED <<paid, late, unsure>>
       \/ /\ work' = [pc |-> "save", id |-> work.id, result |-> "failure"]
          /\ late' = late \cup {work.id}
          /\ unsure' = unsure \cup {work.id}
          /\ UNCHANGED paid
    /\ UNCHANGED <<row, queue, request, doubled, lost>>

LatePayment(c) ==
    /\ c \in late /\ paid[c] < MaxPaid
    /\ Pay(c)
    /\ late' = late \ {c}
    /\ UNCHANGED <<row, queue, work, request, unsure, doubled, lost>>

(* The result is saved.  If that fails, the calculation is saved as        *)
(* failed; if that fails too, the loop drops it. *)
SaveResult ==
    /\ work.pc = "save"
    /\ LET c == work.id IN
         \/ row' = [row EXCEPT ![c] = work.result] /\ UNCHANGED <<unsure, lost>>
         \/ /\ row' = [row EXCEPT ![c] = "failure"]
            /\ unsure' = unsure \cup {c}
            /\ UNCHANGED lost
         \/ lost' = lost \cup {c} /\ UNCHANGED <<row, unsure>>
    /\ work' = Idle
    /\ UNCHANGED <<queue, late, request, paid, doubled>>

(* Mutant of RetryReads: a calculation that succeeded may be retried. *)
RetryReadsProcessed(r, c) ==
    /\ request[r] = Idle
    /\ row[c] \in {"success", "failure"}
    /\ GoSave(r, c)
    /\ UNCHANGED <<row, queue, work, late, paid, unsure, doubled, lost>>

(* retryFailedCalculation: only a failed one. *)
RetryReads(r, c) ==
    /\ request[r] = Idle
    /\ row[c] = "failure"
    /\ GoSave(r, c)
    /\ UNCHANGED <<row, queue, work, late, paid, unsure, doubled, lost>>

(* It resets the row it read, whatever happened to it since. *)
RetrySaves(r) ==
    /\ request[r].pc = "save"
    /\ LET c == request[r].id IN
         /\ row' = [row EXCEPT ![c] = "pending"]
         /\ doubled' = IF row[c] # request[r].read THEN doubled \cup {c} ELSE doubled
         /\ GoPush(r, c)
    /\ UNCHANGED <<queue, work, late, paid, unsure, lost>>

(* The queue and the work in progress are in memory only. *)
Restart ==
    /\ queue # <<>> \/ work # Idle \/ \E r \in Requests : request[r] # Idle
    /\ lost' = lost \cup {c \in Calcs : Queued(c) \/ InWork(c) \/ Pushing(c)}
    /\ queue' = <<>>
    /\ late' = IF work.pc = "send" THEN late \cup {work.id} ELSE late
    /\ work' = Idle
    /\ request' = [r \in Requests |-> Idle]
    /\ UNCHANGED <<row, paid, unsure, doubled>>

-----------------------------------------------------------------------------
Init ==
    /\ row = [c \in Calcs |-> "absent"]
    /\ queue = <<>>
    /\ work = Idle
    /\ late = {}
    /\ request = [r \in Requests |-> Idle]
    /\ paid = [c \in Calcs |-> 0]
    /\ unsure = {} /\ doubled = {} /\ lost = {}

Next ==
    \/ \E r \in Requests :
          \/ \E c \in Calcs : ProcessRewardEvent(r, c) \/ RetryReads(r, c)
          \/ RetrySaves(r) \/ Push(r)
    \/ Shift \/ Find \/ Answer \/ SaveResult \/ Restart
    \/ \E c \in Calcs : LatePayment(c)

Spec == Init /\ [][Next]_vars

-----------------------------------------------------------------------------
(* A reward is paid at most once, and the row agrees with what was paid:   *)
(* success means paid and failure not paid, and a pending row is queued or *)
(* being processed.  Excepted are the calculations where the code cannot   *)
(* know or overlooks it: a request that timed out or a result that could   *)
(* not be saved (recorded as failed, and paid again on a retry), two       *)
(* retries that both read the failure, and what was only in memory when    *)
(* the process stopped. *)
PaidOnce ==
    \A c \in Calcs \ (unsure \cup doubled \cup lost) :
        /\ paid[c] <= 1
        /\ row[c] = "success" => paid[c] = 1
        /\ row[c] = "failure" => paid[c] = 0
        /\ row[c] = "pending" =>
              \/ paid[c] = 0 /\ (Queued(c) \/ Pushing(c) \/ InWork(c))
              \/ work.pc = "save" /\ work.id = c

-----------------------------------------------------------------------------
(* Why it holds: a calculation without exception is in at most one place.  *)

Excepted == unsure \cup doubled \cup lost

OnePlace(c) ==
    /\ \A r, s \in Requests : request[r].pc = "push" /\ request[r].id = c
                            /\ request[s].pc = "push" /\ request[s].id = c => r = s
    /\ \A i, j \in DOMAIN queue : queue[i] = c /\ queue[j] = c => i = j
    /\ Pushing(c) => ~Queued(c) /\ ~InWork(c)
    /\ Queued(c) => ~InWork(c)

Saving(c) == work.pc = "save" /\ work.id = c

(* It is somewhere exactly while its row is pending, and the payments are  *)
(* those its row, or the result about to be saved, tells of. *)
PaymentsAgree(c) ==
    /\ row[c] = "pending" <=> Pushing(c) \/ Queued(c) \/ InWork(c)
    /\ Saving(c) => paid[c] = IF work.result = "success" THEN 1 ELSE 0
    /\ ~Saving(c) => paid[c] = IF row[c] = "success" THEN 1 ELSE 0

(* Only a request whose outcome is unknown may still be paid, and a retry  *)
(* holds a row it read as failed. *)
RewardInv ==
    /\ \A c \in Calcs \ Excepted : OnePlace(c) /\ PaymentsAgree(c)
    /\ late \subseteq Excepted
    /\ \A r \in Requests : request[r].pc = "save" => request[r].read = "failure"

=============================================================================
