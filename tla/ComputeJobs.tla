---------------------------- MODULE ComputeJobs ----------------------------
(***************************************************************************)
(* The life of compute jobs: the control calls of QueueService             *)
(* (src/src/compute-job-queue/queue.service.ts) and the processor          *)
(* (compute-job.processor.ts) between them and Bull.                       *)
(*                                                                         *)
(* A control call is a row of awaits: getJob copies the job's data,        *)
(* getState answers later, and update and moveToDelayed, or promote and    *)
(* update, are two more commands; workers and other calls run in between.  *)
(* Bull is external: a job has one state, a worker that takes it holds its *)
(* lock, a job whose worker died is given to another one, and what a       *)
(* worker without the lock returns is dropped.                             *)
(***************************************************************************)
EXTENDS Naturals, FiniteSets

CONSTANTS
    Jobs,
    Workers,
    Calls,         \* control calls in flight at once (the bound)
    MaxAttempts,   \* maxAttempts of the retry policy
    MaxStalls      \* bound: worker deaths per job

VARIABLES
    job,      \* Bull's record of each job, and history of what was told about it
    worker,   \* what each worker is doing
    call,     \* the control calls in flight
    halted    \* pauseQueue

vars == <<job, worker, call, halted>>

(* parked: delayed by a year. *)
Status == {"waiting", "active", "delayed", "parked", "completed", "failed", "removed"}

Counted == 0..2

Bump(n) == IF n = 2 THEN 2 ELSE n + 1

(* ok, bad: events compute.job.completed and compute.job.failed sent, with *)
(* those for the workflow; letters: copies in the dead letter queue; lost: *)
(* an add to it was refused; disturbed: a control call overlapped another  *)
(* call or a worker, or broke off. *)
Job == [status : Status, paused : BOOLEAN, tries : 0..MaxAttempts, lock : SUBSET Workers,
        result : {"none", "ok", "bad", "silent"}, ok : Counted, bad : Counted,
        letters : Counted, lost : BOOLEAN, stalls : 0..MaxStalls, disturbed : BOOLEAN]

Added == [status |-> "waiting", paused |-> FALSE, tries |-> 0, lock |-> {}, result |-> "none",
          ok |-> 0, bad |-> 0, letters |-> 0, lost |-> FALSE, stalls |-> 0, disturbed |-> FALSE]

Idle == [pc |-> "idle"]

WorkerState == {Idle} \cup [pc : {"run", "buried"}, job : Jobs]
                      \cup [pc : {"returning"}, job : Jobs, result : {"ok", "bad", "silent"}]

CallState == {Idle} \cup [pc : {"state", "update", "move", "promote", "unmark", "remove"},
                          op : {"pause", "resume", "cancel"}, job : Jobs, paused : BOOLEAN]

TypeOK ==
    /\ job \in [Jobs -> Job]
    /\ worker \in [Workers -> WorkerState]
    /\ call \in [Calls -> CallState]
    /\ halted \in BOOLEAN

-----------------------------------------------------------------------------
(* Bound: the history of a job is dropped once no property looks at it. *)
Kept(r) ==
    IF r.disturbed \/ r.stalls > 0
    THEN [r EXCEPT !.ok = 0, !.bad = 0, !.letters = 0, !.lost = FALSE, !.result = "none"] ELSE r

Set(j, r) == job' = [job EXCEPT ![j] = Kept(r)]

InFlight(j) == {c \in Calls : call[c].pc # "idle" /\ call[c].job = j}

RunBy(j) == {w \in Workers : worker[w].pc # "idle" /\ worker[w].job = j}

CallReturns(c) == call' = [call EXCEPT ![c] = Idle]

CallGoes(c, pc) == call' = [call EXCEPT ![c].pc = pc]

(* getJob: the call holds a copy of the job's data from here on.  Bound:   *)
(* once calls have overlapped or broken off, no further one begins. *)
Ask(c, op, j) ==
    /\ call[c].pc = "idle"
    /\ job[j].status # "removed" /\ ~job[j].disturbed
    /\ op = "resume" => job[j].paused
    /\ call' = [call EXCEPT ![c] =
                   [pc |-> IF op = "resume" THEN "promote" ELSE "state",
                    op |-> op, job |-> j, paused |-> job[j].paused]]
    /\ Set(j, [job[j] EXCEPT !.disturbed = @ \/ InFlight(j) # {}])
    /\ UNCHANGED <<worker, halted>>

(* Mutant of PauseState: an active job may be paused too. *)
PauseStateAny(c) ==
    /\ call[c].pc = "state" /\ call[c].op = "pause"
    /\ IF job[call[c].job].status \in {"waiting", "delayed", "parked", "active"}
       THEN CallGoes(c, "update") ELSE CallReturns(c)
    /\ UNCHANGED <<job, worker, halted>>

(* pauseJob: getState, and the states that may be paused. *)
PauseState(c) ==
    /\ call[c].pc = "state" /\ call[c].op = "pause"
    /\ IF job[call[c].job].status \in {"waiting", "delayed", "parked"}
       THEN CallGoes(c, "update") ELSE CallReturns(c)
    /\ UNCHANGED <<job, worker, halted>>

(* update writes the data copied by getJob, marked as paused. *)
PauseUpdate(c) ==
    /\ call[c].pc = "update"
    /\ LET j == call[c].job IN
         IF job[j].status = "removed" THEN CallReturns(c) /\ UNCHANGED job
         ELSE CallGoes(c, "move") /\ Set(j, [job[j] EXCEPT !.paused = TRUE])
    /\ UNCHANGED <<worker, halted>>

(* moveToDelayed ignores the lock: it takes an active job off its list. *)
PauseMove(c) ==
    /\ call[c].pc = "move"
    /\ LET j == call[c].job IN
         Set(j, [job[j] EXCEPT !.status =
                    IF @ \in {"waiting", "delayed", "active", "parked"} THEN "parked" ELSE @])
    /\ CallReturns(c)
    /\ UNCHANGED <<worker, halted>>

(* resumeJob: promote refuses a job that is not delayed. *)
ResumePromote(c) ==
    /\ call[c].pc = "promote"
    /\ LET j == call[c].job IN
         IF job[j].status \in {"delayed", "parked"}
         THEN CallGoes(c, "unmark") /\ Set(j, [job[j] EXCEPT !.status = "waiting"])
         ELSE CallReturns(c) /\ UNCHANGED job
    /\ UNCHANGED <<worker, halted>>

ResumeUpdate(c) ==
    /\ call[c].pc = "unmark"
    /\ LET j == call[c].job IN Set(j, [job[j] EXCEPT !.paused = FALSE])
    /\ CallReturns(c)
    /\ UNCHANGED <<worker, halted>>

CancelState(c) ==
    /\ call[c].pc = "state" /\ call[c].op = "cancel"
    /\ IF job[call[c].job].status = "completed" THEN CallReturns(c) ELSE CallGoes(c, "remove")
    /\ UNCHANGED <<job, worker, halted>>

(* remove; the queue may refuse a job that is locked. *)
CancelRemove(c) ==
    /\ call[c].pc = "remove"
    /\ LET j == call[c].job IN
         \/ Set(j, [job[j] EXCEPT !.status = "removed"])
         \/ job[j].lock # {} /\ UNCHANGED job
    /\ CallReturns(c)
    /\ UNCHANGED <<worker, halted>>

(* An error of Redis ends a call between two of its commands. *)
CallBreaks(c) ==
    /\ call[c].pc # "idle"
    /\ Set(call[c].job, [job[call[c].job] EXCEPT !.disturbed = TRUE])
    /\ CallReturns(c)
    /\ UNCHANGED <<worker, halted>>

(* One command: removeJob, retryJob (of a failed job), emptyQueue,         *)
(* cleanOldJobs, pauseQueue and resumeQueue. *)
RemoveJob(j) ==
    /\ job[j].status # "removed" /\ job[j].lock = {}
    /\ Set(j, [job[j] EXCEPT !.status = "removed"])
    /\ UNCHANGED <<worker, call, halted>>

RetryJob(j) ==
    /\ job[j].status = "failed"
    /\ Set(j, [job[j] EXCEPT !.status = "waiting"])
    /\ UNCHANGED <<worker, call, halted>>

Sweep(states) ==
    /\ job' = [j \in Jobs |-> IF job[j].status \in states
                              THEN [job[j] EXCEPT !.status = "removed"] ELSE job[j]]
    /\ UNCHANGED <<worker, call, halted>>

EmptyQueue == Sweep({"waiting", "delayed", "parked"})

CleanOldJobs == Sweep({"completed"})

HaltQueue == halted' = ~halted /\ UNCHANGED <<job, worker, call>>

Control ==
    \/ \E c \in Calls :
          \/ \E op \in {"pause", "resume", "cancel"}, j \in Jobs : Ask(c, op, j)
          \/ PauseState(c) \/ PauseUpdate(c) \/ PauseMove(c)
          \/ ResumePromote(c) \/ ResumeUpdate(c)
          \/ CancelState(c) \/ CancelRemove(c) \/ CallBreaks(c)
    \/ \E j \in Jobs : RemoveJob(j) \/ RetryJob(j)
    \/ EmptyQueue \/ CleanOldJobs \/ HaltQueue

-----------------------------------------------------------------------------
(* Bull gives a waiting job and its lock to a free worker. *)
Take(w, j) ==
    /\ ~halted
    /\ worker[w].pc = "idle"
    /\ job[j].status = "waiting"
    /\ worker' = [worker EXCEPT ![w] = [pc |-> "run", job |-> j]]
    /\ Set(j, [job[j] EXCEPT !.status = "active", !.lock = {w},
                             !.disturbed = @ \/ InFlight(j) # {} \/ RunBy(j) # {}])
    /\ UNCHANGED <<call, halted>>

Returning(w, result) ==
    worker' = [worker EXCEPT ![w] = [pc |-> "returning", job |-> worker[w].job, result |-> result]]

(* A cached result, or cache-only without one: no event is sent. *)
Answered(w) ==
    /\ worker[w].pc = "run"
    /\ Returning(w, "silent")
    /\ UNCHANGED <<job, call, halted>>

(* The work is done, stored and recorded; the events are sent. *)
Succeed(w) ==
    /\ worker[w].pc = "run"
    /\ LET j == worker[w].job IN Set(j, [job[j] EXCEPT !.ok = Bump(@)])
    /\ Returning(w, "ok")
    /\ UNCHANGED <<call, halted>>

(* shouldRetry, by the number of attempts made. *)
Retries(j) == job[j].tries < MaxAttempts - 1

(* Mutant of ThrowOn: the processor adds the job again instead of throwing *)
(* and the count of attempts starts from zero. *)
ThrowOnAddAgain(w) ==
    /\ worker[w].pc = "run"
    /\ LET j == worker[w].job IN
         /\ Retries(j)
         /\ Set(j, IF job[j].lock # {w} \/ job[j].status = "removed" THEN job[j]
                   ELSE [job[j] EXCEPT !.tries = 0, !.lock = {}, !.status = "delayed"])
    /\ worker' = [worker EXCEPT ![w] = Idle]
    /\ UNCHANGED <<call, halted>>

(* The work threw, or recording the result did, and shouldRetry agrees:    *)
(* the error is thrown on to Bull, which delays the job while it has       *)
(* attempts left and keeps it as failed when it has none. *)
ThrowOn(w) ==
    /\ worker[w].pc = "run"
    /\ LET j == worker[w].job  tries == job[j].tries + 1 IN
         /\ Retries(j)
         /\ Set(j, IF job[j].lock # {w} \/ job[j].status = "removed" THEN job[j]
                   ELSE [job[j] EXCEPT !.tries = tries, !.lock = {},
                            !.status = IF tries < MaxAttempts THEN "delayed" ELSE "failed"])
    /\ worker' = [worker EXCEPT ![w] = Idle]
    /\ UNCHANGED <<call, halted>>

(* Attempts exhausted or an error that is not retried: moveToDeadLetter,   *)
(* whose own errors are swallowed. *)
Bury(w) ==
    /\ worker[w].pc = "run"
    /\ \E stored \in BOOLEAN :
         LET j == worker[w].job IN
           Set(j, IF stored THEN [job[j] EXCEPT !.letters = Bump(@)]
                  ELSE [job[j] EXCEPT !.lost = TRUE])
    /\ worker' = [worker EXCEPT ![w].pc = "buried"]
    /\ UNCHANGED <<call, halted>>

(* Mutant of TellFailure: the events are left out. *)
TellNothing(w) ==
    /\ worker[w].pc = "buried"
    /\ Returning(w, "bad")
    /\ UNCHANGED <<job, call, halted>>

(* The failure events; the processor returns, it does not throw. *)
TellFailure(w) ==
    /\ worker[w].pc = "buried"
    /\ LET j == worker[w].job IN Set(j, [job[j] EXCEPT !.bad = Bump(@)])
    /\ Returning(w, "bad")
    /\ UNCHANGED <<call, halted>>

(* Whatever was returned, Bull marks the job as completed. *)
Return(w) ==
    /\ worker[w].pc = "returning"
    /\ LET j == worker[w].job IN
         Set(j, IF job[j].lock # {w} \/ job[j].status = "removed" THEN job[j]
                ELSE [job[j] EXCEPT !.status = "completed", !.lock = {},
                                    !.result = worker[w].result])
    /\ worker' = [worker EXCEPT ![w] = Idle]
    /\ UNCHANGED <<call, halted>>

(* The worker dies.  Bull gives its job out again once; the next time it   *)
(* fails the job without calling the processor. *)
Stall(w) ==
    /\ worker[w].pc # "idle"
    /\ LET j == worker[w].job IN
         /\ job[j].stalls < MaxStalls
         /\ Set(j, IF job[j].lock # {w} THEN job[j]
                   ELSE [job[j] EXCEPT !.lock = {}, !.stalls = @ + 1,
                            !.status = IF @ # "active" THEN @
                                       ELSE IF job[j].stalls = 0 THEN "waiting" ELSE "failed"])
    /\ worker' = [worker EXCEPT ![w] = Idle]
    /\ UNCHANGED <<call, halted>>

(* The backoff is over. *)
BackoffEnds(j) ==
    /\ job[j].status = "delayed"
    /\ Set(j, [job[j] EXCEPT !.status = "waiting"])
    /\ UNCHANGED <<worker, call, halted>>

Finish(w) == Answered(w) \/ Succeed(w) \/ ThrowOn(w) \/ Bury(w) \/ TellFailure(w) \/ Return(w)

Progress ==
    \/ \E w \in Workers : Finish(w) \/ \E j \in Jobs : Take(w, j)
    \/ \E j \in Jobs : BackoffEnds(j)

-----------------------------------------------------------------------------
Init ==
    /\ job = [j \in Jobs |-> Added]
    /\ worker = [w \in Workers |-> Idle]
    /\ call = [c \in Calls |-> Idle]
    /\ halted = FALSE

Next == Control \/ Progress \/ \E w \in Workers : Stall(w)

Spec == Init /\ [][Next]_vars

(* Workers take jobs, finish what they took and backoffs end; nobody has   *)
(* to call, and workers need not die. *)
Fairness == WF_vars(Progress)

-----------------------------------------------------------------------------
Quiet(j) == InFlight(j) = {} /\ ~job[j].disturbed /\ job[j].status # "removed"

(* pauseJob and resumeJob change two things in two commands.  A job whose  *)
(* control calls never overlapped another call or a worker, and never      *)
(* broke off, is marked as paused exactly when it is parked: otherwise it  *)
(* runs while it is shown as paused, or waits a year and resumeJob refuses *)
(* it. *)
PauseIsExact == \A j \in Jobs : Quiet(j) => (job[j].paused <=> job[j].status = "parked")

(* The result Bull keeps, the events the workflow hears and the dead       *)
(* letter queue tell the same story about a job whose worker never died:   *)
(* nothing while it may still run, one event and at most one letter at the *)
(* end, no event after a cached answer, no letter only if the queue        *)
(* refused it. *)
OutcomesAgree ==
    \A j \in Jobs :
        Quiet(j) /\ job[j].stalls = 0 /\ RunBy(j) = {} =>
            LET r == job[j].result IN
            /\ job[j].status = "completed" <=> r # "none"
            /\ job[j].status # "failed"
            /\ job[j].ok = IF r = "ok" THEN 1 ELSE 0
            /\ job[j].bad = IF r = "bad" THEN 1 ELSE 0
            /\ job[j].letters = IF r = "bad" /\ ~job[j].lost THEN 1 ELSE 0

Settled(j) == job[j].status \in {"completed", "failed", "removed", "parked"}

(* Every job ends, is parked or is removed, again and again if it is       *)
(* resumed or retried; a queue that is halted excuses it. *)
JobsEnd == \A j \in Jobs : []<>(Settled(j) \/ halted)

-----------------------------------------------------------------------------
(* Why both hold: while no call has overlapped or broken off, one call at  *)
(* most has a job, in a state that call asked for; the worker that runs it *)
(* holds its lock; and what was told so far is what that worker has done.  *)

Intact(j) == ~job[j].disturbed /\ job[j].status # "removed"

OneCall(j) ==
    /\ \A c, d \in InFlight(j) : c = d
    /\ \A c \in InFlight(j) :
          /\ call[c].pc \in {"update", "move"} => job[j].status \in {"waiting", "delayed", "parked"}
          /\ call[c].pc = "move" => job[j].paused
          /\ call[c].pc = "promote" => job[j].status = "parked"
          /\ call[c].pc = "unmark" => job[j].status = "waiting"

MarkIsTrue(j) ==
    (\A c \in InFlight(j) : call[c].pc \notin {"move", "unmark"}) =>
        (job[j].paused <=> job[j].status = "parked")

LockIsTrue(j) == \A w \in RunBy(j) : job[j].status = "active" /\ job[j].lock = {w}

Told(j, r) ==
    /\ job[j].ok = IF r = "ok" THEN 1 ELSE 0
    /\ job[j].bad = IF r = "bad" THEN 1 ELSE 0
    /\ job[j].letters = IF r = "bad" /\ ~job[j].lost THEN 1 ELSE 0
    /\ job[j].lost => r = "bad"

StoryIsTrue(j) ==
    /\ job[j].status = "completed" <=> job[j].result # "none"
    /\ job[j].status # "failed"
    /\ RunBy(j) = {} => Told(j, job[j].result)
    /\ \A w \in RunBy(j) :
          /\ worker[w].pc = "run" => Told(j, "none")
          /\ worker[w].pc = "returning" => Told(j, worker[w].result)
          /\ worker[w].pc = "buried" =>
                /\ job[j].ok = 0 /\ job[j].bad = 0
                /\ job[j].letters = IF job[j].lost THEN 0 ELSE 1

Consistent(j) ==
    /\ OneCall(j) /\ MarkIsTrue(j) /\ LockIsTrue(j)
    /\ job[j].stalls = 0 => StoryIsTrue(j)

JobInv == \A j \in Jobs : Intact(j) => Consistent(j)

=============================================================================
