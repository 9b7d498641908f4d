---------------------------- MODULE DagWorkflow ----------------------------
(***************************************************************************)
(* DagService (src/src/compute-job-queue/dag/dag.service.ts) driving one   *)
(* workflow through the Bull compute queue.                                *)
(*                                                                         *)
(* The service is single-threaded but asynchronous: every `await` on       *)
(* queueService.addComputeJob is a point where the other in-flight calls   *)
(* (submitWorkflow, and one handler per "dag.job.*" event) may run.  One   *)
(* action is one run of code between two awaits; call[c] holds what the    *)
(* suspended call c keeps in its local variables: the node it is           *)
(* enqueuing and the rest of the readyJobs list it computed earlier.       *)
(*                                                                         *)
(* The queue and its worker are outside this module: an add is accepted,   *)
(* rejected, or answered with an older job of the same id, and a job ends  *)
(* by one of the two events or by none.  Faults names which of these the   *)
(* environment may do:                                                     *)
(*   "reject"   queue.add throws                                           *)
(*   "silent"   a job ends and no dag event is emitted: a cache hit, a     *)
(*              cache-only miss, or the job removed by the control API     *)
(*   "early"    a job ends before the add that created it is answered      *)
(*   "collide"  generateJobId yields the id of an earlier job              *)
(***************************************************************************)
EXTENDS Naturals, FiniteSets

CONSTANTS
    Nodes,      \* node ids of the workflow
    Pos,        \* position of a node in dto.nodes: the iteration order of workflow.nodes
    Kind,       \* (groupKey, type, user) of a node: what its job id is made of
    Dtos,       \* the dependency maps a client may submit
    Calls,      \* calls of the service that can be in flight at once (the bound)
    Faults,     \* what the environment may do, see above
    NoNode      \* "not enqueuing any node"

Conditions == {"onSuccess", "onFailure", "onPartialSuccess", "always"}

NodeStatus == {"pending", "queued", "running", "completed", "failed", "skipped", "cancelled"}

Terminal == {"completed", "failed", "skipped", "cancelled"}

Deps == [Nodes -> SUBSET [job : Nodes, cond : Conditions]]

(* DagValidator refuses a workflow without nodes. *)
ASSUME DagAssumption ==
    /\ Nodes # {}
    /\ Pos \in [Nodes -> Nat]
    /\ \A m, n \in Nodes : Pos[m] = Pos[n] => m = n
    /\ DOMAIN Kind = Nodes
    /\ Dtos \subseteq Deps
    /\ Faults \subseteq {"reject", "silent", "early", "collide"}
    /\ NoNode \notin Nodes

VARIABLES
    dependsOn,  \* DagNode.dependsOn of every node
    wf,         \* DagWorkflow.status, "none" before submission
    node,       \* DagNode.status of every node
    call,       \* the in-flight calls
    live,       \* jobs of a node the queue holds and the service knows of
    added,      \* jobs of a node ever created in the queue
    reached,    \* history: every status a node has had
    cancelSeen  \* history: cancelWorkflow has succeeded once

vars == <<dependsOn, wf, node, call, live, added, reached, cancelSeen>>

Idle == [pc |-> "idle", kind |-> "advance", at |-> NoNode, todo |-> {}]

(* Where a call is suspended: "adding" waits for Redis; "accepted",        *)
(* "overtaken", "deduped" and "rejected" have an answer the code has not   *)
(* seen; "resumed" has left enqueueNode and is about to take the next one. *)
Adding == {"adding", "accepted", "overtaken", "deduped", "rejected"}

CallState == [pc : Adding \cup {"idle", "resumed"}, kind : {"submit", "advance"},
              at : Nodes \cup {NoNode}, todo : SUBSET Nodes]

WorkflowStatus == {"none", "running", "completed", "failed", "partially_completed", "cancelled"}

-----------------------------------------------------------------------------
(* The pure parts of the service. *)

(* isConditionMet: the parent statuses that satisfy each condition. *)
Meets == [onSuccess |-> {"completed"}, onFailure |-> {"failed"},
          onPartialSuccess |-> {"completed", "failed"}, always |-> Terminal]

(* DagValidator's verdict: no self-loop, no unknown parent, no cycle. *)
Acyclic(g) ==
    \A S \in SUBSET Nodes : S # {} => \E n \in S : \A d \in g[n] : d.job \notin S

(* Mutant of Ready: `some` instead of `every` over the dependencies. *)
ReadyIfAnyParent(g, st) ==
    {n \in Nodes : st[n] = "pending"
                     /\ (g[n] = {} \/ \E d \in g[n] : st[d.job] \in Meets[d.cond])}

(* resolveReadyJobs *)
Ready(g, st) ==
    {n \in Nodes : st[n] = "pending" /\ \A d \in g[n] : st[d.job] \in Meets[d.cond]}

(* skipUnreachableNodes: the least set closed under "a pending node with a *)
(* parent that is terminal, or skipped by this loop, without meeting the   *)
(* condition".                                                             *)
SkipClosed(g, st, S) ==
    \A n \in Nodes :
        /\ st[n] = "pending"
        /\ \E d \in g[n] : \/ st[d.job] \in Terminal \ Meets[d.cond]
                           \/ d.job \in S /\ "skipped" \notin Meets[d.cond]
        => n \in S

Unreachable(g, st) == {n \in Nodes : \A S \in SUBSET Nodes : SkipClosed(g, st, S) => n \in S}

(* Mutant of SkipUnreachable: nothing is ever skipped. *)
NeverSkip(g, st) == st

SkipUnreachable(g, st) ==
    LET U == Unreachable(g, st)
    IN  [n \in Nodes |-> IF n \in U THEN "skipped" ELSE st[n]]

AllDone(st) == \A n \in Nodes : st[n] \in Terminal

(* Mutant of Verdict: a status the workflow does not have. *)
VerdictOfNodes(st) ==
    IF \E n \in Nodes : st[n] = "skipped" THEN "skipped" ELSE "completed"

(* finalizeWorkflow's choice of the workflow status. *)
Verdict(st) ==
    LET failures  == \E n \in Nodes : st[n] = "failed"
        completed == \E n \in Nodes : st[n] = "completed"
    IN  IF failures THEN IF completed THEN "partially_completed" ELSE "failed"
        ELSE "completed"

-----------------------------------------------------------------------------
(* Mutant of Loop: the call returns without looking whether all is done. *)
LoopWithoutFinalize(c, kind, cs, st, todo, w) ==
    \/ \E n \in todo :
          /\ \A m \in todo : Pos[n] <= Pos[m]
          /\ node' = [st EXCEPT ![n] = "queued"]
          /\ call' = [cs EXCEPT ![c] = [pc |-> "adding", kind |-> kind, at |-> n,
                                        todo |-> todo \ {n}]]
          /\ wf' = w
    \/ /\ todo = {}
       /\ node' = st
       /\ call' = [cs EXCEPT ![c] = Idle]
       /\ wf' = w

(* `for (const jobId of readyJobs) await this.enqueueNode(...)` and what   *)
(* follows it, up to the next await: enqueue the first node of todo, or,   *)
(* when the list is exhausted, return; advanceWorkflow first finalizes a   *)
(* workflow whose nodes are all done.  cs, st and w are call, node and wf  *)
(* as the code before has left them.                                       *)
Loop(c, kind, cs, st, todo, w) ==
    \/ \E n \in todo :
          /\ \A m \in todo : Pos[n] <= Pos[m]
          /\ node' = [st EXCEPT ![n] = "queued"]
          /\ call' = [cs EXCEPT ![c] = [pc |-> "adding", kind |-> kind, at |-> n,
                                        todo |-> todo \ {n}]]
          /\ wf' = w
    \/ /\ todo = {}
       /\ node' = st
       /\ call' = [cs EXCEPT ![c] = Idle]
       /\ wf' = IF kind = "advance" /\ AllDone(st) THEN Verdict(st) ELSE w

(* advanceWorkflow, called with the statuses st. *)
Advance(c, cs, st) ==
    IF wf = "cancelled"
    THEN node' = st /\ call' = cs /\ wf' = wf
    ELSE LET st1 == SkipUnreachable(dependsOn, st)
         IN  Loop(c, "advance", cs, st1, Ready(dependsOn, st1), wf)

(* submitWorkflow, up to the first await. An invalid graph throws and      *)
(* leaves no trace. *)
Submit(c) ==
    LET st == [n \in Nodes |-> "pending"]
    IN  /\ wf = "none"
        /\ call[c] = Idle
        /\ \E g \in Dtos :
              /\ Acyclic(g)
              /\ dependsOn' = g
              /\ Loop(c, "submit", call, st, Ready(g, st), "running")
        /\ UNCHANGED <<live, added, cancelSeen>>

(* The queue's answers to addComputeJob. *)
Answer(c, pc) ==
    /\ call[c].pc = "adding"
    /\ call' = [call EXCEPT ![c].pc = pc]
    /\ UNCHANGED <<dependsOn, wf, node, live, cancelSeen>>

Accept(c) ==
    /\ Answer(c, "accepted")
    /\ added' = [added EXCEPT ![call[c].at] = @ + 1]

Reject(c) ==
    /\ "reject" \in Faults
    /\ Answer(c, "rejected")
    /\ UNCHANGED added

(* Bull's add with a jobId that is in use returns the job that has it. *)
Dedup(c) ==
    /\ "collide" \in Faults
    /\ Answer(c, "deduped")
    /\ \E m \in Nodes : added[m] > 0 /\ Kind[m] = Kind[call[c].at]
    /\ UNCHANGED added

(* enqueueNode after its await: the try branch sets RUNNING, the catch     *)
(* branch FAILED, whatever the node's status has become meanwhile. *)
Resume(c) ==
    LET n == call[c].at
        pc == call[c].pc
    IN  /\ pc \in Adding \ {"adding"}
        /\ node' = [node EXCEPT ![n] = IF pc = "rejected" THEN "failed" ELSE "running"]
        /\ live' = IF pc = "accepted" THEN [live EXCEPT ![n] = @ + 1] ELSE live
        /\ call' = [call EXCEPT ![c].pc = "resumed", ![c].at = NoNode]
        /\ UNCHANGED <<dependsOn, wf, added, cancelSeen>>

(* The caller of enqueueNode, in a microtask of its own, takes the next    *)
(* element of its list. *)
Continue(c) ==
    /\ call[c].pc = "resumed"
    /\ Loop(c, call[c].kind, call, node, call[c].todo, wf)
    /\ UNCHANGED <<dependsOn, live, added, cancelSeen>>

(* Mutant of JobEvent: the handler advances before it sets the status. *)
JobEventUnrecorded(c, n, outcome) ==
    /\ live[n] > 0
    /\ call[c] = Idle
    /\ live' = [live EXCEPT ![n] = @ - 1]
    /\ Advance(c, call, node)
    /\ UNCHANGED <<dependsOn, added, cancelSeen>>

(* handleNodeCompletion and handleNodeFailure: the worker emits the event  *)
(* and the listener runs synchronously, up to advanceWorkflow's first      *)
(* await. *)
JobEvent(c, n, outcome) ==
    /\ live[n] > 0
    /\ call[c] = Idle
    /\ live' = [live EXCEPT ![n] = @ - 1]
    /\ Advance(c, call, [node EXCEPT ![n] = outcome])
    /\ UNCHANGED <<dependsOn, added, cancelSeen>>

(* The same, for a job whose creator b has not been resumed yet. *)
EarlyEvent(c, b, outcome) ==
    /\ "early" \in Faults
    /\ call[b].pc = "accepted"
    /\ call[c] = Idle
    /\ Advance(c, [call EXCEPT ![b].pc = "overtaken"], [node EXCEPT ![call[b].at] = outcome])
    /\ UNCHANGED <<dependsOn, live, added, cancelSeen>>

(* A job leaves the queue without an event. *)
SilentEnd(n) ==
    /\ "silent" \in Faults
    /\ live[n] > 0
    /\ live' = [live EXCEPT ![n] = @ - 1]
    /\ UNCHANGED <<dependsOn, wf, node, call, added, cancelSeen>>

(* Mutant of Cancel: only what is queued is cancelled, and the status is   *)
(* left to finalizeWorkflow. *)
CancelQueuedOnly ==
    /\ wf \notin {"none", "completed", "cancelled"}
    /\ node' = [n \in Nodes |-> IF node[n] = "queued" THEN "cancelled" ELSE node[n]]
    /\ cancelSeen' = TRUE
    /\ UNCHANGED <<wf, dependsOn, call, live, added>>

(* cancelWorkflow *)
Cancel ==
    /\ wf \notin {"none", "completed", "cancelled"}
    /\ node' = [n \in Nodes |-> IF node[n] \in {"pending", "queued"} THEN "cancelled" ELSE node[n]]
    /\ wf' = "cancelled"
    /\ cancelSeen' = TRUE
    /\ UNCHANGED <<dependsOn, call, live, added>>

-----------------------------------------------------------------------------
Init ==
    /\ dependsOn = [n \in Nodes |-> {}]
    /\ wf = "none"
    /\ node = [n \in Nodes |-> "pending"]
    /\ call = [c \in Calls |-> Idle]
    /\ live = [n \in Nodes |-> 0]
    /\ added = [n \in Nodes |-> 0]
    /\ reached = [n \in Nodes |-> {"pending"}]
    /\ cancelSeen = FALSE

(* What the service, the queue and the worker do by themselves. *)
System ==
    \/ \E c \in Calls : Accept(c) \/ Reject(c) \/ Dedup(c) \/ Resume(c) \/ Continue(c)
    \/ \E c \in Calls, n \in Nodes, outcome \in {"completed", "failed"} : JobEvent(c, n, outcome)
    \/ \E c, b \in Calls, outcome \in {"completed", "failed"} : EarlyEvent(c, b, outcome)
    \/ \E n \in Nodes : SilentEnd(n)

User == Cancel \/ \E c \in Calls : Submit(c)

Observe == reached' = [n \in Nodes |-> reached[n] \cup {node'[n]}]

Next == (System \/ User) /\ Observe

Spec == Init /\ [][Next]_vars

(* Redis answers, the worker ends every job and the event loop runs every  *)
(* continuation; nobody has to submit or cancel anything. *)
FairSpec == Spec /\ WF_vars(System /\ Observe)

-----------------------------------------------------------------------------
(* Every variable has its type. *)
TypeOK ==
    /\ dependsOn \in Deps
    /\ wf \in WorkflowStatus
    /\ node \in [Nodes -> NodeStatus]
    /\ call \in [Calls -> CallState]
    /\ live \in [Nodes -> Nat]
    /\ added \in [Nodes -> Nat]
    /\ reached \in [Nodes -> SUBSET NodeStatus]
    /\ cancelSeen \in BOOLEAN

(* The service has decided to run n, or has run it. *)
Committed(n) ==
    \/ added[n] > 0 \/ live[n] > 0
    \/ \E c \in Calls : call[c].at = n \/ n \in call[c].todo

(* A node is only ever listed, enqueued or run when each of its parents    *)
(* has had a status that meets the condition of the dependency: the lists  *)
(* that advanceWorkflow keeps across its awaits may be stale, but never    *)
(* hold a node whose conditions were not met.                              *)
DependenciesHonoured ==
    \A n \in Nodes : Committed(n) =>
        \A d \in dependsOn[n] : reached[d.job] \cap Meets[d.cond] # {}

(* After a cancel no call adds a node to its list, even when a call that   *)
(* was in flight later finalizes the workflow over its CANCELLED status.   *)
CancelDrains == [][cancelSeen => \A c \in Calls : call'[c].todo \subseteq call[c].todo]_vars

(* A node shown as running has a job that will report back. *)
RunningHasJob == \A n \in Nodes : node[n] = "running" => live[n] > 0

(* No call in flight and no job in the queue: nothing will happen unless   *)
(* a user acts. *)
Quiescent ==
    /\ wf # "none"
    /\ \A c \in Calls : call[c] = Idle
    /\ \A n \in Nodes : live[n] = 0

(* When nothing is left that could make progress, every node is in a       *)
(* terminal status and the workflow has the verdict its nodes deserve, or  *)
(* is cancelled: no interleaving of handlers strands a workflow.           *)
NoStrandedWorkflow ==
    Quiescent => AllDone(node) /\ wf \in {"cancelled", Verdict(node)}

(* A submitted workflow comes to rest with every node terminal and a final *)
(* status. *)
WorkflowSettles == (wf # "none") ~> (Quiescent /\ AllDone(node) /\ wf # "running")

(* "should prevent further nodes from executing after cancellation [...]   *)
(* no new nodes should enqueue": addComputeJob is not called for a         *)
(* cancelled workflow. *)
CancelPreventsEnqueue ==
    [][wf = "cancelled" =>
         \A c \in Calls : call'[c].pc = "adding" => call[c].pc = "adding"]_vars

=============================================================================
