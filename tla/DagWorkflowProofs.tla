------------------------- MODULE DagWorkflowProofs -------------------------
(* What holds of DagWorkflow for every set of nodes, every graph and every *)
(* number of calls in flight. *)
EXTENDS DagWorkflow, TLAPS

-----------------------------------------------------------------------------
(* The pure operators return what their names say. *)

LEMMA VerdictType == \A st : Verdict(st) \in {"completed", "failed", "partially_completed"}
  BY DEF Verdict

LEMMA ReadyType == \A g, st : Ready(g, st) \subseteq Nodes
  BY DEF Ready

LEMMA SkipType ==
  ASSUME NEW g, NEW st \in [Nodes -> NodeStatus]
  PROVE  /\ SkipUnreachable(g, st) \in [Nodes -> NodeStatus]
         /\ \A n \in Nodes : SkipUnreachable(g, st)[n] \in {"skipped", st[n]}
  BY DEF SkipUnreachable, NodeStatus

LEMMA IdleType == Idle \in CallState
  BY DEF Idle, CallState

-----------------------------------------------------------------------------
(* What one pass through the loop of enqueueNode calls changes: one call,  *)
(* and at most one node, which is in the list. *)

LEMMA LoopType ==
  ASSUME NEW c \in Calls, NEW kind \in {"submit", "advance"},
         NEW cs \in [Calls -> CallState], NEW st \in [Nodes -> NodeStatus],
         NEW todo \in SUBSET Nodes, NEW w \in WorkflowStatus,
         Loop(c, kind, cs, st, todo, w)
  PROVE  /\ node' \in [Nodes -> NodeStatus]
         /\ call' \in [Calls -> CallState]
         /\ wf' \in WorkflowStatus
<1>1. CASE \E n \in todo :
              /\ \A m \in todo : Pos[n] <= Pos[m]
              /\ node' = [st EXCEPT ![n] = "queued"]
              /\ call' = [cs EXCEPT ![c] = [pc |-> "adding", kind |-> kind, at |-> n,
                                            todo |-> todo \ {n}]]
              /\ wf' = w
  <2>1. PICK n \in todo : /\ node' = [st EXCEPT ![n] = "queued"]
                          /\ call' = [cs EXCEPT ![c] = [pc |-> "adding", kind |-> kind,
                                                        at |-> n, todo |-> todo \ {n}]]
                          /\ wf' = w
    BY <1>1
  <2>2. [pc |-> "adding", kind |-> kind, at |-> n, todo |-> todo \ {n}] \in CallState
    BY DEF CallState, Adding
  <2>3. QED
    BY <2>1, <2>2 DEF NodeStatus
<1>2. CASE /\ todo = {}
           /\ node' = st
           /\ call' = [cs EXCEPT ![c] = Idle]
           /\ wf' = IF kind = "advance" /\ AllDone(st) THEN Verdict(st) ELSE w
  <2>1. call' \in [Calls -> CallState]
    BY <1>2, IdleType
  <2>2. wf' \in WorkflowStatus
    BY <1>2, VerdictType DEF WorkflowStatus
  <2>3. QED
    BY <1>2, <2>1, <2>2
<1>3. QED
  BY <1>1, <1>2 DEF Loop

LEMMA LoopEffect ==
  ASSUME NEW c \in Calls, NEW kind, NEW cs \in [Calls -> CallState],
         NEW st \in [Nodes -> NodeStatus], NEW todo \in SUBSET Nodes, NEW w,
         Loop(c, kind, cs, st, todo, w)
  PROVE  /\ \A b \in Calls : b # c => call'[b] = cs[b]
         /\ \A n \in Nodes : n = call'[c].at \/ n \in call'[c].todo => n \in todo
         /\ \A n \in Nodes : node'[n] = st[n] \/ (n \in todo /\ node'[n] = "queued")
<1>1. CASE \E n \in todo :
              /\ \A m \in todo : Pos[n] <= Pos[m]
              /\ node' = [st EXCEPT ![n] = "queued"]
              /\ call' = [cs EXCEPT ![c] = [pc |-> "adding", kind |-> kind, at |-> n,
                                            todo |-> todo \ {n}]]
              /\ wf' = w
  BY <1>1
<1>2. CASE /\ todo = {}
           /\ node' = st
           /\ call' = [cs EXCEPT ![c] = Idle]
  BY <1>2, DagAssumption DEF Idle
<1>3. QED
  BY <1>1, <1>2 DEF Loop

-----------------------------------------------------------------------------
(* advanceWorkflow keeps the types. *)
LEMMA AdvanceType ==
  ASSUME TypeOK, NEW c \in Calls, NEW cs \in [Calls -> CallState],
         NEW st \in [Nodes -> NodeStatus], Advance(c, cs, st)
  PROVE  /\ node' \in [Nodes -> NodeStatus]
         /\ call' \in [Calls -> CallState]
         /\ wf' \in WorkflowStatus
<1> DEFINE st1 == SkipUnreachable(dependsOn, st)
<1>1. wf \in WorkflowStatus
  BY DEF TypeOK
<1>2. CASE wf = "cancelled"
  BY <1>1, <1>2 DEF Advance
<1>3. CASE wf # "cancelled"
  <2>1. Loop(c, "advance", cs, st1, Ready(dependsOn, st1), wf)
    BY <1>3 DEF Advance
  <2>2. st1 \in [Nodes -> NodeStatus]
    BY SkipType
  <2>3. QED
    BY <1>1, <2>1, <2>2, ReadyType, LoopType
<1>4. QED
  BY <1>2, <1>3

(* TypeOK without the history of statuses, which Observe keeps for every   *)
(* action alike. *)
StateType ==
    /\ dependsOn \in Deps
    /\ wf \in WorkflowStatus
    /\ node \in [Nodes -> NodeStatus]
    /\ call \in [Calls -> CallState]
    /\ live \in [Nodes -> Nat]
    /\ added \in [Nodes -> Nat]
    /\ cancelSeen \in BOOLEAN

LEMMA AnswerType ==
  ASSUME TypeOK, NEW c \in Calls, NEW pc \in Adding, Answer(c, pc)
  PROVE  /\ call' \in [Calls -> CallState]
         /\ call[c].at \in Nodes \cup {NoNode}
<1>1. call[c] \in CallState
  BY DEF TypeOK
<1>2. [call[c] EXCEPT !.pc = pc] \in CallState
  BY <1>1 DEF CallState
<1>3. QED
  BY <1>1, <1>2 DEF Answer, TypeOK, CallState

(* An answer changes nothing but where its call is suspended. *)
LEMMA AnswerEffect ==
  ASSUME TypeOK, NEW c \in Calls, NEW pc, Answer(c, pc)
  PROVE  /\ call[c].pc = "adding"
         /\ call'[c].pc = pc
         /\ \A b \in Calls : /\ call'[b].at = call[b].at
                             /\ call'[b].todo = call[b].todo
                             /\ call'[b].kind = call[b].kind
         /\ \A b \in Calls : b # c => call'[b] = call[b]
         /\ UNCHANGED <<dependsOn, wf, node, live, cancelSeen>>
<1>1. call[c].pc = "adding" /\ call' = [call EXCEPT ![c].pc = pc]
  BY DEF Answer
<1>2. call[c] \in CallState /\ call \in [Calls -> CallState]
  BY DEF TypeOK
<1>3. /\ call'[c].pc = pc
      /\ call'[c].at = call[c].at
      /\ call'[c].todo = call[c].todo
      /\ call'[c].kind = call[c].kind
  BY <1>1, <1>2 DEF CallState
<1>4. \A b \in Calls : b # c => call'[b] = call[b]
  BY <1>1, <1>2
<1>5. QED
  BY <1>1, <1>3, <1>4 DEF Answer

(* A call that waits for the queue is enqueuing a node. *)
AtNode == \A c \in Calls : call[c].pc \in Adding => call[c].at \in Nodes

LEMMA LoopAtNode ==
  ASSUME NEW c \in Calls, NEW kind \in {"submit", "advance"},
         NEW cs \in [Calls -> CallState], NEW st \in [Nodes -> NodeStatus],
         NEW todo \in SUBSET Nodes, NEW w,
         Loop(c, kind, cs, st, todo, w),
         \A b \in Calls : cs[b].pc \in Adding => cs[b].at \in Nodes
  PROVE  AtNode'
  BY DEF Loop, AtNode, Idle, Adding

LEMMA AdvanceAtNode ==
  ASSUME NEW c \in Calls, NEW cs \in [Calls -> CallState],
         NEW st \in [Nodes -> NodeStatus], Advance(c, cs, st),
         \A b \in Calls : cs[b].pc \in Adding => cs[b].at \in Nodes
  PROVE  AtNode'
<1>1. CASE wf = "cancelled"
  BY <1>1 DEF Advance, AtNode
<1>2. CASE wf # "cancelled"
  <2> DEFINE st1 == SkipUnreachable(dependsOn, st)
  <2>1. Loop(c, "advance", cs, st1, Ready(dependsOn, st1), wf)
    BY <1>2 DEF Advance
  <2>2. st1 \in [Nodes -> NodeStatus]
    BY SkipType
  <2>3. QED
    BY <2>1, <2>2, ReadyType, LoopAtNode
<1>3. QED
  BY <1>1, <1>2

-----------------------------------------------------------------------------
(* Type correctness. *)

LEMMA InitType == Init => TypeOK /\ AtNode
<1> SUFFICES ASSUME Init PROVE TypeOK /\ AtNode
  OBVIOUS
<1>1. dependsOn \in Deps
  BY DEF Init, Deps
<1>2. call \in [Calls -> CallState]
  BY IdleType DEF Init
<1>3. /\ node \in [Nodes -> NodeStatus]
      /\ reached \in [Nodes -> SUBSET NodeStatus]
      /\ wf \in WorkflowStatus
  BY DEF Init, NodeStatus, WorkflowStatus
<1>4. /\ live \in [Nodes -> Nat]
      /\ added \in [Nodes -> Nat]
      /\ cancelSeen \in BOOLEAN
  BY DEF Init
<1>5. AtNode
  BY DEF Init, AtNode, Idle, Adding
<1>6. QED
  BY <1>1, <1>2, <1>3, <1>4, <1>5 DEF TypeOK

LEMMA StepType ==
  ASSUME TypeOK, AtNode, [Next]_vars
  PROVE  TypeOK' /\ AtNode'
<1>1. SUFFICES StateType' /\ AtNode' /\ (Observe \/ UNCHANGED vars)
  BY DEF TypeOK, StateType, Observe, vars
<1>2. Observe \/ UNCHANGED vars
  BY DEF Next
<1>3. ASSUME NEW c \in Calls, Accept(c) PROVE StateType' /\ AtNode'
  <2>1. call[c].at \in Nodes
    BY <1>3 DEF Accept, Answer, TypeOK, CallState, AtNode, Adding
  <2>2. call' \in [Calls -> CallState]
    BY <1>3, AnswerType DEF Accept, Adding
  <2>3. added' \in [Nodes -> Nat]
    BY <1>3, <2>1 DEF Accept, TypeOK
  <2>4. AtNode'
    BY <1>3, <2>1 DEF Accept, Answer, AtNode, TypeOK, CallState, Adding
  <2>5. QED
    BY <1>3, <2>2, <2>3, <2>4 DEF Accept, Answer, StateType, TypeOK
<1>4. ASSUME NEW c \in Calls, Reject(c) \/ Dedup(c) PROVE StateType' /\ AtNode'
  <2>1. call' \in [Calls -> CallState]
    BY <1>4, AnswerType DEF Reject, Dedup, Adding
  <2>2. AtNode'
    BY <1>4, SMTT(40) DEF Reject, Dedup, Answer, AtNode, TypeOK, CallState, Adding
  <2>3. QED
    BY <1>4, <2>1, <2>2 DEF Reject, Dedup, Answer, StateType, TypeOK
<1>5. ASSUME NEW c \in Calls, Resume(c) PROVE StateType' /\ AtNode'
  <2>1. call[c].at \in Nodes /\ call[c] \in CallState
    BY <1>5 DEF Resume, TypeOK, AtNode, Adding
  <2>2. [call[c] EXCEPT !.pc = "resumed", !.at = NoNode] \in CallState
    BY <2>1 DEF CallState
  <2>3. call' \in [Calls -> CallState]
    BY <1>5, <2>2 DEF Resume, TypeOK
  <2>4. node' \in [Nodes -> NodeStatus] /\ live' \in [Nodes -> Nat]
    BY <1>5, <2>1 DEF Resume, TypeOK, NodeStatus
  <2>5. AtNode'
    BY <1>5, <2>1 DEF Resume, TypeOK, AtNode, CallState, Adding
  <2>6. QED
    BY <1>5, <2>3, <2>4, <2>5 DEF Resume, StateType, TypeOK
<1>6. ASSUME NEW c \in Calls, Continue(c) PROVE StateType' /\ AtNode'
  <2>1. call[c] \in CallState
    BY DEF TypeOK
  <2>2. Loop(c, call[c].kind, call, node, call[c].todo, wf)
    BY <1>6 DEF Continue
  <2>3. /\ node' \in [Nodes -> NodeStatus]
        /\ call' \in [Calls -> CallState]
        /\ wf' \in WorkflowStatus
    BY <2>1, <2>2, LoopType DEF TypeOK, CallState
  <2>4. AtNode'
    BY <2>1, <2>2, LoopAtNode DEF TypeOK, CallState, AtNode
  <2>5. QED
    BY <1>6, <2>3, <2>4 DEF Continue, StateType, TypeOK
<1>7. ASSUME NEW c \in Calls, NEW n \in Nodes, NEW outcome \in {"completed", "failed"},
             JobEvent(c, n, outcome)
      PROVE  StateType' /\ AtNode'
  <2> DEFINE st == [node EXCEPT ![n] = outcome]
  <2>1. st \in [Nodes -> NodeStatus]
    BY DEF TypeOK, NodeStatus
  <2>2. Advance(c, call, st)
    BY <1>7 DEF JobEvent
  <2>3. live' \in [Nodes -> Nat]
    BY <1>7 DEF JobEvent, TypeOK
  <2>4. AtNode'
    BY <2>1, <2>2, AdvanceAtNode DEF TypeOK, AtNode
  <2>5. QED
    BY <1>7, <2>1, <2>2, <2>3, <2>4, AdvanceType DEF JobEvent, StateType, TypeOK
<1>8. ASSUME NEW c \in Calls, NEW b \in Calls, NEW outcome \in {"completed", "failed"},
             EarlyEvent(c, b, outcome)
      PROVE  StateType' /\ AtNode'
  <2> DEFINE st == [node EXCEPT ![call[b].at] = outcome]
             cs == [call EXCEPT ![b].pc = "overtaken"]
  <2>1. call[b] \in CallState /\ call[b].at \in Nodes
    BY <1>8 DEF EarlyEvent, TypeOK, AtNode, Adding
  <2>2. st \in [Nodes -> NodeStatus]
    BY DEF TypeOK, NodeStatus
  <2>3. [call[b] EXCEPT !.pc = "overtaken"] \in CallState
    BY <2>1 DEF CallState, Adding
  <2>4. cs \in [Calls -> CallState]
    BY <2>3 DEF TypeOK
  <2>5. \A a \in Calls : cs[a].pc \in Adding => cs[a].at \in Nodes
    BY <2>1 DEF AtNode, TypeOK, CallState
  <2>6. Advance(c, cs, st)
    BY <1>8 DEF EarlyEvent
  <2>7. AtNode'
    BY <2>2, <2>4, <2>5, <2>6, AdvanceAtNode
  <2>8. QED
    BY <1>8, <2>2, <2>4, <2>6, <2>7, AdvanceType DEF EarlyEvent, StateType, TypeOK
<1>9. ASSUME NEW n \in Nodes, SilentEnd(n) PROVE StateType' /\ AtNode'
  BY <1>9 DEF SilentEnd, StateType, TypeOK, AtNode
<1>10. ASSUME Cancel PROVE StateType' /\ AtNode'
  BY <1>10 DEF Cancel, StateType, TypeOK, AtNode, NodeStatus, WorkflowStatus
<1>11. ASSUME NEW c \in Calls, Submit(c) PROVE StateType' /\ AtNode'
  <2> DEFINE st == [n \in Nodes |-> "pending"]
  <2>1. PICK g \in Dtos : dependsOn' = g /\ Loop(c, "submit", call, st, Ready(g, st), "running")
    BY <1>11 DEF Submit
  <2>2. st \in [Nodes -> NodeStatus] /\ "running" \in WorkflowStatus
    BY DEF NodeStatus, WorkflowStatus
  <2>3. /\ node' \in [Nodes -> NodeStatus]
        /\ call' \in [Calls -> CallState]
        /\ wf' \in WorkflowStatus
    BY <2>1, <2>2, ReadyType, LoopType DEF TypeOK
  <2>4. AtNode'
    BY <2>1, <2>2, ReadyType, LoopAtNode DEF TypeOK, AtNode
  <2>5. QED
    BY <1>11, <2>1, <2>3, <2>4, DagAssumption DEF Submit, StateType, TypeOK
<1>12. CASE UNCHANGED vars
  BY <1>12 DEF vars, StateType, TypeOK, AtNode
<1>13. QED
  BY <1>2, <1>3, <1>4, <1>5, <1>6, <1>7, <1>8, <1>9, <1>10, <1>11, <1>12
  DEF Next, System, User

(* Every variable keeps its type, for every graph and every fault. *)
THEOREM TypeCorrect == Spec => []TypeOK
<1>1. TypeOK /\ AtNode /\ [Next]_vars => TypeOK' /\ AtNode'
  BY StepType
<1>2. QED
  BY InitType, <1>1, PTL DEF Spec

-----------------------------------------------------------------------------
(* A node is only committed to when the conditions of its dependencies     *)
(* have been met.  By itself DependenciesHonoured is not inductive: a list *)
(* is made from the statuses of the moment, so the history must contain    *)
(* them, and before submission nothing may be committed to, because the    *)
(* graph is still to change.                                               *)

Fresh ==
    wf = "none" => /\ \A c \in Calls : call[c] = Idle
                   /\ \A n \in Nodes : live[n] = 0 /\ added[n] = 0

Witnessed == \A n \in Nodes : node[n] \in reached[n]

CommitInv == TypeOK /\ AtNode /\ Fresh /\ Witnessed /\ DependenciesHonoured

(* The dependencies of n have been met. *)
Met(n) == \A d \in dependsOn[n] : reached[d.job] \cap Meets[d.cond] # {}

LEMMA MetStays ==
  ASSUME TypeOK, Observe, dependsOn' = dependsOn, NEW n \in Nodes, Met(n)
  PROVE  Met(n)'
<1>1. SUFFICES ASSUME NEW d \in dependsOn[n]
               PROVE  reached'[d.job] \cap Meets[d.cond] # {}
  BY DEF Met
<1>2. d.job \in Nodes
  BY DEF TypeOK, Deps
<1>3. reached[d.job] \subseteq reached'[d.job]
  BY <1>2 DEF Observe
<1>4. QED
  BY <1>3 DEF Met

LEMMA WitnessedStep ==
  ASSUME Observe
  PROVE  Witnessed'
  BY DEF Observe, Witnessed

(* The nodes that a fresh list brings in have had their conditions met. *)
LEMMA LoopHonours ==
  ASSUME NEW c \in Calls, NEW kind, NEW cs \in [Calls -> CallState],
         NEW st \in [Nodes -> NodeStatus], NEW g \in Deps, NEW w,
         Loop(c, kind, cs, st, Ready(g, st), w), Observe,
         NEW n \in Nodes, n = call'[c].at \/ n \in call'[c].todo,
         NEW d \in g[n]
  PROVE  reached'[d.job] \cap Meets[d.cond] # {}
<1>1. n \in Ready(g, st)
  BY LoopEffect, ReadyType
<1>2. d.job \in Nodes /\ d.cond \in Conditions
  BY DEF Deps
<1>3. st[d.job] \in Meets[d.cond]
  BY <1>1 DEF Ready
<1>4. st[d.job] # "pending"
  BY <1>2, <1>3 DEF Meets, Conditions, Terminal
<1>5. d.job \notin Ready(g, st)
  BY <1>4 DEF Ready
<1>6. node'[d.job] = st[d.job]
  BY <1>2, <1>5, LoopEffect, ReadyType
<1>7. node'[d.job] \in reached'[d.job]
  BY <1>2 DEF Observe
<1>8. QED
  BY <1>3, <1>6, <1>7

LEMMA LoopWf ==
  ASSUME NEW c, NEW kind, NEW cs, NEW st, NEW todo, NEW w,
         Loop(c, kind, cs, st, todo, w), w # "none"
  PROVE  wf' # "none"
  BY VerdictType DEF Loop

(* advanceWorkflow commits only to nodes whose conditions have been met,   *)
(* and leaves the other calls alone. *)
LEMMA AdvanceHonours ==
  ASSUME TypeOK, NEW c \in Calls, NEW cs \in [Calls -> CallState],
         NEW st \in [Nodes -> NodeStatus], Advance(c, cs, st), Observe,
         wf # "none"
  PROVE  /\ wf' # "none"
         /\ \A b \in Calls : \A n \in Nodes :
              (n = call'[b].at \/ n \in call'[b].todo) =>
                  \/ n = cs[b].at \/ n \in cs[b].todo
                  \/ \A d \in dependsOn[n] : reached'[d.job] \cap Meets[d.cond] # {}
<1> DEFINE st1 == SkipUnreachable(dependsOn, st)
<1>1. CASE wf = "cancelled"
  BY <1>1 DEF Advance
<1>2. CASE wf # "cancelled"
  <2>1. Loop(c, "advance", cs, st1, Ready(dependsOn, st1), wf)
    BY <1>2 DEF Advance
  <2>2. st1 \in [Nodes -> NodeStatus] /\ dependsOn \in Deps
    BY SkipType DEF TypeOK
  <2>3. wf' # "none"
    BY <2>1, LoopWf
  <2>4. \A b \in Calls : b # c => call'[b] = cs[b]
    BY <2>1, <2>2, ReadyType, LoopEffect
  <2>5. \A n \in Nodes : (n = call'[c].at \/ n \in call'[c].todo) =>
            \A d \in dependsOn[n] : reached'[d.job] \cap Meets[d.cond] # {}
    BY <2>1, <2>2, LoopHonours
  <2>6. QED
    BY <2>3, <2>4, <2>5
<1>3. QED
  BY <1>1, <1>2

LEMMA HonouredStep ==
  ASSUME CommitInv, Observe, dependsOn' = dependsOn,
         \A n \in Nodes : Committed(n)' => Committed(n) \/ Met(n)'
  PROVE  DependenciesHonoured'
<1>1. ASSUME NEW n \in Nodes, Committed(n)' PROVE Met(n)'
  <2>1. CASE Committed(n)
    <3>1. Met(n)
      BY <2>1 DEF CommitInv, DependenciesHonoured, Met
    <3>2. QED
      BY <3>1, MetStays DEF CommitInv
  <2>2. QED
    BY <1>1, <2>1
<1>2. QED
  BY <1>1 DEF DependenciesHonoured, Met

LEMMA CommitStep ==
  ASSUME CommitInv, [Next]_vars
  PROVE  CommitInv'
<1> USE DEF CommitInv
<1>1. TypeOK' /\ AtNode'
  BY StepType
<1>2. CASE UNCHANGED vars
  BY <1>1, <1>2 DEF vars, Fresh, Witnessed, DependenciesHonoured, Committed
<1>3. CASE Next
  <2>1. Observe /\ Witnessed'
    BY <1>3, WitnessedStep DEF Next
  <2>2. SUFFICES Fresh' /\ DependenciesHonoured'
    BY <1>1, <2>1
  <2>3. ASSUME NEW c \in Calls, Accept(c) \/ Reject(c) \/ Dedup(c)
        PROVE  Fresh' /\ DependenciesHonoured'
    <3>1. call[c].pc = "adding" /\ call[c].at \in Nodes
      BY <2>3 DEF Accept, Reject, Dedup, Answer, AtNode, Adding
    <3>2. wf # "none" /\ wf' = wf /\ dependsOn' = dependsOn /\ live' = live
      BY <2>3, <3>1 DEF Accept, Reject, Dedup, Answer, Fresh, Idle
    <3>3. \A b \in Calls : call'[b].at = call[b].at /\ call'[b].todo = call[b].todo
      <4>1. \E pc : Answer(c, pc)
        BY <2>3 DEF Accept, Reject, Dedup
      <4>2. QED
        BY <4>1, AnswerEffect
    <3>4. \A n \in Nodes : n # call[c].at => added'[n] = added[n]
      BY <2>3, <3>1 DEF Accept, Reject, Dedup, TypeOK
    <3>5. \A n \in Nodes : Committed(n)' => Committed(n)
      BY <3>1, <3>2, <3>3, <3>4 DEF Committed
    <3>6. QED
      BY <2>1, <3>2, <3>5, HonouredStep DEF Fresh
  <2>4. ASSUME NEW c \in Calls, Resume(c)
        PROVE  Fresh' /\ DependenciesHonoured'
    <3>1. call[c].pc \in Adding /\ call[c].at \in Nodes
      BY <2>4 DEF Resume, AtNode, Adding
    <3>2. wf # "none" /\ wf' = wf /\ dependsOn' = dependsOn /\ added' = added
      BY <2>4, <3>1 DEF Resume, Fresh, Idle, Adding
    <3>3. \A b \in Calls : call'[b].at \in {call[b].at, NoNode} /\ call'[b].todo = call[b].todo
      BY <2>4 DEF Resume, TypeOK, CallState
    <3>4. \A n \in Nodes : n # call[c].at => live'[n] = live[n]
      BY <2>4, <3>1 DEF Resume, TypeOK
    <3>5. \A n \in Nodes : Committed(n)' => Committed(n)
      BY <3>1, <3>2, <3>3, <3>4, DagAssumption DEF Committed
    <3>6. QED
      BY <2>1, <3>2, <3>5, HonouredStep DEF Fresh
  <2>5. ASSUME NEW c \in Calls, Continue(c)
        PROVE  Fresh' /\ DependenciesHonoured'
    <3>1. Loop(c, call[c].kind, call, node, call[c].todo, wf) /\ call[c] \in CallState
      BY <2>5 DEF Continue, TypeOK
    <3>2. wf # "none"
      BY <2>5 DEF Continue, Fresh, Idle
    <3>3. wf' # "none"
      BY <3>1, <3>2, LoopWf
    <3>4. /\ \A b \in Calls : b # c => call'[b] = call[b]
          /\ \A n \in Nodes : n = call'[c].at \/ n \in call'[c].todo => n \in call[c].todo
      BY <3>1, LoopEffect DEF TypeOK, CallState
    <3>5. \A n \in Nodes : Committed(n)' => Committed(n)
      BY <2>5, <3>4 DEF Committed, Continue
    <3>6. QED
      BY <2>1, <2>5, <3>3, <3>5, HonouredStep DEF Fresh, Continue
  <2>6. ASSUME NEW c \in Calls, NEW n \in Nodes, NEW outcome \in {"completed", "failed"},
               JobEvent(c, n, outcome)
        PROVE  Fresh' /\ DependenciesHonoured'
    <3> DEFINE st == [node EXCEPT ![n] = outcome]
    <3>1. /\ Advance(c, call, st)
          /\ dependsOn' = dependsOn
          /\ added' = added
          /\ live[n] > 0
          /\ live' = [live EXCEPT ![n] = @ - 1]
      BY <2>6 DEF JobEvent
    <3>2. st \in [Nodes -> NodeStatus] /\ live[n] \in Nat
      BY DEF TypeOK, NodeStatus
    <3>3. wf # "none"
      BY <3>1, <3>2 DEF Fresh
    <3>4. /\ wf' # "none"
          /\ \A b \in Calls : \A m \in Nodes :
              (m = call'[b].at \/ m \in call'[b].todo) =>
                  m = call[b].at \/ m \in call[b].todo \/ Met(m)'
      BY <2>1, <3>1, <3>2, <3>3, AdvanceHonours DEF TypeOK, Met
    <3>5. \A m \in Nodes : live'[m] > 0 => live[m] > 0
      BY <3>1, <3>2 DEF TypeOK
    <3>6. \A m \in Nodes : Committed(m)' => Committed(m) \/ Met(m)'
      BY <3>1, <3>4, <3>5 DEF Committed
    <3>7. QED
      BY <2>1, <3>1, <3>4, <3>6, HonouredStep DEF Fresh
  <2>7. ASSUME NEW c \in Calls, NEW b \in Calls, NEW outcome \in {"completed", "failed"},
               EarlyEvent(c, b, outcome)
        PROVE  Fresh' /\ DependenciesHonoured'
    <3> DEFINE st == [node EXCEPT ![call[b].at] = outcome]
               cs == [call EXCEPT ![b].pc = "overtaken"]
    <3>1. /\ Advance(c, cs, st)
          /\ dependsOn' = dependsOn
          /\ added' = added
          /\ live' = live
          /\ call[b].pc = "accepted"
      BY <2>7 DEF EarlyEvent
    <3>2. call[b] \in CallState /\ call[b].at \in Nodes
      BY <3>1 DEF TypeOK, AtNode, Adding
    <3>3. st \in [Nodes -> NodeStatus]
      BY DEF TypeOK, NodeStatus
    <3>4. [call[b] EXCEPT !.pc = "overtaken"] \in CallState
      BY <3>2 DEF CallState, Adding
    <3>5. cs \in [Calls -> CallState]
      BY <3>4 DEF TypeOK
    <3>6. \A a \in Calls : cs[a].at = call[a].at /\ cs[a].todo = call[a].todo
      BY <3>2 DEF TypeOK, CallState
    <3>7. wf # "none"
      BY <3>1 DEF Fresh, Idle
    <3>8. /\ wf' # "none"
          /\ \A a \in Calls : \A m \in Nodes :
              (m = call'[a].at \/ m \in call'[a].todo) =>
                  m = cs[a].at \/ m \in cs[a].todo \/ Met(m)'
      BY <2>1, <3>1, <3>3, <3>5, <3>7, AdvanceHonours DEF Met
    <3>9. \A m \in Nodes : Committed(m)' => Committed(m) \/ Met(m)'
      BY <3>1, <3>6, <3>8 DEF Committed
    <3>10. QED
      BY <2>1, <3>1, <3>8, <3>9, HonouredStep DEF Fresh
  <2>8. ASSUME NEW n \in Nodes, SilentEnd(n)
        PROVE  Fresh' /\ DependenciesHonoured'
    <3>1. /\ live[n] \in Nat /\ live[n] > 0
          /\ live' = [live EXCEPT ![n] = @ - 1]
          /\ UNCHANGED <<dependsOn, wf, node, call, added>>
      BY <2>8 DEF SilentEnd, TypeOK
    <3>2. wf # "none"
      BY <3>1 DEF Fresh
    <3>3. \A m \in Nodes : live'[m] > 0 => live[m] > 0
      BY <3>1 DEF TypeOK
    <3>4. \A m \in Nodes : Committed(m)' => Committed(m)
      BY <3>1, <3>3 DEF Committed
    <3>5. QED
      BY <2>1, <3>1, <3>2, <3>4, HonouredStep DEF Fresh
  <2>9. ASSUME Cancel
        PROVE  Fresh' /\ DependenciesHonoured'
    <3>1. \A m \in Nodes : Committed(m)' => Committed(m)
      BY <2>9 DEF Cancel, Committed
    <3>2. QED
      BY <2>1, <2>9, <3>1, HonouredStep DEF Cancel, Fresh
  <2>10. ASSUME NEW c \in Calls, Submit(c)
         PROVE  Fresh' /\ DependenciesHonoured'
    <3> DEFINE st == [n \in Nodes |-> "pending"]
    <3>1. PICK g \in Dtos : dependsOn' = g /\ Loop(c, "submit", call, st, Ready(g, st), "running")
      BY <2>10 DEF Submit
    <3>2. st \in [Nodes -> NodeStatus] /\ g \in Deps
      BY DagAssumption DEF NodeStatus
    <3>3. wf' # "none"
      BY <3>1, LoopWf
    <3>4. \A n \in Nodes : ~Committed(n)
      BY <2>10, DagAssumption DEF Submit, Fresh, Committed, Idle
    <3>5. \A b \in Calls : b # c => call'[b] = call[b]
      BY <3>1, <3>2, ReadyType, LoopEffect DEF TypeOK
    <3>6. ASSUME NEW n \in Nodes, Committed(n)'
          PROVE  n = call'[c].at \/ n \in call'[c].todo
      BY <2>10, <3>4, <3>5, <3>6 DEF Committed, Submit
    <3>7. ASSUME NEW n \in Nodes, Committed(n)', NEW d \in g[n]
          PROVE  reached'[d.job] \cap Meets[d.cond] # {}
      BY <2>1, <3>1, <3>2, <3>6, <3>7, LoopHonours DEF TypeOK
    <3>8. QED
      BY <3>1, <3>3, <3>7 DEF Fresh, DependenciesHonoured
  <2>11. QED
    BY <1>3, <2>3, <2>4, <2>5, <2>6, <2>7, <2>8, <2>9, <2>10 DEF Next, System, User
<1>4. QED
  BY <1>2, <1>3

LEMMA CommitInit == Init => CommitInv
<1> SUFFICES ASSUME Init PROVE CommitInv
  OBVIOUS
<1>1. Fresh /\ Witnessed
  BY DEF Init, Fresh, Witnessed
<1>2. DependenciesHonoured
  BY DEF Init, DependenciesHonoured
<1>3. QED
  BY <1>1, <1>2, InitType DEF CommitInv

(* No node is listed, enqueued or run before the condition of each of its  *)
(* dependencies has been met, for every graph, any number of calls in      *)
(* flight and every fault. *)
THEOREM ConditionsRespected == Spec => []DependenciesHonoured
<1>1. CommitInv /\ [Next]_vars => CommitInv'
  BY CommitStep
<1>2. CommitInv => DependenciesHonoured
  BY DEF CommitInv
<1>3. QED
  BY CommitInit, <1>1, <1>2, PTL DEF Spec

-----------------------------------------------------------------------------
(* Cancellation: it leaves no node pending, and no step makes one pending  *)
(* again, so no later list has anything in it. *)

CancelInv ==
    /\ TypeOK
    /\ AtNode
    /\ cancelSeen => wf # "none" /\ \A n \in Nodes : node[n] # "pending"
    /\ wf = "cancelled" => cancelSeen

NonePending(st) == \A n \in Nodes : st[n] # "pending"

LEMMA VerdictNotCancelled == \A st : Verdict(st) \notin {"none", "running", "cancelled"}
  BY VerdictType

LEMMA LoopCancel ==
  ASSUME NEW c \in Calls, NEW kind, NEW cs \in [Calls -> CallState],
         NEW st \in [Nodes -> NodeStatus], NEW todo \in SUBSET Nodes, NEW w,
         Loop(c, kind, cs, st, todo, w)
  PROVE  /\ NonePending(st) => NonePending(node')
         /\ wf' = w \/ wf' \notin {"none", "running", "cancelled"}
         /\ call'[c].todo \subseteq todo
         /\ \A b \in Calls : b # c => call'[b] = cs[b]
  BY VerdictNotCancelled, LoopEffect DEF Loop, NonePending, Idle

LEMMA AdvanceCancel ==
  ASSUME NEW c \in Calls, NEW cs \in [Calls -> CallState],
         NEW st \in [Nodes -> NodeStatus], dependsOn \in Deps, Advance(c, cs, st)
  PROVE  /\ NonePending(st) => /\ NonePending(node')
                               /\ \A b \in Calls : call'[b].todo \subseteq cs[b].todo
         /\ wf' = wf \/ wf' \notin {"none", "running", "cancelled"}
<1> DEFINE st1 == SkipUnreachable(dependsOn, st)
<1>1. CASE wf = "cancelled"
  BY <1>1 DEF Advance
<1>2. CASE wf # "cancelled"
  <2>1. Loop(c, "advance", cs, st1, Ready(dependsOn, st1), wf)
    BY <1>2 DEF Advance
  <2>2. st1 \in [Nodes -> NodeStatus]
    BY SkipType
  <2>3. NonePending(st) => NonePending(st1) /\ Ready(dependsOn, st1) = {}
    <3>1. \A n \in Nodes : st1[n] \in {"skipped", st[n]}
      BY SkipType
    <3>2. QED
      BY <3>1 DEF NonePending, Ready
  <2>4. /\ NonePending(st1) => NonePending(node')
        /\ wf' = wf \/ wf' \notin {"none", "running", "cancelled"}
        /\ call'[c].todo \subseteq Ready(dependsOn, st1)
        /\ \A b \in Calls : b # c => call'[b] = cs[b]
    BY <2>1, <2>2, ReadyType, LoopCancel
  <2>5. QED
    BY <2>3, <2>4
<1>3. QED
  BY <1>1, <1>2

(* The step lemma and the theorem about CancelDrains share this: what a    *)
(* step does once a cancel has been seen, and that it keeps CancelInv. *)
LEMMA CancelStep ==
  ASSUME CancelInv, Next
  PROVE  /\ CancelInv'
         /\ cancelSeen => \A c \in Calls : call'[c].todo \subseteq call[c].todo
<1> USE DEF CancelInv
<1>1. TypeOK' /\ AtNode'
  BY StepType
<1> DEFINE Goal == /\ cancelSeen' => wf' # "none" /\ NonePending(node')
                   /\ wf' = "cancelled" => cancelSeen'
                   /\ cancelSeen => \A b \in Calls : call'[b].todo \subseteq call[b].todo
<1>2. SUFFICES Goal
  BY <1>1 DEF NonePending
<1>3. ASSUME NEW c \in Calls, Accept(c) \/ Reject(c) \/ Dedup(c)
      PROVE  Goal
  <2>1. \E pc : Answer(c, pc)
    BY <1>3 DEF Accept, Reject, Dedup
  <2>2. \A b \in Calls : call'[b].todo = call[b].todo
    BY <2>1, AnswerEffect
  <2>3. UNCHANGED <<wf, node, cancelSeen>>
    BY <2>1 DEF Answer
  <2>4. QED
    BY <2>2, <2>3 DEF NonePending
<1>4. ASSUME NEW c \in Calls, Resume(c)
      PROVE  Goal
  <2>1. \A b \in Calls : call'[b].todo = call[b].todo
    BY <1>4 DEF Resume, TypeOK, CallState
  <2>2. NonePending(node) => NonePending(node')
    BY <1>4 DEF Resume, TypeOK, NonePending
  <2>3. QED
    BY <1>4, <2>1, <2>2 DEF Resume, NonePending
<1>5. ASSUME NEW c \in Calls, Continue(c)
      PROVE  Goal
  <2>1. Loop(c, call[c].kind, call, node, call[c].todo, wf) /\ call[c] \in CallState
    BY <1>5 DEF Continue, TypeOK
  <2>2. /\ NonePending(node) => NonePending(node')
        /\ wf' = wf \/ wf' \notin {"none", "running", "cancelled"}
        /\ call'[c].todo \subseteq call[c].todo
        /\ \A b \in Calls : b # c => call'[b] = call[b]
    BY <2>1, LoopCancel DEF TypeOK, CallState
  <2>3. QED
    BY <1>5, <2>2 DEF Continue, NonePending
<1>6. ASSUME NEW c \in Calls, NEW n \in Nodes, NEW outcome \in {"completed", "failed"},
             JobEvent(c, n, outcome)
      PROVE  Goal
  <2> DEFINE st == [node EXCEPT ![n] = outcome]
  <2>1. Advance(c, call, st) /\ cancelSeen' = cancelSeen
    BY <1>6 DEF JobEvent
  <2>2. st \in [Nodes -> NodeStatus] /\ (NonePending(node) => NonePending(st))
    BY DEF TypeOK, NodeStatus, NonePending
  <2>3. QED
    BY <2>1, <2>2, AdvanceCancel DEF TypeOK, NonePending
<1>7. ASSUME NEW c \in Calls, NEW b \in Calls, NEW outcome \in {"completed", "failed"},
             EarlyEvent(c, b, outcome)
      PROVE  Goal
  <2> DEFINE st == [node EXCEPT ![call[b].at] = outcome]
             cs == [call EXCEPT ![b].pc = "overtaken"]
  <2>1. Advance(c, cs, st) /\ cancelSeen' = cancelSeen /\ call[b].pc = "accepted"
    BY <1>7 DEF EarlyEvent
  <2>2. call[b] \in CallState /\ call[b].at \in Nodes
    BY <2>1 DEF TypeOK, AtNode, Adding
  <2>3. st \in [Nodes -> NodeStatus] /\ (NonePending(node) => NonePending(st))
    BY <2>2 DEF TypeOK, NodeStatus, NonePending
  <2>4. [call[b] EXCEPT !.pc = "overtaken"] \in CallState
    BY <2>2 DEF CallState, Adding
  <2>5. cs \in [Calls -> CallState]
    BY <2>4 DEF TypeOK
  <2>6. \A a \in Calls : cs[a].todo = call[a].todo
    BY <2>2 DEF TypeOK, CallState
  <2>7. /\ NonePending(st) => /\ NonePending(node')
                              /\ \A a \in Calls : call'[a].todo \subseteq cs[a].todo
        /\ wf' = wf \/ wf' \notin {"none", "running", "cancelled"}
    <3> HIDE DEF st, cs
    <3>1. QED
      BY <2>1, <2>3, <2>5, AdvanceCancel DEF TypeOK
  <2>8. \A a \in Calls : NonePending(st) => call'[a].todo \subseteq call[a].todo
    <3> HIDE DEF st, cs
    <3>1. QED
      BY <2>6, <2>7
  <2>9. NonePending(node) <=> \A n \in Nodes : node[n] # "pending"
    BY DEF NonePending
  <2>10. QED
    <3> HIDE DEF st, cs
    <3>1. QED
      BY <2>1, <2>3, <2>7, <2>8, <2>9
<1>8. ASSUME NEW n \in Nodes, SilentEnd(n)
      PROVE  Goal
  BY <1>8 DEF SilentEnd, NonePending
<1>9. ASSUME Cancel
      PROVE  Goal
  BY <1>9 DEF Cancel, TypeOK, NonePending
<1>10. ASSUME NEW c \in Calls, Submit(c)
       PROVE  Goal
  <2>1. ~cancelSeen /\ ~cancelSeen'
    BY <1>10 DEF Submit
  <2> DEFINE st == [n \in Nodes |-> "pending"]
  <2>2. PICK g \in Dtos : Loop(c, "submit", call, st, Ready(g, st), "running")
    BY <1>10 DEF Submit
  <2>3. st \in [Nodes -> NodeStatus]
    BY DEF NodeStatus
  <2>4. wf' # "cancelled"
    BY <2>2, <2>3, ReadyType, LoopCancel DEF TypeOK
  <2>5. QED
    BY <2>1, <2>4
<1>11. QED
  BY <1>3, <1>4, <1>5, <1>6, <1>7, <1>8, <1>9, <1>10 DEF Next, System, User

LEMMA CancelInit == Init => CancelInv
  BY InitType DEF Init, CancelInv

(* After a cancel the lists of the calls in flight only shrink: nothing    *)
(* that was not already listed is ever enqueued. *)
THEOREM CancelStopsScheduling == Spec => CancelDrains
<1>1. CancelInv /\ [Next]_vars => CancelInv'
  <2>1. CancelInv /\ UNCHANGED vars => CancelInv'
    BY DEF CancelInv, vars, TypeOK, AtNode
  <2>2. QED
    BY <2>1, CancelStep
<1>2. CancelInv /\ [Next]_vars =>
        [cancelSeen => \A c \in Calls : call'[c].todo \subseteq call[c].todo]_vars
  BY CancelStep
<1>3. QED
  BY CancelInit, <1>1, <1>2, PTL DEF Spec, CancelDrains

-----------------------------------------------------------------------------
(* Without faults no interleaving strands a workflow.  The invariant says  *)
(* for every status that is not final who will change it: a running node   *)
(* has a job, a queued one a call that is adding it, a pending one a list  *)
(* it is on or a parent that is not done, and a workflow without verdict   *)
(* whose nodes are all done has a handler that has not looked yet.         *)

(* The part of CallState that is left when there are no faults. *)
PlainCalls ==
    \A c \in Calls : /\ call[c].pc \in {"idle", "adding", "accepted", "resumed"}
                     /\ call[c].pc = "idle" => call[c] = Idle

QueuedHasCall ==
    \A n \in Nodes : node[n] = "queued" =>
        \E c \in Calls : call[c].pc \in Adding /\ call[c].at = n

Listed(n) == \E c \in Calls : n \in call[c].todo

Blocked(st, n) == \E d \in dependsOn[n] : st[d.job] \notin Terminal

PendingHasReason ==
    wf # "none" => \A n \in Nodes : node[n] = "pending" => Listed(n) \/ Blocked(node, n)

VerdictComes ==
    AllDone(node) /\ wf \notin {"none", "cancelled"} =>
        \/ wf = Verdict(node)
        \/ \E c \in Calls : call[c].pc # "idle" /\ call[c].kind = "advance"

HealthInv ==
    /\ CancelInv
    /\ CommitInv
    /\ PlainCalls
    /\ RunningHasJob
    /\ QueuedHasCall
    /\ PendingHasReason
    /\ VerdictComes
    /\ wf # "none" => Acyclic(dependsOn)

LEMMA HealthEnough == HealthInv => NoStrandedWorkflow
<1> SUFFICES ASSUME HealthInv, Quiescent
             PROVE  AllDone(node) /\ wf \in {"cancelled", Verdict(node)}
  BY DEF NoStrandedWorkflow
<1> USE DEF HealthInv
<1> DEFINE P == {n \in Nodes : node[n] = "pending"}
<1>1. \A n \in Nodes : node[n] \notin {"running", "queued"}
  BY DEF Quiescent, RunningHasJob, QueuedHasCall, Idle, Adding
<1>2. \A n \in Nodes : node[n] \in Terminal \/ n \in P
  BY <1>1 DEF CancelInv, TypeOK, NodeStatus, Terminal
<1>3. ASSUME NEW n \in P PROVE \E d \in dependsOn[n] : d.job \in P
  <2>1. ~Listed(n)
    BY DEF Quiescent, Listed, Idle
  <2>2. PICK d \in dependsOn[n] : node[d.job] \notin Terminal
    BY <2>1 DEF Quiescent, PendingHasReason, Blocked
  <2>3. d.job \in Nodes
    BY DEF CancelInv, TypeOK, Deps
  <2>4. QED
    BY <1>2, <2>2, <2>3
<1>4. P = {}
  <2>1. Acyclic(dependsOn)
    BY DEF Quiescent
  <2>2. QED
    BY <1>3, <2>1 DEF Acyclic
<1>5. AllDone(node)
  BY <1>2, <1>4 DEF AllDone
<1>6. \A c \in Calls : call[c].pc = "idle"
  BY DEF Quiescent, Idle
<1>7. QED
  BY <1>5, <1>6 DEF Quiescent, VerdictComes

(* What skipUnreachableNodes leaves pending can still run: none of its     *)
(* parents is done without meeting the condition. *)
LEMMA SkipComplete ==
  ASSUME NEW g \in Deps, NEW st \in [Nodes -> NodeStatus],
         NEW n \in Nodes, SkipUnreachable(g, st)[n] = "pending",
         NEW d \in g[n]
  PROVE  SkipUnreachable(g, st)[d.job] \notin Terminal \ Meets[d.cond]
<1> DEFINE U == Unreachable(g, st)
<1>1. d.job \in Nodes
  BY DEF Deps
<1>2. n \notin U /\ st[n] = "pending"
  BY DEF SkipUnreachable
<1>3. PICK S \in SUBSET Nodes : SkipClosed(g, st, S) /\ n \notin S
  BY <1>2 DEF Unreachable
<1>4. st[d.job] \notin Terminal \ Meets[d.cond]
  BY <1>2, <1>3 DEF SkipClosed
<1>5. d.job \in S => "skipped" \in Meets[d.cond]
  BY <1>2, <1>3 DEF SkipClosed
<1>6. d.job \in U => d.job \in S
  BY <1>3 DEF Unreachable
<1>7. SkipUnreachable(g, st)[d.job] = IF d.job \in U THEN "skipped" ELSE st[d.job]
  BY <1>1 DEF SkipUnreachable
<1>8. QED
  BY <1>4, <1>5, <1>6, <1>7

LEMMA SkipReason ==
  ASSUME NEW g \in Deps, NEW st \in [Nodes -> NodeStatus], NEW n \in Nodes,
         SkipUnreachable(g, st)[n] = "pending",
         n \notin Ready(g, SkipUnreachable(g, st))
  PROVE  \E d \in g[n] : SkipUnreachable(g, st)[d.job] \notin Terminal
<1> DEFINE st1 == SkipUnreachable(g, st)
<1>1. PICK d \in g[n] : st1[d.job] \notin Meets[d.cond]
  BY DEF Ready
<1>2. st1[d.job] \notin Terminal \ Meets[d.cond]
  BY SkipComplete
<1>3. QED
  BY <1>1, <1>2

(* The same of statuses st, for a call c that is about to go through todo. *)
QueuedCovered(st) ==
    \A n \in Nodes : st[n] = "queued" =>
        \E b \in Calls : call[b].pc \in Adding /\ call[b].at = n

PendingCovered(c, g, st, todo) ==
    \A n \in Nodes : st[n] = "pending" =>
        \/ n \in todo
        \/ \E b \in Calls : b # c /\ n \in call[b].todo
        \/ \E d \in g[n] : st[d.job] \notin Terminal

PendingAfter(g) ==
    \A n \in Nodes : node'[n] = "pending" =>
        Listed(n)' \/ \E d \in g[n] : node'[d.job] \notin Terminal

(* One pass of the loop, from statuses st in which every pending node is   *)
(* listed or blocked. *)
LEMMA LoopHealth ==
  ASSUME CancelInv, PlainCalls,
         NEW c \in Calls, NEW kind \in {"submit", "advance"},
         NEW st \in [Nodes -> NodeStatus], NEW todo \in SUBSET Nodes, NEW w,
         Loop(c, kind, call, st, todo, w),
         call[c].pc \notin Adding,
         NEW g \in Deps, QueuedCovered(st), PendingCovered(c, g, st, todo)
  PROVE  /\ PlainCalls'
         /\ QueuedHasCall'
         /\ \A n \in Nodes : node'[n] = "running" => st[n] = "running"
         /\ PendingAfter(g)
         /\ AllDone(node') => /\ node' = st
                              /\ wf' = IF kind = "advance" THEN Verdict(st) ELSE w
<1> USE DEF CancelInv, QueuedCovered, PendingCovered, PendingAfter
<1>1. ASSUME NEW n \in todo,
             node' = [st EXCEPT ![n] = "queued"],
             call' = [call EXCEPT ![c] = [pc |-> "adding", kind |-> kind, at |-> n,
                                          todo |-> todo \ {n}]]
      PROVE  /\ PlainCalls'
             /\ QueuedHasCall'
             /\ \A m \in Nodes : node'[m] = "running" => st[m] = "running"
             /\ \A m \in Nodes : node'[m] = "pending" =>
                    Listed(m)' \/ \E d \in g[m] : node'[d.job] \notin Terminal
             /\ ~AllDone(node')
  <2>1. PlainCalls'
    BY <1>1 DEF PlainCalls, TypeOK
  <2>2. QueuedHasCall'
    <3> SUFFICES ASSUME NEW m \in Nodes, node'[m] = "queued"
                 PROVE  \E b \in Calls : call'[b].pc \in Adding /\ call'[b].at = m
      BY DEF QueuedHasCall
    <3>1. CASE m = n
      BY <1>1, <3>1 DEF TypeOK, Adding
    <3>2. CASE m # n
      BY <1>1, <3>2 DEF TypeOK
    <3>3. QED
      BY <3>1, <3>2
  <2>3. ASSUME NEW m \in Nodes, node'[m] = "pending"
        PROVE  Listed(m)' \/ \E d \in g[m] : node'[d.job] \notin Terminal
    <3>1. m # n /\ st[m] = "pending"
      BY <1>1, <2>3
    <3>2. CASE m \in todo
      BY <1>1, <3>1, <3>2 DEF Listed, TypeOK
    <3>3. CASE \E b \in Calls : b # c /\ m \in call[b].todo
      BY <1>1, <3>3 DEF Listed, TypeOK
    <3>4. CASE \E d \in g[m] : st[d.job] \notin Terminal
      BY <1>1, <3>4 DEF Terminal
    <3>5. QED
      BY <3>1, <3>2, <3>3, <3>4
  <2>4. ~AllDone(node')
    BY <1>1 DEF AllDone, Terminal
  <2>5. QED
    BY <1>1, <2>1, <2>2, <2>3, <2>4
<1>2. ASSUME todo = {}, node' = st, call' = [call EXCEPT ![c] = Idle]
      PROVE  /\ PlainCalls'
             /\ QueuedHasCall'
             /\ \A m \in Nodes : node'[m] = "pending" =>
                    Listed(m)' \/ \E d \in g[m] : node'[d.job] \notin Terminal
  <2>1. PlainCalls'
    BY <1>2 DEF PlainCalls, TypeOK, Idle
  <2>2. QueuedHasCall'
    BY <1>2 DEF QueuedHasCall, TypeOK
  <2>3. ASSUME NEW m \in Nodes, node'[m] = "pending"
        PROVE  Listed(m)' \/ \E d \in g[m] : node'[d.job] \notin Terminal
    BY <1>2, <2>3 DEF Listed, TypeOK
  <2>4. QED
    BY <2>1, <2>2, <2>3
<1>3. QED
  BY <1>1, <1>2 DEF Loop

(* A job event, from the handler's first statement to its first await. *)
LEMMA EventHealth ==
  ASSUME HealthInv, NEW c \in Calls, NEW n \in Nodes,
         NEW outcome \in {"completed", "failed"}, JobEvent(c, n, outcome),
         wf # "none"
  PROVE  /\ PlainCalls'
         /\ QueuedHasCall'
         /\ RunningHasJob'
         /\ PendingHasReason'
         /\ VerdictComes'
<1> USE DEF HealthInv, CancelInv
<1> DEFINE st == [node EXCEPT ![n] = outcome]
<1>1. /\ Advance(c, call, st)
      /\ call[c] = Idle
      /\ dependsOn' = dependsOn
      /\ live[n] \in Nat
      /\ live' = [live EXCEPT ![n] = @ - 1]
  BY DEF JobEvent, TypeOK
<1>2. st \in [Nodes -> NodeStatus] /\ dependsOn \in Deps
  BY DEF TypeOK, NodeStatus
<1>3. \A m \in Nodes : st[m] = "running" => node[m] = "running" /\ m # n
  BY DEF TypeOK
<1>4. ASSUME \A m \in Nodes : node'[m] = "running" => st[m] = "running"
      PROVE  RunningHasJob'
  BY <1>1, <1>3, <1>4 DEF RunningHasJob, TypeOK
<1>5. \A m \in Nodes : st[m] = "queued" => node[m] = "queued"
  BY DEF TypeOK
<1>6. CASE wf = "cancelled"
  <2>1. node' = st /\ call' = call /\ wf' = "cancelled"
    BY <1>1, <1>6 DEF Advance
  <2>2. PendingHasReason'
    BY <1>6, <2>1 DEF PendingHasReason, TypeOK
  <2>3. QED
    BY <1>4, <1>5, <2>1, <2>2 DEF PlainCalls, QueuedHasCall, VerdictComes
<1>7. CASE wf # "cancelled"
  <2> DEFINE st1 == SkipUnreachable(dependsOn, st)
  <2>1. Loop(c, "advance", call, st1, Ready(dependsOn, st1), wf)
    BY <1>1, <1>7 DEF Advance
  <2>2. /\ st1 \in [Nodes -> NodeStatus]
        /\ \A m \in Nodes : st1[m] \in {"skipped", st[m]}
    BY <1>2, SkipType
  <2>3. QueuedCovered(st1)
    BY <1>5, <2>2 DEF QueuedHasCall, QueuedCovered
  <2>4. PendingCovered(c, dependsOn, st1, Ready(dependsOn, st1))
    BY <1>2, SkipReason DEF PendingCovered
  <2>5. call[c].pc \notin Adding
    BY <1>1 DEF Idle, Adding
  <2>6. /\ PlainCalls'
        /\ QueuedHasCall'
        /\ \A m \in Nodes : node'[m] = "running" => st1[m] = "running"
        /\ PendingAfter(dependsOn)
        /\ AllDone(node') => node' = st1 /\ wf' = Verdict(st1)
    <3> HIDE DEF st1, CancelInv
    <3>1. CancelInv /\ PlainCalls
      BY DEF HealthInv
    <3>2. QED
      BY <1>2, <2>1, <2>2, <2>3, <2>4, <2>5, <3>1, ReadyType, LoopHealth
  <2>7. RunningHasJob'
    BY <1>4, <2>2, <2>6
  <2>8. PendingHasReason'
    BY <1>1, <2>6 DEF PendingHasReason, PendingAfter, Blocked
  <2>9. VerdictComes'
    BY <2>6 DEF VerdictComes
  <2>10. QED
    BY <2>6, <2>7, <2>8, <2>9
<1>8. QED
  BY <1>6, <1>7

LEMMA ResumeHealth ==
  ASSUME HealthInv, NEW c \in Calls, Resume(c)
  PROVE  /\ PlainCalls'
         /\ QueuedHasCall'
         /\ RunningHasJob'
         /\ PendingHasReason'
         /\ VerdictComes'
<1> USE DEF HealthInv, CancelInv
<1> DEFINE n == call[c].at
<1>1. call[c].pc = "accepted"
  BY DEF Resume, PlainCalls, Adding
<1>2. n \in Nodes /\ live[n] \in Nat
  BY <1>1 DEF AtNode, Adding, TypeOK
<1>3. /\ node' = [node EXCEPT ![n] = "running"]
      /\ live' = [live EXCEPT ![n] = @ + 1]
      /\ UNCHANGED <<dependsOn, wf>>
  BY <1>1 DEF Resume
<1>4. /\ call'[c].pc = "resumed"
      /\ \A b \in Calls : call'[b].todo = call[b].todo
      /\ \A b \in Calls : b # c => call'[b] = call[b]
  BY DEF Resume, TypeOK, CallState
<1>5. PlainCalls'
  BY <1>4 DEF PlainCalls
<1>6. QueuedHasCall'
  <2> SUFFICES ASSUME NEW m \in Nodes, node'[m] = "queued"
               PROVE  \E b \in Calls : call'[b].pc \in Adding /\ call'[b].at = m
    BY DEF QueuedHasCall
  <2>1. m # n /\ node[m] = "queued"
    BY <1>2, <1>3 DEF TypeOK
  <2>2. PICK b \in Calls : call[b].pc \in Adding /\ call[b].at = m
    BY <2>1 DEF QueuedHasCall
  <2>3. QED
    BY <1>4, <2>1, <2>2
<1>7. RunningHasJob'
  BY <1>2, <1>3 DEF RunningHasJob, TypeOK
<1>8. PendingHasReason'
  <2> SUFFICES ASSUME wf # "none", NEW m \in Nodes, node'[m] = "pending"
               PROVE  Listed(m)' \/ \E d \in dependsOn[m] : node'[d.job] \notin Terminal
    BY <1>3 DEF PendingHasReason, Blocked
  <2>1. m # n /\ node[m] = "pending"
    BY <1>2, <1>3 DEF TypeOK
  <2>2. CASE Listed(m)
    BY <1>4, <2>2 DEF Listed
  <2>3. CASE Blocked(node, m)
    <3>1. PICK d \in dependsOn[m] : node[d.job] \notin Terminal
      BY <2>3 DEF Blocked
    <3>2. node'[d.job] \notin Terminal
      BY <1>3, <3>1 DEF TypeOK, Terminal
    <3>3. QED
      BY <3>2
  <2>4. QED
    BY <2>1, <2>2, <2>3 DEF PendingHasReason
<1>9. VerdictComes'
  BY <1>2, <1>3 DEF VerdictComes, AllDone, Terminal, TypeOK
<1>10. QED
  BY <1>5, <1>6, <1>7, <1>8, <1>9

LEMMA ContinueHealth ==
  ASSUME HealthInv, NEW c \in Calls, Continue(c)
  PROVE  /\ PlainCalls'
         /\ QueuedHasCall'
         /\ RunningHasJob'
         /\ PendingHasReason'
         /\ VerdictComes'
<1> DEFINE kind == call[c].kind
           todo == call[c].todo
<1>1. /\ Loop(c, kind, call, node, todo, wf)
      /\ call[c].pc = "resumed"
      /\ UNCHANGED <<dependsOn, live>>
  BY DEF Continue
<1>2. /\ CancelInv /\ PlainCalls
      /\ node \in [Nodes -> NodeStatus]
      /\ call \in [Calls -> CallState]
      /\ dependsOn \in Deps
      /\ wf \in WorkflowStatus
  BY DEF HealthInv, CancelInv, TypeOK
<1>3. kind \in {"submit", "advance"} /\ todo \in SUBSET Nodes
  BY <1>2 DEF CallState
<1>4. QueuedCovered(node)
  BY DEF HealthInv, QueuedHasCall, QueuedCovered
<1>5. wf = "none" => FALSE
  BY <1>1 DEF HealthInv, CommitInv, Fresh, Idle
<1>6. PendingCovered(c, dependsOn, node, todo)
  BY <1>5 DEF HealthInv, PendingHasReason, PendingCovered, Listed, Blocked
<1>7. call[c].pc \notin Adding
  BY <1>1 DEF Adding
<1>8. /\ PlainCalls'
      /\ QueuedHasCall'
      /\ \A n \in Nodes : node'[n] = "running" => node[n] = "running"
      /\ PendingAfter(dependsOn)
      /\ AllDone(node') => node' = node /\ wf' = IF kind = "advance" THEN Verdict(node) ELSE wf
  <2> HIDE DEF kind, todo
  <2>1. QED
    BY <1>1, <1>2, <1>3, <1>4, <1>6, <1>7, LoopHealth
<1>9. RunningHasJob'
  BY <1>1, <1>8 DEF HealthInv, RunningHasJob
<1>10. PendingHasReason'
  BY <1>1, <1>8 DEF PendingHasReason, PendingAfter, Blocked
<1>11. VerdictComes'
  <2> SUFFICES ASSUME AllDone(node'), wf' \notin {"none", "cancelled"}, wf' # Verdict(node')
               PROVE  \E b \in Calls : call'[b].pc # "idle" /\ call'[b].kind = "advance"
    BY DEF VerdictComes
  <2>1. node' = node /\ kind # "advance" /\ wf' = wf
    BY <1>8
  <2>2. PICK b \in Calls : call[b].pc # "idle" /\ call[b].kind = "advance"
    BY <2>1 DEF HealthInv, VerdictComes
  <2>3. b # c
    BY <2>1, <2>2
  <2>4. call'[b] = call[b]
    BY <1>1, <1>2, <1>3, <2>3, LoopEffect
  <2>5. QED
    BY <2>2, <2>4
<1>12. QED
  BY <1>8, <1>9, <1>10, <1>11

LEMMA SubmitHealth ==
  ASSUME HealthInv, NEW c \in Calls, Submit(c)
  PROVE  /\ PlainCalls'
         /\ QueuedHasCall'
         /\ RunningHasJob'
         /\ PendingHasReason'
         /\ VerdictComes'
         /\ Acyclic(dependsOn')
<1> DEFINE st == [n \in Nodes |-> "pending"]
<1>1. PICK g \in Dtos : /\ Acyclic(g)
                        /\ dependsOn' = g
                        /\ Loop(c, "submit", call, st, Ready(g, st), "running")
  BY DEF Submit
<1>2. /\ CancelInv /\ PlainCalls
      /\ st \in [Nodes -> NodeStatus]
      /\ g \in Deps
      /\ call[c].pc \notin Adding
  BY DagAssumption DEF HealthInv, NodeStatus, Submit, Idle, Adding
<1>3. QueuedCovered(st)
  BY DEF QueuedCovered
<1>4. PendingCovered(c, g, st, Ready(g, st))
  <2> SUFFICES ASSUME NEW n \in Nodes, n \notin Ready(g, st)
               PROVE  \E d \in g[n] : st[d.job] \notin Terminal
    BY DEF PendingCovered
  <2>1. PICK d \in g[n] : st[d.job] \notin Meets[d.cond]
    BY DEF Ready
  <2>2. d.job \in Nodes
    BY <1>2 DEF Deps
  <2>3. QED
    BY <2>2 DEF Terminal
<1>5. /\ PlainCalls'
      /\ QueuedHasCall'
      /\ \A n \in Nodes : node'[n] = "running" => st[n] = "running"
      /\ PendingAfter(g)
      /\ AllDone(node') => node' = st
  <2> HIDE DEF st
  <2>1. QED
    BY <1>1, <1>2, <1>3, <1>4, ReadyType, LoopHealth
<1>6. RunningHasJob'
  BY <1>5 DEF RunningHasJob
<1>7. PendingHasReason'
  BY <1>1, <1>5 DEF PendingHasReason, PendingAfter, Blocked
<1>8. ~AllDone(node')
  BY <1>5, DagAssumption DEF AllDone, Terminal
<1>9. QED
  BY <1>1, <1>5, <1>6, <1>7, <1>8 DEF VerdictComes

LEMMA HealthStep ==
  ASSUME Faults = {}, HealthInv, [Next]_vars
  PROVE  HealthInv'
<1>1. CancelInv' /\ CommitInv'
  <2>1. CancelInv /\ CommitInv
    BY DEF HealthInv
  <2>2. CommitInv'
    BY <2>1, CommitStep
  <2>3. ASSUME UNCHANGED vars PROVE CancelInv'
    BY <2>1, <2>3 DEF CancelInv, vars, TypeOK, AtNode
  <2>4. ASSUME Next PROVE CancelInv'
    BY <2>1, <2>4, CancelStep
  <2>5. QED
    BY <2>2, <2>3, <2>4
<1> DEFINE Rest == /\ PlainCalls'
                   /\ RunningHasJob'
                   /\ QueuedHasCall'
                   /\ PendingHasReason'
                   /\ VerdictComes'
                   /\ wf' # "none" => Acyclic(dependsOn')
<1>2. SUFFICES Rest
  BY <1>1 DEF HealthInv
<1>3. ASSUME NEW c \in Calls, Accept(c) PROVE Rest
  <2>1. /\ call[c].pc = "adding" /\ call'[c].pc = "accepted"
        /\ \A b \in Calls : /\ call'[b].at = call[b].at
                            /\ call'[b].todo = call[b].todo
                            /\ call'[b].kind = call[b].kind
        /\ \A b \in Calls : b # c => call'[b] = call[b]
        /\ UNCHANGED <<dependsOn, wf, node, live>>
    <3>1. Answer(c, "accepted") /\ TypeOK
      BY <1>3 DEF Accept, HealthInv, CancelInv
    <3>2. QED
      BY <3>1, AnswerEffect
  <2>2. PlainCalls'
    BY <2>1 DEF HealthInv, PlainCalls
  <2>3. QueuedHasCall'
    BY <2>1 DEF HealthInv, QueuedHasCall, Adding
  <2>4. RunningHasJob'
    BY <2>1 DEF HealthInv, RunningHasJob
  <2>5. PendingHasReason'
    BY <2>1 DEF HealthInv, PendingHasReason, Listed, Blocked
  <2>6. VerdictComes'
    BY <2>1 DEF HealthInv, VerdictComes
  <2>7. QED
    BY <2>1, <2>2, <2>3, <2>4, <2>5, <2>6 DEF HealthInv
<1>4. ASSUME NEW c \in Calls, Resume(c) PROVE Rest
  BY <1>4, ResumeHealth DEF HealthInv, Resume
<1>5. ASSUME NEW c \in Calls, Continue(c) PROVE Rest
  <2>1. dependsOn' = dependsOn /\ wf # "none"
    BY <1>5 DEF Continue, HealthInv, CommitInv, Fresh, Idle
  <2>2. QED
    BY <1>5, <2>1, ContinueHealth DEF HealthInv
<1>6. ASSUME NEW c \in Calls, NEW n \in Nodes, NEW outcome \in {"completed", "failed"},
             JobEvent(c, n, outcome)
      PROVE  Rest
  <2>1. dependsOn' = dependsOn /\ wf # "none"
    BY <1>6 DEF JobEvent, HealthInv, CommitInv, Fresh
  <2>2. QED
    BY <1>6, <2>1, EventHealth DEF HealthInv
<1>7. ASSUME Cancel PROVE Rest
  <2>1. /\ \A n \in Nodes : node'[n] \notin {"pending", "queued"}
        /\ \A n \in Nodes : node'[n] = "running" => node[n] = "running"
        /\ wf # "none" /\ wf' = "cancelled"
        /\ UNCHANGED <<dependsOn, call, live>>
    BY <1>7 DEF Cancel
  <2>2. QED
    BY <2>1 DEF HealthInv, PlainCalls, RunningHasJob, QueuedHasCall, PendingHasReason,
                VerdictComes
<1>8. ASSUME NEW c \in Calls, Submit(c) PROVE Rest
  BY <1>8, SubmitHealth
<1>9. CASE UNCHANGED vars
  BY <1>9 DEF vars, HealthInv, PlainCalls, RunningHasJob, QueuedHasCall, PendingHasReason,
              Listed, Blocked, VerdictComes
<1>10. ASSUME NEW c \in Calls, Reject(c) \/ Dedup(c) PROVE FALSE
  BY <1>10 DEF Reject, Dedup
<1>11. ASSUME NEW c \in Calls, NEW b \in Calls, NEW outcome, EarlyEvent(c, b, outcome)
       PROVE  FALSE
  BY <1>11 DEF EarlyEvent
<1>12. ASSUME NEW n \in Nodes, SilentEnd(n) PROVE FALSE
  BY <1>12 DEF SilentEnd
<1>13. QED
  BY <1>3, <1>4, <1>5, <1>6, <1>7, <1>8, <1>9, <1>10, <1>11, <1>12 DEF Next, System, User

LEMMA HealthInit == Init => HealthInv
<1> SUFFICES ASSUME Init PROVE HealthInv
  OBVIOUS
<1>1. PlainCalls /\ RunningHasJob /\ QueuedHasCall /\ PendingHasReason /\ VerdictComes
  BY DEF Init, PlainCalls, RunningHasJob, QueuedHasCall, PendingHasReason, VerdictComes, Idle
<1>2. QED
  BY <1>1, CancelInit, CommitInit DEF Init, HealthInv

(* Without faults every node shown as running has a job that will report   *)
(* back, and a workflow at rest has all its nodes done and its verdict:    *)
(* the races between handlers run nodes twice, but strand none. *)
THEOREM RunningNodesHaveJobs == (Faults = {}) => (Spec => []RunningHasJob)
<1> SUFFICES ASSUME Faults = {} PROVE Spec => []RunningHasJob
  OBVIOUS
<1>1. HealthInv /\ [Next]_vars => HealthInv'
  BY HealthStep
<1>2. HealthInv => RunningHasJob
  BY DEF HealthInv
<1>3. QED
  BY HealthInit, <1>1, <1>2, PTL DEF Spec

(* No interleaving of submit, cancel and event handlers leaves a workflow  *)
(* without a way forward. *)
THEOREM NoWorkflowStranded == (Faults = {}) => (Spec => []NoStrandedWorkflow)
<1> SUFFICES ASSUME Faults = {} PROVE Spec => []NoStrandedWorkflow
  OBVIOUS
<1>1. HealthInv /\ [Next]_vars => HealthInv'
  BY HealthStep
<1>2. QED
  BY HealthInit, HealthEnough, <1>1, PTL DEF Spec

=============================================================================
