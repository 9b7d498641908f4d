--------------------------- MODULE DagValidator ----------------------------
(***************************************************************************)
(* DagValidator.validate (src/src/compute-job-queue/dag/dag.validator.ts), *)
(* the gate every submitted workflow goes through: structural checks, a    *)
(* depth-first search with three colours that reports cycles, and Kahn's   *)
(* algorithm, whose output is the workflow's topological order.            *)
(*                                                                         *)
(* The code is synchronous; an action is one iteration of one of its       *)
(* loops.  A dependency list is a sequence and may name a node twice, the  *)
(* node itself, or an id the workflow does not have: in the code inDegree  *)
(* counts list entries, so repetitions matter.                             *)
(***************************************************************************)
EXTENDS Integers, Sequences, FiniteSets

CONSTANTS
    Ids,      \* the node ids there are
    Graphs    \* the inputs: pairs of an id sequence (nodes.keys()) and a dependency map

(* nodes is a Map: its keys are distinct and every key has a list. *)
ASSUME ValidatorAssumption ==
    \A g \in Graphs :
        /\ g.order \in Seq(Ids)
        /\ \A i, j \in DOMAIN g.order : g.order[i] = g.order[j] => i = j
        /\ g.deps \in [{g.order[i] : i \in DOMAIN g.order} -> Seq(Ids)]

VARIABLES
    graph,      \* the argument
    pc,         \* "check", "dfs", "kahn" or "done"
    colour,     \* detectCycles: WHITE, GREY or BLACK
    stack,      \* detectCycles: the path being explored and each node's unseen children
    cycles,     \* detectCycles: the paths it reported
    inDegree,   \* topologicalSort: unprocessed entries of each node's list
    queue,      \* topologicalSort: nodes with no entry left
    sorted,     \* topologicalSort: the order produced
    verdict     \* what validate returned

vars == <<graph, pc, colour, stack, cycles, inDegree, queue, sorted, verdict>>

Elements(s) == {s[i] : i \in DOMAIN s}

Known == Elements(graph.order)

(* The members of s that are in T, in their order. *)
KeptOf(s, T) ==
    LET kept == {i \in DOMAIN s : s[i] \in T}
        nth(k) == CHOOSE i \in kept : Cardinality({j \in kept : j <= i}) = k
    IN  [k \in 1..Cardinality(kept) |-> s[nth(k)]]

Entries(n, p) == Cardinality({i \in DOMAIN graph.deps[n] : graph.deps[n][i] = p})

ChildrenOf(p) == {n \in Known : p \in Elements(graph.deps[n])}

(* The children of p, in the order of the Map: as the lists are built node *)
(* by node, the entries of one child are neighbours, so that visiting a    *)
(* repeated child again could only repeat an error. *)
Children(p) == KeptOf(graph.order, ChildrenOf(p))

Returned(valid, reason) ==
    /\ pc' = "done"
    /\ verdict' = [valid |-> valid, reason |-> reason]

StructuralErrors ==
    \E n \in Known : \E p \in Elements(graph.deps[n]) : p = n \/ p \notin Known

(* The structural checks and the initialisation of the two algorithms. *)
Check ==
    /\ pc = "check"
    /\ IF Known = {} THEN Returned(FALSE, "empty")
       ELSE IF StructuralErrors THEN Returned(FALSE, "structure")
       ELSE pc' = "dfs" /\ UNCHANGED verdict
    /\ UNCHANGED <<graph, colour, stack, cycles, inDegree, queue, sorted>>

-----------------------------------------------------------------------------
(* detectCycles *)

Enter(n, path) ==
    /\ colour' = [colour EXCEPT ![n] = "GREY"]
    /\ stack' = Append(path, [id |-> n, unseen |-> Children(n)])

(* The outer loop: the first white node starts a new search. *)
StartSearch ==
    /\ pc = "dfs"
    /\ stack = <<>>
    /\ \E i \in DOMAIN graph.order :
          /\ colour[graph.order[i]] = "WHITE"
          /\ \A j \in 1..(i - 1) : colour[graph.order[j]] # "WHITE"
          /\ Enter(graph.order[i], <<>>)
    /\ UNCHANGED <<graph, pc, cycles, inDegree, queue, sorted, verdict>>

Top == stack[Len(stack)]

Below == SubSeq(stack, 1, Len(stack) - 1)

(* The part of the path from the grey child on, closed by the child. *)
CyclePath(child) ==
    LET first == CHOOSE i \in DOMAIN stack : stack[i].id = child
        path  == SubSeq(stack, first, Len(stack))
    IN  Append([i \in DOMAIN path |-> path[i].id], child)

Visit(child, path) ==
    /\ cycles' = IF colour[child] = "GREY" THEN cycles \cup {CyclePath(child)} ELSE cycles
    /\ IF colour[child] = "WHITE" THEN Enter(child, path)
       ELSE stack' = path /\ UNCHANGED colour

(* The inner loop, with a child of the top of the stack left to look at. *)
Descend ==
    /\ pc = "dfs"
    /\ stack # <<>>
    /\ Top.unseen # <<>>
    /\ Visit(Head(Top.unseen), Append(Below, [Top EXCEPT !.unseen = Tail(@)]))
    /\ UNCHANGED <<graph, pc, inDegree, queue, sorted, verdict>>

(* Mutant of Retreat: the node is coloured but stays on the stack. *)
RetreatWithoutPop ==
    /\ pc = "dfs"
    /\ stack # <<>>
    /\ Top.unseen = <<>>
    /\ colour' = [colour EXCEPT ![Top.id] = "BLACK"]
    /\ UNCHANGED <<graph, pc, stack, cycles, inDegree, queue, sorted, verdict>>

(* The inner loop, with none left. *)
Retreat ==
    /\ pc = "dfs"
    /\ stack # <<>>
    /\ Top.unseen = <<>>
    /\ colour' = [colour EXCEPT ![Top.id] = "BLACK"]
    /\ stack' = Below
    /\ UNCHANGED <<graph, pc, cycles, inDegree, queue, sorted, verdict>>

(* No white node is left: a cycle ends the validation, otherwise Kahn's    *)
(* algorithm is set up and its queue seeded with the roots. *)
EndSearch ==
    /\ pc = "dfs"
    /\ stack = <<>>
    /\ \A n \in Known : colour[n] # "WHITE"
    /\ IF cycles # {} THEN Returned(FALSE, "cycle") /\ UNCHANGED <<inDegree, queue>>
       ELSE /\ pc' = "kahn"
            /\ inDegree' = [n \in Known |-> Len(graph.deps[n])]
            /\ queue' = KeptOf(graph.order, {n \in Known : graph.deps[n] = <<>>})
            /\ UNCHANGED verdict
    /\ UNCHANGED <<graph, colour, stack, cycles, sorted>>

-----------------------------------------------------------------------------
(* topologicalSort *)

(* Mutant of DecrementedBy: a child named twice is decremented once. *)
DecrementedOnce(current) ==
    [n \in Known |-> IF Entries(n, current) > 0 THEN inDegree[n] - 1 ELSE inDegree[n]]

(* inDegree once every entry that names current has been counted down. *)
DecrementedBy(current) == [n \in Known |-> inDegree[n] - Entries(n, current)]

(* Mutant of Released: a child is released as soon as one parent is. *)
ReleasedByAnyParent(current) == KeptOf(Children(current), {n \in Known : inDegree[n] > 0})

(* The children that have no entry left, in the order they get there. *)
Released(current) == KeptOf(Children(current), {n \in Known : DecrementedBy(current)[n] = 0})

Process ==
    /\ pc = "kahn"
    /\ queue # <<>>
    /\ sorted' = Append(sorted, Head(queue))
    /\ inDegree' = DecrementedBy(Head(queue))
    /\ queue' = Tail(queue) \o Released(Head(queue))
    /\ UNCHANGED <<graph, pc, colour, stack, cycles, verdict>>

EndSort ==
    /\ pc = "kahn"
    /\ queue = <<>>
    /\ IF Len(sorted) # Cardinality(Known) THEN Returned(FALSE, "incomplete")
       ELSE Returned(TRUE, "none")
    /\ UNCHANGED <<graph, colour, stack, cycles, inDegree, queue, sorted>>

-----------------------------------------------------------------------------
Init ==
    /\ graph \in Graphs
    /\ pc = "check"
    /\ colour = [n \in Known |-> "WHITE"]
    /\ stack = <<>>
    /\ cycles = {}
    /\ inDegree = [n \in Known |-> 0]
    /\ queue = <<>>
    /\ sorted = <<>>
    /\ verdict = [valid |-> FALSE, reason |-> "none"]

Next == Check \/ StartSearch \/ Descend \/ Retreat \/ EndSearch \/ Process \/ EndSort

(* The code runs to its end in one turn of the event loop. *)
Spec == Init /\ [][Next]_vars /\ WF_vars(Next)

-----------------------------------------------------------------------------
(* Every variable has its type; inDegree never goes below zero, where the  *)
(* `|| 1` of the code would hide it. *)
TypeOK ==
    /\ graph \in Graphs
    /\ pc \in {"check", "dfs", "kahn", "done"}
    /\ colour \in [Known -> {"WHITE", "GREY", "BLACK"}]
    /\ stack \in Seq([id : Known, unseen : Seq(Known)])
    /\ cycles \subseteq Seq(Known)
    /\ inDegree \in [Known -> Nat]
    /\ queue \in Seq(Known)
    /\ sorted \in Seq(Known)
    /\ verdict \in [valid : BOOLEAN,
                    reason : {"none", "empty", "structure", "cycle", "incomplete"}]

(* The reference: every non-empty set of nodes has a member all of whose   *)
(* dependencies exist and lie outside the set. *)
WellFormed ==
    /\ Known # {}
    /\ \A S \in SUBSET Known : S # {} =>
          \E n \in S : Elements(graph.deps[n]) \subseteq Known \ S

(* validate accepts exactly the graphs without cycles, self-loops and      *)
(* dangling references, with repeated entries or not, and never answers    *)
(* that the sort is incomplete: "Should not happen if cycle detection is   *)
(* correct, but guard anyway". *)
VerdictCorrect ==
    /\ pc = "done" => (verdict.valid <=> WellFormed)
    /\ verdict.reason # "incomplete"

(* The order holds every processed node once, and after everything it      *)
(* depends on. *)
OrderRespectsDependencies ==
    \A i \in DOMAIN sorted :
        /\ \A j \in DOMAIN sorted : sorted[i] = sorted[j] => i = j
        /\ \A p \in Elements(graph.deps[sorted[i]]) : \E j \in 1..(i - 1) : sorted[j] = p

(* Each path reported to the client is a cycle of the submitted graph. *)
ReportedCyclesExist ==
    \A path \in cycles :
        /\ Len(path) > 1
        /\ path[1] = path[Len(path)]
        /\ \A i \in 1..(Len(path) - 1) : path[i] \in Elements(graph.deps[path[i + 1]])

(* What the client is told, a verdict, an order or cycles, is true of its  *)
(* graph. *)
AnswersAreTrue == VerdictCorrect /\ OrderRespectsDependencies /\ ReportedCyclesExist

(* The two loops end. *)
Termination == <>(pc = "done")

-----------------------------------------------------------------------------
(* Why the answers are true: the search has left out nothing behind it,    *)
(* and the sort counts what is not sorted yet. *)

Black == {n \in Known : colour[n] = "BLACK"}

(* The path holds the grey nodes, once each, and descends from a node to   *)
(* one of its children. *)
PathIsGrey ==
    /\ \A i, j \in DOMAIN stack : stack[i].id = stack[j].id => i = j
    /\ \A n \in Known : colour[n] = "GREY" <=> \E i \in DOMAIN stack : stack[i].id = n
    /\ \A i \in DOMAIN stack :
          /\ Elements(stack[i].unseen) \subseteq ChildrenOf(stack[i].id)
          /\ i > 1 => stack[i].id \in ChildrenOf(stack[i - 1].id)

(* As long as no cycle was met, a child of a black node is black, one of a *)
(* node on the path is unseen, black or the next on the path, and every    *)
(* set of black nodes has a member without a child in it. *)
NothingIsMissed ==
    cycles = {} =>
        /\ \A p \in Black : ChildrenOf(p) \subseteq Black
        /\ \A i \in DOMAIN stack : \A n \in ChildrenOf(stack[i].id) :
              \/ n \in Elements(stack[i].unseen) \/ n \in Black
              \/ i < Len(stack) /\ n = stack[i + 1].id
        /\ \A S \in SUBSET Black : S # {} => \E p \in S : ChildrenOf(p) \cap S = {}

PhasesAreTrue ==
    /\ pc \in {"dfs", "kahn"} => Known # {} /\ ~StructuralErrors
    /\ pc \in {"check", "dfs"} => sorted = <<>>
    /\ pc = "kahn" => WellFormed

(* The entries of its list that keep a node from being sorted. *)
Left(n) == {i \in DOMAIN graph.deps[n] : graph.deps[n][i] \notin Elements(sorted)}

(* A node is queued or sorted, once, when none is left. *)
DegreesAreTrue ==
    pc = "kahn" =>
        /\ \A n \in Known :
              /\ inDegree[n] = Cardinality(Left(n))
              /\ inDegree[n] = 0 <=> n \in Elements(sorted) \cup Elements(queue)
        /\ Elements(sorted) \cap Elements(queue) = {}
        /\ \A i, j \in DOMAIN queue : queue[i] = queue[j] => i = j

ValidatorInv ==
    /\ PathIsGrey /\ NothingIsMissed /\ PhasesAreTrue /\ DegreesAreTrue
    /\ AnswersAreTrue

=============================================================================
