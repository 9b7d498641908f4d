--------------------------- MODULE MCDagWorkflow ---------------------------
(* Small instances of DagWorkflow. *)
EXTENDS DagWorkflow, TLC

CONSTANTS MCConditions   \* the conditions the submitted graphs use

MCNodes == {"a", "b", "c"}

MCPos == [n \in MCNodes |-> CASE n = "a" -> 1 [] n = "b" -> 2 [] n = "c" -> 3]

(* a and b would be given the same job id in the same millisecond. *)
MCKind == [n \in MCNodes |-> IF n = "c" THEN "k2" ELSE "k1"]

(* Every dependency map with at most one dependency on each other node;    *)
(* the cyclic ones too: submitWorkflow must refuse them. *)
MCDependencies(n) ==
    {D \in SUBSET [job : MCNodes \ {n}, cond : MCConditions] :
        \A d, e \in D : d.job = e.job => d = e}

MCDtos ==
    {g \in [MCNodes -> UNION {MCDependencies(n) : n \in MCNodes}] :
        \A n \in MCNodes : g[n] \in MCDependencies(n)}

(* The calls are interchangeable. *)
MCSymmetry == Permutations(Calls)

=============================================================================
