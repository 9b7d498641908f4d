-------------------------- MODULE MCDagValidator ---------------------------
(* Inputs for DagValidator: every graph of at most three nodes whose lists *)
(* have at most two entries, taken from three ids whether the graph has    *)
(* them or not, and every graph of four nodes without repetitions, self-   *)
(* loops or unknown ids. *)
EXTENDS DagValidator, SequencesExt

MCIds == {"a", "b", "c", "d"}

MCSmallIds == {"a", "b", "c"}

MCLists == UNION {[1..k -> MCSmallIds] : k \in 0..2}

MCSmallGraphs ==
    UNION {[order : {order}, deps : [Elements(order) -> MCLists]] :
              order \in {<<>>, <<"a">>, <<"b", "a">>, <<"a", "b", "c">>}}

(* One list for each subset of the other nodes. *)
MCSimpleGraphs ==
    {[order |-> <<"a", "b", "c", "d">>, deps |-> [n \in MCIds |-> SetToSeq(g[n])]] :
        g \in {h \in [MCIds -> SUBSET MCIds] : \A n \in MCIds : n \notin h[n]}}

MCGraphs == MCSmallGraphs \cup MCSimpleGraphs

=============================================================================
