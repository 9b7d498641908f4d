------------------------- MODULE MCNonceManagement -------------------------
(* Small instances of NonceManagement. *)
EXTENDS NonceManagement, TLC

(* The calls are interchangeable. *)
MCSymmetry == Permutations(Callers)

=============================================================================
