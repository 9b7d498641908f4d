------------------------ MODULE MCOracleSubmission -------------------------
(* Small instances of OracleSubmission. *)
EXTENDS OracleSubmission, TLC

(* Calls, monitors and transactions are interchangeable: the liveness run  *)
(* does not use this. *)
MCSymmetry == Permutations(Callers) \cup Permutations(Monitors) \cup Permutations(Txs)

=============================================================================
