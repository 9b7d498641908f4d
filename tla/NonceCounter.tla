---------------------------- MODULE NonceCounter ----------------------------
(***************************************************************************)
(* What NonceManagementService promises about an address: an atomic        *)
(* counter.  Callers are given its values one after the other; an          *)
(* administrator may set it, and a new series begins.                      *)
(***************************************************************************)
EXTENDS Naturals, Sequences

CONSTANT AdminNonces   \* what an administrator may set the counter to

VARIABLES
    next,      \* the nonce the next caller is given
    given      \* the nonces given since the counter was set

Init == next = 0 /\ given = <<>>

Take ==
    /\ given' = Append(given, next)
    /\ next' = next + 1

Set(n) ==
    /\ next' = n
    /\ given' = <<>>

Next == Take \/ \E n \in AdminNonces : Set(n)

Spec == Init /\ [][Next]_<<next, given>>

=============================================================================
