--------------------------- MODULE MCBalanceLedger ---------------------------
(* BalanceLedger for TLC: two rounds, or one that the player can act in.     *)
EXTENDS BalanceLedger, TLC

CONSTANTS r1, r2

Symmetry == Permutations({r1, r2})
=============================================================================
