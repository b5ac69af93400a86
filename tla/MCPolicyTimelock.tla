--------------------------- MODULE MCPolicyTimelock ---------------------------
(***************************************************************************)
(* A small instance of PolicyTimelock: two changes over either store, with *)
(* time for both to be scheduled, to fall due and to be asked for late.    *)
(***************************************************************************)
EXTENDS PolicyTimelock, TLC

CONSTANTS change1, change2

Symmetric == Permutations({change1, change2})
=============================================================================
