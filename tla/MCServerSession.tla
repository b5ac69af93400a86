--------------------------- MODULE MCServerSession ---------------------------
(* Calls that overlap, identities that replace each other, and signers enough *)
(* for each of them to be restarted.                                          *)
EXTENDS ServerSession, TLC

CONSTANTS s1, s2

Interchangeable == Permutations(Tools)
==============================================================================
