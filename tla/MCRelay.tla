------------------------------- MODULE MCRelay -------------------------------
(***************************************************************************)
(* A small instance of Relay: two calls that may overlap, each with one    *)
(* retry, and a relayer account with a transaction behind it, so that the  *)
(* shared counter starts out wrong.                                        *)
(***************************************************************************)
EXTENDS Relay

\* Instances are alike, so the first call may as well be made at the first of
\* them.
MCReaches == [c \in Calls |-> IF c = CHOOSE d \in Calls : TRUE THEN {CHOOSE s \in Servers : TRUE} ELSE Servers]

MCAmount == [intent \in Intents |-> 1]
=============================================================================
