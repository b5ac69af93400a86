------------------------ MODULE MCSmartAccountEngine ------------------------
(***************************************************************************)
(* Small instances of SmartAccountEngine: one owner, one emergency key and *)
(* up to two executeFromAgent calls in flight.                             *)
(***************************************************************************)
EXTENDS SmartAccountEngine, TLC

CONSTANTS owner, emergency, s1, s2, c1, c2, good, banned

\* Good for instants 1 to 3: calls begun then may still be in flight at 4.
MCBindings == {[agentId |-> "agent", issuedAt |-> 1, expiresAt |-> 4]}

MCWhitelists == {{good, banned}}

Symmetric == Permutations({c1, c2})
=============================================================================
