---------------------------- MODULE MCServerGate -----------------------------
(* Two processes on two chains and one store; two sessions, one of them asked  *)
(* for under two configs.                                                     *)
EXTENDS ServerGate, TLC

CONSTANTS u1, u2, a1, a2

CallSlots == {<<"s1", 1>>, <<"s1", 2>>, <<"s2", 1>>}
OneServer == {<<"s1", 1>>}

AskedFor == {[session |-> "k1", config |-> "narrow"],
             [session |-> "k1", config |-> "wide"],
             [session |-> "k2", config |-> "narrow"]}

SomeIntents == {[action |-> "transfer", amount |-> 1], [action |-> "query", amount |-> 1]}

Rule(required) == [enabled |-> TRUE, requiresSimulation |-> required, maxPerTx |-> 1]

\* It would relax a transfer and forces a query.
Written == [ok |-> TRUE, rules |-> ("transfer" :> Rule(FALSE)) @@ ("query" :> Rule(TRUE))]

Unreadable == [ok |-> FALSE, rules |-> <<>>]
PolicyFiles == {Written, Unreadable}

Interchangeable == Permutations({u1, u2}) \cup Permutations({a1, a2})
==============================================================================
