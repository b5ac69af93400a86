--------------------------- MODULE MCSignerProcess ---------------------------
(* Two calls, policies that differ in mode, in ceilings and in thresholds.  *)
EXTENDS SignerProcess

Limit(perTx, small, large) ==
    [type |-> "limit", maxPerTx |-> perTx, maxDaily |-> 0,
     smallThreshold |-> small, largeThreshold |-> large]
Free == [NoPolicy EXCEPT !.type = "unlimited"]

MCBoundPolicies == {NoPolicy, Limit(2, Unset, Unset), [Free EXCEPT !.smallThreshold = 1]}
MCParentPolicies == {NoPolicy, Free, Limit(1, Unset, 2)}

Day(perTx, daily) == Scope("agent", 1, 9, [d \in Dimensions |-> Unrestricted], perTx, daily)
Signed(by, scope) == [scope |-> scope, seal |-> Seal(by, scope)]
MCSessions == {NoSession, Signed("owner", Day(9, 2))}
DailySession == {Signed("owner", Day(9, 1))}

Ask(channel, amount, shape) == [channel |-> channel, amount |-> amount, shape |-> shape]
MCRequests ==
    {Ask("sign_intent", Num(k), "intent") : k \in {1, 3}}
        \cup {Ask("asset", Num(k), "intent") : k \in {1, 3}}
        \cup {Ask("sign_intent", Num(1), "huge"), Ask("sign_intent", Absent, "intent"),
              Ask("sign", Num(1), "hash"), Ask("sign", Absent, "hash"),
              Ask("sign_message", Absent, "plain"),
              Ask("ping", Absent, "plain")}

Unbound == {NoPolicy}

\* Policies a human may write that combineSpendPolicies loosens.
LooseBounds == {Limit(0, Unset, Unset), [Free EXCEPT !.smallThreshold = 0], Limit(2, 4, 3)}
=============================================================================
