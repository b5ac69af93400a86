------------------------------ MODULE MCKeeper -------------------------------
(* One agent, its session with limits, a forgery, and a narrowing that      *)
(* lowers the day's limit and sets the other below 0.                       *)
EXTENDS Keeper

NoLists == [d \in Dimensions |-> Unrestricted]
Swap == [NoLists EXCEPT !["method"] = {"swap"}]

First == Scope("a", 1, 2, Swap, 2, 4)
MCFirstSession == [x \in {"a"} |-> First]
MCNarrowings ==
    {[given |-> {"maxPerTx", "maxDaily", "ttl"}, agent |-> "a", allowed |-> NoLists,
      maxPerTx |-> -1, maxDaily |-> 3, ttl |-> 2]}
MCSelfMade == {[First EXCEPT !.maxDaily = 9, !.allowed = NoLists]}

Use(method, amount) == [names |-> [d \in Dimensions |-> IF d = "method" THEN method ELSE None],
                        amount |-> amount]
MCUses == {Use("swap", Num(2)), Use("swap", Num(3)), Use("mint", Num(1))}
=============================================================================
