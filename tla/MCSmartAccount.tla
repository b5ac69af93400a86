--------------------------- MODULE MCSmartAccount ---------------------------
(***************************************************************************)
(* A small instance of SmartAccount: an owner and an emergency key, two    *)
(* sessions with one agent key, and windows of two blocks in a run of      *)
(* four, so that windows expire, follow each other and straddle a day.     *)
(***************************************************************************)
EXTENDS SmartAccount, TLC

CONSTANTS owner, emergency, s1, s2, k, zero

MCAccounts == {owner, emergency}
MCSessionIds == {s1, s2}
MCAgents == {k}

\* Two milliseconds to a second: the first binding ends between blocks 3 and
\* 4, the second is refused at registration and mismatches in an intent.
Term == [agentId |-> "agent", issuedAt |-> 1, expiresAt |-> 7]
Backwards == [agentId |-> "agent", issuedAt |-> 9, expiresAt |-> 9]
MCBindings == {Term, Backwards}

MCNames == {"transfer", "Add_Owner", "addowner", "approve", "eth"}
MCNormalize == [n \in MCNames |-> IF n = "Add_Owner" THEN "addowner" ELSE n]

\* One dimension narrowed, to a list that names a denied method; the rest open.
Narrow == [[d \in Dimensions |-> {}] EXCEPT !["method"] = {"transfer", "Add_Owner"}]
MCWhitelists == {Narrow}

Ask(action, method) ==
    [d \in Dimensions \cup {"action"} |->
        CASE d = "action" -> action [] d = "method" -> method [] OTHER -> "eth"]
MCTargets == {Ask("transfer", "transfer"), Ask("transfer", "eth"), Ask("transfer", "Add_Owner")}

Symmetric == Permutations(MCSessionIds)
=============================================================================
