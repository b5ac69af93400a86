------------------------ MODULE MCSmartAccountLimits ------------------------
(* One session whose limit may be set to 2 and then reduced, windows of two *)
(* blocks in a run of three.                                               *)
EXTENDS SmartAccountProofs

MCBindings == {[agentId |-> "agent", issuedAt |-> 1, expiresAt |-> 9]}
MCNormalize == [n \in {"transfer"} |-> n]
MCWhitelists == {[d \in Dimensions |-> {}]}
MCTargets == {[d \in Dimensions \cup {"action"} |-> "transfer"]}
=============================================================================
