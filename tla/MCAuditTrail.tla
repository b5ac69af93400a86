----------------------------- MODULE MCAuditTrail -----------------------------
(***************************************************************************)
(* A small instance of AuditTrail.  Volumes rotate after one line, so that *)
(* four records pass through a first rotation and two that drop a volume;  *)
(* rotations that fail leave volumes of up to four lines.  Two anchors are *)
(* what a repeated one takes, two ticks what an overlap takes.             *)
(***************************************************************************)
EXTENDS AuditCollector, TLC

CONSTANTS tick1, tick2

Symmetric == Permutations(Ticks)
=============================================================================
