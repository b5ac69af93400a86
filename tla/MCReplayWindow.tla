---------------------------- MODULE MCReplayWindow ----------------------------
(***************************************************************************)
(* A small instance of ReplayWindow: envelopes signed behind, at and ahead *)
(* of the receiver's first instant, and a clock that outlives them all.    *)
(***************************************************************************)
EXTENDS ReplayWindow, TLC

CONSTANTS i1, i2, e1, e2, e3

\* e2 can be received first one instant before its timestamp, and is still
\* fresh two instants later.
MCTimestamp == (e1 :> 0) @@ (e2 :> 1) @@ (e3 :> 2)
=============================================================================
