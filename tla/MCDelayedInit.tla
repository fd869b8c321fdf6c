--------------------------- MODULE MCDelayedInit ----------------------------
(***************************************************************************)
(* Instances of DelayedInit for TLC: three getters, the first two polled   *)
(* by one task and the third by another.                                   *)
(***************************************************************************)
EXTENDS DelayedInit

CONSTANTS g1, g2, g3, t1, t2

SplitTasks == [g \in Getters |-> IF g \in {g1, g2} THEN t1 ELSE t2]
=============================================================================
