--------------------------- MODULE MCPodRestarter ----------------------------
(***************************************************************************)
(* Instances of PodRestarter for TLC.  Expiries at the start, in the       *)
(* middle and at the end of the clock, several on one pod, none, and one   *)
(* that cannot be parsed.                                                  *)
(***************************************************************************)
EXTENDS PodRestarter

Mixed == {{}, {1, 2}, {2}, {Bad, 1}}
Parsable == {{}, {0}, {1, 2}}
==============================================================================
