------------------------- MODULE MCPerfectHashJoin -------------------------
(* Build keys in 1..3 (a range of three slots), build and probe sides of  *)
(* up to three rows, probe keys below, inside and above the range.        *)
EXTENDS PerfectHashJoin

MCProbeValues == {0, 1, 2, 4}
============================================================================
