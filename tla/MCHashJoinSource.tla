------------------------- MODULE MCHashJoinSource -------------------------
(* Instances of HashJoinSource for TLC: an empty build side, five build   *)
(* rows or three unmatched ones, five probe rows, three radix partitions  *)
(* and a round budget of two tuples, so that the source replays one       *)
(* spilled round with two probe rows, a probe row with two matches and a *)
(* never-matched build row, and an in-memory outer scan takes several     *)
(* GetData calls of several workers.                                      *)
EXTENDS HashJoinSource

\* the build side is empty, or five rows: key 1 once, key 2 once, key 3
\* twice, key 5 (never probed) once, or three rows of key 5, which an
\* outer scan finds in three chunks
MCBuildInputs == {<<>>, <<1, 3, 2, 3, 5>>, <<5, 5, 5>>}
\* probe rows: key 3, key 4 and key 6 (not on the build side), key 2, key 1
MCProbeKey == <<3, 4, 2, 6, 1>>
\* partitions 0 and 1 (keys 1, 2, 4) form the first round of two rows;
\* partition 2 (keys 3, 5, 6) is a second round of three build rows, and
\* its spill holds a probe row with two matches and one with none
MCKeyPartition == [k \in 1..6 |-> CASE k \in {1, 4} -> 0 [] k = 2 -> 1 [] k \in {3, 5, 6} -> 2]
=============================================================================
