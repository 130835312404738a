------------------------- MODULE MCHashJoinFinalize -------------------------
(* Four build rows in two local HTs.  Keys 1 and 3 share radix partition *)
(* 0 and bucket 0, keys 2 and 4 partition 1 and bucket 1; in memory the   *)
(* two ranges of two blocks each push onto both buckets concurrently, and *)
(* the third thread gets no range (the loop breaks at block_idx ==        *)
(* num_blocks).  With two tuples per round the external first round is    *)
(* {1, 3}: two one-block ranges.                                           *)
EXTENDS HashJoinFinalize, TLC

MCLocalRows == (1 :> {1, 2}) @@ (2 :> {3, 4})
MCBuildKey == <<1, 2, 3, 4>>
MCKeyPartition == <<0, 1, 0, 1>>
MCBucket == <<0, 1, 0, 1>>
=============================================================================
