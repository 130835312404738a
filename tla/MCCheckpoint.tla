---------------------------- MODULE MCCheckpoint ----------------------------
(* Build chunks and the junk an uninitialized perfect-table slot reads as. *)
EXTENDS Checkpoint

\* two chunks whose keys 1..3 are unique and dense
MCDenseChunks == [c \in {"c1", "c2"} |-> IF c = "c1" THEN <<1, 2>> ELSE <<3>>]

\* two chunks whose keys 1 and 3 leave slot 1 of the range 1..3 empty
MCSparseChunks == [c \in {"c1", "c2"} |-> IF c = "c1" THEN <<1>> ELSE <<3>>]

\* three one-row chunks
MCThreeChunks == [c \in {"c1", "c2", "c3"} |-> CASE c = "c1" -> <<1>>
                                                 [] c = "c2" -> <<2>>
                                                 [] c = "c3" -> <<3>>]

\* an uninitialized key and payload
MCJunkRows == {<<2, <<"junk", 0>>>>}
=============================================================================
