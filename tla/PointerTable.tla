---------------------------- MODULE PointerTable ----------------------------
(***************************************************************************)
(* What building the pointer table of a join hash table promises (spec    *)
(* 4.1, InsertHashes, and 4.3, finalization): a block collection of rows   *)
(* is loaded, each of its rows enters the table in one atomic step, no     *)
(* row ever leaves it, and the table is marked finalized only once every  *)
(* row of the collection is in it.                                         *)
(***************************************************************************)
CONSTANT Rows       \* every row a block collection may hold

VARIABLES
  rows,       \* the rows of the block collection the table is built over
  inserted,   \* the rows reachable from the table
  finalized   \* the table is finalized

vars == << rows, inserted, finalized >>

Init == rows = {} /\ inserted = {} /\ finalized = FALSE

\* the block collection is filled before any row is inserted
Load ==
  /\ rows = {} /\ inserted = {} /\ ~finalized
  /\ rows' \in SUBSET Rows
  /\ UNCHANGED << inserted, finalized >>

\* one row of the collection enters the table
Insert ==
  /\ ~finalized
  /\ \E r \in rows \ inserted : inserted' = inserted \cup {r}
  /\ UNCHANGED << rows, finalized >>

\* the table is finalized once it holds the whole collection
Finish ==
  /\ ~finalized
  /\ inserted = rows
  /\ finalized' = TRUE
  /\ UNCHANGED << rows, inserted >>

Spec == Init /\ [][Load \/ Insert \/ Finish]_vars
=============================================================================
