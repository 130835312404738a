--------------------------- MODULE JoinHashTable ---------------------------
(***************************************************************************)
(* The radix partitioning of the external join hash table (JoinHashTable, *)
(* outside src/; spec section 4.1), shared by the modules of the finalize *)
(* and source pipelines.  A build side bk maps each build row to its join *)
(* key; the low bits of a key's hash select its radix partition           *)
(* (KeyPartition).  The table holds one round of partitions               *)
(* [start, end) at a time.                                                *)
(***************************************************************************)
EXTENDS Integers, FiniteSets, Sequences, SequencesExt

CONSTANTS
  KeyPartition,     \* radix partition of a key (low bits of its hash)
  NumPartitions,    \* radix partition count, partitions 0..NumPartitions-1
  TuplesPerRound    \* rows the HT may hold per round (ComputePartitionSizes)

\* the build rows of bk in radix partition p
PartitionCount(bk, p) == Cardinality({b \in DOMAIN bk : KeyPartition[bk[b]] = p})

\* PrepareExternalFinalize: extend the round while the next non-empty
\* partition still fits, taking at least one non-empty partition.
RECURSIVE RoundEndFrom(_, _, _)
RoundEndFrom(bk, p, count) ==
  IF p = NumPartitions THEN p
  ELSE IF /\ PartitionCount(bk, p) # 0
          /\ count # 0
          /\ count + PartitionCount(bk, p) > TuplesPerRound
       THEN p
       ELSE RoundEndFrom(bk, p + 1, count + PartitionCount(bk, p))

InRound(k, s, e) == KeyPartition[k] \in s..(e - 1)

\* the block collection of the round [s, e), in block order
RoundRows(bk, s, e) == SetToSortSeq({b \in DOMAIN bk : InRound(bk[b], s, e)}, <)
=============================================================================
