-------------------------- MODULE PerfectHashJoin --------------------------
(***************************************************************************)
(* The perfect hash join of PerfectHashJoinExecutor and the path choice   *)
(* Finalize makes with it.  When the planner marks the build side small,  *)
(* Finalize tries BuildPerfectHashTable: build row keys in                *)
(* [build_min, build_max] are placed in slot key - build_min, and a      *)
(* second key in the same slot makes the build fail, after which          *)
(* Finalize falls back to the regular pointer table.  The probe selects   *)
(* the probe rows whose key is in range and whose slot is occupied.       *)
(*                                                                         *)
(* The build side is a sequence of keys in hash-table order (the order    *)
(* FillWithHTOffsets visits the rows); a build row is its index.  The     *)
(* planner's statistics bound every build key (BuildKeys).                *)
(***************************************************************************)
EXTENDS Integers, FiniteSets, Sequences, FiniteSetsExt, Functions, TLC

CONSTANTS
  BuildMin, BuildMax,  \* perfect_join_statistics.build_min / build_max
  IsBuildSmall,        \* perfect_join_statistics.is_build_small
  ProbeValues,         \* probe key values, in range or not
  MaxRows,             \* longest build and probe side
  NULL                 \* a NULL key

ASSUME /\ BuildMin \in Int /\ BuildMax \in Int /\ BuildMin <= BuildMax
       /\ IsBuildSmall \in BOOLEAN
       /\ MaxRows \in Nat

\* perfect_join_statistics.build_range
BuildRange == BuildMax - BuildMin
\* the slots of the perfect table, 0..build_range
Slots == 0..BuildRange
\* the keys the statistics admit on the build side
BuildKeys == BuildMin..BuildMax

\* the sequences of length at most n over S
SeqsUpTo(S, n) == UNION {[1..k -> S] : k \in 0..n}

\* CanDoPerfectHashJoin
CanDoPerfectHashJoin == IsBuildSmall

\* mutation: the slot index taken one past key - build_min
SlotOfOffByOne(k) == k - BuildMin + 1

\* the slot of key k: (idx_t)(input_value - min_value)
SlotOf(k) == k - BuildMin

\* mutation: a claimed slot not checked, the later row overwrites it
RECURSIVE FillSelectionVectorBuildOverwrite(_, _, _, _)
FillSelectionVectorBuildOverwrite(keys, i, bitmap, sel) ==
  IF i > Len(keys)
  THEN [success |-> TRUE, bitmap |-> bitmap, sel |-> sel]
  ELSE IF keys[i] \in BuildKeys
       THEN FillSelectionVectorBuildOverwrite(keys, i + 1, bitmap \cup {SlotOf(keys[i])},
                                              (SlotOf(keys[i]) :> i) @@ sel)
       ELSE FillSelectionVectorBuildOverwrite(keys, i + 1, bitmap, sel)

\* TemplatedFillSelectionVectorBuild: visit the build keys in order; a key
\* in range claims its slot in bitmap_build_idx and records its row in the
\* selection vector; a claimed slot makes the build fail.  Returns the
\* result, the claimed slots and slot -> build row.
RECURSIVE FillSelectionVectorBuild(_, _, _, _)
FillSelectionVectorBuild(keys, i, bitmap, sel) ==
  IF i > Len(keys)
  THEN [success |-> TRUE, bitmap |-> bitmap, sel |-> sel]
  ELSE IF keys[i] \in BuildKeys /\ SlotOf(keys[i]) \in bitmap
       THEN [success |-> FALSE, bitmap |-> bitmap, sel |-> sel]
       ELSE IF keys[i] \in BuildKeys
            THEN FillSelectionVectorBuild(keys, i + 1, bitmap \cup {SlotOf(keys[i])},
                                          sel @@ (SlotOf(keys[i]) :> i))
            ELSE FillSelectionVectorBuild(keys, i + 1, bitmap, sel)

\* BuildPerfectHashTable / FullScanHashTable: the fill, and is_build_dense
\* when every slot is claimed and no NULL key was seen
BuildPerfectHashTable(keys, hasNull) ==
  LET r == FillSelectionVectorBuild(keys, 1, {}, <<>>)
  IN [success |-> r.success, bitmap |-> r.bitmap, sel |-> r.sel,
      dense |-> r.success /\ Cardinality(r.bitmap) = BuildRange + 1 /\ ~hasNull]

\* TemplatedFillSelectionVectorProbe and ProbePerfectHashTable: the pairs
\* <<probe row, build row>> of the probe rows with a valid key whose slot is
\* occupied; the dense fast path (result.Reference) yields the same pairs.
ProbePerfectHashTable(table, probe) ==
  LET Selected(i) == /\ probe[i] # NULL
                     /\ probe[i] \in BuildKeys
                     /\ SlotOf(probe[i]) \in table.bitmap
  IN {<<i, table.sel[SlotOf(probe[i])]>> : i \in {j \in DOMAIN probe : Selected(j)}}

\* the regular hash join that Finalize falls back to (ScheduleFinalize and
\* JoinHashTable::Probe): every pair of rows with equal non-NULL keys
HashedProbe(keys, probe) ==
  {<<i, b>> \in (DOMAIN probe) \X (DOMAIN keys) : probe[i] # NULL /\ probe[i] = keys[b]}

VARIABLES
  keys,        \* the build keys, in hash-table order
  hasNull,     \* ht.has_null
  probe,       \* the probe chunk's keys
  phase,       \* "sink", "finalized", "probed"
  perfect,     \* the built perfect table, or NULL
  out          \* the probe result: pairs <<probe row, build row>>

vars == << keys, hasNull, probe, phase, perfect, out >>

Init ==
  /\ keys \in SeqsUpTo(BuildKeys, MaxRows)
  /\ hasNull \in BOOLEAN
  /\ probe \in SeqsUpTo(ProbeValues \cup {NULL}, MaxRows)
  /\ phase = "sink"
  /\ perfect = NULL
  /\ out = {}

\* mutation: the build result ignored, the perfect table kept after a failure
UsePerfectHashUnchecked(table) == CanDoPerfectHashJoin

\* Finalize: use_perfect_hash stays set only if the build succeeded
UsePerfectHash(table) == CanDoPerfectHashJoin /\ table.success

\* PhysicalHashJoin::Finalize, in-memory path: try the perfect table, and
\* reset the executor (perfect_join_executor.reset()) when it fails
Finalize ==
  /\ phase = "sink"
  /\ LET table == BuildPerfectHashTable(keys, hasNull)
     IN perfect' = IF UsePerfectHash(table) THEN table ELSE NULL
  /\ phase' = "finalized"
  /\ UNCHANGED << keys, hasNull, probe, out >>

\* ExecuteInternal: the perfect executor if it survived Finalize, else the
\* pointer table
ExecuteInternal ==
  /\ phase = "finalized"
  /\ out' = IF perfect # NULL THEN ProbePerfectHashTable(perfect, probe)
                              ELSE HashedProbe(keys, probe)
  /\ phase' = "probed"
  /\ UNCHANGED << keys, hasNull, probe, perfect >>

\* the probe pipeline has finished
Done == phase = "probed" /\ UNCHANGED vars

Next == Finalize \/ ExecuteInternal \/ Done

Spec == Init /\ [][Next]_vars /\ WF_vars(Finalize \/ ExecuteInternal)

-----------------------------------------------------------------------------
(* Properties                                                              *)

TypeOK ==
  /\ keys \in SeqsUpTo(BuildKeys, MaxRows)
  /\ probe \in SeqsUpTo(ProbeValues \cup {NULL}, MaxRows)
  /\ phase \in {"sink", "finalized", "probed"}
  /\ perfect = NULL \/ (perfect.bitmap \subseteq Slots /\ DOMAIN perfect.sel = perfect.bitmap)
  /\ out \subseteq ((DOMAIN probe) \X (DOMAIN keys))

\* Whenever Finalize keeps the perfect table, every build row is reachable
\* through the slot of its key (the perfect analogue of pointer-table
\* completeness): a duplicate key that overwrote a slot instead of failing
\* the build (TemplatedFillSelectionVectorBuild) would lose a row.
PerfectTableComplete ==
  perfect # NULL =>
    \A b \in DOMAIN keys : perfect.sel[SlotOf(keys[b])] = b

\* Path equivalence: the probe result is the inner join of the probe and
\* build rows whichever path Finalize chose (perfect table or fallback),
\* including NULL and out-of-range probe keys.
JoinMatchesReference ==
  phase = "probed" => out = HashedProbe(keys, probe)
=============================================================================
