--------------------------- MODULE HashJoinSource ---------------------------
(***************************************************************************)
(* PhysicalHashJoin after its Finalize: the streaming probe operator     *)
(* (ExecuteInternal) and the source pipeline (GetData).  In memory, the   *)
(* source only scans the unmatched rows of a right outer join.  Out of    *)
(* core (sink.external), the probe spills the rows of later rounds and    *)
(* the source's worker threads cooperate through the stage machine of    *)
(* HashJoinGlobalSourceState:                                              *)
(*                                                                         *)
(*   INIT -> PROBE -> [SCAN_HT] -> BUILD -> PROBE -> ... -> DONE           *)
(*                                                                         *)
(* Build rows are hashed into radix partitions; the hash table holds one   *)
(* round, a range [pStart, pEnd) of partitions, at a time.  Probe rows of  *)
(* the active round are joined by the probe operator, the others are      *)
(* spilled and replayed round by round by the source workers.             *)
(*                                                                         *)
(* Abstractions: a block of the block collection holds one build row; a   *)
(* probe-spill chunk holds one probe row; a key is an integer and its      *)
(* hash only selects its radix partition (KeyPartition).                  *)
(***************************************************************************)
EXTENDS Integers, FiniteSets, Sequences, Bags, FiniteSetsExt, SequencesExt, JoinHashTable

CONSTANTS
  Workers,          \* source worker threads calling GetData
  BuildInputs,      \* possible build sides: sequences of build-row join keys
  ProbeKey,         \* ProbeKey[p]: join key of probe row p
  VectorSize,       \* STANDARD_VECTOR_SIZE: max entries one outer scan finds
  NULL              \* the NULL side of an outer-join output tuple

JoinTypes == {"INNER", "LEFT", "RIGHT", "FULL"}

ASSUME /\ Workers /= {}
       /\ NumPartitions \in Nat \ {0}
       /\ TuplesPerRound \in Nat \ {0}
       /\ VectorSize \in Nat \ {0}

ProbeIds == DOMAIN ProbeKey
Partitions == 0..(NumPartitions - 1)

Stages == {"INIT", "BUILD", "PROBE", "SCAN_HT", "DONE"}

VARIABLES
  buildKey,       \* buildKey[b]: join key of build row b (the sunk build side)
  pending,        \* probe rows the probe pipeline has not pushed yet
  spill,          \* probe rows appended to the probe spill
  stage,          \* global_stage
  pStart, pEnd,   \* the HT's active round of partitions [partition_start, partition_end)
  table,          \* build rows inserted into the pointer table
  matched,        \* build rows whose "found match" flag is set
  buildIdx, buildCount, buildDone, blocksPerThread,
  consumer,       \* NULL, or the spilled rows of the round not yet assigned
  probeCount, probeDone,
  scanIndex, scanned, total,   \* full_outer_scan
  out,            \* bag of output tuples <<probe row, build row>>
  lstage,         \* local_stage of each worker
  building,       \* the block range a worker claimed and has not finalized, or NULL
  probing,        \* the probe row of a worker's live scan_structure, or NULL
  remaining,      \* the matches that scan_structure has not emitted yet
  inProgress,     \* full_outer_in_progress of each worker
  foundEntries,   \* the unmatched rows a worker's last ScanFullOuter found, not gathered yet
  joinType,       \* join_type of the operator
  external,       \* sink.external: whether the sink went out of core
  finished        \* workers whose in-memory GetData returned an empty chunk

vars == << buildKey, pending, spill, stage, pStart, pEnd, table, matched, buildIdx,
           buildCount, buildDone, blocksPerThread, consumer, probeCount,
           probeDone, scanIndex, scanned, total, out, lstage, building,
           probing, inProgress, foundEntries, remaining, joinType, external, finished >>

BuildIds == DOMAIN buildKey

\* IsRightOuterJoin(join_type)
IsRightOuterJoin == joinType \in {"RIGHT", "FULL"}
\* PhysicalJoin::EmptyResultIfRHSIsEmpty
EmptyResultIfRHSIsEmpty == joinType \in {"INNER", "RIGHT"}
\* the probe side is NULL-extended by LEFT and FULL joins
IsLeftOuterJoin == joinType \in {"LEFT", "FULL"}

-----------------------------------------------------------------------------
(* The hash table (JoinHashTable, outside src/; from spec section 4.1).    *)

\* JoinHashTable::Count()
Count == Len(RoundRows(buildKey, pStart, pEnd))

\* rows of the pointer table that a probe row's key reaches
Lookup(p) == {b \in table : buildKey[b] = ProbeKey[p]}

\* the first VectorSize of a set of build rows, in block order
FirstBatch(S) == {b \in S : Cardinality({c \in S : c < b}) < VectorSize}

\* emit the matches S of probe row p, setting their matched flags
EmitMatches(p, S) ==
  /\ out' = out (+) SetToBag({<<p, b>> : b \in S})
  /\ matched' = matched \cup S

\* the probe row NULL-extended when a left outer join finds no match
LeftOuterRow(p) ==
  IF IsLeftOuterJoin /\ Lookup(p) = {} THEN {<<p, NULL>>} ELSE {}

\* ScanFullOuter: scan from scanIndex until VectorSize unmatched rows are
\* found or the collection ends; returns the number of rows scanned.
RECURSIVE ScanLength(_, _)
ScanLength(i, found) ==
  LET rows == RoundRows(buildKey, pStart, pEnd) IN
  IF i = Len(rows) THEN i - scanIndex
  ELSE IF rows[i + 1] \notin matched /\ found + 1 = VectorSize
       THEN i + 1 - scanIndex
       ELSE ScanLength(i + 1, IF rows[i + 1] \notin matched THEN found + 1 ELSE found)

-----------------------------------------------------------------------------
(* The probe operator: PhysicalHashJoin::ExecuteInternal.  On the         *)
(* in-memory path the table holds every partition, so Probe is           *)
(* ProbeAndSpill with nothing to spill.                                   *)
(* The probe pipeline pushes its rows in any order.  The calls of Next on *)
(* the operator's scan_structure are one step: the source waits for the   *)
(* whole probe pipeline.                                                  *)

ExecuteInternal(p) ==
  /\ p \in pending
  /\ stage = "INIT"
  /\ \/ /\ Count = 0 /\ EmptyResultIfRHSIsEmpty
        \* FINISHED: the probe pipeline stops pushing input
        /\ pending' = {}
        /\ UNCHANGED << spill, out, matched >>
     \/ /\ Count = 0 /\ ~EmptyResultIfRHSIsEmpty
        \* ConstructEmptyJoinResult
        /\ pending' = pending \ {p}
        /\ out' = out (+) SetToBag(IF IsLeftOuterJoin THEN {<<p, NULL>>} ELSE {})
        /\ UNCHANGED << spill, matched >>
     \/ /\ Count # 0
        /\ pending' = pending \ {p}
        \* ProbeAndSpill: probe the active round, spill the other rows
        /\ IF InRound(ProbeKey[p], pStart, pEnd)
           THEN /\ out' = out (+) SetToBag({<<p, b>> : b \in Lookup(p)} \cup LeftOuterRow(p))
                /\ matched' = matched \cup Lookup(p)
                /\ UNCHANGED spill
           ELSE spill' = spill \cup {p} /\ UNCHANGED << out, matched >>
  /\ UNCHANGED << buildKey, stage, pStart, pEnd, table, buildIdx, buildCount,
                  buildDone, blocksPerThread, consumer, probeCount, probeDone,
                  scanIndex, scanned, total, lstage, building, probing,
                  inProgress, foundEntries, remaining, joinType, external, finished >>

-----------------------------------------------------------------------------
(* The source: HashJoinGlobalSourceState and HashJoinLocalSourceState.    *)
(* Each action is one step of a worker's GetData loop; a step ends where  *)
(* the worker releases the source lock or calls into the hash table.      *)

\* the variables a worker's own step leaves to the other workers
Others == << buildKey, pending, spill, pStart, pEnd, joinType, external >>

\* HashJoinLocalSourceState::TaskFinished
TaskFinished(w) ==
  CASE lstage[w] \in {"INIT", "BUILD"} -> TRUE
    [] lstage[w] = "PROBE"             -> probing[w] = NULL
    [] lstage[w] = "SCAN_HT"           -> inProgress[w] = 0

\* whether HashJoinGlobalSourceState::AssignTask has work to hand out
CanAssign ==
  \/ stage = "BUILD" /\ buildIdx # buildCount
  \/ stage = "PROBE" /\ consumer # NULL /\ consumer # {}
  \/ stage = "SCAN_HT" /\ scanIndex # total

\* mutation: the MaxValue(.., 1) clamp dropped
BlocksPerThreadUnclamped(n) ==
  (n + Cardinality(Workers) - 1) \div Cardinality(Workers)

\* build_blocks_per_thread for a collection of n blocks
BlocksPerThread(n) ==
  Max({(n + Cardinality(Workers) - 1) \div Cardinality(Workers), 1})

\* GetData's first step: HashJoinGlobalSourceState::Initialize, once
Initialize(w) ==
  /\ external
  /\ pending = {}
  /\ stage = "INIT"
  /\ total' = Count
  /\ blocksPerThread' = BlocksPerThread(Count)
  /\ stage' = "PROBE"
  /\ UNCHANGED << Others, table, matched, buildIdx, buildCount, buildDone,
                  consumer, probeCount, probeDone, scanIndex, scanned, out,
                  lstage, building, probing, inProgress, foundEntries, remaining >>

\* AssignTask in BUILD: claim the next range of blocks
AssignBuild(w) ==
  /\ stage = "BUILD"
  /\ TaskFinished(w)
  /\ buildIdx # buildCount
  /\ LET end == Min({buildCount, buildIdx + blocksPerThread})
     IN /\ building' = [building EXCEPT ![w] = <<buildIdx, end>>]
        /\ buildIdx' = end
  /\ lstage' = [lstage EXCEPT ![w] = "BUILD"]
  /\ UNCHANGED << Others, stage, table, matched, buildCount, buildDone,
                  blocksPerThread, consumer, probeCount, probeDone, scanIndex,
                  scanned, total, out, probing, inProgress, foundEntries, remaining >>

\* ExternalBuild: Finalize the claimed blocks into the pointer table, then
\* count them done under the source lock
ExternalBuild(w) ==
  /\ building[w] # NULL
  /\ LET start == building[w][1]
         end   == building[w][2]
     IN /\ table' = table \cup {RoundRows(buildKey, pStart, pEnd)[i + 1] : i \in start..(end - 1)}
        /\ buildDone' = buildDone + (end - start)
  /\ building' = [building EXCEPT ![w] = NULL]
  /\ UNCHANGED << Others, stage, matched, buildIdx, buildCount,
                  blocksPerThread, consumer, probeCount, probeDone, scanIndex,
                  scanned, total, out, lstage, probing, inProgress, foundEntries, remaining >>

\* AssignTask in PROBE (AssignChunk), then ExternalProbe's first call:
\* ScanChunk, Probe with the precomputed hash and a first Next
AssignProbe(w) ==
  /\ stage = "PROBE"
  /\ TaskFinished(w)
  /\ consumer # NULL /\ consumer # {}
  /\ LET p == Min(consumer)
     IN /\ consumer' = consumer \ {p}
        /\ probing' = [probing EXCEPT ![w] = p]
        /\ remaining' = [remaining EXCEPT ![w] = Lookup(p) \ FirstBatch(Lookup(p))]
        /\ out' = out (+) SetToBag({<<p, b>> : b \in FirstBatch(Lookup(p))} \cup LeftOuterRow(p))
        /\ matched' = matched \cup FirstBatch(Lookup(p))
  /\ lstage' = [lstage EXCEPT ![w] = "PROBE"]
  /\ UNCHANGED << Others, stage, table, buildIdx, buildCount, buildDone,
                  blocksPerThread, probeCount, probeDone, scanIndex, scanned,
                  total, building, inProgress, foundEntries >>

\* ExternalProbe with a live scan_structure: Next yields the next batch
ContinueProbe(w) ==
  /\ stage # "DONE"
  /\ lstage[w] = "PROBE"
  /\ probing[w] # NULL
  /\ remaining[w] # {}
  /\ EmitMatches(probing[w], FirstBatch(remaining[w]))
  /\ remaining' = [remaining EXCEPT ![w] = remaining[w] \ FirstBatch(remaining[w])]
  /\ UNCHANGED << Others, stage, table, buildIdx, buildCount, buildDone,
                  blocksPerThread, consumer, probeCount, probeDone, scanIndex,
                  scanned, total, lstage, building, probing, inProgress, foundEntries >>

\* ExternalProbe with a live scan_structure whose Next yields no rows:
\* FinishChunk and count the chunk done under the source lock
FinishProbe(w) ==
  /\ stage # "DONE"
  /\ lstage[w] = "PROBE"
  /\ probing[w] # NULL
  /\ remaining[w] = {}
  /\ probing' = [probing EXCEPT ![w] = NULL]
  /\ probeDone' = probeDone + 1
  /\ UNCHANGED << Others, stage, table, matched, buildIdx, buildCount,
                  buildDone, blocksPerThread, consumer, probeCount, scanIndex,
                  scanned, total, out, lstage, building, inProgress, foundEntries, remaining >>

\* AssignTask in SCAN_HT: ScanFullOuter, under the lock, advances the scan
\* and records the rows scanned (full_outer_in_progress) and the unmatched
\* rows found (full_outer_found_entries)
AssignScan(w) ==
  /\ stage = "SCAN_HT"
  /\ TaskFinished(w)
  /\ scanIndex # total
  /\ LET n == ScanLength(scanIndex, 0)
     IN /\ scanIndex' = scanIndex + n
        /\ inProgress' = [inProgress EXCEPT ![w] = n]
        /\ foundEntries' = [foundEntries EXCEPT ![w] =
              {RoundRows(buildKey, pStart, pEnd)[i] : i \in (scanIndex + 1)..(scanIndex + n)} \ matched]
  /\ lstage' = [lstage EXCEPT ![w] = "SCAN_HT"]
  /\ UNCHANGED << Others, stage, table, matched, buildIdx, buildCount,
                  buildDone, blocksPerThread, consumer, probeCount, probeDone,
                  scanned, total, out, building, probing, remaining >>

\* ExternalScanHT after a scan that found rows: GatherFullOuter, outside
\* the lock, emits them NULL-extended
GatherFullOuter(w) ==
  /\ stage # "DONE"
  /\ lstage[w] = "SCAN_HT"
  /\ foundEntries[w] # {}
  /\ out' = out (+) SetToBag({<<NULL, b>> : b \in foundEntries[w]})
  /\ foundEntries' = [foundEntries EXCEPT ![w] = {}]
  /\ UNCHANGED << Others, stage, table, matched, buildIdx, buildCount,
                  buildDone, blocksPerThread, consumer, probeCount, probeDone,
                  scanIndex, scanned, total, lstage, building, probing,
                  inProgress, remaining >>

\* mutation: the scan counted done before its rows are gathered
FinishScanBeforeGather(w) ==
  /\ stage # "DONE"
  /\ lstage[w] = "SCAN_HT"
  /\ inProgress[w] # 0
  /\ scanned' = scanned + inProgress[w]
  /\ inProgress' = [inProgress EXCEPT ![w] = 0]
  /\ UNCHANGED << Others, stage, table, matched, buildIdx, buildCount,
                  buildDone, blocksPerThread, consumer, probeCount, probeDone,
                  scanIndex, total, out, lstage, building, probing, remaining,
                  foundEntries >>

\* ExternalScanHT once nothing is left to gather: count the scanned rows
\* done under the lock
FinishScan(w) ==
  /\ stage # "DONE"
  /\ lstage[w] = "SCAN_HT"
  /\ inProgress[w] # 0
  /\ foundEntries[w] = {}
  /\ scanned' = scanned + inProgress[w]
  /\ inProgress' = [inProgress EXCEPT ![w] = 0]
  /\ UNCHANGED << Others, stage, table, matched, buildIdx, buildCount,
                  buildDone, blocksPerThread, consumer, probeCount, probeDone,
                  scanIndex, total, out, lstage, building, probing, remaining,
                  foundEntries >>

\* PrepareBuild: load the next round (PrepareExternalFinalize, which
\* Resets the finalized HT) and an empty pointer table, or finish
PrepareBuild ==
  IF pEnd = NumPartitions
  THEN /\ stage' = "DONE"
       /\ UNCHANGED << pStart, pEnd, table, buildIdx, buildCount, buildDone >>
  ELSE /\ pStart' = pEnd
       /\ pEnd' = RoundEndFrom(buildKey, pEnd, 0)
       /\ table' = {}
       /\ buildIdx' = 0
       /\ buildCount' = Len(RoundRows(buildKey, pEnd, RoundEndFrom(buildKey, pEnd, 0)))
       /\ buildDone' = 0
       /\ stage' = "BUILD"

\* full_outer_scan.Reset() and its total set to the round's Count()
ResetFullOuterScan ==
  scanIndex' = 0 /\ scanned' = 0 /\ total' = Count

\* PrepareProbe: PrepareNextProbe hands the round's spilled rows to a new
\* consumer; a right outer join resets the full outer scan
PrepareProbe ==
  LET rows == {p \in spill : InRound(ProbeKey[p], pStart, pEnd)}
  IN /\ consumer' = rows
     /\ probeCount' = Cardinality(rows)
     /\ probeDone' = 0
     /\ IF IsRightOuterJoin
        THEN ResetFullOuterScan
        ELSE UNCHANGED << scanIndex, scanned, total >>
     /\ stage' = "PROBE"

\* the BUILD stage is complete
BuildComplete == buildDone = buildCount

\* the PROBE stage is complete
ProbeComplete == probeDone = probeCount

\* no task to assign: TryPrepareNextStage, under the source lock
TryPrepareNextStage(w) ==
  /\ pending = {}
  /\ stage \notin {"INIT", "DONE"}
  /\ TaskFinished(w)
  /\ ~CanAssign
  /\ \/ /\ stage = "BUILD" /\ BuildComplete
        /\ PrepareProbe
        /\ UNCHANGED << pStart, pEnd, table, buildIdx, buildCount, buildDone >>
     \/ /\ stage = "PROBE" /\ ProbeComplete /\ IsRightOuterJoin
        /\ stage' = "SCAN_HT"
        /\ UNCHANGED << pStart, pEnd, table, buildIdx, buildCount, buildDone,
                        consumer, probeCount, probeDone, scanIndex, scanned, total >>
     \/ /\ stage = "PROBE" /\ ProbeComplete /\ ~IsRightOuterJoin
        /\ PrepareBuild
        /\ UNCHANGED << consumer, probeCount, probeDone, scanIndex, scanned, total >>
     \/ /\ stage = "SCAN_HT" /\ scanned = total
        /\ PrepareBuild
        /\ UNCHANGED << consumer, probeCount, probeDone, scanIndex, scanned, total >>
     \/ /\ ~(stage = "BUILD" /\ BuildComplete)
        /\ ~(stage = "PROBE" /\ ProbeComplete)
        /\ ~(stage = "SCAN_HT" /\ scanned = total)
        \* the stage is not finished yet: the worker spins in GetData
        /\ UNCHANGED << stage, pStart, pEnd, table, buildIdx, buildCount, buildDone,
                        consumer, probeCount, probeDone, scanIndex, scanned, total >>
  /\ UNCHANGED << buildKey, pending, spill, matched, blocksPerThread, out,
                  lstage, building, probing, inProgress, foundEntries, remaining, joinType, external >>

\* GetData on the in-memory path: a right outer join scans the next
\* unmatched rows under the source lock and gathers them; a chunk with no
\* rows, and every call of any other join, ends the worker's source
InMemoryGetData(w) ==
  /\ ~external
  /\ pending = {}
  /\ w \notin finished
  /\ IF IsRightOuterJoin
     THEN LET n     == ScanLength(scanIndex, 0)
              found == {RoundRows(buildKey, pStart, pEnd)[i] : i \in (scanIndex + 1)..(scanIndex + n)} \ matched
          IN /\ scanIndex' = scanIndex + n
             /\ out' = out (+) SetToBag({<<NULL, b>> : b \in found})
             /\ finished' = IF found = {} THEN finished \cup {w} ELSE finished
     ELSE /\ finished' = finished \cup {w}
          /\ UNCHANGED << scanIndex, out >>
  /\ UNCHANGED << Others, stage, table, matched, buildIdx, buildCount,
                  buildDone, blocksPerThread, consumer, probeCount, probeDone,
                  scanned, total, lstage, building, probing, inProgress, foundEntries, remaining >>

\* the source pipeline has finished: the external stage machine is DONE,
\* or every worker's in-memory GetData has returned an empty chunk
SourceFinished == stage = "DONE" \/ (~external /\ finished = Workers)

\* every worker has left its GetData loop
Terminated ==
  /\ SourceFinished
  /\ UNCHANGED vars

-----------------------------------------------------------------------------
(* State after Finalize: on the external path the partition event has     *)
(* loaded the first round and built its pointer table; on the in-memory  *)
(* path the pointer table holds every partition.                          *)

Init ==
  /\ buildKey \in BuildInputs
  /\ joinType \in JoinTypes
  /\ external \in BOOLEAN
  /\ pending = ProbeIds
  /\ spill = {}
  /\ stage = "INIT"
  /\ pStart = 0
  /\ pEnd = IF external THEN RoundEndFrom(buildKey, 0, 0) ELSE NumPartitions
  /\ table = Range(RoundRows(buildKey, 0, pEnd))
  /\ matched = {}
  /\ buildIdx = 0 /\ buildCount = 0 /\ buildDone = 0 /\ blocksPerThread = 0
  /\ consumer = NULL
  /\ probeCount = 0 /\ probeDone = 0
  /\ scanIndex = 0 /\ scanned = 0 /\ total = 0
  /\ out = EmptyBag
  /\ lstage = [w \in Workers |-> "INIT"]
  /\ building = [w \in Workers |-> NULL]
  /\ probing = [w \in Workers |-> NULL]
  /\ inProgress = [w \in Workers |-> 0]
  /\ foundEntries = [w \in Workers |-> {}]
  /\ remaining = [w \in Workers |-> {}]
  /\ finished = {}

WorkerStep(w) ==
  \/ InMemoryGetData(w)
  \/ /\ \/ ExternalBuild(w)
        \/ /\ building[w] = NULL
           /\ \/ Initialize(w)
              \/ AssignBuild(w)
              \/ AssignProbe(w)
              \/ ContinueProbe(w)
              \/ FinishProbe(w)
              \/ AssignScan(w)
              \/ GatherFullOuter(w)
              \/ FinishScan(w)
              \/ TryPrepareNextStage(w)
     /\ UNCHANGED finished

Next ==
  \/ \E p \in ProbeIds : ExecuteInternal(p)
  \/ \E w \in Workers : WorkerStep(w)
  \/ Terminated

\* The pipeline executor keeps every probe thread and every source worker
\* thread running until its pipeline finishes.
Fairness ==
  /\ WF_vars(\E p \in ProbeIds : ExecuteInternal(p))
  /\ \A w \in Workers : WF_vars(WorkerStep(w))

Spec == Init /\ [][Next]_vars /\ Fairness

-----------------------------------------------------------------------------
(* Properties                                                              *)

\* The reference result of the join of the probe and build rows.
Matches == {<<p, b>> \in ProbeIds \X BuildIds : ProbeKey[p] = buildKey[b]}
JoinResult ==
  Matches
  \cup {<<p, NULL>> : p \in {q \in ProbeIds : IsLeftOuterJoin
                              /\ \A b \in BuildIds : ProbeKey[q] # buildKey[b]}}
  \cup {<<NULL, b>> : b \in {c \in BuildIds : IsRightOuterJoin
                              /\ \A p \in ProbeIds : ProbeKey[p] # buildKey[c]}}

TypeOK ==
  /\ buildKey \in BuildInputs
  /\ pending \subseteq ProbeIds
  /\ spill \subseteq ProbeIds
  /\ stage \in Stages
  /\ 0 <= pStart /\ pStart <= pEnd /\ pEnd <= NumPartitions
  /\ table \subseteq BuildIds /\ matched \subseteq BuildIds
  /\ {buildIdx, buildCount, buildDone, blocksPerThread, probeCount, probeDone,
      scanIndex, scanned, total} \subseteq Nat
  /\ stage # "INIT" => blocksPerThread \in Nat \ {0}
  /\ consumer = NULL \/ consumer \subseteq ProbeIds
  /\ IsABag(out)
  /\ lstage \in [Workers -> Stages \ {"DONE"}]
  /\ building \in [Workers -> (Nat \X Nat) \cup {NULL}]
  /\ probing \in [Workers -> ProbeIds \cup {NULL}]
  /\ inProgress \in [Workers -> Nat]
  /\ foundEntries \in [Workers -> SUBSET BuildIds]
  /\ remaining \in [Workers -> SUBSET BuildIds]
  /\ joinType \in JoinTypes
  /\ external \in BOOLEAN
  /\ finished \subseteq Workers

\* the promise of the join operator, with the source's output and DONE
Join == INSTANCE JoinOutput WITH result <- JoinResult, out <- out, done <- SourceFinished

\* The join, in memory or out of core, implements JoinOutput
\* (ScanStructure::Next, ScanFullOuter and the stage transitions of
\* TryPrepareNextStage refine Emit and Finish):
\* every batch a worker emits holds only tuples of the join result not
\* emitted before -- an outer scan never emits a build row a probe of its
\* round has matched or will match -- the source finishes only once all
\* tuples were emitted, and it does finish.
JoinRefinement == Join!Spec
=============================================================================
