# TLA+ models of the ratchet hash join

This directory holds TLA+ models of `PhysicalHashJoin`, the parallel hash-join
operator of ratchet, together with its suspend/resume checkpointing. The models
are checked with TLC.

## The system

The operator lives in `src/src/execution/operator/join/physical_hash_join.cpp`.
The perfect-hash fast path is in `perfect_hash_join_executor.cpp`, and the
process-wide checkpoint flags are in `src/src/common/constants.cpp`.

* **Sink** (`Sink`, `Combine`). Each build-pipeline thread fills its own
  `JoinHashTable`. Under memory pressure it swizzles its blocks and sets
  `gstate.external`. When a suspension deadline has passed on the external
  path, it writes its current chunk to a `part-N.ratchet` file.
* **Finalize** (`Finalize`). Runs once, after all sinks. It either resumes from
  checkpoint files, suspends (in-memory path: it serialises the perfect table
  and exits), or runs the regular path.
  * The in-memory regular path merges the local tables. It then tries the
    perfect hash table and otherwise schedules `HashJoinFinalizeTask`s that
    build the pointer table.
  * The external path schedules `HashJoinPartitionTask`s that radix-partition
    the local tables, and loads the first round of partitions.
* **Probe operator** (`ExecuteInternal`). Probe-pipeline threads push probe
  chunks. In memory every row is probed. On the external path, rows whose
  partition is in the loaded round are joined; the others are appended to the
  probe spill.
* **Source** (`GetData`). After the probe pipeline, source worker threads run.
  In memory, a RIGHT/FULL join's workers scan the unmatched build rows under
  the source lock, and each worker stops at its first empty chunk. On the
  external path they drive a stage machine under the source lock:
  INIT → PROBE → [SCAN_HT] → BUILD → PROBE → … → DONE.
  * BUILD finalizes the next round's blocks into the pointer table.
  * PROBE replays that round's spilled probe chunks.
  * SCAN_HT (RIGHT/FULL joins only) emits the build rows no probe matched.
  * A stage ends when its completion counter reaches its count.

## Modules

| Module | Models | Source |
|---|---|---|
| `JoinOutput` | the abstract promise of the join operator: batches of fresh tuples of the join result, then the end | spec 8 |
| `PointerTable` | the abstract promise of building a pointer table: a block collection is loaded, its rows enter one at a time and never leave, and the table is finalized once it holds them all | spec 4.1, 4.3 |
| `JoinHashTable` | the radix partitioning of the hash table into rounds (`PrepareExternalFinalize`), shared by the two modules below | spec 4.1 (not under `src/`) |
| `HashJoinSource` | the probe operator and the source, in memory and with the external stage machine | physical_hash_join.cpp 778-845, 850-1221 |
| `HashJoinFinalize` | the regular path of `Finalize`, `ScheduleFinalize`, the finalize and partition events and their tasks, and the pointer-table push of several threads | physical_hash_join.cpp 62-72, 336-476, 697-733 |
| `PerfectHashJoin` | the perfect hash join: build, probe and Finalize's fallback to the pointer table | perfect_hash_join_executor.cpp, physical_hash_join.cpp 717-729 |
| `Checkpoint` | Sink and Combine with the external suspension, Finalize's suspend and resume branches, the process restart | physical_hash_join.cpp 62-72, 198-331, 478-695; perfect_hash_join_executor.cpp (SerializePerfectHashTable); constants.cpp |
| `MC*` | the constants each run instantiates the module with | |

How the modules fit together: `Checkpoint` ends where a process has its build
side (`phase = "finalized"`). `HashJoinFinalize` takes a sunk build side to a
finalized pointer table: in memory, all rows; external, the first round that
`JoinHashTable` defines. `HashJoinSource` starts from exactly that state: its
`Init` holds the first round in the pointer table (external) or every row
(in memory). `PerfectHashJoin` is the
alternative to the pointer table that Finalize tries first; `HashJoinFinalize`
takes its outcome as an input, and `Checkpoint` instantiates it
(`PH == INSTANCE PerfectHashJoin`) to serialise the table.

### HashJoinSource

State:
* `stage` is `global_stage`.
* `buildIdx`, `buildCount`, `buildDone`, `blocksPerThread` are the build
  counters.
* `consumer`, `probeCount`, `probeDone` are the probe-spill consumer and the
  probe counters.
* `scanIndex`, `scanned`, `total` are `full_outer_scan`.
* The per-worker variables `lstage`, `building`, `probing`, `remaining` and
  `inProgress` are the `HashJoinLocalSourceState` fields `local_stage`, the
  claimed block range, the live `scan_structure` and `full_outer_in_progress`.
* `joinType` is the operator's `join_type` and `external` is `sink.external`.
  Both are inputs of `Init`. `finished` holds the
  workers whose in-memory `GetData` returned an empty chunk.
* `out` is the bag of emitted tuples `<<probe row, build row>>`. `NULL` stands
  for the NULL side of an outer tuple.

Abstractions:
* One block holds one build row, and one spill chunk holds one probe row.
* A key's hash only selects its radix partition (`KeyPartition`).

`InMemoryGetData(w)` is one in-memory `GetData` call: `ScanFullOuter` under the
lock and the gather of what it found, or, for other joins, an empty chunk.

On the external path each action is one step of a worker's `GetData` loop, ending where the code
releases the source lock or calls into the hash table:
* `Initialize`.
* `AssignBuild` and `ExternalBuild`. These are two steps because the code
  finalizes blocks outside the lock.
* `AssignProbe`, `ContinueProbe` and `FinishProbe`. These are the three calls
  of `ExternalProbe`, and `ScanStructure::Next` emits at most `VectorSize`
  matches per call.
* `AssignScan`, `GatherFullOuter` and `FinishScan`. `AssignScan` is
  `ScanFullOuter` under the lock (1178-1184): it advances the shared scan and
  records the rows scanned (`inProgress`, `full_outer_in_progress`) and the
  unmatched rows found (`foundEntries`, `full_outer_found_entries`).
  `ExternalScanHT` then either gathers those rows outside the lock
  (`GatherFullOuter`, 1165-1170) or, once nothing is left to gather, adds the
  scanned count to `scanned` under the lock (`FinishScan`, 1172-1176). The
  rows are thus counted done only after they were emitted.
* `TryPrepareNextStage`, with its four transitions. A fifth disjunct is the
  spin when no transition applies.

`ExecuteInternal(p)` is one push of a probe row: FINISHED,
ConstructEmptyJoinResult, or Probe (ProbeAndSpill on the external path).

The hash table (`JoinHashTable`) is not under `src/`. `Count`, the probe and
`ScanFullOuter` are modelled from spec section 4.1; the round grouping is the
`JoinHashTable` module.

`JoinRefinement` asserts `JoinOutput!Spec` under the mapping `result <- JoinResult`, `out <- out`, `done <- SourceFinished`, where `SourceFinished` is
`stage = "DONE"` or, in memory, every worker finished.
It is the refinement of the abstract join by the detailed stage machine:
* every step that emits tuples is an `Emit`;
* the step to DONE, or the last in-memory worker's empty chunk, is a `Finish`;
* every other step is a stutter.

### HashJoinFinalize

State:
* `external` is `sink.external`, fixed by the sink state's constructor
  (lines 62-72).
* `local` holds the rows of each local HT. `partPending` holds the local HTs
  whose partition task has not run. `partitioned` holds the rows already in the
  global HT's partitions.
* `blocks` is the global HT's block collection.
* `tasks`, `taskCount`, `doneTasks` and `finEvent` are the finalize event's
  unclaimed tasks, `total_tasks`, `finished_tasks` and its state.
* `running[t]` is the task thread `t` executes, with its block index and the
  head it read.
* `heads` and `nxt` are the pointer table's bucket heads and the rows' next
  slots. `htFinalized` is `hash_table->finalized`.

Actions:
* `Finalize` is the regular branch of `PhysicalHashJoin::Finalize`.
  * External: it inserts the partition event.
  * In memory: it merges the local HTs. Then, when the perfect table is not
    used, it calls `ScheduleFinalize`. Whether the perfect table is used is a
    nondeterministic input here; `PerfectHashJoin` decides it.
* `ExecutePartitionTask(l)` is one `HashJoinPartitionTask`. The task that
  finishes last also runs the event's `FinishEvent`:
  * it clears the local HTs;
  * `PrepareExternalFinalize` loads the first round;
  * it calls `ScheduleFinalize`.
* `ScheduleFinalize` is not an action but part of the action that calls it.
  * If the table is empty, it sets `finalized`.
  * Otherwise it initializes the pointer table and schedules the tasks of
    `HashJoinFinalizeEvent::Schedule` (`FinalizeTasks`). There are two cases:
    * a single serial task below `PARALLEL_CONSTRUCT_THRESHOLD` (1048576),
      unless `verify_parallelism` is set;
    * otherwise, contiguous block ranges of `max(ceil(n/threads), 1)` blocks
      (`Ranges`).
* `PickTask`, `ReadHead`, `WriteHead` and `FinishTask` are a thread executing
  a `HashJoinFinalizeTask`.
  * The push of each row (`JoinHashTable::InsertHashes`, spec 4.1) is two
    steps: read the head into the row's next slot, then write the row into the
    head.
  * In a parallel task the write is a compare-and-swap. When the head has
    moved, it loops back to the read.
  * The last `FinishTask` runs `FinishEvent` (`finalized = true`).
* `ProbeStart` is the event dependency that starts the probe pipeline once both
  events have finished.

Refinement: `PointerTableRefinement` asserts `PointerTable!Spec` under the
mapping `rows <- Range(blocks)`, `inserted <- TableRows` (the rows reachable
from some bucket head through the next slots) and
`finalized <- htFinalized`. So every step of the threads is one of these:
* a stutter (a read of a head, a failed compare-and-swap);
* the load of the block collection (`Finalize` in memory, or the partition
  event's `FinishEvent`);
* the atomic insert of one row, which is the successful write of the head;
* the finalization, once every row is in.

No interleaving of two threads' reads and writes ever removes a row that was
already pushed, even for a moment. `ProbeSeesCompleteTable` only looks at the
table when the probe starts.

### PerfectHashJoin

`FillSelectionVectorBuild` is `TemplatedFillSelectionVectorBuild`:
* A build key in `[build_min, build_max]` claims slot `key - build_min`.
* A second key in an already claimed slot fails the build.
* Keys out of range are skipped.

`BuildPerfectHashTable` adds `is_build_dense`. `ProbePerfectHashTable` selects
the probe rows whose key is valid, is in range and has an occupied slot.
`HashedProbe` is the join the fallback pointer table computes.

There are two actions:
* `Finalize` keeps the perfect table only if the build succeeded. Otherwise it
  calls `perfect_join_executor.reset()` and falls back.
* `ExecuteInternal` probes whichever table survived.

Build and probe sides are all key sequences up to `MaxRows`, with NULL keys
and out-of-range probe keys.

### Checkpoint

State:
* `proc` is the first or the resumed process.
* `phase` is the build pipeline's progress.
* `toSink`, `local`, `pc`, `combined` and `localHts` are the sink threads'
  chunks and tables.
* `external` is `sink.external`.
* `deadline` says whether the steady clock has passed
  `global_suspend_point_ms`.
* `suspendStart` is `global_suspend_start`.
* `pipelines` is `global_finalized_pipelines`. `RecordPipeline` is its
  `emplace_back` in Sink (242) and in Finalize (690).
* `partition` is `global_ht_partition`, kept modulo 2^16 as in the code.
* The constant `ProjectionMap` says whether the join has a right projection
  map. Without one, the part files hold no `build_chunk_i`.
* The constant `IOFaults` lets a checkpoint file operation fail.
  * A write's ofstream may fail to open, so no file is created, or a short
    write may leave a cut file (`WriteOutcomes`). `torn` holds the part files
    that were cut short.
  * The resume's `opendir` of the resume folder (579) may fail
    (`FolderOpens`, the `else` branch at 652-654).
  * The code only reports each failure on stderr.
* `folder` holds the part files, `sfile` the in-memory suspend file, and
  `buildSide` the rows a finalized hash table holds.

Actions:
* `Sink(w, c)` is one Sink call.
  * Past the deadline on the external path, it writes part-`partition`.
    `FinishPartitionWrite` then increments the counter, because the code
    increments it after the write.
  * Otherwise the chunk goes into the local table. `Swizzle` moves it to the
    external path when the table passes `SinkMemoryPerThread`.
* `Combine`, and `Tick` (the clock passing the deadline).
* In Finalize: `SuspendExternal` (exit), `SuspendInMemory` (merge, perfect
  build, `SerializePerfectHashTable`, exit) and `FinalizeRegular`.
* `Restart`, then `ResumeInMemory` or `ResumeExternal`. `ResumeExternal`
  rebuilds the part files `readdir` lists in the resume folder, or none when
  `opendir` fails. It throws only when a listed file is cut short or lacks a
  column.
* Uninitialized slots of the serialized perfect table are undefined values: a
  nondeterministic choice from `JunkRows`.

Modelling assumption for the resumed process: the host program (not under
`src/`) starts it at `global_resume_pipeline` and loads
`global_finalized_pipelines` from the manifest. The build pipeline's Sink
therefore sees no chunks again. The resume branch is chosen by the new
process's own `sink.external`, which before any Sink call is
`can_go_external && force_external` (line 72).

## Runs

| Run | Expect | Checks | Shows |
|---|---|---|---|
| `source` | pass | TypeOK, JoinRefinement | Every join type (INNER, LEFT, RIGHT, FULL) with 3 workers, in memory or external over two rounds, implements `JoinOutput` under the mapping `result <- JoinResult`, `done <- SourceFinished`: every batch holds only fresh tuples of the join (including the outer scans'), and the source finishes (the abstract `Finish` is weakly fair), with exactly the join: no stage is left while a worker still holds scanned rows it has not gathered. This also holds for an empty build side, where an INNER/RIGHT probe returns FINISHED. |
| `finalize_parallel` | pass | ProbeSeesCompleteTable, PointerTableRefinement, EventuallyProbe | Covers in-memory and external, with parallel finalize tasks. The probe starts only on a finalized pointer table whose chains hold exactly the round's rows, although three threads share the ranges and two of them push onto each bucket at once. Every step of the concurrent pushes is an atomic insert of `PointerTable`, so a pushed row never leaves a chain. The probe pipeline eventually starts, because a push that rereads the head finishes. |
| `perfect_path` | pass | TypeOK, PerfectTableComplete, JoinMatchesReference | For every build and probe side up to 3 rows, a kept perfect table reaches every build row, and the result equals the hashed join whichever path Finalize took. |
| `checkpoint_inmemory` | pass | ResumeRestoresBuildSide, EventuallyFinalized | With a dense build side, suspending in Finalize and resuming restores exactly the sunk rows, and the query finalizes. |
| `checkpoint_external` | pass | CheckpointRestoresWrittenChunks | With one sink thread and no I/O faults, a query that suspends in Sink, exits, restarts and resumes from the folder finalizes with every row of every chunk it wrote: the manifest names the pipeline (`RecordPipeline`), each written chunk has its own part file, and `readdir` brings all of them back. |
| `checkpoint_external_lost_rows` | violation | ResumeRestoresBuildSide | Rows sunk before the deadline are lost by an external suspension. |
| `checkpoint_partition_race` | violation | NoPartitionFileOverwritten | Two sink threads write the same part file. |
| `checkpoint_sparse_table` | violation | ResumeRestoresBuildSide | Unfilled perfect-table slots come back as build rows. |
| `checkpoint_pressure_resume` | violation | EventuallyFinalized | A query that went external under memory pressure is resumed by the in-memory branch and throws. |
| `checkpoint_two_columns` | violation | EventuallyFinalized | With two payload columns the resume throws. |
| `checkpoint_write_failure` | violation | CheckpointRestoresWrittenChunks | A part file whose open failed is silently missing at resume, and the resumed query finalizes without its rows. |
| `checkpoint_no_projection_map` | violation | EventuallyFinalized | Without a right projection map the part files have no build columns, and the resume throws. |

Every property of a passing run has a mutant in `PROJECT.json`. A mutant is a
plausible bug in the mapped code, and TLC finds the property violated under it.

## Findings

* **External suspension loses the rows sunk before the deadline.**
  Physical_hash_join.cpp:230-305 writes a part file only for chunks sunk after
  the deadline. Finalize exits (669-671) without writing the local tables, and
  the resume rebuilds only the part files.
* **Part-file name race.**
  * The file name is read from `global_ht_partition` at 291/296.
  * The counter is incremented only at 304, after the write.
  * Two threads between those lines write the same `part-N`, and one chunk is
    lost.
* **Uninitialized slots are serialized.** `SerializePerfectHashTable` writes
  all `build_range + 1` slots, including those no key filled. It does the same
  when the perfect build failed. The resume inserts them as rows.
* **The wrong resume branch after a swizzle.** The branch is chosen by the new
  process's `force_external`, not by how the first process suspended. A query
  that went external under memory pressure is resumed from a file it never
  wrote, and throws.
* **One table per build column on resume** (spec open question 1). Two payload
  columns make the resume read a missing `join_key_1` and throw. With no
  payload column nothing is rebuilt.

* **No build columns in part files without a projection map.**
  `HashJoinLocalSinkState` initializes `build_chunk` only when
  `right_projection_map` is non-empty (119-121). `Sink` writes `build_chunk_i`
  only for `build_chunk`'s columns (265-284). The external resume reads
  `build_chunk_i` for every build column and throws.

* **A failed checkpoint write is resumed from silently** (spec 7,
  SerializationFailure). `Sink` opens `part-N.ratchet` under its final name.
  On failure it only prints to stderr (291-302). A file that was never created
  is not listed by the resume's `readdir` loop, so the resumed query
  finalizes without those rows. The spec says a failed write leaves the
  checkpoint invalid (files stay `.tmp`). A cut file makes the resume throw.
  In the same way, when `opendir` of the resume folder fails (649-651), the
  resume prints "Failed to open the folder." and finalizes with an empty build
  side. Spec 7 (ResumeFailure) calls an inconsistent resume fatal.

## Bounds

* **HashJoinSource.** Both paths, in memory and external. The build side is
  empty, `<<1, 3, 2, 3, 5>>`, or `<<5, 5, 5>>`. The last one has three
  unmatched rows, so a FULL join's in-memory outer scan takes three chunks
  spread over two workers.
  The probe side is `<<3, 4, 2, 6, 1>>`. With `TuplesPerRound = 2` the
  partitions form two rounds:
  * Round 1 holds keys 1 and 2 and is probed by the operator.
  * Round 2 holds keys 3, 5 and 6. It is replayed from the spill and holds one
    probe row with two matches and one with none.

  `VectorSize = 1`, so a probe with two matches takes two batches and an outer
  scan stops after each unmatched row. A worker can finish its chunk while
  another still has a batch to emit, and an outer scan can run while a probe is
  in flight.
* **HashJoinFinalize.** Four rows in two local HTs and three threads.
  * Keys 1 and 3 share a partition and a bucket, and so do keys 2 and 4.
  * In memory, `blocks_per_thread` is `ceil(4/3) = 2`. The schedule
    `[0,2), [2,4)` stops at the last block before the third thread. Each
    bucket then gets rows from both tasks.
  * The external first round `{1, 3}` is scheduled `[0,1), [1,2)`. Two
    one-row tasks push onto the same bucket, and the third thread again
    gets no range.
  * The threshold is the code's 1048576, so the parallel branch is reached
    through `verify_parallelism`.
* **PerfectHashJoin.** Keys `1..3`, probe values `{0, 1, 2, 4}` plus NULL, and
  up to 3 rows per side. This covers duplicates, gaps, NULLs and out-of-range
  probes.
* **Checkpoint.** Two or three chunks and one to three sink threads.
  * The deadline can pass before, between or after any Sink call.
  * `SinkMemoryPerThread` is 1 row where the swizzle must happen, and 4 where it
    must not.

## Fairness

* Each source worker, sink thread and scheduler thread is weakly fair. So are
  the probe pipeline, Finalize and the event completions. The pipeline
  executor keeps calling a worker until its pipeline is done, and a scheduler
  thread runs a task to completion.
* A checkpoint write's outcome is a nondeterministic choice inside the `Sink`
  or `SuspendInMemory` step, and the `opendir` outcome is a choice inside
  `ResumeExternal`. Only `checkpoint_write_failure` enables the failures, and
  fairness never forces one.
* The clock (`Tick`) has no fairness: a query may finish before the deadline.
* A suspended query is restarted (`Restart` is part of the fair Finalize step).
  This matches the checkpointing tool's use, where the resume run is always
  started.
* `compare_exchange_weak` may also fail spuriously. Such a failure only repeats
  the read and cannot lose a row, so it is not modelled, and `EventuallyProbe`
  assumes that spurious failures do not repeat forever.

## Not modelled

* The projection timing, the pipeline-finish event and the header files hold no
  state the join depends on.
* The row layout, swizzling of pointers, expression evaluation, the buffer
  manager and the JSON encoding of checkpoint files.
  * A row is abstracted to its key and payload.
  * A file is abstracted to its set of rows, with the failure cases the code
    has (a missing file, a missing `join_key_i`).
* The probe operator's batches of `ScanStructure::Next` form one step. The
  source waits for the whole probe pipeline, so nothing observes a partial
  probe. The perfect probe is checked in `PerfectHashJoin`.
* `NextPowerOfTwo` (constants.cpp) has no caller under `src/`.
* `global_finalized_pipelines` is appended to by concurrent sink threads
  without a lock. Every append is the same pipeline id, so a lost append
  changes nothing the resume tests. Heap corruption from a racing reallocation
  is outside the model.
* `Finalize`'s return value `NO_OUTPUT_POSSIBLE` is not modelled.
* A resume of a SEMI, ANTI or MARK join, whose `build_types` is empty, is
  modelled (`ResumeRows` with `BuildColumns = 0`) but has no run of its own.
  Both resume branches rebuild inside the loop over `build_types`. With no
  build type the loop runs zero times and the table stays empty. This was
  checked by hand: `MCCheckpoint_inmemory.cfg` and
  `MCCheckpoint_external_lost_rows.cfg` with `BuildColumns = 0` both violate
  `ResumeRestoresBuildSide`.
* The wrap of `global_ht_partition` (a `uint16_t`) at the 65537th part file.
  The model keeps the modulus, but reaching it takes 65536 suspending Sink
  calls.
* What is left of the sources is declarations, with no behaviour to model:
  * the operator and state classes and their constructors;
  * `GetOperatorState`, which allocates and initializes the probe spill;
  * the switch over physical key types in
    `FillSelectionVectorSwitchBuild`, which only dispatches;
  * `TemplatedFillSelectionVectorBuild`'s return on NULL statistics. The
    statistics come from the planner, outside `src/`, and the model takes
    them as integers (`BuildMin`, `BuildMax`).
