----------------------------- MODULE Checkpoint -----------------------------
(***************************************************************************)
(* Ratchet checkpointing of the build side of PhysicalHashJoin.            *)
(*                                                                         *)
(* The first process sinks the build chunks with several threads          *)
(* (PhysicalHashJoin::Sink), combines the thread-local tables (Combine)   *)
(* and finalizes (Finalize).  Once the suspension deadline has passed      *)
(* (global_suspend_point_ms):                                             *)
(*  - on the external path each Sink call writes its current chunk to     *)
(*    part-<global_ht_partition>.ratchet, bumps the counter, and Finalize  *)
(*    exits;                                                               *)
(*  - on the in-memory path Finalize merges, tries the perfect table,     *)
(*    writes it (SerializePerfectHashTable) and exits.                    *)
(* A second process is started with global_resume; its Finalize rebuilds  *)
(* the build side from the file (in-memory branch) or from the part files *)
(* (external branch), chosen by its own sink.external.                    *)
(*                                                                         *)
(* A build row is <<key, payload>>; the payload identifies the row.  The  *)
(* join has one key column and BuildColumns payload columns.  The size    *)
(* test of the swizzle is a row count per thread.                         *)
(***************************************************************************)
EXTENDS Integers, FiniteSets, Sequences, FiniteSetsExt, SequencesExt, TLC

CONSTANTS
  Workers,             \* sink threads of the build pipeline
  ChunkKeys,           \* ChunkKeys[c]: the join keys of build chunk c
  CanGoExternal,       \* can_go_external
  ForceExternal,       \* ClientConfig force_external
  SinkMemoryPerThread, \* sink_memory_per_thread, in rows
  GlobalSuspend,       \* global_suspend of the first process
  BuildColumns,        \* build_types.size()
  ProjectionMap,       \* !right_projection_map.empty()
  IOFaults,            \* whether a checkpoint file operation may fail
  BuildMin, BuildMax,  \* perfect_join_statistics
  IsBuildSmall,
  JunkRows,            \* what an uninitialized slot of a Vector may read as
  PipelineId,          \* the build pipeline's id
  NULL

ASSUME /\ Workers /= {}
       /\ CanGoExternal \in BOOLEAN /\ ForceExternal \in BOOLEAN
       /\ GlobalSuspend \in BOOLEAN /\ IsBuildSmall \in BOOLEAN
       /\ ProjectionMap \in BOOLEAN /\ IOFaults \in BOOLEAN
       /\ SinkMemoryPerThread \in Nat \ {0}
       /\ BuildColumns \in Nat
       /\ JunkRows /= {}

PH == INSTANCE PerfectHashJoin
        WITH ProbeValues <- {}, MaxRows <- 0, keys <- <<>>, hasNull <- FALSE,
             probe <- <<>>, phase <- "sink", perfect <- NULL, out <- {}

Chunks == DOMAIN ChunkKeys

\* the rows of chunk c
RowsOf(c) == {<<ChunkKeys[c][j], <<c, j>>>> : j \in DOMAIN ChunkKeys[c]}

\* every build row the first process sinks
AllRows == UNION {RowsOf(c) : c \in Chunks}

\* global_ht_partition is an atomic<uint16_t>
PartitionModulus == 2^16

VARIABLES
  proc,         \* "first" or "resumed": which process runs
  phase,        \* "sink", "finalize", "exited", "finalized", "failed"
  toSink,       \* chunks the build pipeline has not pushed yet
  local,        \* rows of each thread's local hash table
  pc,           \* "idle", or "written": between the part write and the ++
  combined,     \* threads whose local table is in local_hash_tables
  localHts,     \* rows of gstate.local_hash_tables
  external,     \* gstate.external
  deadline,     \* the steady clock is past global_suspend_point_ms
  suspendStart, \* global_suspend_start
  pipelines,    \* global_finalized_pipelines
  partition,    \* global_ht_partition
  folder,       \* the part files: number -> rows
  torn,         \* part files a failed write cut short
  written,      \* chunks some Sink call has written to a part file
  sfile,        \* the in-memory suspend file: NULL or rows
  buildSide     \* the rows of the finalized hash table

vars == << proc, phase, toSink, local, pc, combined, localHts, external,
           deadline, suspendStart, pipelines, partition, folder, torn,
           written, sfile, buildSide >>

\* the suspension branches are taken only by the first process
Suspending == GlobalSuspend /\ proc = "first"

-----------------------------------------------------------------------------
(* The perfect table written by SerializePerfectHashTable.                 *)

\* the rows of a table in hash-table order
TableOrder(rows) == SetToSeq(rows)

\* mutation: the suspend file never written (the failed ofstream is only
\* reported on stderr)
SerializedRowsNotWritten(rows, junk) == NULL

\* SerializePerfectHashTable: build_range + 1 rows, slot by slot; a slot
\* the perfect build filled holds its row, any other slot is the
\* uninitialized memory of the Vectors (also when the build failed, or
\* was never tried and perfect_hash_table is empty).
SerializedRows(rows, junk) ==
  LET seq   == TableOrder(rows)
      table == PH!BuildPerfectHashTable([i \in DOMAIN seq |-> seq[i][1]], FALSE)
      ok    == IsBuildSmall /\ table.success
  IN {IF ok /\ s \in table.bitmap THEN seq[table.sel[s]] ELSE junk[s] : s \in PH!Slots}

\* Resume: the loop over build_types rebuilds one chunk per build column
\* from build_chunk_i and join_key_i; there is a join_key_i only for the
\* one condition, so a second column throws, and none rebuilds nothing.
ResumeColumnsFail == BuildColumns >= 2
ResumeRows(rows) == IF BuildColumns = 0 THEN {} ELSE rows

\* Sink writes build_chunk_i for the columns of lstate.build_chunk, which
\* HashJoinLocalSinkState initializes only with a right projection map;
\* without one the part files hold no build_chunk_i, and the resume's
\* read of build_chunk_0 throws.
PartFileColumnsMissing == ~ProjectionMap /\ BuildColumns >= 1

\* The outcome of writing a checkpoint file with an ofstream: the write
\* succeeds, the open fails and no file is created, or a short write leaves
\* a cut file; the code only reports outputFile.fail() on stderr.
WriteOutcomes == IF IOFaults THEN {"ok", "missing", "torn"} ELSE {"ok"}

-----------------------------------------------------------------------------
(* The first process: Sink and Combine.                                   *)

\* swizzle if we reach memory limit: the thread's table went external
Swizzle(w, rows) ==
  external' = (external \/ (CanGoExternal /\ Cardinality(rows) >= SinkMemoryPerThread))

\* mutation: the suspended pipeline not recorded in the manifest
RecordPipelineMissing == UNCHANGED pipelines

\* global_finalized_pipelines.push_back(pipeline_id), saved with the
\* suspend (RecordPipelineIdToFile)
RecordPipeline == pipelines' = Append(pipelines, PipelineId)

\* Sink(c): build chunk c into the thread-local table; then, on the
\* external path past the deadline, write it to part-<global_ht_partition>
\* (the counter is read here and bumped later, in FinishPartitionWrite);
\* otherwise go straight to the swizzle test.
Sink(w, c) ==
  /\ phase = "sink"
  /\ c \in toSink
  /\ pc[w] = "idle"
  /\ w \notin combined
  /\ toSink' = toSink \ {c}
  /\ local' = [local EXCEPT ![w] = @ \cup RowsOf(c)]
  /\ IF Suspending /\ external /\ deadline
     THEN /\ suspendStart' = TRUE
          /\ RecordPipeline
          /\ \E o \in WriteOutcomes :
               /\ folder' = IF o = "missing" THEN folder
                             ELSE (partition :> RowsOf(c)) @@ folder
               /\ torn' = IF o = "torn" THEN torn \cup {partition}
                           ELSE IF o = "ok" THEN torn \ {partition} ELSE torn
          /\ written' = written \cup {c}
          /\ pc' = [pc EXCEPT ![w] = "written"]
          /\ UNCHANGED external
     ELSE /\ Swizzle(w, local'[w])
          /\ UNCHANGED << suspendStart, pipelines, folder, torn, written, pc >>
  /\ UNCHANGED << proc, phase, combined, localHts, deadline, partition, sfile, buildSide >>

\* mutation: the partition counter never bumped
IncrementPartitionMissing == UNCHANGED partition

\* global_ht_partition++
IncrementPartition == partition' = (partition + 1) % PartitionModulus

\* the rest of the suspending Sink call: ++ the counter, then the swizzle
FinishPartitionWrite(w) ==
  /\ pc[w] = "written"
  /\ IncrementPartition
  /\ Swizzle(w, local[w])
  /\ pc' = [pc EXCEPT ![w] = "idle"]
  /\ UNCHANGED << proc, phase, toSink, local, combined, localHts, deadline,
                  suspendStart, pipelines, folder, torn, written, sfile, buildSide >>

\* Combine: once the source is exhausted, hand the local table over
Combine(w) ==
  /\ phase = "sink"
  /\ toSink = {}
  /\ pc[w] = "idle"
  /\ w \notin combined
  /\ combined' = combined \cup {w}
  /\ localHts' = localHts \cup local[w]
  /\ local' = [local EXCEPT ![w] = {}]
  /\ phase' = IF combined' = Workers THEN "finalize" ELSE phase
  /\ UNCHANGED << proc, toSink, pc, external, deadline, suspendStart, pipelines,
                  partition, folder, torn, written, sfile, buildSide >>

\* the steady clock passes global_start + global_suspend_point_ms
Tick ==
  /\ Suspending
  /\ phase \in {"sink", "finalize"}
  /\ ~deadline
  /\ deadline' = TRUE
  /\ UNCHANGED << proc, phase, toSink, local, pc, combined, localHts, external,
                  suspendStart, pipelines, partition, folder, torn, written, sfile, buildSide >>

-----------------------------------------------------------------------------
(* Finalize of the first process.                                         *)

\* if external hash join, checking suspend and serializing states
\* happened in Sink(): exit(0)
SuspendExternal ==
  /\ proc = "first" /\ phase = "finalize"
  /\ external /\ suspendStart
  /\ phase' = "exited"
  /\ UNCHANGED << proc, toSink, local, pc, combined, localHts, external, deadline,
                  suspendStart, pipelines, partition, folder, torn, written, sfile, buildSide >>

\* mutation: the local tables not merged before the perfect table is built
MergeLocalTablesMissing(rows) == {}

\* for (auto &local_ht : sink.local_hash_tables) sink.hash_table->Merge(*local_ht)
MergeLocalTables(rows) == rows

\* not external and past the deadline: merge, try the perfect table,
\* record the pipeline, SerializePerfectHashTable, exit(0)
SuspendInMemory ==
  /\ proc = "first" /\ phase = "finalize"
  /\ ~external /\ Suspending /\ deadline
  /\ suspendStart' = TRUE
  /\ RecordPipeline
  /\ \E junk \in [PH!Slots -> JunkRows], o \in WriteOutcomes :
       \* a missing or cut file makes the resume's parse throw alike
       sfile' = IF o = "ok" THEN SerializedRows(MergeLocalTables(localHts), junk) ELSE NULL
  /\ localHts' = {}
  /\ phase' = "exited"
  /\ UNCHANGED << proc, toSink, local, pc, combined, external, deadline,
                  partition, folder, torn, written, buildSide >>

\* Finalize enters its resume branch
Resuming == proc = "resumed" /\ PipelineId \in Range(pipelines)

\* the regular Finalize: partition the local tables (external) or merge
\* them and build the perfect or the pointer table (in-memory); the
\* hash table then holds every row of local_hash_tables
FinalizeRegular ==
  /\ phase = "finalize"
  /\ ~Resuming
  /\ ~(external /\ suspendStart)
  /\ ~(~external /\ Suspending /\ deadline)
  /\ buildSide' = localHts
  /\ localHts' = {}
  /\ phase' = "finalized"
  /\ UNCHANGED << proc, toSink, local, pc, combined, external, deadline,
                  suspendStart, pipelines, partition, folder, torn, written, sfile >>

-----------------------------------------------------------------------------
(* The resumed process.                                                   *)

\* a new process, started with global_resume on the files the first one
\* left; the executor starts at global_resume_pipeline, so the build
\* pipeline's Sink receives no chunks, and global_finalized_pipelines is
\* loaded from the manifest
Restart ==
  /\ phase = "exited"
  /\ proc' = "resumed"
  /\ phase' = "finalize"
  /\ local' = [w \in Workers |-> {}]
  /\ pc' = [w \in Workers |-> "idle"]
  /\ combined' = Workers
  /\ localHts' = {}
  /\ external' = (CanGoExternal /\ ForceExternal)
  /\ deadline' = FALSE
  /\ suspendStart' = FALSE
  /\ partition' = 0
  /\ buildSide' = {}
  /\ UNCHANGED << toSink, pipelines, folder, torn, written, sfile >>

\* Resume Perfect Hash Join: Reset, read global_resume_file and rebuild
\* the table per build column, then the perfect or the pointer table; a
\* missing file or a missing join_key_i throws
ResumeInMemory ==
  /\ phase = "finalize" /\ Resuming /\ ~external
  /\ IF sfile = NULL \/ ResumeColumnsFail
     THEN phase' = "failed" /\ UNCHANGED buildSide
     ELSE phase' = "finalized" /\ buildSide' = ResumeRows(sfile)
  /\ UNCHANGED << proc, toSink, local, pc, combined, localHts, external, deadline,
                  suspendStart, pipelines, partition, folder, torn, written, sfile >>

\* opendir(global_resume_folder) succeeds, or fails and is only reported
\* ("Failed to open the folder."), and the resume goes on without files
FolderOpens == IF IOFaults THEN BOOLEAN ELSE {TRUE}

\* Resume External Hash Join: Reset, one local table per part-*.ratchet
\* file readdir lists, from its join_key_i and build_chunk_i, then the
\* partition event of the regular external path; reading a file throws
\* when it was cut short or lacks a column, and a file that was never
\* created is not listed
ResumeExternal ==
  /\ phase = "finalize" /\ Resuming /\ external
  /\ \E opened \in FolderOpens :
       LET files == IF opened THEN DOMAIN folder ELSE {}
       IN IF files # {} /\ (ResumeColumnsFail \/ PartFileColumnsMissing \/ files \cap torn # {})
          THEN phase' = "failed" /\ UNCHANGED buildSide
          ELSE /\ phase' = "finalized"
               /\ buildSide' = ResumeRows(UNION {folder[n] : n \in files})
  /\ UNCHANGED << proc, toSink, local, pc, combined, localHts, external, deadline,
                  suspendStart, pipelines, partition, folder, torn, written, sfile >>

\* the query has its build side, or the process has thrown
Stopped ==
  /\ phase \in {"finalized", "failed"}
  /\ UNCHANGED vars

-----------------------------------------------------------------------------

Init ==
  /\ proc = "first"
  /\ phase = "sink"
  /\ toSink = Chunks
  /\ local = [w \in Workers |-> {}]
  /\ pc = [w \in Workers |-> "idle"]
  /\ combined = {}
  /\ localHts = {}
  /\ external = (CanGoExternal /\ ForceExternal)
  /\ deadline = FALSE
  /\ suspendStart = FALSE
  /\ pipelines = <<>>
  /\ partition = 0
  /\ folder = <<>>
  /\ torn = {}
  /\ written = {}
  /\ sfile = NULL
  /\ buildSide = {}

SinkThread(w) ==
  \/ \E c \in Chunks : Sink(w, c)
  \/ FinishPartitionWrite(w)
  \/ Combine(w)

FinalizeStep ==
  \/ SuspendExternal
  \/ SuspendInMemory
  \/ FinalizeRegular
  \/ Restart
  \/ ResumeInMemory
  \/ ResumeExternal

Next ==
  \/ \E w \in Workers : SinkThread(w)
  \/ Tick
  \/ FinalizeStep
  \/ Stopped

\* Every sink thread keeps being scheduled, Finalize runs once all have
\* combined, and a suspended query is restarted; the clock need not pass
\* the deadline before the query ends.
Fairness ==
  /\ \A w \in Workers : WF_vars(SinkThread(w))
  /\ WF_vars(FinalizeStep)

Spec == Init /\ [][Next]_vars /\ Fairness

-----------------------------------------------------------------------------
(* Properties                                                              *)

\* Checkpoint round-trip (spec 8.7, S5, S6): whenever a process finalizes
\* the join, suspended and resumed or not, its hash table holds exactly the
\* build rows the first process sank: the suspension (Sink's part files,
\* SerializePerfectHashTable) loses none and the resume (Finalize's resume
\* branches) invents none.
ResumeRestoresBuildSide ==
  phase = "finalized" => buildSide = AllRows

\* Every chunk a suspending Sink call wrote is still a part file: no two
\* Sink calls name their file with the same global_ht_partition.
NoPartitionFileOverwritten ==
  \A c \in written : \E n \in DOMAIN folder : folder[n] = RowsOf(c)

\* A failed checkpoint write is never resumed from silently (spec 7,
\* SerializationFailure: a failed write leaves no valid checkpoint): a
\* resumed process that finalizes holds every row of every chunk a Sink
\* call of the first process wrote to a part file.
CheckpointRestoresWrittenChunks ==
  proc = "resumed" /\ phase = "finalized" =>
    \A c \in written : RowsOf(c) \subseteq buildSide

\* The query finalizes the join, in the first process or after a resume.
EventuallyFinalized == <>(phase = "finalized")
=============================================================================
