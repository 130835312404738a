-------------------------- MODULE HashJoinFinalize --------------------------
(***************************************************************************)
(* The regular (non-suspending) path of PhysicalHashJoin::Finalize and     *)
(* the events it inserts before the probe pipeline may start:             *)
(*                                                                         *)
(*   external:  Finalize -> HashJoinPartitionEvent (one task per local HT) *)
(*              -> FinishEvent: PrepareExternalFinalize, ScheduleFinalize  *)
(*   in memory: Finalize merges the local HTs, tries the perfect table,   *)
(*              else ScheduleFinalize                                      *)
(*   ScheduleFinalize -> HashJoinFinalizeEvent: block ranges, one          *)
(*              HashJoinFinalizeTask each, run by the scheduler's threads, *)
(*              pushing every row onto its bucket of the pointer table.   *)
(*                                                                         *)
(* The push of JoinHashTable::InsertHashes (outside src/; spec 4.1) is two *)
(* steps of a thread: the read of the bucket head, stored into the row's  *)
(* next slot, and the write of the row into the head, which is a          *)
(* compare-and-swap that retries on failure when the task is parallel.    *)
(*                                                                         *)
(* Abstractions: a block holds one build row; a row's hash selects its     *)
(* radix partition (KeyPartition) and its bucket (Bucket).                *)
(***************************************************************************)
EXTENDS Integers, FiniteSets, Sequences, SequencesExt, FiniteSetsExt, Functions,
        JoinHashTable

CONSTANTS
  Threads,            \* the task scheduler's threads
  LocalRows,          \* LocalRows[l]: build rows sunk into local HT l
  BuildKey,           \* BuildKey[r]: join key of build row r
  Bucket,             \* Bucket[k]: pointer-table bucket of key k
  VerifyParallelism   \* context.config.verify_parallelism

LocalIds == DOMAIN LocalRows
Rows == UNION {LocalRows[l] : l \in LocalIds}
NONE == 0   \* a null row pointer; build rows are positive

ASSUME /\ Threads # {} /\ LocalIds # {}
       /\ Rows \subseteq Nat \ {0}
       /\ VerifyParallelism \in BOOLEAN

\* HashJoinFinalizeEvent::PARALLEL_CONSTRUCT_THRESHOLD
ParallelConstructThreshold == 1048576

-----------------------------------------------------------------------------
(* HashJoinFinalizeEvent::Schedule                                         *)

\* the loop over thread_idx: contiguous ranges of blocks_per_thread blocks,
\* stopping once block_idx reaches num_blocks
RECURSIVE Ranges(_, _, _, _)
Ranges(idx, thread, n, bpt) ==
  LET end == Min({idx + bpt, n})
  IN IF thread = Cardinality(Threads) THEN {}
     ELSE {[start |-> idx, end |-> end, parallel |-> TRUE]}
          \cup (IF end = n THEN {} ELSE Ranges(end, thread + 1, n, bpt))

\* mutation: the parallel tasks built with parallel = false, pushing
\* without the compare-and-swap
FinalizeTasksUnsynchronized(n) ==
  IF n < ParallelConstructThreshold /\ ~VerifyParallelism
  THEN {[start |-> 0, end |-> n, parallel |-> FALSE]}
  ELSE LET T == Cardinality(Threads)
       IN {[r EXCEPT !.parallel = FALSE] : r \in Ranges(0, 0, n, Max({(n + T - 1) \div T, 1}))}

\* the finalize tasks of a block collection of n blocks
FinalizeTasks(n) ==
  IF n < ParallelConstructThreshold /\ ~VerifyParallelism
  THEN {[start |-> 0, end |-> n, parallel |-> FALSE]}
  ELSE LET T == Cardinality(Threads)
       IN Ranges(0, 0, n, Max({(n + T - 1) \div T, 1}))

VARIABLES
  external,     \* sink.external
  phase,        \* "sink", "events" (Finalize returned), "probe"
  local,        \* local[l]: rows still held by local HT l
  partPending,  \* local HTs whose HashJoinPartitionTask has not run
  partitioned,  \* rows in the global HT's partitioned collections
  blocks,       \* the global HT's block collection, in block order
  usePerfect,   \* use_perfect_hash after Finalize
  tasks,        \* finalize tasks scheduled and not yet taken by a thread
  taskCount,    \* total_tasks of the finalize event
  doneTasks,    \* finished_tasks of the finalize event
  finEvent,     \* the finalize event: "none", "scheduled", "finished"
  running,      \* running[t]: the finalize task thread t executes, or Idle
  heads,        \* the pointer table: heads[b] is the first row of bucket b
  nxt,          \* nxt[r]: the next slot of row r
  htFinalized   \* hash_table->finalized

vars == << external, phase, local, partPending, partitioned, blocks, usePerfect,
           tasks, taskCount, doneTasks, finEvent, running, heads, nxt, htFinalized >>

Buckets == {Bucket[BuildKey[r]] : r \in Rows}
BucketOf(r) == Bucket[BuildKey[r]]

\* a thread with no finalize task
Idle == [stage |-> "idle"]

\* HashJoinGlobalSinkState::ScheduleFinalize over block collection blk: an
\* empty table is finalized at once; otherwise InitializePointerTable
\* (every bucket head and next slot null) and the finalize event with the
\* tasks HashJoinFinalizeEvent::Schedule makes for blk.
ScheduleFinalize(blk) ==
  IF Len(blk) = 0
  THEN /\ htFinalized' = TRUE
       /\ UNCHANGED << tasks, taskCount, doneTasks, finEvent, heads, nxt >>
  ELSE /\ heads' = [b \in Buckets |-> NONE]
       /\ nxt' = [r \in Rows |-> NONE]
       /\ tasks' = FinalizeTasks(Len(blk))
       /\ taskCount' = Cardinality(FinalizeTasks(Len(blk)))
       /\ doneTasks' = 0
       /\ finEvent' = "scheduled"
       /\ UNCHANGED htFinalized

Init ==
  /\ external \in BOOLEAN
  /\ phase = "sink"
  /\ local = LocalRows
  /\ partPending = {}
  /\ partitioned = {}
  /\ blocks = << >>
  /\ usePerfect = FALSE
  /\ tasks = {}
  /\ taskCount = 0
  /\ doneTasks = 0
  /\ finEvent = "none"
  /\ running = [t \in Threads |-> Idle]
  /\ heads = [b \in Buckets |-> NONE]
  /\ nxt = [r \in Rows |-> NONE]
  /\ htFinalized = FALSE

\* PhysicalHashJoin::Finalize, regular path.  External: drop the perfect
\* executor and insert the partition event, one task per local HT.  In
\* memory: merge and clear the local HTs; when the perfect table is not
\* used (CanDoPerfectHashJoin and BuildPerfectHashTable, whose outcome is
\* the input up), ScheduleFinalize.
Finalize ==
  /\ phase = "sink"
  /\ phase' = "events"
  /\ \/ /\ external
        /\ partPending' = LocalIds
        /\ UNCHANGED << local, partitioned, blocks, usePerfect, tasks, taskCount,
                        doneTasks, finEvent, heads, nxt, htFinalized >>
     \/ /\ ~external
        /\ local' = [l \in LocalIds |-> {}]
        /\ blocks' = SetToSortSeq(Rows, <)
        /\ \E up \in BOOLEAN :
             /\ usePerfect' = up
             /\ IF up THEN UNCHANGED << tasks, taskCount, doneTasks, finEvent,
                                        heads, nxt, htFinalized >>
                      ELSE ScheduleFinalize(SetToSortSeq(Rows, <))
        /\ UNCHANGED << partPending, partitioned >>
  /\ UNCHANGED << external, running >>

\* HashJoinPartitionTask::ExecuteTask: local_ht.Partition(global_ht), then
\* event->FinishTask(); the task that finishes last runs the event's
\* FinishEvent: local_hts.clear(), PrepareExternalFinalize (the first round
\* of the partitioned rows becomes the block collection), ScheduleFinalize.
ExecutePartitionTask(l) ==
  /\ l \in partPending
  /\ partitioned' = partitioned \cup local[l]
  /\ partPending' = partPending \ {l}
  /\ IF partPending' = {}
     THEN LET bk  == Restrict(BuildKey, partitioned')
              blk == RoundRows(bk, 0, RoundEndFrom(bk, 0, 0))
          IN /\ local' = [x \in LocalIds |-> {}]
             /\ blocks' = blk
             /\ ScheduleFinalize(blk)
     ELSE /\ local' = [local EXCEPT ![l] = {}]
          /\ UNCHANGED << blocks, tasks, taskCount, doneTasks, finEvent, heads,
                          nxt, htFinalized >>
  /\ UNCHANGED << external, phase, usePerfect, running >>

\* a scheduler thread takes a finalize task
PickTask(t) ==
  /\ running[t] = Idle
  /\ \E task \in tasks :
       /\ tasks' = tasks \ {task}
       /\ running' = [running EXCEPT ![t] = [start |-> task.start, end |-> task.end,
                        parallel |-> task.parallel, i |-> task.start,
                        stage |-> "read", head |-> NONE]]
  /\ UNCHANGED << external, phase, local, partPending, partitioned, blocks,
                  usePerfect, taskCount, doneTasks, finEvent, heads, nxt, htFinalized >>

\* JoinHashTable::Finalize(start, end, parallel), first half of the push of
\* row i: head = pointers[index]; Store(head, next slot of the row)
ReadHead(t) ==
  /\ running[t].stage = "read"
  /\ running[t].i < running[t].end
  /\ LET r == blocks[running[t].i + 1]
     IN /\ nxt' = [nxt EXCEPT ![r] = heads[BucketOf(r)]]
        /\ running' = [running EXCEPT ![t].head = heads[BucketOf(r)], ![t].stage = "write"]
  /\ UNCHANGED << external, phase, local, partPending, partitioned, blocks, usePerfect,
                  tasks, taskCount, doneTasks, finEvent, heads, htFinalized >>

\* mutation: a failed compare-and-swap retried with the stale head
WriteHeadStale(t) ==
  /\ running[t].stage = "write"
  /\ LET r == blocks[running[t].i + 1]
     IN IF running[t].parallel /\ heads[BucketOf(r)] # running[t].head
        THEN UNCHANGED << running, heads >>
        ELSE /\ heads' = [heads EXCEPT ![BucketOf(r)] = r]
             /\ running' = [running EXCEPT ![t].i = @ + 1, ![t].stage = "read"]
  /\ UNCHANGED << external, phase, local, partPending, partitioned, blocks, usePerfect,
                  tasks, taskCount, doneTasks, finEvent, nxt, htFinalized >>

\* second half: parallel, compare_exchange_weak(pointers[index], head, row),
\* looping back to the read when the head moved; serial, pointers[index] = row
WriteHead(t) ==
  /\ running[t].stage = "write"
  /\ LET r == blocks[running[t].i + 1]
     IN IF running[t].parallel /\ heads[BucketOf(r)] # running[t].head
        THEN /\ running' = [running EXCEPT ![t].stage = "read"]
             /\ UNCHANGED heads
        ELSE /\ heads' = [heads EXCEPT ![BucketOf(r)] = r]
             /\ running' = [running EXCEPT ![t].i = @ + 1, ![t].stage = "read"]
  /\ UNCHANGED << external, phase, local, partPending, partitioned, blocks, usePerfect,
                  tasks, taskCount, doneTasks, finEvent, nxt, htFinalized >>

\* HashJoinFinalizeTask::ExecuteTask after Finalize: event->FinishTask();
\* the last task runs HashJoinFinalizeEvent::FinishEvent, finalized = true
FinishTask(t) ==
  /\ running[t].stage = "read"
  /\ running[t].i = running[t].end
  /\ running' = [running EXCEPT ![t] = Idle]
  /\ doneTasks' = doneTasks + 1
  /\ IF doneTasks + 1 = taskCount
     THEN htFinalized' = TRUE /\ finEvent' = "finished"
     ELSE UNCHANGED << htFinalized, finEvent >>
  /\ UNCHANGED << external, phase, local, partPending, partitioned, blocks, usePerfect,
                  tasks, taskCount, heads, nxt >>

\* mutation: the probe pipeline started without waiting for the
\* finalize event
ProbeStartEarly ==
  /\ phase = "events"
  /\ partPending = {}
  /\ phase' = "probe"
  /\ UNCHANGED << external, local, partPending, partitioned, blocks, usePerfect, tasks,
                  taskCount, doneTasks, finEvent, running, heads, nxt, htFinalized >>

\* the probe pipeline depends on the sink pipeline's events: it starts once
\* the partition event and the finalize event have finished
ProbeStart ==
  /\ phase = "events"
  /\ partPending = {}
  /\ finEvent # "scheduled"
  /\ phase' = "probe"
  /\ UNCHANGED << external, local, partPending, partitioned, blocks, usePerfect, tasks,
                  taskCount, doneTasks, finEvent, running, heads, nxt, htFinalized >>

\* the probe pipeline runs to its end
Done == phase = "probe" /\ UNCHANGED vars

ThreadStep(t) == PickTask(t) \/ ReadHead(t) \/ WriteHead(t) \/ FinishTask(t)

Next ==
  \/ Finalize
  \/ \E l \in LocalIds : ExecutePartitionTask(l)
  \/ \E t \in Threads : ThreadStep(t)
  \/ ProbeStart
  \/ Done

\* Each scheduler thread runs the task it took to completion and takes the
\* next one; events complete and start their dependents.
Fairness ==
  /\ WF_vars(Finalize)
  /\ WF_vars(\E l \in LocalIds : ExecutePartitionTask(l))
  /\ \A t \in Threads : WF_vars(ThreadStep(t))
  /\ WF_vars(ProbeStart)

Spec == Init /\ [][Next]_vars /\ Fairness

-----------------------------------------------------------------------------
(* Properties                                                              *)

\* the rows reached from row r through at most n next slots
RECURSIVE Chain(_, _)
Chain(r, n) == IF r = NONE \/ n = 0 THEN {} ELSE {r} \cup Chain(nxt[r], n - 1)

\* the rows the probe must find: all build rows in memory, the first round
\* of them when external
ExpectedRows ==
  IF external
  THEN LET bk == Restrict(BuildKey, Rows)
       IN Range(RoundRows(bk, 0, RoundEndFrom(bk, 0, 0)))
  ELSE Rows

\* Pointer-table completeness: when the probe pipeline starts on the hashed
\* path, the table is finalized and the chain of every bucket holds exactly
\* the rows of that bucket that the round must hold, although the partition
\* tasks and the finalize tasks of several threads pushed them concurrently.
ProbeSeesCompleteTable ==
  phase = "probe" /\ ~usePerfect =>
    /\ htFinalized
    /\ \A b \in Buckets :
         Chain(heads[b], Cardinality(Rows)) = {r \in ExpectedRows : BucketOf(r) = b}

\* The lock-free push implements an atomic insert: with the pointer table's
\* rows being those reachable from a bucket head, every step of the finalize
\* threads either leaves them unchanged or adds one row of the block
\* collection (the compare-and-swap is the linearization point), no
\* interleaving of two threads' read and write of a head ever drops a row
\* already pushed, and FinishEvent sets finalized only once all are in.
TableRows == UNION {Chain(heads[b], Cardinality(Rows)) : b \in Buckets}
PT == INSTANCE PointerTable WITH
        rows <- Range(blocks), inserted <- TableRows, finalized <- htFinalized
PointerTableRefinement == PT!Spec

\* The finalize and partition events complete and the probe pipeline
\* starts: no thread loops forever in the compare-and-swap of a push.
EventuallyProbe == <>(phase = "probe")
=============================================================================
