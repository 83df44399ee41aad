# Verification of leibrix-worker

TLA+ models of the worker, checked with TLC on small instances, and theorems
about them that TLAPS proves for every value of the constants. Every definition
is translated from the source under `src/`; `PROJECT.json` maps each one to the
lines it stands for.

## The system

leibrix-worker keeps time slices ("epochs") of remote datasets in an in-memory
DuckDB and answers SQL over them. Five crates:

| Crate | Parts | State shared between tasks |
|---|---|---|
| `worker-cli` | the process: start-up order, shutdown loop | status watch channel |
| `worker-cp` | control-plane session (one bidirectional gRPC stream), epoch dispatcher | outgoing channel, cancellation token, `epoch_phases`, load semaphore |
| `worker-storage` | engine actor, query engine, StarRocks sources, SQL rewriting, distributed plans (LDP: planner, coordinator, exchange, stage executor, Flight client pool) | command channel, epoch maps, DuckDB tables and macros, connection pools, stage tickets |
| `worker-flight` | Arrow Flight service: queries, LDP stages, cancellation | `active_stages`, `stage_results`, pooled connections |
| `worker-proto` | generated protobuf types | none |

How they interact: the Receive Task of the session hands each command of the
control plane to the dispatcher. An assignment spawns a load task, which streams
an epoch from a source into the engine, rewrites the dataset's scan macro and
reports a status over the outgoing channel; the Send Task writes statuses and
heartbeats to the stream. An eviction runs in the Receive Task, or is left to
the load task if the epoch is loading. The engine is one thread that serves a
bounded command channel. LDP stages of other coordinators arrive over Flight and
run on connections of the pool that the epochs live behind. Nothing is
persistent: a lost session ends the process and with it the data.

`PROJECT.json` lists every part (`components`), with what is left out of the
modelled ones and why the others are not modelled, and every hazard found in
the survey with its line (`hazards`).

## Modules

Loading and the control plane:

| Module | Models | State and steps |
|---|---|---|
| `EpochStore` | what the `StorageEngine` trait promises | Per epoch fresh, loading, visible or wreck; visibility and removal are atomic. |
| `EpochEngine` | `engine_main` and its handlers (`memory_duckdb_runtime.rs`), the API calls (`storage_engine_impl.rs`), the load stream | Each API call is a client that is between two awaits (`cpc`); each command is one step of the actor on `in_progress`, `committed`, the DuckDB tables and macros. `com` is the bounded channel. |
| `EpochDispatcher` | `WorkerRuntimeDispatcher` composed with the engine (EXTENDS `EpochEngine`) | Load tasks (`tpc`) and the Receive Task (`rpc`) are the engine's clients. The reads and the writes of `epoch_phases` are separate steps wherever the code does them in separate map operations or with an await in between. `cp` is what the control plane believes. |
| `SourceStream` | the ADBC and JDBC clients | The producing task, its bounded channel, permits and counts, the JDBC client's shutdown. |
| `CpSession` | `ControlPlaneSession`, `main`, and `report_status` | `main` is the program counter of `start` and of the loop after it; `spc` and `rpc` are the two tasks; `out` and `grpc` are the two bounded channels; each half of the stream can die at any time. The dispatcher is reduced to the reports it makes. |

Queries:

| Module | Models | State and steps |
|---|---|---|
| `QueryRewrite`, `DateRanges` | `sql/transformer.rs`, `admission.rs`, `discovery.rs`, `boolean_analyzer.rs`; `interval.rs` | A statement is asked, admitted or rejected, rewritten, answered. Admission, analysis and rewriting are operators on statement trees; `RowsOf` is the reference meaning of a statement. What the analysis and admission do with one node of a WHERE clause is in `DateRanges` (`AnalyzeExpr`, `ReferencesIn`), given what they do with the nodes below it; `QueryRewrite` closes the recursion. |
| `QueryStream` | `execute_query` of the query engine | The blocking task, its supervisor, the channel and the client of each query. |
| `SqlPlan`, `StageSql` | `plan_builder.rs`, `logical_plan.rs`; `stage_sql_gen.rs` | Operators: the logical plan of a statement, and the rows that the SQL generated for a stage returns. |
| `LdpPlanner` | `annotate.rs`, `exchange.rs`, `requirements.rs`, `cut.rs`, `policy.rs`, `types.rs` | Operators from a logical plan and metadata to stages, edges and workers. |
| `PlacementMetadata` | `storage_metadata.rs` | `refresh`, call by call, beside an engine that commits and drops. |
| `LdpPlan`, `LdpWire` | the plan of `types.rs`, the level step of `coordinator.rs`; `ldp/proto_convert.rs` | Exchanges and the stages that are ready; the plan and the stage request as they go over the wire. |
| `StageExchange` | `executor/exchange.rs`, `skew.rs`, `stage.rs` | Gather, broadcast and hash partition as operators on rows. |
| `LdpDataflow` | the coordinator as a data flow (composes `SqlPlan`, `StageSql`, `LdpPlanner`, `LdpPlan`, `LdpWire` and `StageExchange`) | Plan, run one stage after the other, fetch the root; `MeaningOf` is the reference meaning of a statement. |
| `Coordinator` | batch execution in `coordinator.rs` | Futures of a level, retries of the failures that count as transient, losses, cancellation, time-out, repeated executions, over workers that do what `StageWorker` says. Over Flight a broadcast asks the first source worker only. Orphans of one stage on one worker are alike, so one in `jobs` may stand for several. |
| `Pipeline` | `execute_pipelined`, `submit_stage_streaming` | Two tasks a stage, bounded channels, collector and coordinator. |
| `WorkerConnections` | `WorkerConnectionPool` | Callers are futures, some of them joined in one task; slots behind fair mutexes in a map with a blocking lock of its own; runtime threads. The walks that count and choose connections look at one slot a step. |
| `StageWorker` | what a coordinator may rely on of a worker | Per call what it was told, per stage the result that can be fetched; an answer of success and its result are one step. |
| `StageService` | the LDP half of `WorkerFlightService`, with `SharedDatabase`'s pool | Each `submit_stage` is an async call (`pc`) with a blocking task (`bpc`) that outlives it on a time-out; `temp` is what each pooled connection holds; `active`, `results` are the two maps. |

`MC*` are TLC instances. `MCRows` and `MCCluster` put machines
that share no state into one run: a behaviour is one of one of them while the
others rest, so each is checked as if alone.

`*_proofs` hold the TLAPS proofs: `EpochEngine_proofs`, `EpochDispatcher_proofs`,
`CpSession_proofs` and `Pipeline_proofs` about the module they are named after,
`EpochLoads_proofs` about the rows of the dispatcher's loads, `Cluster_proofs` about
`Coordinator`, `Flight_proofs` about `StageService` and `WorkerConnections`,
`Queries_proofs` about `DateRanges`, `PlacementMetadata`, `QueryStream` and `SourceStream`.
`Pipeline_proofs` is also about `LdpPlan` and `LdpWire`.

Rows are counted in the loading half, and are small records in the query half;
schemas, SQL text, tickets and error texts are left out. A fault of the
environment is a choice, enabled by `Faults` in the engine and always possible
elsewhere. DuckDB, the r2d2 pool, sqlparser and tokio's primitives are modelled
from how the code uses them: a blocked sender waits, `Notify` stores one permit, a
watch channel keeps the last value, a pooled connection has one holder.

## Runs

| Run | Question | Result |
|---|---|---|
| `engine` | Two callers do anything to one epoch, every statement may fail, the engine may be shut down. Do the maps agree with the tables, is whoever waits owed a reply, does every call return, is this the store the trait promises? | holds |
| `dispatcher_safety` | Two loads, evictions, and the engine on two epochs, with failing streams and macros. Is every Active epoch committed with its own load's rows, and is a waiting drain always to be woken? | holds |
| `dispatcher_liveness` | Does every load task end and give its permit back, and does `wait_for_drain` return? | holds |
| `session` | Either half of the stream dies at any point of start-up, reporting or shutdown. Does the process notice, and are statuses delivered once and in order? | holds |
| `stage_service` | Two stages on one connection with time-outs, cancellations and failing inputs. Is this the worker a coordinator counts on, do stages read their own inputs, do tickets last, does anything leak? | holds |
| `rows` | Is a distributed query answered with the rows its statement means; does a rewritten statement keep its rows; is a stream that ends cleanly whole, and does every task end, in the pipeline, the query engine and the sources; does the connection pool connect once, and can anything but a map guard stop it? | holds for the cases under "Bounds"; for a source, only if it did not fail |
| `cluster` | Is an answer made of this execution's stages, are orphans cancelled, do executions end; does a refresh keep every epoch that stays? | holds |
| `eviction_lost` | Does an eviction that finds the epoch loading take effect? | violated: a load that has already looked for it overwrites it |
| `retried_load` | Does a committed epoch hold the rows of one load? | violated: a failed stream leaves an entry that the retry completes |
| `truncated_source` | Does the error of a source reach the load? | violated: it is logged, and the channel closes as at the end |
| `pool_deadlock` | Does every call of the stages of a level to a worker return? | violated: a stage that drops its connection keeps a guard of the map over an await, and a sibling blocks their common thread |
| `pruned_rows` | Does a rewritten statement keep its rows when a subquery asks the same dataset for other days? | violated: the outer range prunes the subquery's scan |

The violated properties are statements of the repository's own comments and
documents; `findings` quotes each one.

### Bounds

- Two load tasks, clients, queries, refreshes or stage requests: the hazards
  modelled are races of two actors, with an actor or a supervisor as the third.
- Two epochs of one dataset, so that loads meet on the macro; one epoch where the
  question is about a single one (`engine`, `eviction_lost`, `retried_load`, `dispatcher_liveness`).
- Channels of one or two, so that full channels occur. `RetryCount` of two has
  both a retry and a give-up. In `engine`, streams of up to two batches of zero or
  one row end below the flush threshold of two, reach it, or hold no row at all.
- One connection in `StageService` and `QueryStream`: it then always changes hands.
- `MaxInbound` of three: an acknowledgement, an assignment and one more.
- `CpDisciplined`: the control plane assigns an epoch only if it believes it absent,
  as the design document describes. What an undisciplined one causes is an open
  hazard.
- `Pipeline`: two scans, a join and a root, up to two batches a stage, channels of
  one. Plans are trees, which `PlanIsWired` checks of the planner's.
- `Coordinator`: a stage on two workers executed twice, a join executed once, and a broadcast
  of a stage on two workers executed once.
- `WorkerConnections` in `rows`: two callers joined in a task and one of another task, two
  workers in one shard of the map, cap one, two threads and four calls in all; enough for
  an eviction between another caller's count and its connect, and for a `GuardCircle`
  through a common task (one through all threads takes four callers). In `pool_deadlock`: three callers of one task, one
  worker, a call each, four threads.
- `rows`, planning: 28 queries over three tables of two to four rows on two
  workers, five policies. `MCCases` are the combinations the planner handles, and
  `AnswersAreExact` also excepts broadcasts of several sources over Flight. The
  combinations left out give wrong answers or errors; they are listed under "Known
  gaps", so the run does not say that any query is answered rightly.
- `rows`, exchange: `MinRowsForSkew` is 2 instead of 1000, so that batches of this
  size are examined for skew. None is found skewed (that takes some twenty rows, one key
  having most of them), so no run takes the skewed branch (`HandleSkewedPartitioning`): it is
  translated, and what it does to a batch is under "Known gaps".
- `rows`, rewriting: every WHERE of two predicates out of thirteen and some of
  three, in eight shapes of statement, over days only. Parameters occur as bounds
  that need no day added. Statements in which the range of one SELECT prunes a scan
  of another that asks for other days are left out; `pruned_rows` has one.

No symmetry is used: several of the runs check liveness, where it is unsound.

### Fairness

Weak fairness for a task stands for the runtime polling what is ready; in the
engine and the dispatcher a step that waits for room in a channel, or for a
semaphore permit, has strong fairness because tokio serves waiters in FIFO order.
In `CpSession` the control plane keeps reading a live stream and the heartbeat keeps
ticking, which is what lets a dead request half be noticed; loads need not end and
neither half need die. In `StageService` DuckDB ends each statement, time passes and
the eviction interval ticks; requests need not arrive or time out. In `QueryStream`
only the blocking task and the start of a query are fair: clients may stall for ever
and time-outs need not come. In `Pipeline` and `Coordinator` tasks run and workers
answer in the end, without help of the query's time-out. In `SourceStream` a load
that holds a stream reads or drops it, and a source that does not fail gives its next row
or its end; that it fails is no way out the model counts on. In `WorkerConnections` a future
that can be polled is, and health checks and connects come back. Faults, new requests, cancellations and commands of the control
plane are never fair.

`CHECK_DEADLOCK FALSE` is used where the system really stops: the process exits, all
requests are answered, all streams have ended.

## Proofs

All theorems hold for every value of the constants that satisfies the named
assumptions of the modules, which TLC evaluates on the runs: `EngineAssumption`,
`DispatcherAssumption`, `SessionAssumption`, `StageAssumption`, `PoolAssumption`,
`PlansAssumption` (the levels of a plan hold each stage once, after its sources),
`PlanIsATree`, `SourceAssumption`, `DaysInOrder`, `DaysHaveInstants`, `TimesAssumption`.
Some theorems have hypotheses of their own, named with them below: `CpDisciplined`, that the
control plane assigns an epoch only when it believes it absent (see Bounds), for two of
the dispatcher's; channels with room for a batch for `PipelineNeverStuck`; finite, disjoint sets of loads for
`QueriesAreCounted`; and `WithinReach` for the pruning of scans.

Liveness is out of the prover's reach, but what it rests on is not: `RepliesAreOwed`,
`DrainIsWokenUp`, `WaitsAreAttended`, `ExecutionNeverStuck`, `PipelineNeverStuck` and
`NothingLeaks` say, for every size, that nobody waits for what nobody owes, and
`PoolStuckOnlyByGuard` says which circle of waiting callers there can be, and that there is
no other. That what can move does move is the part only TLC shows, on small
instances. Type correctness is proved and no longer checked by a run.

Loading:

- `EpochEngine_proofs`: `EngineTypeCorrect`; `EpochsAreSound`, that an epoch is never
  both in progress and committed, that both kinds have a table, and that nothing
  empty is committed; `EngineImplementsStore`, the refinement. The invariants are
  inductive with the type invariant: only the actor writes the epoch maps
  (`CallsLeaveEpochs`), so what is left is one case for each command, and each
  command is one step of the store or leaves it alone. `RepliesAreOwed`: a caller that
  waits has the command that answers it in the channel. `ReplyInv` follows a create, whose
  reply goes through the entry of its key: until it is answered the entry is its own or its
  StartEpoch is still queued (`EntryOwed`), and that comes before its FinishEpoch
  (`QueueInv`).
- `EpochDispatcher_proofs`: the same three for the engine under the dispatcher
  (`DispatcherTypeCorrect`, `DispatchedEpochsAreSound`, `DispatcherImplementsStore`; the
  dispatcher's steps are not steps of `EngineNext`, so they are proved again from the
  engine's lemmas), and `ActiveEpochsAreCommitted`. Type correctness needs `PermitInv`, that
  the permits not free are the tasks between acquiring one and ending. `ActiveIsCommitted`
  needs `EvictInv`: where a task is in the engine's API follows from where it is itself
  (`ClientsAt`), a queued command is the one its sender awaits, an entry in progress is
  of the task that was assigned its key, and at most one task is at work on an epoch, whose
  table the Receive Task does not drop meanwhile. `DispatchedRepliesAreOwed` carries
  `RepliesAreOwed` over, `NoCallOpen` saying which tasks have no call in the engine.
  `DrainIsWokenUp`: `DrainInv` says that an epoch is Loading only while a task works on it that
  has yet to settle its phase and then notify, also when an epoch is assigned twice. It says
  of `wait_for_drain` what the code does, which is to count epochs that are Loading: a
  load marked Evicting is not waited for, although the comment (`runtime_dispatcher.rs:162`)
  speaks of all in-flight loads.
- `EpochLoads_proofs`: `LoadsReportTheirRows`, that a load that ends well reports exactly
  the rows its stream yielded. `RowInv` orders the commands of a load in the channel,
  puts what an earlier load of the epoch left there before the next load's StartEpoch,
  and has a running total along the channel (`Given`) that begins at what the entry
  holds and ends at what the stream has yielded.
- `Queries_proofs`: `LoadsGetTheirRows`, that what a load has received is all its source
  had when it ends well. `SourceInv` accounts for every row fetched (received, in the
  channel, in the builder), in order. `QueriesAreCounted`, that the JDBC client's `active` is the
  number of its running tasks on every path, and that permits bound the Flight SQL queries.

The control plane:

- `CpSession_proofs`: `NoSilentEnd` and `DisconnectedStays`. Neither property is
  inductive. `EndInv` adds why they hold: no task exists while `start` still publishes
  its own statuses; a task past its select loop has seen or fired the token; and
  once the token is fired, either Disconnected is published or the task that fired
  it is about to publish it. `SessionTypeCorrect` needs that nothing is in the gRPC
  channel before the registration, so that it always finds room (`SessionInv`).
  `ReportsStayInOrder`: the turns of an epoch's reports (reconciled, in progress, ended)
  never go back along the wire, the two channels and the Send Task between them.
  `TurnInv` divides the turns among the four and bounds them by the next turn the epoch
  can be reported in; `InboxInv` and `SendingInv` say that an assignment comes once and
  that one reporter at a time speaks for an epoch.

Queries:

- `Cluster_proofs`: `FailedLevelIsCancelled` (from `Marked`, that the running level's stages
  are marked Running until the cancellation); `AnswersAreOfThisRun` (from `AnswerInv`: levels
  before the current one are done and those after it at rest, and a future has run and
  fed the workers it has passed); `RepliesReachTheirFuture`, that a job whose reply is
  awaited is the one its future submitted last, so that the reply of an orphan of an
  earlier attempt or execution reaches no future. `WaitsAreAttended` (its invariant,
  `Attended`, is inductive with the types): a future without a reply has a job that owes it
  one; from it `ExecutionNeverStuck`. `PlansAssumption` is what `LevelsAreComplete` (below)
  shows of `compute_execution_levels`.
- `Flight_proofs`: `StageTypeCorrect` (with exclusive connections), `InputsAreOwn`
  and `FetchesKeepResults`. `StageInv` adds that a task holds a connection exactly
  between obtaining it and returning, starts with nothing registered, and owns what
  it registered as long as it holds the connection. `ServiceImplementsWorker` is the
  refinement of `StageWorker`, one lemma for the steps of a call and one for the rest:
  the answer and the result change in one step, and the steps of blocking tasks,
  connections and handles are stutters. `NothingLeaks` follows from `HandlesAreCalls` (an entry of
  `active_stages` is of a call for that stage which has yet to remove it).
  `PoolConnectsOnce`, for any callers, tasks, workers and limits: `PoolInv` says that the queue
  of a slot holds only callers that have or await it, once each, and that a caller past
  `lock` has its slot until it gives it up; so no eviction or removal, all of which lock the
  slot, and no other caller comes between finding it empty and filling it. That `try_lock` fails
  on a slot somebody has is what the argument needs of the walks, and not what they count.
  `PoolStuckOnlyByGuard` adds `InLine`, that a caller waiting for a slot is in its queue: when
  nobody can move, all threads taken are blocked in `entry()`, so somebody keeps the guard and
  awaits a slot, and the slot's owner can only be waiting for a thread, which is `GuardCircle`.
  `Moves` spells out the guards of `CallerStep`, as ENABLED is out of the prover's reach.
- `Pipeline_proofs`: `PipelinedSuccessIsWhole`, for every tree of stages and all
  capacities. The invariant accounts for every batch of a stage (still to be sent, in
  its stream, in the forwarder, in the channel, or read), says that an input a stage
  has finished with was closed and drained, and that what the coordinator has awaited
  ended well. `PipelineNeverStuck`: the last stage that has not finished can move, has batches
  for the collector, or is unblocked (its reader is gone or its channel has room);
  and an unblocked stage can move or waits for an earlier unblocked one, so
  the first of these can move.
  `LeftAreInputs` says that what a stage has left to read are inputs of its own. And of
  the plans themselves, `LevelsAreComplete`: every sequence of levels that
  `compute_execution_levels` can build for a plan whose edges go to later stages (as the
  cutter's do, which `PlanIsWired` checks) has each stage once, after its sources, since the
  first stage in no level would be ready; and `PlansSurviveTheWire`: decoding an encoded plan
  gives the plan, for any number of stages, inputs and edges.
- `Queries_proofs`: `CleanEnds`, for any number of queries, permits, connections
  and channel sizes: an error either task has reported is in the channel of a client
  still reading, and the supervisor is done only after the blocking task ended well.
  `IntersectionKeeps` for all dates, placeholders and parameter
  values; `UnionCovers` for ranges without placeholders (with them it is false: see
  below); `PointHoldsItsDay`. `RangesKeepRows` and `PrunedScansAreExact` put these together for
  WHERE clauses of any depth: the analysis is a function on a set of trees that satisfies
  `AnalyzeExpr` at every node (`IsAnalysis`), the meaning one that satisfies AND, OR,
  parentheses and the comparisons (`IsMeaning`) and is free elsewhere, and a clause of least
  height that loses a row is refuted (`NodeKeepsRows`). The hypothesis `WithinReach` is
  exact about what the code does not handle: a placeholder as an inclusive upper bound or
  under an OR, and `>` with a literal on timestamps; and rows lie between the widest dates.
  `RangesAreReferred`, by the same argument: a clause from which a range is taken counts for
  admission as well. `StableEpochsStayFound`, that an epoch that was committed
  throughout a refresh is found by every time range it overlaps; `SnapshotInv` follows
  the refresh from the snapshot to the published index, in which every epoch that stayed
  has exactly one place.

Only model-checked: the liveness properties (`EveryCallReturns`, `LoadsEnd`,
`DrainReturns`, `DeadStreamEndsProcess`, `CompletedIsDelivered`, `ResourcesReturn`,
`CallsReturnOrCircle`, `PipelineWindsDown`, `QueriesReturnPermits`, `SourcesWindDown`,
`ExecutionsEnd`), since fairness is outside the prover; and, as whole statements, what speaks
of the planner and the rewriting (`AnswersAreExact`, `ColocatedQueriesSucceed`, `PlanIsWired`,
`PrunedAnswersAreExact`, `BoundedQueriesAreAdmitted`), whose operators are recursive over
statement trees, which the prover does not take. The step of those recursions on a WHERE
clause is proved about (`PrunedScansAreExact`, `RangesAreReferred`), and so are the levels
and the wire format (`LevelsAreComplete`, `PlansSurviveTheWire`), two of the conjuncts of
`PlanIsWired`; subqueries, CTEs, joins and the planner's choices are not. Every other property
of a passing run is a theorem.

## Known gaps

What modelling brought to light and no run states as a violation. Those on the
hazard list are there with their line and a note.

Loading and the control plane:

- The scan macro is written from a list read earlier: two changes of one dataset can
  leave it reading the older list.
- The Receive Task runs before `init_sender`, so a load task may find no sender to
  report with (`runtime_dispatcher.rs:88`).
- The JDBC client's shutdown can miss a query that has passed the closing test and not
  yet been counted.

Flight service and query engine:

- `cancel_query` does not reach SQL that is running: by then the stage has left
  `active_stages` (`service.rs:245`, `:724`).
- An input without batches is not registered; a table of that name that an earlier,
  failed stage left on the connection is then read (`service.rs:651-665`).
- A time-out's interrupt may hit the next holder of the connection. A client that keeps
  the channel full for five seconds gets a clean, truncated stream.

Rewriting:

- One range per dataset is applied to every reference (subqueries, CTEs, self-joins,
  where the last alias wins); a CTE with the name of a dataset is replaced by its macro.
- The union of a literal and a placeholder bound keeps the literal; `<=`, `=` and `>` with
  a placeholder do not advance the day. `dt > 'day'` on a timestamp loses the rest of that
  day; rows with a NULL date, and 9999-12-31, are out of every range.
- Subqueries inside CASE are discovered and not rewritten. Queries over Flight skip
  admission.

Planning and exchange:

- Replicated tables under a gather, a window, a global aggregate, a union or a cross join,
  and outer joins whose preserved side is broadcast or replicated, repeat rows. UNION ALL
  over tables on different workers, and joins of a grouped subquery that are broadcast
  instead of shuffled, lose rows.
- DISTINCT and the parentheses of nested EXCEPTs are lost; named windows are ignored when
  the partitioning is chosen; an aggregate inside a function call is planned as a
  projection, one row per worker; an ORDER BY column that is not selected stays in the
  result of an aggregate.
- Over Flight, a broadcast fetches its first source only, and hash shuffles fail because
  their tickets name partitions. ORDER BY, LIMIT and set operations fail on tables that
  only another worker holds. An empty partitioned output has no schema.
- A batch found skewed keeps one row per partition (`skew.rs:765`), although the test of the
  partitioning (`skew.rs:882`) expects every row; its batch is too small to be examined.
- Int32 and Int64 keys of equal value hash apart.

Coordinator, metadata and pool:

- A cancellation by the caller is not seen by stages submitted later, and a late one hits
  another execution with the same id. Statuses stay Running after a time-out.
- An older refresh may overwrite a newer one; answers are stale after a drop;
  `InMemoryMetadata` is keyed by the epoch's id alone.
- A result carries the ids of its query and stage and nothing of the execution that made it:
  one that an orphan of an earlier execution of the same id stores late is taken for this
  execution's. `AnsweredFromThisRun` says that every stage ran before its output was read, not
  that the output read is the one it made.
- Over Flight every failure of a stage on its worker, SQL errors and cancellations included,
  comes back as `WorkerUnavailable` (`flight.rs:446-458`), whose text `is_retryable_error` takes for
  a transient one, although its comment calls such errors non-retryable
  (`coordinator.rs:1757-1758`). An answer that breaks off in the middle (`flight.rs:480`) is
  retried or not according to the words of the error.
- Overlapping calls overrun the pool's cap: each counts the connections before any of them has
  connected, and misses the slots that others have.
- `GuardCircle`, which `pool_deadlock` reaches within one level, needs three calls to workers of
  one shard of the map, one of them failed; with a task for each it takes as many blocked calls
  as the runtime has threads.

## Not modelled

- Branches that cannot be taken by the process as it is wired: the Send Task's
  closed outgoing channel (main holds a sender), the closed status channel in main
  (`NeverSilentlyGone` shows it is not reached before Disconnected is seen).
- A restart: nothing survives one.
- Read-only calls (metrics, `list_flights`, schemas, the catalogue), configuration, logging,
  conversions of protobuf and Arrow values, generated code and the test support in
  `ldp/testing`.
- Code nothing uses: `executor/result_store.rs` (the Flight service has a store of its own),
  `adaptive.rs`, and the connection pool in `engine/duckdb/pool.rs`. Metrics and the
  performance analysis, which runs after a query's result is complete, decide nothing.
- The limits of a stage (`monitor.rs`): a stage over its limits is one more stage that fails.
- Expressions beyond those `components` names: the planner and the rewriting are checked on
  statement trees of comparisons, counts, joins, set operations, windows and CTEs.
- `Coordinator` is not composed with `StageService`: its workers are written after
  `StageWorker`, which the service is proved to implement, and the two are not one
  specification.
