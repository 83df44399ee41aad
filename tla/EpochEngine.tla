----------------------------- MODULE EpochEngine -----------------------------
(***************************************************************************)
(* The in-memory DuckDB storage engine of worker-storage: one actor thread  *)
(* (engine_main) that owns the epoch tables and serves a bounded FIFO        *)
(* command channel, and the asynchronous API procedures of                   *)
(* MemoryDuckDBEngine (create_epoch_table, drop_epoch_table,                 *)
(* update_dataset_macro, shutdown) that callers run against it.              *)
(*                                                                         *)
(* A procedure is split at every await: each send into the channel, each     *)
(* reply, each batch of the source stream and the blocking macro creation    *)
(* are steps of their own.  Row contents are abstracted to row counts.       *)
(***************************************************************************)
EXTENDS Naturals, Sequences, FiniteSets

CONSTANTS
  Keys,             \* epoch keys, dataset_id__epoch_id; one table per key
  Datasets,
  DatasetOf,        \* the dataset of each key
  Prefixed,         \* per dataset, the keys that start with dataset_id__
  Clients,          \* tasks that call the engine
  NoClient,         \* in_progress has no entry for the key
  ChannelCapacity,  \* config.channel_capacity
  FlushRows,        \* config.flush_rows_threshold
  MaxBatches,       \* bound: batches a source stream may yield
  BatchRows,        \* bound: row counts a batch may have
  Faults            \* operations that may fail for reasons outside the worker

ASSUME EngineAssumption ==
  /\ Keys # {}
  /\ DatasetOf \in [Keys -> Datasets]
  /\ Prefixed \in [Datasets -> SUBSET Keys]
  /\ \A k \in Keys : k \in Prefixed[DatasetOf[k]]
  /\ NoClient \notin Clients
  /\ ChannelCapacity \in Nat \ {0}
  /\ FlushRows \in Nat
  /\ MaxBatches \in Nat \ {0}
  /\ BatchRows \subseteq Nat
  /\ Faults \subseteq {"source", "stream", "ddl", "flush", "drop", "macro"}

\* State of the actor thread and of the DuckDB instance it writes to.
VARIABLES
  engineUp,       \* engine_main is running and owns the receiving end
  com,            \* the mpsc channel of EngineCom commands
  tables,         \* keys whose physical table exists in DuckDB
  in_progress,    \* per key, the client whose done sender the entry holds
  pending_rows,   \* per key, rows of the buffered batches (pending_batches)
  total_rows,     \* per key, rows flushed to the table
  first_error,    \* per key, a flush has failed
  committed,      \* keys of committed epochs
  meta_rows,      \* per committed key, TableMetadata.total_rows
  schemas,        \* dataset_schemas: datasets whose schema is remembered
  macro           \* per dataset, the keys its scan macro unions

\* State of the API procedure each client is running.
VARIABLES
  cpc,            \* where the procedure is
  carg,           \* the key it works on
  reply,          \* the oneshot it waits for, and then its result
  done_rows,      \* total_rows of the TableMetadata its create was sent
  batch,          \* rows of the batch in hand
  nsent,          \* batches taken from the source stream
  streamed,       \* rows handed to the engine by the current create
  listed          \* the epochs the last ListEpoch reply named

epochVars  == <<tables, in_progress, pending_rows, total_rows,
                first_error, committed, meta_rows, schemas>>
sourceVars == <<batch, nsent, streamed>>
clientVars == <<cpc, carg, reply, done_rows, batch, nsent, streamed, listed>>
engineVars == <<engineUp, com, tables, in_progress, pending_rows,
                total_rows, first_error, committed, meta_rows, schemas, macro,
                cpc, carg, reply, done_rows, batch, nsent, streamed, listed>>

-----------------------------------------------------------------------------

Ops     == {"StartEpoch", "IngestBatch", "FinishEpoch", "DropEpoch",
            "ListEpoch", "GetDatasetSchema", "Shutdown"}
Command == [op : Ops, key : Keys, from : Clients, rows : Nat]

\* Inside create_epoch_table the client holds the receiver of its done oneshot.
CreateAt == {"source", "start", "ingest", "stream", "finish", "awaitDone"}
SendAt   == {"start", "ingest", "finish", "drop", "list", "schema", "shutdown"}
AwaitAt  == {"awaitDone", "awaitReply", "awaitList", "awaitSchema"}
ClientAt == {"idle", "returned", "macro"} \cup CreateAt \cup SendAt \cup AwaitAt
Replies  == {"none", "ok", "err"}

TypeOK ==
  /\ engineUp \in BOOLEAN
  /\ com \in Seq(Command)
  /\ tables \subseteq Keys
  /\ in_progress \in [Keys -> Clients \cup {NoClient}]
  /\ pending_rows \in [Keys -> Nat]
  /\ total_rows \in [Keys -> Nat]
  /\ first_error \in [Keys -> BOOLEAN]
  /\ committed \subseteq Keys
  /\ meta_rows \in [Keys -> Nat]
  /\ schemas \subseteq Datasets
  /\ macro \in [Datasets -> SUBSET Keys]
  /\ cpc \in [Clients -> ClientAt]
  /\ carg \in [Clients -> Keys]
  /\ reply \in [Clients -> Replies]
  /\ done_rows \in [Clients -> Nat]
  /\ batch \in [Clients -> Nat]
  /\ nsent \in [Clients -> Nat]
  /\ streamed \in [Clients -> Nat]
  /\ listed \in [Clients -> SUBSET Keys]

EngineInit ==
  /\ engineUp = TRUE
  /\ com = <<>>
  /\ tables = {}
  /\ in_progress = [k \in Keys |-> NoClient]
  /\ pending_rows = [k \in Keys |-> 0]
  /\ total_rows = [k \in Keys |-> 0]
  /\ first_error = [k \in Keys |-> FALSE]
  /\ committed = {}
  /\ meta_rows = [k \in Keys |-> 0]
  /\ schemas = {}
  /\ macro = [d \in Datasets |-> {}]
  /\ cpc = [c \in Clients |-> "idle"]
  /\ carg = [c \in Clients |-> CHOOSE k \in Keys : TRUE]
  /\ reply = [c \in Clients |-> "none"]
  /\ done_rows = [c \in Clients |-> 0]
  /\ batch = [c \in Clients |-> 0]
  /\ nsent = [c \in Clients |-> 0]
  /\ streamed = [c \in Clients |-> 0]
  /\ listed = [c \in Clients |-> {}]

-----------------------------------------------------------------------------
(***************************************************************************)
(* The API procedures, run by client c.                                    *)
(***************************************************************************)

Goto(c, at) == cpc' = [cpc EXCEPT ![c] = at]

Return(c, r) ==
  /\ Goto(c, "returned")
  /\ reply' = [reply EXCEPT ![c] = r]

\* tx.send(..).await: waits for room, fails once the actor has dropped the
\* receiver.
Send(c, o, n) ==
  /\ engineUp
  /\ Len(com) < ChannelCapacity
  /\ com' = Append(com, [op |-> o, key |-> carg[c], from |-> c, rows |-> n])

\* The caller enters a procedure whose first step is at.
Call(c, k, at) ==
  /\ Goto(c, at)
  /\ carg' = [carg EXCEPT ![c] = k]
  /\ reply' = [reply EXCEPT ![c] = "none"]

BeginCreate(c, k) ==
  /\ Call(c, k, "source")
  /\ done_rows' = [done_rows EXCEPT ![c] = 0]
  /\ nsent' = [nsent EXCEPT ![c] = 0]
  /\ streamed' = [streamed EXCEPT ![c] = 0]
  /\ UNCHANGED <<engineUp, com, epochVars, macro, batch, listed>>

BeginDrop(c, k) ==
  /\ Call(c, k, "drop")
  /\ UNCHANGED <<engineUp, com, epochVars, macro, done_rows, sourceVars, listed>>

BeginMacro(c, k) ==
  /\ Call(c, k, "list")
  /\ UNCHANGED <<engineUp, com, epochVars, macro, done_rows, sourceVars, listed>>

BeginShutdown(c) ==
  /\ Call(c, carg[c], "shutdown")
  /\ UNCHANGED <<engineUp, com, epochVars, macro, done_rows, sourceVars, listed>>

\* load_epoch fails to build the adapter or to open the stream, or the stream
\* ends or fails before its first batch.
SourceFails(c) ==
  /\ "source" \in Faults
  /\ cpc[c] = "source"
  /\ Return(c, "err")
  /\ UNCHANGED <<engineUp, com, epochVars, macro, carg, done_rows, sourceVars,
                 listed>>

FirstBatch(c) ==
  /\ cpc[c] = "source"
  /\ \E n \in BatchRows : batch' = [batch EXCEPT ![c] = n]
  /\ Goto(c, "start")
  /\ nsent' = [nsent EXCEPT ![c] = 1]
  /\ UNCHANGED <<engineUp, com, epochVars, macro, carg, reply, done_rows,
                 streamed, listed>>

SendStart(c) ==
  /\ cpc[c] = "start"
  /\ Send(c, "StartEpoch", 0)
  /\ Goto(c, "ingest")
  /\ UNCHANGED <<engineUp, epochVars, macro, carg, reply, done_rows,
                 sourceVars, listed>>

SendIngest(c) ==
  /\ cpc[c] = "ingest"
  /\ Send(c, "IngestBatch", batch[c])
  /\ Goto(c, "stream")
  /\ streamed' = [streamed EXCEPT ![c] = @ + batch[c]]
  /\ batch' = [batch EXCEPT ![c] = 0]
  /\ UNCHANGED <<engineUp, epochVars, macro, carg, reply, done_rows, nsent,
                 listed>>

NextBatch(c) ==
  /\ cpc[c] = "stream"
  /\ nsent[c] < MaxBatches
  /\ \E n \in BatchRows : batch' = [batch EXCEPT ![c] = n]
  /\ nsent' = [nsent EXCEPT ![c] = @ + 1]
  /\ Goto(c, "ingest")
  /\ UNCHANGED <<engineUp, com, epochVars, macro, carg, reply, done_rows,
                 streamed, listed>>

\* The stream yields an error: "batch_result?" leaves create_epoch_table
\* without a FinishEpoch.
StreamFails(c) ==
  /\ "stream" \in Faults
  /\ cpc[c] = "stream"
  /\ Return(c, "err")
  /\ nsent' = [nsent EXCEPT ![c] = 0]
  /\ UNCHANGED <<engineUp, com, epochVars, macro, carg, done_rows, batch,
                 streamed, listed>>

StreamEnds(c) ==
  /\ cpc[c] = "stream"
  /\ Goto(c, "finish")
  /\ nsent' = [nsent EXCEPT ![c] = 0]
  /\ UNCHANGED <<engineUp, com, epochVars, macro, carg, reply, done_rows,
                 batch, streamed, listed>>

\* Mutant: try_send, whose error is not looked at when the channel is full.
TrySendFinish(c) ==
  /\ cpc[c] = "finish"
  /\ \/ Send(c, "FinishEpoch", 0)
     \/ engineUp /\ Len(com) = ChannelCapacity /\ UNCHANGED com
  /\ Goto(c, "awaitDone")
  /\ UNCHANGED <<engineUp, epochVars, macro, carg, reply, done_rows,
                 sourceVars, listed>>

SendFinish(c) ==
  /\ cpc[c] = "finish"
  /\ Send(c, "FinishEpoch", 0)
  /\ Goto(c, "awaitDone")
  /\ UNCHANGED <<engineUp, epochVars, macro, carg, reply, done_rows,
                 sourceVars, listed>>

\* drop_epoch_table, shutdown and the two round trips of
\* update_dataset_macro: one command, then its reply.
SendRequest(c) ==
  /\ \/ cpc[c] = "drop" /\ Send(c, "DropEpoch", 0) /\ Goto(c, "awaitReply")
     \/ cpc[c] = "list" /\ Send(c, "ListEpoch", 0) /\ Goto(c, "awaitList")
     \/ /\ cpc[c] = "schema"
        /\ Send(c, "GetDatasetSchema", 0)
        /\ Goto(c, "awaitSchema")
     \/ cpc[c] = "shutdown" /\ Send(c, "Shutdown", 0) /\ Goto(c, "awaitReply")
  /\ UNCHANGED <<engineUp, epochVars, macro, carg, reply, done_rows,
                 sourceVars, listed>>

\* The reply has arrived.  An empty list of epochs makes update_dataset_macro
\* ask for the dataset's schema before it writes the macro.
Receive(c) ==
  /\ cpc[c] \in AwaitAt
  /\ reply[c] # "none"
  /\ Goto(c, CASE cpc[c] = "awaitList" /\ listed[c] = {}  -> "schema"
               [] cpc[c] = "awaitList" /\ listed[c] # {}  -> "macro"
               [] cpc[c] = "awaitSchema"                   -> "macro"
               [] cpc[c] \in {"awaitDone", "awaitReply"}   -> "returned")
  /\ reply' = [reply EXCEPT ![c] = IF cpc[c] \in {"awaitList", "awaitSchema"}
                                     THEN "none" ELSE @]
  /\ UNCHANGED <<engineUp, com, epochVars, macro, carg, done_rows,
                 sourceVars, listed>>

\* Mutant: replies still queued when the actor stops are never dropped.
EngineClosedOnSend(c) ==
  /\ ~engineUp
  /\ cpc[c] \in SendAt
  /\ Return(c, "err")
  /\ nsent' = [nsent EXCEPT ![c] = 0]
  /\ batch' = [batch EXCEPT ![c] = 0]
  /\ UNCHANGED <<engineUp, com, epochVars, macro, carg, done_rows, streamed,
                 listed>>

\* "Engine channel closed" on a send, or the oneshot dropped unanswered with
\* the actor's state and queue.
EngineClosed(c) ==
  /\ ~engineUp
  /\ \/ cpc[c] \in SendAt
     \/ cpc[c] \in AwaitAt /\ reply[c] = "none"
  /\ Return(c, "err")
  /\ nsent' = [nsent EXCEPT ![c] = 0]
  /\ batch' = [batch EXCEPT ![c] = 0]
  /\ UNCHANGED <<engineUp, com, epochVars, macro, carg, done_rows, streamed,
                 listed>>

\* spawn_blocking: CREATE OR REPLACE MACRO over the epochs listed earlier; it
\* fails when no pooled connection is available or DuckDB refuses the DDL.
CreateMacro(c) ==
  /\ cpc[c] = "macro"
  /\ \/ /\ macro' = [macro EXCEPT ![DatasetOf[carg[c]]] = listed[c]]
        /\ Return(c, "ok")
     \/ /\ "macro" \in Faults \/ ~(listed[c] \subseteq tables)
        /\ Return(c, "err")
        /\ UNCHANGED macro
  /\ listed' = [listed EXCEPT ![c] = {}]
  /\ UNCHANGED <<engineUp, com, epochVars, carg, done_rows, sourceVars>>

-----------------------------------------------------------------------------
(***************************************************************************)
(* The actor: one command per step, in channel order.                      *)
(***************************************************************************)

InProgress(k) == in_progress[k] # NoClient

\* The actor takes the next command, which is an o.
Take(o) ==
  /\ engineUp
  /\ com # <<>>
  /\ Head(com).op = o
  /\ com' = Tail(com)

\* done.send(r): ignored when the caller has already left create_epoch_table.
Done(c, r) ==
  reply' = IF cpc[c] \in CreateAt THEN [reply EXCEPT ![c] = r] ELSE reply

\* Mutant: the entry is read, and stays in the map.
RemoveEntryNot(k) == UNCHANGED <<in_progress, pending_rows, total_rows, first_error>>

\* The entry of k leaves in_progress; its buffers go with it.
RemoveEntry(k) ==
  /\ in_progress' = [in_progress EXCEPT ![k] = NoClient]
  /\ pending_rows' = [pending_rows EXCEPT ![k] = 0]
  /\ total_rows' = [total_rows EXCEPT ![k] = 0]
  /\ first_error' = [first_error EXCEPT ![k] = FALSE]

AlreadyExists(k) == InProgress(k) \/ k \in committed

\* Mutant: CREATE TABLE IF NOT EXISTS.
NeverTaken(k) == FALSE

\* CREATE TABLE finds a table of that name.
NameTaken(k) == k \in tables

OnStartEpoch ==
  LET cmd == Head(com)
      k   == cmd.key
  IN /\ Take("StartEpoch")
     /\ \/ \* the epoch exists, or CREATE TABLE fails (as it does when a table
           \* of that name is still there)
           /\ AlreadyExists(k) \/ NameTaken(k) \/ "ddl" \in Faults
           /\ Done(cmd.from, "err")
           /\ UNCHANGED <<tables, in_progress, schemas>>
        \/ /\ ~AlreadyExists(k)
           /\ ~NameTaken(k)
           /\ tables' = tables \cup {k}
           /\ schemas' = schemas \cup {DatasetOf[k]}
           /\ in_progress' = [in_progress EXCEPT ![k] = cmd.from]
           /\ UNCHANGED reply
     /\ UNCHANGED <<engineUp, pending_rows, total_rows, first_error,
                    committed, meta_rows, macro, cpc, carg, done_rows,
                    sourceVars, listed>>

\* Mutant: the flushed batches stay in the buffer.
FlushedKeepsBuffer(k, n) ==
  /\ pending_rows' = [pending_rows EXCEPT ![k] = @ + n]
  /\ total_rows' = [total_rows EXCEPT ![k] = @ + pending_rows[k] + n]

\* The flush of k's buffer, n more rows included, succeeds.
Flushed(k, n) ==
  /\ pending_rows' = [pending_rows EXCEPT ![k] = 0]
  /\ total_rows' = [total_rows EXCEPT ![k] = @ + pending_rows[k] + n]

OnIngestBatch ==
  LET cmd == Head(com)
      k   == cmd.key
  IN /\ Take("IngestBatch")
     /\ \/ \* no such epoch, or a flush of it has already failed: discarded
           /\ ~InProgress(k) \/ first_error[k]
           /\ UNCHANGED <<pending_rows, total_rows, first_error>>
        \/ \* buffered below the threshold
           /\ InProgress(k) /\ ~first_error[k]
           /\ pending_rows[k] + cmd.rows < FlushRows
           /\ pending_rows' = [pending_rows EXCEPT ![k] = @ + cmd.rows]
           /\ UNCHANGED <<total_rows, first_error>>
        \/ \* buffered and flushed
           /\ InProgress(k) /\ ~first_error[k]
           /\ pending_rows[k] + cmd.rows >= FlushRows
           /\ Flushed(k, cmd.rows)
           /\ UNCHANGED first_error
        \/ \* the flush fails: the error is kept for FinishEpoch
           /\ "flush" \in Faults
           /\ InProgress(k) /\ ~first_error[k]
           /\ pending_rows[k] + cmd.rows >= FlushRows
           /\ pending_rows' = [pending_rows EXCEPT ![k] = 0]
           /\ first_error' = [first_error EXCEPT ![k] = TRUE]
           /\ UNCHANGED total_rows
     /\ UNCHANGED <<engineUp, tables, in_progress, committed, meta_rows,
                    schemas, macro, clientVars>>

\* The stream held no row.
EmptyEpoch(k) == total_rows[k] + pending_rows[k] = 0

OnFinishEpoch ==
  LET cmd  == Head(com)
      k    == cmd.key
      c    == in_progress[k]
      rows == total_rows[k] + pending_rows[k]
  IN /\ Take("FinishEpoch")
     /\ \/ /\ ~InProgress(k)
           /\ UNCHANGED <<in_progress, pending_rows, total_rows,
                          first_error, committed, meta_rows, reply, done_rows>>
        \/ \* first_error, a failed last flush, an empty epoch or a failed
           \* schema query
           /\ InProgress(k)
           /\ first_error[k] \/ EmptyEpoch(k) \/ "flush" \in Faults
           /\ RemoveEntry(k)
           /\ Done(c, "err")
           /\ UNCHANGED <<committed, meta_rows, done_rows>>
        \/ /\ InProgress(k)
           /\ ~first_error[k]
           /\ ~EmptyEpoch(k)
           /\ RemoveEntry(k)
           /\ committed' = committed \cup {k}
           /\ meta_rows' = [meta_rows EXCEPT ![k] = rows]
           /\ Done(c, "ok")
           /\ done_rows' = IF cpc[c] \in CreateAt
                             THEN [done_rows EXCEPT ![c] = rows] ELSE done_rows
     /\ UNCHANGED <<engineUp, tables, schemas, macro, cpc, carg, sourceVars,
                    listed>>

CannotDrop(k) == InProgress(k) \/ k \notin committed

\* The epoch leaves committed before DROP TABLE runs, and stays out of it when
\* DROP TABLE fails.
OnDropEpoch ==
  LET cmd == Head(com)
      k   == cmd.key
  IN /\ Take("DropEpoch")
     /\ \/ /\ CannotDrop(k)
           /\ reply' = [reply EXCEPT ![cmd.from] = "err"]
           /\ UNCHANGED <<tables, committed, meta_rows>>
        \/ /\ ~CannotDrop(k)
           /\ committed' = committed \ {k}
           /\ meta_rows' = [meta_rows EXCEPT ![k] = 0]
           /\ \/ /\ tables' = tables \ {k}
                 /\ reply' = [reply EXCEPT ![cmd.from] = "ok"]
              \/ /\ "drop" \in Faults
                 /\ reply' = [reply EXCEPT ![cmd.from] = "err"]
                 /\ UNCHANGED tables
     /\ UNCHANGED <<engineUp, in_progress, pending_rows, total_rows,
                    first_error, schemas, macro, cpc, carg, done_rows,
                    sourceVars, listed>>

OnListEpochs ==
  LET cmd == Head(com)
  IN /\ Take("ListEpoch")
     /\ listed' = [listed EXCEPT ![cmd.from] =
                     committed \cap Prefixed[DatasetOf[cmd.key]]]
     /\ reply' = [reply EXCEPT ![cmd.from] = "ok"]
     /\ UNCHANGED <<engineUp, epochVars, macro, cpc, carg, done_rows,
                    sourceVars>>

\* An Option<Schema>: the macro falls back to a dummy column without one.
OnGetDatasetSchema ==
  LET cmd == Head(com)
  IN /\ Take("GetDatasetSchema")
     /\ reply' = [reply EXCEPT ![cmd.from] =
                    IF DatasetOf[cmd.key] \in schemas THEN "ok" ELSE "err"]
     /\ UNCHANGED <<engineUp, epochVars, macro, cpc, carg, done_rows,
                    sourceVars, listed>>

\* Every in-progress epoch is failed, the loop ends, and the queue is dropped
\* with the receiving end of the channel.
OnShutdown ==
  LET cmd     == Head(com)
      aborted == {in_progress[k] : k \in {j \in Keys : InProgress(j)}}
  IN /\ engineUp
     /\ com # <<>>
     /\ cmd.op = "Shutdown"
     /\ com' = <<>>
     /\ engineUp' = FALSE
     /\ in_progress' = [k \in Keys |-> NoClient]
     /\ pending_rows' = [k \in Keys |-> 0]
     /\ total_rows' = [k \in Keys |-> 0]
     /\ first_error' = [k \in Keys |-> FALSE]
     /\ reply' = [c \in Clients |->
                    IF c = cmd.from THEN "ok"
                    ELSE IF c \in aborted /\ cpc[c] \in CreateAt THEN "err"
                    ELSE reply[c]]
     /\ UNCHANGED <<tables, committed, meta_rows, schemas, macro, cpc, carg,
                    done_rows, sourceVars, listed>>

-----------------------------------------------------------------------------
(***************************************************************************)
(* The engine on its own, with callers that make any calls in any order.   *)
(* A client creates at most one epoch table: the oneshot of an abandoned   *)
(* create must not be mistaken for that of a later one.                    *)
(***************************************************************************)

ClientStep(c) ==
  \/ SourceFails(c) \/ FirstBatch(c) \/ SendStart(c) \/ SendIngest(c)
  \/ NextBatch(c) \/ StreamFails(c) \/ StreamEnds(c) \/ SendFinish(c)
  \/ SendRequest(c) \/ Receive(c) \/ EngineClosed(c) \/ CreateMacro(c)

ActorStep ==
  \/ OnStartEpoch \/ OnIngestBatch \/ OnFinishEpoch
  \/ OnDropEpoch \/ OnListEpochs \/ OnGetDatasetSchema

AnyCall(c) ==
  /\ cpc[c] \in {"idle", "returned"}
  /\ \/ \E k \in Keys : cpc[c] = "idle" /\ BeginCreate(c, k)
     \/ \E k \in Keys : BeginDrop(c, k)
     \/ \E k \in Keys : BeginMacro(c, k)
     \/ BeginShutdown(c)

EngineNext ==
  \/ \E c \in Clients : AnyCall(c) \/ ClientStep(c)
  \/ ActorStep
  \/ OnShutdown

\* The actor thread and the callers' tasks keep running, and a source stream
\* eventually yields, ends or fails.  tokio's channel serves waiting senders in
\* FIFO order, hence strong fairness for a step that waits for room.
EngineFairness ==
  /\ \A c \in Clients : SF_engineVars(ClientStep(c))
  /\ WF_engineVars(ActorStep \/ OnShutdown)

EngineSpec == EngineInit /\ [][EngineNext]_engineVars /\ EngineFairness

-----------------------------------------------------------------------------
(***************************************************************************)
(* Properties.                                                             *)
(***************************************************************************)

\* An epoch is never both being ingested and committed, and both kinds have a
\* physical table: what on_list_epochs hands to the scan macro, and what a
\* flush appends to, exists (on_start_epoch, on_finish_epoch, on_drop_epoch).
EpochsHaveTables ==
  /\ \A k \in Keys : InProgress(k) => k \notin committed
  /\ \A k \in Keys : InProgress(k) \/ k \in committed => k \in tables

\* on_finish_epoch never commits an empty epoch, whatever batches of zero rows
\* the stream held and whichever caller's FinishEpoch it serves.
CommittedNotEmpty == \A k \in committed : meta_rows[k] > 0

\* The rows a successful create_epoch_table reports are those of its own
\* stream: no other caller's batches, and all of its own.
RowsAreTheLoads ==
  \A c \in Clients : done_rows[c] # 0 => done_rows[c] = streamed[c]

\* An epoch as the engine's callers see it.
EpochState(k) ==
  IF k \in committed THEN "visible"
  ELSE IF InProgress(k) THEN "loading"
  ELSE IF k \in tables THEN "wreck" ELSE "fresh"

Store == INSTANCE EpochStore WITH state <- [k \in Keys |-> EpochState(k)],
                                  size <- meta_rows

\* The engine implements EpochStore: through channel, buffers, failed flushes
\* and shutdown an epoch is loaded once, becomes visible with all its rows at
\* once, keeps them, and one the engine has failed is never taken up again.
ImplementsStore == Store!StoreSpec

\* The n-th command of the queue is one of ops, sent by c.
QueuedAt(n, c, ops) == com[n].from = c /\ com[n].op \in ops

\* The commands whose handler answers a caller that waits at at.
AnsweredBy(at) ==
  CASE at = "awaitDone"   -> {"FinishEpoch"}
    [] at = "awaitReply"  -> {"DropEpoch", "Shutdown"}
    [] at = "awaitList"   -> {"ListEpoch"}
    [] at = "awaitSchema" -> {"GetDatasetSchema"}

\* No caller waits for a reply that nobody owes it: while the actor runs, the
\* command that answers is still in the channel.  A create's is answered
\* through the entry of its key, which only its own StartEpoch makes and a
\* FinishEpoch of any caller removes: the entry is there and holds this
\* caller's sender, or the StartEpoch is queued before the FinishEpoch
\* (create_epoch_table, on_start_epoch, on_finish_epoch).
NoReplyIsLost ==
  \A c \in Clients :
    engineUp /\ cpc[c] \in AwaitAt /\ reply[c] = "none" =>
      \E n \in DOMAIN com :
        /\ QueuedAt(n, c, AnsweredBy(cpc[c]))
        /\ cpc[c] = "awaitDone" =>
             \/ in_progress[com[n].key] = c
             \/ \E m \in 1 .. n - 1 : QueuedAt(m, c, {"StartEpoch"}) /\ com[m].key = com[n].key

\* Every engine call returns, also when the engine is shut down under it.
EveryCallReturns ==
  \A c \in Clients :
    cpc[c] \notin {"idle", "returned"} ~> cpc[c] = "returned"

=============================================================================
