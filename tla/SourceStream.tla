---------------------------- MODULE SourceStream ----------------------------
(***************************************************************************)
(* Reading a StarRocks source (loader/starrocks/adbc_client.rs and         *)
(* jdbc_client.rs).                                                        *)
(*                                                                         *)
(* A load asks a client for a stream.  The Flight SQL client takes a       *)
(* permit and forwards the batches of every endpoint; the JDBC client      *)
(* refuses when it is closing, counts the query, and collects rows into    *)
(* batches of its own.  Either way a task fills a bounded channel that the *)
(* load reads until it closes; an error of the task is logged, and the     *)
(* channel closes as it does at the end.  shutdown_with_timeout closes the *)
(* JDBC client while queries run.                                          *)
(***************************************************************************)
EXTENDS Naturals, FiniteSets, Sequences

CONSTANTS
    AdbcLoads, JdbcLoads,  \* the loads that use each client
    MaxConcurrency,        \* permits of the Flight SQL client
    BatchSize,             \* rows of a JDBC batch, and batches of its channel
    MaxRows                \* rows a source has, at most

ASSUME SourceAssumption == MaxRows \in Nat

Loads == AdbcLoads \cup JdbcLoads

VARIABLES
    reads,     \* the task of a load: "none", "checked", "run", "send", "last",
               \* "ok", "err" or "refused"
    rows,      \* rows its source has
    fetched,   \* rows the task has taken from it
    builder,   \* of which not yet in a batch
    queue,     \* the channel: batches, by their number of rows
    received,  \* rows the load has
    loader,    \* "reading", "ended" or "gone"
    active,    \* active_query_count
    closing,   \* is_closing
    shutdown   \* shutdown_with_timeout: "none", "waiting" or "returned"

sourceVars == <<reads, rows, fetched, builder, queue, received, loader,
                active, closing, shutdown>>

SourceInit ==
    /\ reads = [l \in Loads |-> "none"]
    /\ rows \in [Loads -> 0..MaxRows]
    /\ fetched = [l \in Loads |-> 0]
    /\ builder = [l \in Loads |-> 0]
    /\ queue = [l \in Loads |-> <<>>]
    /\ received = [l \in Loads |-> 0]
    /\ loader = [l \in Loads |-> "reading"]
    /\ active = 0 /\ closing = FALSE /\ shutdown = "none"

closeVars == <<closing, shutdown>>

(* A task asks its source for rows, or is in the send of a batch, of which *)
(* "last" is the one after the end of the result.                          *)
Running == {"run", "send", "last"}

----------------------------------------------------------------------------
(* The Flight SQL client: a permit, then the query in a blocking task. *)
AdbcQuery(l) ==
    /\ l \in AdbcLoads /\ reads[l] = "none"
    /\ Cardinality({k \in AdbcLoads : reads[k] \in Running}) < MaxConcurrency
    /\ reads' = [reads EXCEPT ![l] = "run"]
    /\ UNCHANGED <<rows, fetched, builder, queue, received, loader, active, closeVars>>

(* The JDBC client: is_closing is looked at under the lock, the query is   *)
(* counted after it was released.                                          *)
JdbcCheck(l) ==
    /\ l \in JdbcLoads /\ reads[l] = "none"
    /\ reads' = [reads EXCEPT ![l] = IF closing THEN "refused" ELSE "checked"]
    /\ UNCHANGED <<rows, fetched, builder, queue, received, loader, active, closeVars>>

JdbcQuery(l) ==
    /\ reads[l] = "checked"
    /\ active' = active + 1
    /\ reads' = [reads EXCEPT ![l] = "run"]
    /\ UNCHANGED <<rows, fetched, builder, queue, received, loader, closeVars>>

(* Mutant: only a query that succeeded is taken off the count. *)
UncountedOnError(l, how) ==
    /\ reads' = [reads EXCEPT ![l] = how]
    /\ active' = IF l \in JdbcLoads /\ how = "ok" THEN active - 1 ELSE active

(* The task ends; QueryCountGuard takes a JDBC query off the count. *)
ReadEnds(l, how) ==
    /\ reads' = [reads EXCEPT ![l] = how]
    /\ active' = IF l \in JdbcLoads THEN active - 1 ELSE active

(* A place in the channel.  The Flight SQL client's holds a hundred. *)
Room(l) == Len(queue[l]) < BatchSize

(* run_query_blocking: a batch of some endpoint is read, and sent. *)
FetchBatch(l) ==
    /\ l \in AdbcLoads /\ reads[l] = "run"
    /\ \E n \in 1..(rows[l] - fetched[l]) :
         /\ fetched' = [fetched EXCEPT ![l] = @ + n]
         /\ builder' = [builder EXCEPT ![l] = @ + n]
    /\ reads' = [reads EXCEPT ![l] = "send"]
    /\ UNCHANGED <<rows, queue, received, loader, active, closeVars>>

(* run_query_async: a row goes into the builders, and a full batch is sent *)
(* before the next row is fetched.                                         *)
FetchRow(l) ==
    /\ l \in JdbcLoads /\ reads[l] = "run" /\ fetched[l] < rows[l]
    /\ fetched' = [fetched EXCEPT ![l] = @ + 1]
    /\ builder' = [builder EXCEPT ![l] = @ + 1]
    /\ reads' = [reads EXCEPT ![l] = IF builder[l] + 1 >= BatchSize THEN "send" ELSE "run"]
    /\ UNCHANGED <<rows, queue, received, loader, active, closeVars>>

SendRows(l) ==
    /\ reads[l] \in {"send", "last"} /\ loader[l] # "gone" /\ Room(l)
    /\ queue' = [queue EXCEPT ![l] = Append(@, builder[l])]
    /\ builder' = [builder EXCEPT ![l] = 0]
    /\ IF reads[l] = "last" THEN ReadEnds(l, "ok")
       ELSE reads' = [reads EXCEPT ![l] = "run"] /\ UNCHANGED active
    /\ UNCHANGED <<rows, fetched, received, loader, closeVars>>

(* Mutant: the rows of a last, partial batch are left in the builders. *)
LastBatchLost(l) ==
    /\ reads[l] = "run" /\ fetched[l] = rows[l]
    /\ ReadEnds(l, "ok")
    /\ UNCHANGED <<rows, fetched, builder, queue, received, loader, closeVars>>

(* The result is at its end: what is left in the builders is sent. *)
SourceEnds(l) ==
    /\ reads[l] = "run" /\ fetched[l] = rows[l]
    /\ IF builder[l] = 0 THEN ReadEnds(l, "ok")
       ELSE reads' = [reads EXCEPT ![l] = "last"] /\ UNCHANGED active
    /\ UNCHANGED <<rows, fetched, builder, queue, received, loader, closeVars>>

(* The connection, the query, an endpoint or a row fails: the error is     *)
(* logged.  A task that is in a send does not ask the source.              *)
SourceFails(l) ==
    /\ reads[l] = "run"
    /\ ReadEnds(l, "err")
    /\ UNCHANGED <<rows, fetched, builder, queue, received, loader, closeVars>>

(* The load dropped its stream: the send fails and ends the task. *)
SendRefused(l) ==
    /\ reads[l] \in {"send", "last"} /\ loader[l] = "gone"
    /\ ReadEnds(l, IF l \in AdbcLoads THEN "err" ELSE "ok")
    /\ UNCHANGED <<rows, fetched, builder, queue, received, loader, closeVars>>

----------------------------------------------------------------------------
(* The load reads until the channel closes, or drops the stream. *)
ReadBatch(l) ==
    /\ loader[l] = "reading" /\ queue[l] # <<>>
    /\ received' = [received EXCEPT ![l] = @ + Head(queue[l])]
    /\ queue' = [queue EXCEPT ![l] = Tail(@)]
    /\ UNCHANGED <<reads, rows, fetched, builder, loader, active, closeVars>>

SourceStreamEnds(l) ==
    /\ loader[l] = "reading" /\ queue[l] = <<>> /\ reads[l] \in {"ok", "err"}
    /\ loader' = [loader EXCEPT ![l] = "ended"]
    /\ UNCHANGED <<reads, rows, fetched, builder, queue, received, active, closeVars>>

DropStream(l) ==
    /\ loader[l] = "reading" /\ reads[l] \in Running \cup {"ok", "err"}
    /\ loader' = [loader EXCEPT ![l] = "gone"]
    /\ queue' = [queue EXCEPT ![l] = <<>>]
    /\ UNCHANGED <<reads, rows, fetched, builder, received, active, closeVars>>

----------------------------------------------------------------------------
(* shutdown_with_timeout: refuse new queries, *)
BeginShutdown ==
    /\ JdbcLoads # {} /\ shutdown = "none"
    /\ closing' = TRUE /\ shutdown' = "waiting"
    /\ UNCHANGED <<reads, rows, fetched, builder, queue, received, loader, active>>

(* then return when the count is zero or the deadline has passed. *)
EndShutdown ==
    /\ shutdown = "waiting"
    /\ shutdown' = "returned"
    /\ UNCHANGED <<reads, rows, fetched, builder, queue, received, loader, active, closing>>

SourceTask(l) ==
    \/ AdbcQuery(l) \/ JdbcCheck(l) \/ JdbcQuery(l)
    \/ FetchBatch(l) \/ FetchRow(l) \/ SendRows(l) \/ SourceEnds(l) \/ SendRefused(l)
LoadReads(l) == ReadBatch(l) \/ SourceStreamEnds(l)

SourceNext ==
    \/ \E l \in Loads : SourceTask(l) \/ SourceFails(l) \/ LoadReads(l) \/ DropStream(l)
    \/ BeginShutdown \/ EndShutdown

(* Tasks run, a source that does not fail gives its next row or its end,   *)
(* and a load that holds a stream reads it or drops it; failures and a     *)
(* shutdown need not come.                                                 *)
SourceFairness == \A l \in Loads : WF_sourceVars(SourceTask(l)) /\ WF_sourceVars(LoadReads(l))

SourceSpec == SourceInit /\ [][SourceNext]_sourceVars /\ SourceFairness

----------------------------------------------------------------------------
(* The batches of q are the rows after the first "from", up to "to". *)
Batched(q, from, to) ==
    \E cut \in [0..Len(q) -> 0..to] :
        /\ cut[0] = from /\ cut[Len(q)] = to
        /\ \A i \in 1..Len(q) : cut[i] = cut[i - 1] + q[i]

(* A load whose source did not fail gets every row of it exactly once,     *)
(* however the rows fall into batches: the last, partial batch and an      *)
(* empty result included.  On the way every row that was fetched is with   *)
(* the load, in the channel or in the builders, unless the load dropped    *)
(* its stream, and then none is there twice (run_query_async,              *)
(* run_query_blocking).                                                    *)
LoadsAreWhole ==
    \A l \in Loads :
        /\ loader[l] = "ended" /\ reads[l] = "ok" => received[l] = rows[l]
        /\ \E to \in 0..fetched[l] :
             /\ Batched(queue[l], received[l], to)
             /\ IF loader[l] = "gone" THEN to + builder[l] <= fetched[l]
                                      ELSE to + builder[l] = fetched[l]

(* What the comment in StarRocksAdbcClient::query says: an error reaches   *)
(* the load over the channel, so a stream that ends is whole.              *)
ErrorsReachTheLoad == \A l \in Loads : loader[l] = "ended" => received[l] = rows[l]

(* Every load's task ends, whether the load reads on or drops its stream   *)
(* in the middle of a send, and whether the source fails or the client is  *)
(* closed in between, so permits come back and the count of active queries *)
(* returns to zero, which a shutdown waits for (run_query_blocking,        *)
(* run_query_async, QueryCountGuard).                                      *)
SourcesWindDown ==
    /\ \A l \in Loads : <>(reads[l] \in {"ok", "err", "refused"})
    /\ <>[](active = 0)
=============================================================================
