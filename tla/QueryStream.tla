---------------------------- MODULE QueryStream ----------------------------
(***************************************************************************)
(* Queries against the worker's DuckDB (engine/duckdb/query_engine_impl.rs *)
(* execute_query).                                                         *)
(*                                                                         *)
(* A query takes a permit and starts two tasks: a blocking one that takes  *)
(* a pooled connection, runs the SQL to its end and puts the batches of    *)
(* the materialised result into a bounded channel, and a supervisor that   *)
(* waits for it up to the query's timeout, then interrupts the connection. *)
(* Both hold a sender: the client's stream ends when both have ended.      *)
(***************************************************************************)
EXTENDS Naturals, FiniteSets, Sequences

CONSTANTS
    Queries,     \* execute_query calls
    Permits,     \* max_concurrent_queries
    Conns,       \* pooled connections
    ChanSize,    \* batches the channel holds
    MaxResult,   \* batches a result has, at most
    NoConn       \* no connection

VARIABLES
    blocking,    \* "none", "get", "sql", "send", "ok" or "err"
    conn,        \* the connection the blocking task holds
    handle,      \* the connection whose interrupt handle it sent
    total,       \* batches of its result
    sent,        \* of which put into the channel
    gaveUp,      \* it met a channel that stayed full and stopped
    supervisor,  \* "none", "watch", "fired", "tell", "told" or "done"
    results,     \* the channel
    client       \* "reading", "gone", "failed" or "ended"

queryVars == <<blocking, conn, handle, total, sent, gaveUp, supervisor, results, client>>

QueryInit ==
    /\ blocking = [q \in Queries |-> "none"]
    /\ conn = [q \in Queries |-> NoConn]
    /\ handle = [q \in Queries |-> NoConn]
    /\ total = [q \in Queries |-> 0]
    /\ sent = [q \in Queries |-> 0]
    /\ gaveUp = [q \in Queries |-> FALSE]
    /\ supervisor = [q \in Queries |-> "none"]
    /\ results = [q \in Queries |-> <<>>]
    /\ client = [q \in Queries |-> "reading"]

QueryEnded(q) == blocking[q] \in {"ok", "err"}
Holding == {q \in Queries : blocking[q] \in {"get", "sql", "send"}}

----------------------------------------------------------------------------
(* The permit is held until the blocking task ends. *)
ExecuteQuery(q) ==
    /\ blocking[q] = "none" /\ Cardinality(Holding) < Permits
    /\ blocking' = [blocking EXCEPT ![q] = "get"]
    /\ supervisor' = [supervisor EXCEPT ![q] = "watch"]
    /\ UNCHANGED <<conn, handle, total, sent, gaveUp, results, client>>

(* The blocking task ends: its connection goes back to the pool, and an    *)
(* error is first put into the channel, which holds at most the            *)
(* supervisor's own.                                                       *)
End(q, how) ==
    /\ blocking' = [blocking EXCEPT ![q] = how]
    /\ conn' = [conn EXCEPT ![q] = NoConn]
    /\ results' = IF how = "ok" \/ client[q] = "gone" THEN results
                  ELSE [results EXCEPT ![q] = Append(@, "err")]

GetConnection(q) ==
    /\ blocking[q] = "get"
    /\ \E c \in Conns \ {conn[p] : p \in Queries} :
         /\ conn' = [conn EXCEPT ![q] = c]
         /\ handle' = [handle EXCEPT ![q] = c]
    /\ blocking' = [blocking EXCEPT ![q] = "sql"]
    /\ UNCHANGED <<total, sent, gaveUp, supervisor, results, client>>

NoConnection(q) ==
    /\ blocking[q] = "get"
    /\ End(q, "err")
    /\ UNCHANGED <<handle, total, sent, gaveUp, supervisor, client>>

(* prepare and query_arrow fail by themselves or because of an interrupt,  *)
(* its own or one meant for the connection's last holder.                  *)
QueryFails(q) ==
    /\ blocking[q] = "sql"
    /\ End(q, "err")
    /\ UNCHANGED <<handle, total, sent, gaveUp, supervisor, client>>

QuerySucceeds(q) ==
    /\ blocking[q] = "sql"
    /\ \E n \in 0..MaxResult : total' = [total EXCEPT ![q] = n]
    /\ blocking' = [blocking EXCEPT ![q] = "send"]
    /\ UNCHANGED <<conn, handle, sent, gaveUp, supervisor, results, client>>

SendBatch(q) ==
    /\ blocking[q] = "send" /\ sent[q] < total[q]
    /\ client[q] # "gone" /\ Len(results[q]) < ChanSize
    /\ results' = [results EXCEPT ![q] = Append(@, "batch")]
    /\ sent' = [sent EXCEPT ![q] = @ + 1]
    /\ UNCHANGED <<blocking, conn, handle, total, gaveUp, supervisor, client>>

(* Mutant: blocking_send, which waits for a place for as long as it takes. *)
BlocksForever(q) ==
    /\ blocking[q] = "send" /\ sent[q] < total[q]
    /\ client[q] = "gone"
    /\ gaveUp' = [gaveUp EXCEPT ![q] = TRUE]
    /\ End(q, "ok")
    /\ UNCHANGED <<handle, total, sent, supervisor, client>>

(* The channel is closed, or has been full for five seconds: the loop is   *)
(* left, and the task ends well.                                           *)
StopSending(q) ==
    /\ blocking[q] = "send" /\ sent[q] < total[q]
    /\ client[q] = "gone" \/ Len(results[q]) = ChanSize
    /\ gaveUp' = [gaveUp EXCEPT ![q] = TRUE]
    /\ End(q, "ok")
    /\ UNCHANGED <<handle, total, sent, supervisor, client>>

AllSent(q) ==
    /\ blocking[q] = "send" /\ sent[q] = total[q]
    /\ End(q, "ok")
    /\ UNCHANGED <<handle, total, sent, gaveUp, supervisor, client>>

----------------------------------------------------------------------------
(* The supervisor. *)
TaskEnds(q) ==
    /\ supervisor[q] = "watch" /\ QueryEnded(q)
    /\ supervisor' = [supervisor EXCEPT ![q] = IF blocking[q] = "ok" THEN "done" ELSE "tell"]
    /\ UNCHANGED <<blocking, conn, handle, total, sent, gaveUp, results, client>>

TimeoutFires(q) ==
    /\ supervisor[q] = "watch" /\ ~QueryEnded(q)
    /\ supervisor' = [supervisor EXCEPT ![q] = "fired"]
    /\ UNCHANGED <<blocking, conn, handle, total, sent, gaveUp, results, client>>

(* interrupt_rx.await: the blocking task has its connection, or will have  *)
(* none.  The interrupt reaches whatever then runs on that connection,     *)
(* which may have changed hands: see QueryFails.                             *)
Interrupt(q) ==
    /\ supervisor[q] = "fired" /\ (handle[q] # NoConn \/ QueryEnded(q))
    /\ supervisor' = [supervisor EXCEPT ![q] = "tell"]
    /\ UNCHANGED <<blocking, conn, handle, total, sent, gaveUp, results, client>>

(* Mutant: an error that finds the channel full is dropped. *)
TellIfRoom(q) ==
    /\ supervisor[q] = "tell"
    /\ results' = IF client[q] = "gone" \/ Len(results[q]) = ChanSize THEN results
                  ELSE [results EXCEPT ![q] = Append(@, "err")]
    /\ supervisor' = [supervisor EXCEPT ![q] = "told"]
    /\ UNCHANGED <<blocking, conn, handle, total, sent, gaveUp, client>>

Tell(q) ==
    /\ supervisor[q] = "tell" /\ (client[q] = "gone" \/ Len(results[q]) < ChanSize)
    /\ results' = IF client[q] = "gone" THEN results ELSE [results EXCEPT ![q] = Append(@, "err")]
    /\ supervisor' = [supervisor EXCEPT ![q] = "told"]
    /\ UNCHANGED <<blocking, conn, handle, total, sent, gaveUp, client>>

----------------------------------------------------------------------------
(* The client reads, stops at an error, or goes away. *)
Read(q) ==
    /\ client[q] = "reading" /\ results[q] # <<>>
    /\ results' = [results EXCEPT ![q] = Tail(@)]
    /\ client' = IF Head(results[q]) = "err" THEN [client EXCEPT ![q] = "failed"] ELSE client
    /\ UNCHANGED <<blocking, conn, handle, total, sent, gaveUp, supervisor>>

StreamEnds(q) ==
    /\ client[q] = "reading" /\ results[q] = <<>> /\ QueryEnded(q)
    /\ supervisor[q] \in {"done", "told"}
    /\ client' = [client EXCEPT ![q] = "ended"]
    /\ UNCHANGED <<blocking, conn, handle, total, sent, gaveUp, supervisor, results>>

Leave(q) ==
    /\ client[q] \in {"reading", "failed"} /\ blocking[q] # "none"
    /\ client' = [client EXCEPT ![q] = "gone"]
    /\ results' = [results EXCEPT ![q] = <<>>]
    /\ UNCHANGED <<blocking, conn, handle, total, sent, gaveUp, supervisor>>

BlockingStep(q) ==
    \/ GetConnection(q) \/ NoConnection(q) \/ QueryFails(q) \/ QuerySucceeds(q)
    \/ SendBatch(q) \/ StopSending(q) \/ AllSent(q)

QueryStep(q) ==
    \/ ExecuteQuery(q) \/ BlockingStep(q)
    \/ TaskEnds(q) \/ TimeoutFires(q) \/ Interrupt(q) \/ Tell(q)
    \/ Read(q) \/ StreamEnds(q) \/ Leave(q)

QueryNext == \E q \in Queries : QueryStep(q)

(* The threads run; nothing is assumed of the client or of the timeout. *)
QueryFairness ==
    \A q \in Queries : WF_queryVars(ExecuteQuery(q)) /\ WF_queryVars(BlockingStep(q))

QuerySpec == QueryInit /\ [][QueryNext]_queryVars /\ QueryFairness

----------------------------------------------------------------------------
(* A stream that ends without an error is the whole result of a query that *)
(* ran in time: the failure of the connection, of the SQL, an interrupt    *)
(* meant for another query on the same connection and the timeout all show *)
(* in the stream, whichever of the two tasks ends first (execute_query).   *)
(* The exception is a client so slow that the channel stays full for five  *)
(* seconds: its stream ends early and cleanly.                             *)
CleanEndIsWhole ==
    \A q \in Queries :
        client[q] = "ended" => /\ blocking[q] = "ok" /\ supervisor[q] = "done"
                               /\ gaveUp[q] \/ sent[q] = total[q]

(* Every query gets its permit and gives its permit and its connection     *)
(* back, although clients stall without leaving and nobody need read: no   *)
(* blocking thread waits for a client (the try_send loop of execute_query).*)
QueriesReturnPermits == \A q \in Queries : <>QueryEnded(q)
=============================================================================
