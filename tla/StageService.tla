---------------------------- MODULE StageService ----------------------------
(***************************************************************************)
(* The LDP side of WorkerFlightService (worker-flight): submit_stage calls   *)
(* run stage SQL on pooled DuckDB connections in blocking tasks, cache the   *)
(* result for do_get, and may time out; cancel_query looks for active stages *)
(* and cached results; a background task evicts old results.  The exchange   *)
(* inputs of a stage become temporary tables of its connection, under names  *)
(* that every query uses (__exchange_0, ...); every stage reads all of them, *)
(* and those that came without batches are not registered.                   *)
(***************************************************************************)
EXTENDS Naturals, FiniteSets

CONSTANTS
  Keys,      \* (query_id, stage_id) pairs
  Queries,   \* query ids
  QueryOf,   \* the query of each key
  Calls,     \* submit_stage requests (a bound); a retry is another call
  Conns,     \* the connections of the shared database's pool
  Inputs,    \* exchange table names
  None       \* no call, no connection, no query

ASSUME StageAssumption ==
  /\ QueryOf \in [Keys -> Queries]
  /\ None \notin Calls \cup Conns \cup Queries

VARIABLES
  pc,          \* where each submit_stage call is
  key,         \* its stage
  rows,        \* its exchange inputs that carry batches
  answer,      \* what it answered
  bpc,         \* its blocking task
  conn,        \* the connection the blocking task holds
  handle,      \* the connection its published interrupt handle is for
  registered,  \* registered_tables of the blocking task
  flagged,     \* the cancellation flag of its monitor
  interrupted, \* duckdb_interrupt reached its running SQL
  active,      \* active_stages: the call whose handle is registered
  temp,        \* the owner of each temporary table of each connection
  results,     \* stage_results: the call whose batches are cached
  old,         \* cached results that are older than the TTL
  cancelling   \* the query a cancel_query has flagged and not yet cleaned

callVars == <<pc, key, rows, answer>>
taskVars == <<bpc, conn, handle, registered, interrupted>>
storeVars == <<results, old>>
vars == <<callVars, taskVars, flagged, active, temp, storeVars, cancelling>>

StageTypeOK ==
  /\ pc \in [Calls -> {"idle", "insert", "spawn", "remove", "await", "answered"}]
  /\ key \in [Calls -> Keys]
  /\ rows \in [Calls -> SUBSET Inputs]
  /\ answer \in [Calls -> {"none", "ok", "error", "timeout"}]
  /\ bpc \in [Calls -> {"none", "queued", "open", "register", "sql", "ok", "err"}]
  /\ conn \in [Calls -> Conns \cup {None}]
  /\ \A c, d \in Calls : c # d /\ conn[c] = conn[d] => conn[c] = None
  /\ handle \in [Calls -> Conns \cup {None}]
  /\ registered \in [Calls -> SUBSET Inputs]
  /\ flagged \in [Calls -> BOOLEAN]
  /\ interrupted \in [Calls -> BOOLEAN]
  /\ active \in [Keys -> Calls \cup {None}]
  /\ temp \in [Conns -> [Inputs -> Calls \cup {None}]]
  /\ results \in [Keys -> Calls \cup {None}]
  /\ old \subseteq Keys
  /\ cancelling \in Queries \cup {None}

Init ==
  /\ pc = [c \in Calls |-> "idle"]
  /\ key \in [Calls -> Keys]
  /\ rows = [c \in Calls |-> {}]
  /\ answer = [c \in Calls |-> "none"]
  /\ bpc = [c \in Calls |-> "none"]
  /\ conn = [c \in Calls |-> None]
  /\ handle = [c \in Calls |-> None]
  /\ registered = [c \in Calls |-> {}]
  /\ flagged = [c \in Calls |-> FALSE]
  /\ interrupted = [c \in Calls |-> FALSE]
  /\ active = [k \in Keys |-> None]
  /\ temp = [d \in Conns |-> [t \in Inputs |-> None]]
  /\ results = [k \in Keys |-> None]
  /\ old = {}
  /\ cancelling = None

-----------------------------------------------------------------------------
(***************************************************************************)
(* handle_submit_stage, and execute_stage_with_duckdb up to its await.       *)
(***************************************************************************)

Goto(c, at) == pc' = [pc EXCEPT ![c] = at]
Answer(c, a) == Goto(c, "answered") /\ answer' = [answer EXCEPT ![c] = a]
StageGoto(c, at) == bpc' = [bpc EXCEPT ![c] = at]

\* A malformed request, another tenant, or undecodable inputs.
Refuse(c) ==
  /\ pc[c] = "idle"
  /\ Answer(c, "error")
  /\ UNCHANGED <<key, rows, taskVars, flagged, active, temp, storeVars, cancelling>>

\* StageResultStore::store: the newest result of a key replaces the older one,
\* and its age.
Store(c) ==
  /\ results' = [results EXCEPT ![key[c]] = c]
  /\ old' = old \ {key[c]}

\* An empty stage SQL has an empty result.
SubmitEmpty(c) ==
  /\ pc[c] = "idle"
  /\ Store(c)
  /\ Answer(c, "ok")
  /\ UNCHANGED <<key, rows, taskVars, flagged, active, temp, cancelling>>

Submit(c) ==
  /\ pc[c] = "idle"
  /\ Goto(c, "insert")
  /\ rows' \in [Calls -> SUBSET Inputs]
  /\ \A d \in Calls \ {c} : rows'[d] = rows[d]
  /\ UNCHANGED <<key, answer, taskVars, flagged, active, temp, storeVars, cancelling>>

Activate(c) ==
  /\ pc[c] = "insert"
  /\ active' = [active EXCEPT ![key[c]] = c]
  /\ Goto(c, "spawn")
  /\ UNCHANGED <<key, rows, answer, taskVars, flagged, temp, storeVars, cancelling>>

SpawnBlocking(c) ==
  /\ pc[c] = "spawn"
  /\ StageGoto(c, "queued")
  /\ Goto(c, "remove")
  /\ UNCHANGED <<key, rows, answer, conn, handle, registered, interrupted, flagged,
                 active, temp, storeVars, cancelling>>

DeregisterNot(c) == UNCHANGED active
\* active_stages.remove(&stage_key): whichever call's handle is there.
Deregister(c) == active' = [active EXCEPT ![key[c]] = None]

\* The handle leaves the map as soon as the blocking task is spawned.
Deactivate(c) ==
  /\ pc[c] = "remove"
  /\ Deregister(c)
  /\ Goto(c, "await")
  /\ UNCHANGED <<key, rows, answer, taskVars, flagged, temp, storeVars, cancelling>>

\* The blocking task's result arrives: an error, a result over the output
\* limits, or a result that is cached before the ticket is returned.
StageFailed(c) ==
  /\ pc[c] = "await"
  /\ bpc[c] \in {"ok", "err"}
  /\ Answer(c, "error")
  /\ UNCHANGED <<key, rows, taskVars, flagged, active, temp, storeVars, cancelling>>

\* Mutant: the result is cached whenever it comes, also after the timeout.
CachedWhenItComes(c) ==
  /\ pc[c] = "await" \/ answer[c] = "timeout"
  /\ bpc[c] = "ok"
  /\ Store(c)
  /\ IF pc[c] = "await" THEN Answer(c, "ok") ELSE UNCHANGED <<pc, answer>>
  /\ UNCHANGED <<key, rows, taskVars, flagged, active, temp, cancelling>>

StageSucceeded(c) ==
  /\ pc[c] = "await"
  /\ bpc[c] = "ok"
  /\ Store(c)
  /\ Answer(c, "ok")
  /\ UNCHANGED <<key, rows, taskVars, flagged, active, temp, cancelling>>

\* The future is dropped; the blocking task runs on.
TimesOut(c) ==
  /\ pc[c] = "await"
  /\ Answer(c, "timeout")
  /\ UNCHANGED <<key, rows, taskVars, flagged, active, temp, storeVars, cancelling>>

-----------------------------------------------------------------------------
(***************************************************************************)
(* The blocking task.                                                      *)
(***************************************************************************)

Free(d) == \A c \in Calls : conn[c] # d

\* A pooled connection is obtained and its interrupt handle published.
GetConnection(c, d) ==
  /\ bpc[c] = "queued"
  /\ Free(d)
  /\ conn' = [conn EXCEPT ![c] = d]
  /\ handle' = [handle EXCEPT ![c] = d]
  /\ StageGoto(c, "open")
  /\ UNCHANGED <<callVars, registered, interrupted, flagged, active, temp, storeVars,
                 cancelling>>

\* The pool's own timeout.
NoConnection(c) ==
  /\ bpc[c] = "queued"
  /\ \A d \in Conns : ~Free(d)
  /\ StageGoto(c, "err")
  /\ UNCHANGED <<callVars, conn, handle, registered, interrupted, flagged, active, temp,
                 storeVars, cancelling>>

Release(c) == conn' = [conn EXCEPT ![c] = None]

HonourFlag(c) ==
  /\ bpc[c] = "open"
  /\ IF flagged[c] THEN StageGoto(c, "err") /\ Release(c)
                   ELSE StageGoto(c, "register") /\ UNCHANGED conn
  /\ UNCHANGED <<callVars, handle, registered, interrupted, flagged, active, temp,
                 storeVars, cancelling>>

CreateIfNotExists(c, t) ==
  temp' = [temp EXCEPT ![conn[c]][t] = IF @ = None THEN c ELSE @]
\* register_arrow_batches drops a table of that name first.
CreateTemp(c, t) == temp' = [temp EXCEPT ![conn[c]][t] = c]

\* The inputs are registered in the order of a HashMap.
RegisterInput(c, t) ==
  /\ bpc[c] = "register"
  /\ t \in rows[c] \ registered[c]
  /\ CreateTemp(c, t)
  /\ registered' = [registered EXCEPT ![c] = @ \cup {t}]
  /\ UNCHANGED <<callVars, bpc, conn, handle, interrupted, flagged, active,
                 storeVars, cancelling>>

\* DROP, CREATE or the append fails: the task returns at once, leaving the
\* tables registered before, and perhaps this one, on the connection.
RegisterFails(c, t) ==
  /\ bpc[c] = "register"
  /\ t \in rows[c] \ registered[c]
  /\ \/ UNCHANGED temp
     \/ temp' = [temp EXCEPT ![conn[c]][t] = None]
     \/ CreateTemp(c, t)
  /\ StageGoto(c, "err")
  /\ Release(c)
  /\ UNCHANGED <<callVars, handle, registered, interrupted, flagged, active,
                 storeVars, cancelling>>

StartSql(c) ==
  /\ bpc[c] = "register"
  /\ rows[c] = registered[c]
  /\ StageGoto(c, "sql")
  /\ UNCHANGED <<callVars, conn, handle, registered, interrupted, flagged, active, temp,
                 storeVars, cancelling>>

\* The SQL ends (well, badly, or interrupted), the registered tables are
\* dropped, and the connection goes back to the pool.
EndSql(c) ==
  /\ bpc[c] = "sql"
  /\ \/ ~interrupted[c] /\ StageGoto(c, "ok")
     \/ StageGoto(c, "err")
  /\ temp' = [temp EXCEPT ![conn[c]] =
                [t \in Inputs |-> IF t \in registered[c] THEN None ELSE @[t]]]
  /\ Release(c)
  /\ UNCHANGED <<callVars, handle, registered, interrupted, flagged, active,
                 storeVars, cancelling>>

-----------------------------------------------------------------------------
(***************************************************************************)
(* handle_cancel_query, do_get of a stage result, and the eviction task.     *)
(***************************************************************************)

\* Every handle in active_stages of the query: flag, then interrupt whatever
\* runs on the connection the handle was made for.
CancelActive(q) ==
  LET hit == {c \in Calls : QueryOf[key[c]] = q /\ active[key[c]] = c} IN
  /\ cancelling = None
  /\ flagged' = [c \in Calls |-> flagged[c] \/ c \in hit]
  /\ interrupted' = [c \in Calls |->
       interrupted[c] \/ (bpc[c] = "sql" /\ \E b \in hit : handle[b] = conn[c])]
  /\ cancelling' = q
  /\ UNCHANGED <<callVars, bpc, conn, handle, registered, active, temp, storeVars>>

CancelResults ==
  /\ cancelling # None
  /\ results' = [k \in Keys |-> IF QueryOf[k] = cancelling THEN None ELSE results[k]]
  /\ old' = {k \in old : QueryOf[k] # cancelling}
  /\ cancelling' = None
  /\ UNCHANGED <<callVars, taskVars, flagged, active, temp>>

GetBatchesByTake(k) ==
  /\ results' = [results EXCEPT ![k] = None]
  /\ old' = old \ {k}
\* get_batches leaves the result in the cache.
GetBatches(k) == UNCHANGED storeVars

\* A do_get with the ticket a call returned; NOT_FOUND changes nothing either.
DoGet(c) ==
  /\ answer[c] = "ok"
  /\ GetBatches(key[c])
  /\ UNCHANGED <<callVars, taskVars, flagged, active, temp, cancelling>>

\* Time passes the TTL of a result; the eviction task removes what is old.
Age(k) ==
  /\ results[k] # None
  /\ k \notin old
  /\ old' = old \cup {k}
  /\ UNCHANGED <<callVars, taskVars, flagged, active, temp, results, cancelling>>

EvictExpired ==
  /\ old # {}
  /\ results' = [k \in Keys |-> IF k \in old THEN None ELSE results[k]]
  /\ old' = {}
  /\ UNCHANGED <<callVars, taskVars, flagged, active, temp, cancelling>>

-----------------------------------------------------------------------------

CallStep(c) ==
  \/ Activate(c) \/ SpawnBlocking(c) \/ Deactivate(c)
  \/ StageFailed(c) \/ StageSucceeded(c)

TaskStep(c) ==
  \/ \E d \in Conns : GetConnection(c, d)
  \/ NoConnection(c) \/ HonourFlag(c) \/ StartSql(c) \/ EndSql(c)
  \/ \E t \in Inputs : RegisterInput(c, t) \/ RegisterFails(c, t)

Next ==
  \/ \E c \in Calls :
       \/ Refuse(c) \/ SubmitEmpty(c) \/ Submit(c) \/ TimesOut(c) \/ DoGet(c)
       \/ CallStep(c) \/ TaskStep(c)
  \/ \E q \in Queries : CancelActive(q)
  \/ CancelResults
  \/ \E k \in Keys : Age(k)
  \/ EvictExpired

(***************************************************************************)
(* The runtime runs what is ready, DuckDB ends a statement it was given, time *)
(* passes and the eviction interval ticks.  No request need arrive, time out   *)
(* or be cancelled.                                                           *)
(***************************************************************************)
Fairness ==
  /\ \A c \in Calls : WF_vars(CallStep(c)) /\ WF_vars(TaskStep(c))
  /\ WF_vars(CancelResults)
  /\ \A k \in Keys : WF_vars(Age(k))
  /\ WF_vars(EvictExpired)

Spec == Init /\ [][Next]_vars /\ Fairness

-----------------------------------------------------------------------------
(***************************************************************************)
(* Properties.                                                             *)
(***************************************************************************)

\* While stage SQL runs, each exchange input the stage registered is its own
\* table, whatever an earlier stage, of another query, left on the connection.
RegisteredAreOwn ==
  \A c \in Calls : bpc[c] = "sql" =>
    \A t \in registered[c] : temp[conn[c]][t] = c

\* A cached result stays available, however often it is fetched and whatever
\* retries of the stage do, until its query is cancelled or it is older than
\* the TTL (get_batches: "remains available until TTL expiry").
ResultsOutliveFetches ==
  [][\A k \in Keys : results[k] # None /\ results'[k] = None
                       => k \in old \/ QueryOf[k] = cancelling]_vars

\* A call as the coordinator sees it.
Said(c) == IF pc[c] = "idle" THEN "nothing"
           ELSE IF pc[c] = "answered" THEN answer[c] ELSE "working"

Worker == INSTANCE StageWorker WITH stage <- key, said <- [c \in Calls |-> Said(c)],
                                    held <- results, asked <- cancelling

\* The service implements the worker the coordinator counts on: a call is
\* answered once, a ticket is returned in the step that caches its result, a
\* task that outlives its timeout caches nothing, and a cancellation that is
\* over has left no result of its query (handle_submit_stage,
\* handle_cancel_query, StageResultStore).
ImplementsWorker == Worker!WorkerSpec

\* Once requests stop, every submitted stage has been answered, every connection
\* is back in the pool, no handle is left in active_stages and the result cache
\* is empty: timeouts, cancellations and failures leak none of them.
ResourcesReturn ==
  <>[](/\ \A c \in Calls : pc[c] \in {"idle", "answered"} /\ conn[c] = None
       /\ \A k \in Keys : active[k] = None /\ results[k] = None)

=============================================================================
