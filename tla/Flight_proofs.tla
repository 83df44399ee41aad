--------------------------- MODULE Flight_proofs ---------------------------
(***************************************************************************)
(* The two ends of a call to a worker: the service that executes stages,   *)
(* for any stages, queries, requests, exchange tables and any pool of      *)
(* connections, and the callers' pool of connections, for any callers,     *)
(* workers and cap.                                                        *)
(***************************************************************************)
EXTENDS StageService, WorkerConnections, FiniteSetTheorems, TLAPS

----------------------------------------------------------------------------
(***************************************************************************)
(* A request has no blocking task before it spawns one.  The task holds a    *)
(* connection exactly between obtaining it and returning, starts with no     *)
(* table registered, and until it returns every table it registered is its   *)
(* own: no other task writes to its connection.                              *)
(***************************************************************************)
HoldsConn(c) == bpc[c] \in {"open", "register", "sql"}

StageInv ==
  /\ StageTypeOK
  /\ \A c \in Calls : pc[c] \in {"idle", "insert", "spawn"} => bpc[c] = "none"
  /\ \A c \in Calls : HoldsConn(c) <=> conn[c] # None
  /\ \A c \in Calls : bpc[c] \in {"none", "queued", "open"} => registered[c] = {}
  /\ \A c \in Calls : HoldsConn(c) => \A t \in registered[c] : temp[conn[c]][t] = c

\* The first state satisfies the invariant.
LEMMA StageInit == Init => StageInv
  BY StageAssumption DEF Init, StageInv, StageTypeOK, HoldsConn

\* The call's own steps, the cache and cancel_query touch no connection.
LEMMA StageCalls ==
  ASSUME StageInv, NEW c \in Calls,
         \/ Refuse(c) \/ SubmitEmpty(c) \/ Submit(c) \/ TimesOut(c) \/ DoGet(c)
         \/ CallStep(c)
  PROVE  StageInv'
  <1> USE DEF StageInv, StageTypeOK, HoldsConn, Goto, Answer, taskVars, storeVars,
              callVars
  <1>1. CASE Refuse(c)
    BY <1>1 DEF Refuse
  <1>2. CASE SubmitEmpty(c)
    BY <1>2 DEF SubmitEmpty, Store
  <1>3. CASE Submit(c)
    BY <1>3 DEF Submit
  <1>4. CASE TimesOut(c)
    BY <1>4 DEF TimesOut
  <1>5. CASE DoGet(c)
    BY <1>5 DEF DoGet, GetBatches
  <1>6. CASE Activate(c)
    BY <1>6 DEF Activate
  <1>7. CASE SpawnBlocking(c)
    BY <1>7 DEF SpawnBlocking, StageGoto
  <1>8. CASE Deactivate(c)
    BY <1>8 DEF Deactivate, Deregister
  <1>9. CASE StageFailed(c)
    BY <1>9 DEF StageFailed
  <1>10. CASE StageSucceeded(c)
    BY <1>10 DEF StageSucceeded, Store
  <1> QED
    BY <1>1, <1>2, <1>3, <1>4, <1>5, <1>6, <1>7, <1>8, <1>9, <1>10 DEF CallStep

\* The blocking task writes only to the connection it holds.
LEMMA StageTasks ==
  ASSUME StageInv, NEW c \in Calls, TaskStep(c)
  PROVE  StageInv'
  <1> USE DEF StageInv, StageTypeOK, HoldsConn, StageGoto, callVars, storeVars
  <1>1. ASSUME NEW d \in Conns, GetConnection(c, d) PROVE StageInv'
    <2>1. d # None
      BY StageAssumption
    <2> QED
      BY <1>1, <2>1 DEF GetConnection, Free
  <1>2. CASE NoConnection(c)
    BY <1>2 DEF NoConnection
  <1>3. CASE HonourFlag(c)
    <2>1. \/ bpc' = [bpc EXCEPT ![c] = "err"] /\ conn' = [conn EXCEPT ![c] = None]
          \/ bpc' = [bpc EXCEPT ![c] = "register"] /\ conn' = conn
      BY <1>3, Zenon DEF HonourFlag, Release
    <2>2. /\ bpc[c] = "open"
          /\ UNCHANGED <<pc, key, rows, answer, handle, registered, interrupted, flagged,
                         active, temp, results, old, cancelling>>
      BY <1>3, Zenon DEF HonourFlag
    <2>3. CASE bpc' = [bpc EXCEPT ![c] = "err"] /\ conn' = [conn EXCEPT ![c] = None]
      BY <2>2, <2>3
    <2>4. CASE bpc' = [bpc EXCEPT ![c] = "register"] /\ conn' = conn
      BY <2>2, <2>4
    <2> QED
      BY <2>1, <2>3, <2>4
  <1>4. CASE StartSql(c)
    BY <1>4 DEF StartSql
  <1>5. CASE EndSql(c)
    <2>1. /\ conn[c] \in Conns
          /\ \A b \in Calls \ {c} : conn[b] # conn[c]
      BY <1>5 DEF EndSql
    <2>2. temp' \in [Conns -> [Inputs -> Calls \cup {None}]]
      BY <1>5, <2>1 DEF EndSql
    <2>3. \A d \in Conns \ {conn[c]} : temp'[d] = temp[d]
      BY <1>5 DEF EndSql
    <2>4. conn' = [conn EXCEPT ![c] = None] /\ bpc'[c] \in {"ok", "err"}
      BY <1>5 DEF EndSql, Release
    <2>5. \A b \in Calls \ {c} : bpc'[b] = bpc[b] /\ conn'[b] = conn[b]
      BY <1>5, <2>4 DEF EndSql
    <2>6. StageTypeOK'
      BY <1>5, <2>2, <2>4 DEF EndSql
    <2> QED
      BY <1>5, <2>1, <2>3, <2>4, <2>5, <2>6 DEF EndSql
  <1>6. ASSUME NEW t \in Inputs, RegisterInput(c, t) PROVE StageInv'
    <2>1. /\ conn[c] \in Conns
          /\ \A b \in Calls \ {c} : HoldsConn(b) => conn[b] # conn[c]
      BY <1>6 DEF RegisterInput
    <2> QED
      BY <1>6, <2>1 DEF RegisterInput, CreateTemp
  <1>7. ASSUME NEW t \in Inputs, RegisterFails(c, t) PROVE StageInv'
    <2>1. /\ conn[c] \in Conns
          /\ \A b \in Calls \ {c} : HoldsConn(b) => conn[b] \in Conns /\ conn[b] # conn[c]
      BY <1>7 DEF RegisterFails
    <2>2. /\ temp' \in [Conns -> [Inputs -> Calls \cup {None}]]
          /\ \A d \in Conns \ {conn[c]} : temp'[d] = temp[d]
      <3>1. CASE UNCHANGED temp
        BY <3>1
      <3>2. ASSUME NEW o \in Calls \cup {None}, temp' = [temp EXCEPT ![conn[c]][t] = o]
            PROVE  <2>2!1 /\ <2>2!2
        BY <2>1, <3>2
      <3> QED
        BY <1>7, <3>1, <3>2, Zenon DEF RegisterFails, CreateTemp
    <2>3. /\ conn' = [conn EXCEPT ![c] = None]
          /\ bpc' = [bpc EXCEPT ![c] = "err"]
      BY <1>7 DEF RegisterFails, Release
    <2>4. UNCHANGED <<pc, key, rows, answer, handle, registered, interrupted, flagged,
                      active, results, old, cancelling>>
      BY <1>7 DEF RegisterFails
    <2>5. StageTypeOK'
      BY <2>2, <2>3, <2>4
    <2>6. \A b \in Calls \ {c} : bpc'[b] = bpc[b] /\ conn'[b] = conn[b]
      BY <2>3
    <2>7. bpc[c] = "register" /\ bpc'[c] = "err" /\ conn'[c] = None
      BY <1>7, <2>3 DEF RegisterFails
    <2>8. ASSUME NEW b \in Calls, HoldsConn(b)', NEW s \in registered[b]
          PROVE  temp'[conn'[b]][s] = b
      <3>1. b # c /\ HoldsConn(b)
        BY <2>6, <2>7, <2>8
      <3> QED
        BY <2>1, <2>2, <2>6, <3>1
    <2>9. ASSUME NEW b \in Calls
          PROVE  /\ pc'[b] \in {"idle", "insert", "spawn"} => bpc'[b] = "none"
                 /\ HoldsConn(b)' <=> conn'[b] # None
                 /\ bpc'[b] \in {"none", "queued", "open"} => registered'[b] = {}
      BY <2>4, <2>6, <2>7
    <2> HIDE DEF StageTypeOK, HoldsConn
    <2> QED
      BY <2>4, <2>5, <2>8, <2>9
  <1> QED
    BY <1>1, <1>2, <1>3, <1>4, <1>5, <1>6, <1>7 DEF TaskStep

\* cancel_query and the eviction of old results.
LEMMA StageRest ==
  ASSUME StageInv,
         \/ \E q \in Queries : CancelActive(q)
         \/ CancelResults \/ EvictExpired
         \/ \E k \in Keys : Age(k)
         \/ UNCHANGED vars
  PROVE  StageInv'
  <1> USE DEF StageInv, StageTypeOK, HoldsConn, callVars, taskVars, storeVars
  <1>1. ASSUME NEW q \in Queries, CancelActive(q) PROVE StageInv'
    BY <1>1 DEF CancelActive
  <1>2. CASE CancelResults
    BY <1>2 DEF CancelResults
  <1>3. CASE EvictExpired
    BY <1>3 DEF EvictExpired
  <1>4. ASSUME NEW k \in Keys, Age(k) PROVE StageInv'
    BY <1>4 DEF Age
  <1>5. CASE UNCHANGED vars
    BY <1>5 DEF vars
  <1> QED
    BY <1>1, <1>2, <1>3, <1>4, <1>5

\* Every step preserves the invariant.
THEOREM StageInvariant == Spec => []StageInv
  <1>1. StageInv /\ [Next]_vars => StageInv'
    BY StageCalls, StageTasks, StageRest DEF Next
  <1> QED
    BY <1>1, StageInit, PTL DEF Spec

\* No two blocking tasks ever hold one connection, and every variable keeps its
\* type, for any number of requests and connections.
THEOREM StageTypeCorrect == Spec => []StageTypeOK
  <1>1. StageInv => StageTypeOK
    BY DEF StageInv
  <1> QED
    BY <1>1, StageInvariant, PTL

\* Whatever tables failed stages leave on pooled connections, the SQL of a
\* stage reads its own batches in every input that it registered.
THEOREM InputsAreOwn == Spec => []RegisteredAreOwn
  <1>1. StageInv => RegisteredAreOwn
    BY DEF StageInv, RegisteredAreOwn, HoldsConn
  <1> QED
    BY <1>1, StageInvariant, PTL

\* Only the cancellation of its query and the eviction of what is old take a
\* result from the cache: fetches, retries and time-outs do not.
THEOREM FetchesKeepResults == Spec => ResultsOutliveFetches
  <1> DEFINE Kept == \A k \in Keys : results[k] # None /\ results'[k] = None
                       => k \in old \/ QueryOf[k] = cancelling
  <1>1. ASSUME StageInv, [Next]_vars PROVE Kept
    <2>1. CASE UNCHANGED results
      BY <2>1
    <2>2. ASSUME NEW c \in Calls, Store(c) PROVE Kept
      BY <1>1, <2>2, StageAssumption DEF Store, StageInv, StageTypeOK
    <2>3. CASE CancelResults
      BY <2>3 DEF CancelResults
    <2>4. CASE EvictExpired
      BY <2>4 DEF EvictExpired
    <2>5. ASSUME NEW c \in Calls, \/ Refuse(c) \/ SubmitEmpty(c) \/ Submit(c)
                                   \/ TimesOut(c) \/ DoGet(c) \/ CallStep(c)
          PROVE  Kept
      BY <2>1, <2>2, <2>5
      DEF Refuse, SubmitEmpty, Submit, TimesOut, DoGet, GetBatches, CallStep, Activate,
          SpawnBlocking, Deactivate, StageFailed, StageSucceeded, storeVars
    <2>6. ASSUME NEW c \in Calls, TaskStep(c) PROVE Kept
      BY <2>1, <2>6, Zenon
      DEF TaskStep, GetConnection, NoConnection, HonourFlag, StartSql, EndSql,
          RegisterInput, RegisterFails, storeVars
    <2>7. CASE (\E q \in Queries : CancelActive(q)) \/ (\E k \in Keys : Age(k))
      BY <2>1, <2>7 DEF CancelActive, Age, storeVars
    <2>8. CASE UNCHANGED vars
      BY <2>1, <2>8 DEF vars, storeVars
    <2> QED
      BY <1>1, <2>3, <2>4, <2>5, <2>6, <2>7, <2>8 DEF Next
  <1>2. [][Kept]_vars <=> ResultsOutliveFetches
    BY DEF ResultsOutliveFetches
  <1> HIDE DEF Kept
  <1> QED
    BY <1>1, <1>2, StageInvariant, PTL DEF Spec

----------------------------------------------------------------------------
(***************************************************************************)
(* ImplementsWorker.  Most steps change nothing the coordinator sees; the  *)
(* others are one step of StageWorker each.                                *)
(***************************************************************************)

\* What the abstract worker says of a call follows from where the call is.
LEMMA SaidMoves ==
  ASSUME StageTypeOK, NEW c \in Calls, NEW at, Goto(c, at)
  PROVE  /\ \A b \in Calls \ {c} : answer'[b] = answer[b] => Said(b)' = Said(b)
         /\ at = "answered" => Said(c)' = answer'[c]
         /\ at \notin {"idle", "answered"} => Said(c)' = "working"
  BY DEF StageTypeOK, Goto, Said

\* The step that answers a call says so, and nothing of other calls.
LEMMA SaidAnswer ==
  ASSUME StageTypeOK, NEW c \in Calls, NEW a, Answer(c, a)
  PROVE  [b \in Calls |-> Said(b)]' = [[b \in Calls |-> Said(b)] EXCEPT ![c] = a]
  <1>1. /\ \A b \in Calls \ {c} : answer'[b] = answer[b]
        /\ answer'[c] = a
    BY DEF StageTypeOK, Answer
  <1>2. /\ \A b \in Calls \ {c} : Said(b)' = Said(b)
        /\ Said(c)' = a
    BY <1>1, SaidMoves DEF Answer
  <1> QED
    BY <1>2

\* A step of a call or of its task is a step of the abstract worker, or none.
LEMMA CallRefines ==
  ASSUME StageTypeOK, NEW c \in Calls,
         \/ Refuse(c) \/ SubmitEmpty(c) \/ Submit(c) \/ TimesOut(c) \/ DoGet(c)
         \/ CallStep(c) \/ TaskStep(c)
  PROVE  [Worker!WorkerNext]_(Worker!workerVars)
  <1> DEFINE said == [b \in Calls |-> Said(b)]
             Same == UNCHANGED <<key, results, cancelling>>
  <1>1. ASSUME UNCHANGED <<pc, answer>>, Same PROVE UNCHANGED Worker!workerVars
    BY <1>1 DEF Worker!workerVars, Said
  <1>2. ASSUME Same, Goto(c, "insert") \/ Goto(c, "spawn") \/ Goto(c, "remove") \/ Goto(c, "await"),
               UNCHANGED answer, pc[c] \notin {"idle", "answered"}
        PROVE  UNCHANGED Worker!workerVars
    <2>1. \A b \in Calls : Said(b)' = Said(b)
      BY <1>2 DEF StageTypeOK, Goto, Said
    <2> QED
      BY <1>2, <2>1 DEF Worker!workerVars
  <1>3. pc[c] = "idle" => said[c] = "nothing"
    BY DEF Said
  <1>4. pc[c] = "await" => said[c] = "working"
    BY DEF Said
  <1>5. ASSUME NEW a \in {"error", "timeout"}, Answer(c, a), Same, pc[c] \in {"idle", "await"}
        PROVE  Worker!Fail(c)
    <2>1. said' = [said EXCEPT ![c] = a]
      BY <1>5, SaidAnswer
    <2> QED
      BY <1>3, <1>4, <1>5, <2>1 DEF Worker!Fail, Worker!Say
  <1>6. ASSUME Answer(c, "ok"), Store(c), UNCHANGED <<key, cancelling>>, pc[c] \in {"idle", "await"}
        PROVE  Worker!Succeed(c)
    <2>1. said' = [said EXCEPT ![c] = "ok"]
      BY <1>6, SaidAnswer
    <2> QED
      BY <1>3, <1>4, <1>6, <2>1 DEF Worker!Succeed, Worker!Say, Store
  <1>7. CASE Refuse(c)
    BY <1>5, <1>7 DEF Refuse, storeVars, Worker!WorkerNext
  <1>8. CASE SubmitEmpty(c)
    BY <1>6, <1>8 DEF SubmitEmpty, Worker!WorkerNext
  <1>9. CASE Submit(c)
    <2>1. Goto(c, "insert") /\ UNCHANGED answer /\ pc[c] = "idle" /\ Same
      BY <1>9 DEF Submit, storeVars
    <2>2. Said(c)' = "working" /\ \A b \in Calls \ {c} : Said(b)' = Said(b)
      BY <2>1, SaidMoves
    <2>3. said' = [said EXCEPT ![c] = "working"]
      BY <2>2
    <2>4. Worker!Begin(c)
      BY <1>3, <2>1, <2>3 DEF Worker!Begin, Worker!Say
    <2> QED
      BY <2>4 DEF Worker!WorkerNext
  <1>10. CASE TimesOut(c)
    BY <1>5, <1>10 DEF TimesOut, storeVars, Worker!WorkerNext
  <1>11. CASE DoGet(c)
    BY <1>1, <1>11 DEF DoGet, GetBatches, callVars, storeVars
  <1>12. CASE Activate(c)
    BY <1>2, <1>12 DEF Activate, storeVars
  <1>13. CASE SpawnBlocking(c)
    BY <1>2, <1>13 DEF SpawnBlocking, storeVars
  <1>14. CASE Deactivate(c)
    BY <1>2, <1>14 DEF Deactivate, storeVars
  <1>15. CASE StageFailed(c)
    BY <1>5, <1>15 DEF StageFailed, storeVars, Worker!WorkerNext
  <1>16. CASE StageSucceeded(c)
    BY <1>6, <1>16 DEF StageSucceeded, Worker!WorkerNext
  <1>17. CASE TaskStep(c)
    <2>1. UNCHANGED <<callVars, storeVars, cancelling>>
      BY <1>17, Zenon
      DEF TaskStep, GetConnection, NoConnection, HonourFlag, StartSql, EndSql,
          RegisterInput, RegisterFails
    <2> QED
      BY <1>1, <2>1 DEF callVars, storeVars
  <1> QED
    BY <1>7, <1>8, <1>9, <1>10, <1>11, <1>12, <1>13, <1>14, <1>15, <1>16, <1>17 DEF CallStep

\* Cancellations and the eviction of old results are steps of the abstract worker.
LEMMA RestRefines ==
  ASSUME StageTypeOK,
         \/ \E q \in Queries : CancelActive(q)
         \/ CancelResults \/ EvictExpired
         \/ \E k \in Keys : Age(k)
         \/ UNCHANGED vars
  PROVE  [Worker!WorkerNext]_(Worker!workerVars)
  <1> DEFINE said == [b \in Calls |-> Said(b)]
  <1>1. UNCHANGED <<pc, answer>> => UNCHANGED said
    BY DEF Said
  <1>2. ASSUME NEW q \in Queries, CancelActive(q) PROVE Worker!Cancel(q)
    BY <1>1, <1>2 DEF CancelActive, callVars, storeVars, Worker!Cancel
  <1>3. CASE CancelResults
    <2>1. UNCHANGED <<key, said>> /\ cancelling # None /\ cancelling' = None
      BY <1>1, <1>3 DEF CancelResults, callVars
    <2>2. results' = [k \in Keys |-> IF k \in {j \in Keys : QueryOf[j] # cancelling}
                                     THEN results[k] ELSE None]
      BY <1>3 DEF CancelResults
    <2>3. Worker!CancelEnds
      BY <2>1, <2>2 DEF Worker!CancelEnds, Worker!Keeping
    <2> QED
      BY <2>3 DEF Worker!WorkerNext
  <1>4. CASE EvictExpired
    <2>1. UNCHANGED <<key, said, cancelling>>
      BY <1>1, <1>4 DEF EvictExpired, callVars
    <2>2. results' = [k \in Keys |-> IF k \in Keys \ old THEN results[k] ELSE None]
      BY <1>4 DEF EvictExpired
    <2>3. Worker!Keeping(Keys \ old)
      BY <2>2 DEF Worker!Keeping
    <2>4. Worker!Expire
      BY <2>1, <2>3 DEF Worker!Expire
    <2> QED
      BY <2>4 DEF Worker!WorkerNext
  <1>5. ASSUME NEW k \in Keys, Age(k) PROVE UNCHANGED Worker!workerVars
    BY <1>1, <1>5 DEF Age, callVars, Worker!workerVars
  <1>6. CASE UNCHANGED vars
    BY <1>1, <1>6 DEF vars, callVars, storeVars, Worker!workerVars
  <1> QED
    BY <1>2, <1>3, <1>4, <1>5, <1>6 DEF Worker!WorkerNext

\* The service implements the abstract worker, for any calls, stages, queries
\* and connections: whatever fails, times out, is cancelled or runs on after
\* its time, a ticket is only given for a result that is in the cache at that
\* moment, and nothing else ever gets there.
THEOREM ServiceImplementsWorker == Spec => ImplementsWorker
  <1>1. Init => Worker!WorkerInit
    BY DEF Init, Worker!WorkerInit, Said
  <1>2. StageTypeOK /\ [Next]_vars => [Worker!WorkerNext]_(Worker!workerVars)
    BY CallRefines, RestRefines DEF Next
  <1> QED
    BY <1>1, <1>2, StageTypeCorrect, PTL DEF Spec, ImplementsWorker, Worker!WorkerSpec

----------------------------------------------------------------------------
(***************************************************************************)
(* What a call takes, it gives back.                                       *)
(***************************************************************************)

\* The handle in active_stages under a stage is that of a call for that stage
\* which has not yet got to its await.
HandlesAreCalls ==
  \A k \in Keys : active[k] # None =>
    key[active[k]] = k /\ pc[active[k]] \in {"spawn", "remove"}

\* A call that leaves the part of submit_stage in which its handle is
\* published takes it out, or finds it taken out or replaced by another call's.
LEMMA HandlesStep ==
  ASSUME StageTypeOK, HandlesAreCalls, [Next]_vars
  PROVE  HandlesAreCalls'
  <1> USE DEF HandlesAreCalls, StageTypeOK
  <1>1. CASE UNCHANGED <<pc, key, active>>
    BY <1>1
  <1>2. ASSUME NEW c \in Calls, Activate(c) PROVE HandlesAreCalls'
    BY <1>2, StageAssumption DEF Activate, Goto
  <1>3. ASSUME NEW c \in Calls, SpawnBlocking(c) PROVE HandlesAreCalls'
    BY <1>3 DEF SpawnBlocking, Goto
  <1>4. ASSUME NEW c \in Calls, Deactivate(c) PROVE HandlesAreCalls'
    BY <1>4 DEF Deactivate, Deregister, Goto
  <1>5. ASSUME NEW c \in Calls, NEW at, Goto(c, at), pc[c] \in {"idle", "await"},
               UNCHANGED <<key, active>>
        PROVE  HandlesAreCalls'
    BY <1>5 DEF Goto
  <1>6. ASSUME NEW c \in Calls, \/ Refuse(c) \/ SubmitEmpty(c) \/ Submit(c) \/ TimesOut(c)
                                 \/ StageFailed(c) \/ StageSucceeded(c)
        PROVE  HandlesAreCalls'
    <2>1. /\ pc[c] \in {"idle", "await"} /\ UNCHANGED <<key, active>>
          /\ Goto(c, "answered") \/ Goto(c, "insert")
      BY <1>6, Zenon
      DEF Refuse, SubmitEmpty, Submit, TimesOut, StageFailed, StageSucceeded, Answer
    <2> QED
      BY <1>5, <2>1
  <1>7. ASSUME NEW c \in Calls, DoGet(c) \/ TaskStep(c) PROVE UNCHANGED <<pc, key, active>>
    BY <1>7, Zenon
    DEF DoGet, TaskStep, GetConnection, NoConnection, HonourFlag, StartSql, EndSql,
        RegisterInput, RegisterFails, callVars
  <1>8. ASSUME \/ \E q \in Queries : CancelActive(q)
               \/ CancelResults \/ EvictExpired
               \/ \E k \in Keys : Age(k)
               \/ UNCHANGED vars
        PROVE  UNCHANGED <<pc, key, active>>
    BY <1>8, Zenon DEF CancelActive, CancelResults, EvictExpired, Age, callVars, vars
  <1> QED
    BY <1>1, <1>2, <1>3, <1>4, <1>6, <1>7, <1>8 DEF Next, CallStep

\* Once every call is answered active_stages is empty, and once every blocking
\* task has returned the whole pool is free.
AllGivenBack ==
  /\ (\A c \in Calls : pc[c] \in {"idle", "answered"}) => \A k \in Keys : active[k] = None
  /\ (\A c \in Calls : bpc[c] \in {"none", "ok", "err"}) => \A d \in Conns : Free(d)

\* Nothing leaks, whatever timed out, failed, was cancelled or shared a key
\* with another call on the way: handles and connections are all back when the
\* calls and their tasks are over.  (That they get there is ResourcesReturn,
\* which needs fairness.)
THEOREM NothingLeaks == Spec => []AllGivenBack
  <1>1. Init => HandlesAreCalls
    BY DEF Init, HandlesAreCalls
  <1>2. Spec => []HandlesAreCalls
    BY <1>1, HandlesStep, StageTypeCorrect, PTL DEF Spec
  <1>3. ASSUME StageInv, HandlesAreCalls PROVE AllGivenBack
    <2>1. ASSUME \A c \in Calls : pc[c] \in {"idle", "answered"}, NEW k \in Keys
          PROVE  active[k] = None
      BY <1>3, <2>1 DEF StageInv, StageTypeOK, HandlesAreCalls
    <2>2. ASSUME \A c \in Calls : bpc[c] \in {"none", "ok", "err"}, NEW d \in Conns
          PROVE  Free(d)
      <3>1. \A c \in Calls : conn[c] = None
        BY <1>3, <2>2 DEF StageInv, HoldsConn
      <3> QED
        BY <3>1, StageAssumption DEF Free
    <2> QED
      BY <2>1, <2>2 DEF AllGivenBack
  <1> QED
    BY <1>2, <1>3, StageInvariant, PTL

----------------------------------------------------------------------------
(***************************************************************************)
(* ConnectsOnce, for any callers, tasks, workers and limits.               *)
(*                                                                         *)
(* It is not inductive: that nobody empties or fills the slot of a caller  *)
(* that is connecting is so because the caller has its mutex all the way   *)
(* (Holding), and that a mutex is one caller's because a queue holds only  *)
(* callers that have or await its worker's slot, each once (Queued).       *)
(***************************************************************************)
PoolStates == {"idle", "entry", "validate", "lock", "health", "count", "choose",
               "connect", "use", "remove"}
Waits == PoolStates \ {"idle", "entry", "use"}
Owning == {"validate", "health", "count", "choose", "connect"}

PoolTypes ==
    /\ poolPc \in [Callers -> PoolStates] /\ target \in [Callers -> Peers]
    /\ lockq \in [Peers -> Seq(Callers)]

Queued ==
    \A w \in Peers : \A i \in 1..Len(lockq[w]) :
        /\ target[lockq[w][i]] = w /\ poolPc[lockq[w][i]] \in Waits
        /\ \A j \in 1..Len(lockq[w]) : lockq[w][i] = lockq[w][j] => i = j

Holding == \A c \in Callers : poolPc[c] \in Owning => Owns(c)
Making == \A c \in Callers : Connecting(c) => target[c] \notin live

LockInv == PoolTypes /\ Queued /\ Holding
PoolInv == LockInv /\ Making

(* Who has a slot, and how a slot's queue changes. *)
LEMMA HeadIsFirst ==
    ASSUME NEW q \in Seq(Callers), q # <<>>
    PROVE  /\ Len(q) \in Nat /\ 1 \in 1..Len(q) /\ Head(q) = q[1] /\ Head(q) \in Callers
           /\ Tail(q) \in Seq(Callers) /\ Len(Tail(q)) = Len(q) - 1
           /\ \A i \in 1..Len(Tail(q)) : Tail(q)[i] = q[i + 1] /\ i + 1 \in 1..Len(q)
OBVIOUS

(* A caller that joins a queue is its last. *)
LEMMA AppendIsLast ==
    ASSUME NEW q \in Seq(Callers), NEW c \in Callers
    PROVE  /\ Append(q, c) \in Seq(Callers) /\ Len(Append(q, c)) = Len(q) + 1 /\ Append(q, c) # <<>>
           /\ Append(q, c)[Len(q) + 1] = c /\ \A i \in 1..Len(q) : Append(q, c)[i] = q[i]
           /\ q # <<>> => Head(Append(q, c)) = Head(q)
<1> DEFINE p == Append(q, c)
<1>1. /\ p \in Seq(Callers) /\ Len(p) = Len(q) + 1 /\ Len(q) \in Nat
      /\ p[Len(q) + 1] = c /\ \A i \in 1..Len(q) : p[i] = q[i]
  OBVIOUS
<1> HIDE DEF p
<1>2. p # <<>> /\ Head(p) = p[1]
  BY <1>1
<1>3. q # <<>> => Head(q) = q[1] /\ 1 \in 1..Len(q)
  BY <1>1
<1>4. q # <<>> => Head(p) = Head(q)
  BY <1>1, <1>2, <1>3
<1>. QED BY <1>1, <1>2, <1>4 DEF p

(* Steps that leave the slots alone: of a caller that waits or has one it  *)
(* changes what it does there, of another it changes nothing.              *)
LEMMA SlotsKept ==
    ASSUME LockInv, UNCHANGED <<target, lockq>>, NEW c \in Callers, NEW s \in PoolStates, Go(c, s),
           poolPc[c] \in Waits => s \in Waits,
           s \in Owning => Owns(c)
    PROVE  LockInv'
<1>1. PoolTypes'
  BY DEF LockInv, PoolTypes, Go
<1>2. \A d \in Callers : poolPc'[d] = IF d = c THEN s ELSE poolPc[d]
  BY DEF LockInv, PoolTypes, Go
<1>3. \A w \in Peers : \A i \in 1..Len(lockq[w]) : lockq[w][i] \in Callers
  BY DEF LockInv, PoolTypes
<1>4. Queued'
  BY <1>2, <1>3 DEF LockInv, Queued
<1>5. Holding'
  BY <1>2 DEF LockInv, Holding, Owns
<1>. QED BY <1>1, <1>4, <1>5 DEF LockInv

(* A caller takes its place in the queue of its worker's slot. *)
LEMMA SlotJoined ==
    ASSUME LockInv, UNCHANGED target, NEW c \in Callers, NEW s \in {"validate", "lock", "remove"},
           Go(c, s), Enqueue(c), poolPc[c] \notin Waits,
           s = "validate" => Unlocked(target[c])
    PROVE  LockInv'
<1> DEFINE w == target[c]
           q == lockq[w]
<1>0. w \in Peers /\ q \in Seq(Callers) /\ Len(q) \in Nat
  BY DEF LockInv, PoolTypes
<1>1. \A d \in Callers : poolPc'[d] = IF d = c THEN s ELSE poolPc[d]
  BY DEF LockInv, PoolTypes, Go
<1>2. \A v \in Peers : lockq'[v] = IF v = w THEN Append(q, c) ELSE lockq[v]
  BY DEF LockInv, PoolTypes, Enqueue
<1>3. PoolTypes'
  <2>1. poolPc' \in [Callers -> PoolStates]
    BY DEF LockInv, PoolTypes, Go, PoolStates
  <2>2. lockq' \in [Peers -> Seq(Callers)]
    BY <1>0, AppendIsLast DEF LockInv, PoolTypes, Enqueue
  <2>. QED BY <2>1, <2>2 DEF LockInv, PoolTypes
<1>4. \A v \in Peers : \A i \in 1..Len(lockq[v]) :
        lockq[v][i] \in Callers /\ lockq[v][i] # c /\ target[lockq[v][i]] = v
        /\ poolPc[lockq[v][i]] \in Waits
  BY DEF LockInv, Queued, PoolTypes
<1>5. Queued'
  <2> SUFFICES ASSUME NEW v \in Peers, NEW i \in 1..Len(lockq'[v])
               PROVE  /\ target[lockq'[v][i]] = v /\ poolPc'[lockq'[v][i]] \in Waits
                      /\ \A j \in 1..Len(lockq'[v]) : lockq'[v][i] = lockq'[v][j] => i = j
    BY DEF Queued
  <2>1. CASE v # w
    BY <1>1, <1>2, <1>4, <2>1 DEF LockInv, Queued
  <2>2. CASE v = w
    <3> DEFINE p == Append(q, c)
    <3>1. lockq'[v] = p
      BY <1>2, <2>2
    <3>2. /\ Len(p) = Len(q) + 1 /\ p[Len(q) + 1] = c /\ \A j \in 1..Len(q) : p[j] = q[j]
      BY <1>0, AppendIsLast
    <3>3. \A j \in 1..Len(q) : \A k \in 1..Len(q) : q[j] = q[k] => j = k
      BY <1>0 DEF LockInv, Queued
    <3>4. \A j \in 1..Len(q) : /\ q[j] \in Callers /\ q[j] # c /\ target[q[j]] = w
                               /\ poolPc[q[j]] \in Waits
      BY <1>0, <1>4
    <3> HIDE DEF p, q, w
    <3>5. i \in 1..Len(p)
      BY <3>1
    <3>6. CASE i = Len(q) + 1
      <4>1. target[p[i]] = w /\ poolPc'[p[i]] \in Waits
        BY <1>1, <3>2, <3>6 DEF w, Waits, PoolStates
      <4>2. \A j \in 1..Len(p) : p[i] = p[j] => i = j
        BY <1>0, <3>2, <3>4, <3>6
      <4>. QED BY <2>2, <3>1, <4>1, <4>2
    <3>7. CASE i \in 1..Len(q)
      <4>1. target[p[i]] = w /\ poolPc'[p[i]] \in Waits
        BY <1>1, <3>2, <3>4, <3>7
      <4>2. \A j \in 1..Len(p) : p[i] = p[j] => i = j
        BY <1>0, <3>2, <3>3, <3>4, <3>7
      <4>. QED BY <2>2, <3>1, <4>1, <4>2
    <3>. QED BY <1>0, <3>2, <3>5, <3>6, <3>7
  <2>. QED BY <2>1, <2>2
<1>6. Holding'
  <2> SUFFICES ASSUME NEW d \in Callers, poolPc'[d] \in Owning
               PROVE  lockq'[target[d]] # <<>> /\ Head(lockq'[target[d]]) = d
    BY DEF Holding, Owns
  <2>1. CASE d = c
    <3>1. q = <<>> /\ lockq'[target[d]] = Append(q, c)
      BY <1>0, <1>1, <1>2, <2>1 DEF Owning, Unlocked
    <3>. QED BY <1>0, <2>1, <3>1
  <2>2. CASE d # c
    <3>1. target[d] \in Peers /\ lockq[target[d]] # <<>> /\ Head(lockq[target[d]]) = d
      BY <1>1, <2>2 DEF LockInv, PoolTypes, Holding, Owns
    <3>2. CASE target[d] = w
      <4>1. q # <<>> /\ Head(q) = d /\ lockq'[w] = Append(q, c)
        BY <1>0, <1>2, <3>1, <3>2
      <4>. QED BY <1>0, <3>2, <4>1, AppendIsLast
    <3>3. CASE target[d] # w
      BY <1>2, <3>1, <3>3
    <3>. QED BY <3>2, <3>3
  <2>. QED BY <2>1, <2>2
<1>. QED BY <1>3, <1>5, <1>6 DEF LockInv

(* The owner gives its slot up. *)
LEMMA SlotLeft ==
    ASSUME LockInv, UNCHANGED target, NEW c \in Callers, NEW s \in {"idle", "use"}, Go(c, s),
           Unlock(c), Owns(c)
    PROVE  LockInv'
<1> DEFINE w == target[c]
           q == lockq[w]
<1>0. w \in Peers /\ q \in Seq(Callers) /\ q # <<>> /\ Head(q) = c
  BY DEF LockInv, PoolTypes, Owns
<1>1. \A d \in Callers : poolPc'[d] = IF d = c THEN s ELSE poolPc[d]
  BY DEF LockInv, PoolTypes, Go
<1>2. \A v \in Peers : lockq'[v] = IF v = w THEN Tail(q) ELSE lockq[v]
  BY DEF LockInv, PoolTypes, Unlock
<1>3. PoolTypes'
  <2>1. poolPc' \in [Callers -> PoolStates]
    BY DEF LockInv, PoolTypes, Go, PoolStates
  <2>2. lockq' \in [Peers -> Seq(Callers)]
    BY <1>0, HeadIsFirst DEF LockInv, PoolTypes, Unlock
  <2>. QED BY <2>1, <2>2 DEF LockInv, PoolTypes
<1>4. \A v \in Peers : \A i \in 1..Len(lockq[v]) :
        /\ lockq[v][i] \in Callers /\ target[lockq[v][i]] = v /\ poolPc[lockq[v][i]] \in Waits
        /\ \A j \in 1..Len(lockq[v]) : lockq[v][i] = lockq[v][j] => i = j
  BY DEF LockInv, Queued, PoolTypes
<1>5. Queued'
  <2> SUFFICES ASSUME NEW v \in Peers, NEW i \in 1..Len(lockq'[v])
               PROVE  /\ target[lockq'[v][i]] = v /\ poolPc'[lockq'[v][i]] \in Waits
                      /\ \A j \in 1..Len(lockq'[v]) : lockq'[v][i] = lockq'[v][j] => i = j
    BY DEF Queued
  <2>1. CASE v # w
    <3>1. lockq'[v] = lockq[v]
      BY <1>2, <2>1
    <3>2. lockq[v][i] # c /\ lockq[v][i] \in Callers
      BY <1>4, <2>1, <3>1
    <3>. QED BY <1>1, <1>4, <3>1, <3>2
  <2>2. CASE v = w
    <3> DEFINE p == Tail(q)
    <3>1. lockq'[v] = p
      BY <1>2, <2>2
    <3>2. /\ Len(q) \in Nat /\ 1 \in 1..Len(q) /\ q[1] = c /\ Len(p) = Len(q) - 1
          /\ \A j \in 1..Len(p) : p[j] = q[j + 1] /\ j + 1 \in 1..Len(q)
      BY <1>0, HeadIsFirst
    <3>3. \A j \in 1..Len(q) : /\ q[j] \in Callers /\ target[q[j]] = w /\ poolPc[q[j]] \in Waits
                               /\ \A k \in 1..Len(q) : q[j] = q[k] => j = k
      BY <1>0, <1>4
    <3> HIDE DEF p, q, w
    <3>4. i \in 1..Len(p)
      BY <3>1
    <3>5. q[i + 1] # c /\ target[p[i]] = w /\ poolPc'[p[i]] \in Waits
      BY <1>1, <3>2, <3>3, <3>4
    <3>6. \A j \in 1..Len(p) : p[i] = p[j] => i = j
      <4> SUFFICES ASSUME NEW j \in 1..Len(p), p[i] = p[j] PROVE i = j
        OBVIOUS
      <4>1. q[i + 1] = q[j + 1] /\ i + 1 \in 1..Len(q) /\ j + 1 \in 1..Len(q)
        BY <3>2, <3>4
      <4>2. i + 1 = j + 1
        BY <3>3, <4>1
      <4>. QED BY <3>4, <4>2
    <3>. QED BY <2>2, <3>1, <3>5, <3>6
  <2>. QED BY <2>1, <2>2
<1>6. Holding'
  <2> SUFFICES ASSUME NEW d \in Callers, poolPc'[d] \in Owning
               PROVE  lockq'[target[d]] # <<>> /\ Head(lockq'[target[d]]) = d
    BY DEF Holding, Owns
  <2>1. d # c /\ poolPc[d] \in Owning /\ target[d] \in Peers
    BY <1>1 DEF LockInv, PoolTypes, Owning
  <2>2. lockq[target[d]] # <<>> /\ Head(lockq[target[d]]) = d
    BY <2>1 DEF LockInv, Holding, Owns
  <2>3. target[d] # w
    BY <1>0, <2>1, <2>2
  <2>. QED BY <1>2, <2>1, <2>2, <2>3
<1>. QED BY <1>3, <1>5, <1>6 DEF LockInv

(* A caller that is not in the pool picks the worker of its next call. *)
LEMMA SlotChosen ==
    ASSUME LockInv, NEW c \in Callers, BeginCall(c)
    PROVE  LockInv'
<1>1. PICK w \in Peers : target' = [target EXCEPT ![c] = w]
  BY DEF BeginCall
<1>2. poolPc[c] = "idle" /\ poolPc' = [poolPc EXCEPT ![c] = "entry"] /\ lockq' = lockq
  BY DEF BeginCall, Go
<1>3. \A d \in Callers : d # c => poolPc'[d] = poolPc[d] /\ target'[d] = target[d]
  BY <1>1, <1>2 DEF LockInv, PoolTypes
<1>4. poolPc'[c] = "entry"
  BY <1>2 DEF LockInv, PoolTypes
<1>5. PoolTypes'
  BY <1>1, <1>2 DEF LockInv, PoolTypes, PoolStates
<1>6. \A v \in Peers : \A i \in 1..Len(lockq[v]) : lockq[v][i] \in Callers /\ lockq[v][i] # c
  <2>1. \A v \in Peers : \A i \in 1..Len(lockq[v]) : lockq[v][i] \in Callers
    BY DEF LockInv, PoolTypes
  <2>2. \A v \in Peers : \A i \in 1..Len(lockq[v]) : poolPc[lockq[v][i]] \in Waits
    BY DEF LockInv, Queued
  <2>3. poolPc[c] \notin Waits
    BY <1>2 DEF Waits
  <2>. QED BY <2>1, <2>2, <2>3
<1>7. Queued'
  BY <1>2, <1>3, <1>6 DEF LockInv, Queued
<1>8. Holding'
  BY <1>2, <1>3, <1>4 DEF LockInv, Holding, Owns, Owning
<1>. QED BY <1>5, <1>7, <1>8 DEF LockInv

(* A step after which there are no new connections, seen by those that     *)
(* are connecting.                                                         *)
LEMMA MakingKept ==
    ASSUME LockInv, Making, UNCHANGED target, NEW c \in Callers, NEW s \in PoolStates, Go(c, s),
           live' \subseteq live, s \in {"count", "choose", "connect"} => target[c] \notin live'
    PROVE  Making'
<1>1. \A d \in Callers : poolPc'[d] = IF d = c THEN s ELSE poolPc[d]
  BY DEF LockInv, PoolTypes, Go
<1>. QED BY <1>1 DEF Making, Connecting

(* PoolInv holds at the start. *)
LEMMA PoolStart == PoolInit => PoolInv
<1> SUFFICES ASSUME PoolInit PROVE PoolInv
  OBVIOUS
<1>1. \A w \in Peers : lockq[w] = <<>> /\ Len(lockq[w]) = 0
  BY DEF PoolInit
<1>2. PoolTypes
  <2>1. (CHOOSE w \in Peers : TRUE) \in Peers
    BY PoolAssumption
  <2>2. <<>> \in Seq(Callers)
    OBVIOUS
  <2>. QED BY <2>1, <2>2 DEF PoolInit, PoolTypes, PoolStates
<1>3. Queued
  BY <1>1 DEF Queued
<1>4. Holding /\ Making
  BY DEF PoolInit, Holding, Owning, Making, Connecting
<1>. QED BY <1>2, <1>3, <1>4 DEF PoolInv, LockInv

(* A step of a caller that keeps its place, in a slot's queue or outside. *)
LEMMA CallerStays ==
    ASSUME PoolInv, NEW c \in Callers, NEW s \in PoolStates, Go(c, s), UNCHANGED <<target, lockq>>,
           poolPc[c] \in Waits => s \in Waits, s \in Owning => Owns(c), live' \subseteq live,
           s \in {"count", "choose", "connect"} => target[c] \notin live'
    PROVE  PoolInv'
<1>1. LockInv'
  BY SlotsKept DEF PoolInv
<1>2. Making'
  BY MakingKept DEF PoolInv
<1>. QED BY <1>1, <1>2 DEF PoolInv

(* The new connection: of two callers that are connecting, each has the    *)
(* slot of another worker.                                                 *)
LEMMA ConnectStep ==
    ASSUME PoolInv, NEW c \in Callers, Connect(c)
    PROVE  PoolInv'
<1>0. LockInv /\ Making /\ Holding
  BY DEF PoolInv, LockInv
<1>1. /\ poolPc[c] = "connect" /\ Go(c, "use") /\ Unlock(c) /\ UNCHANGED target
      /\ live' = live \cup {target[c]}
  BY DEF Connect
<1>2. LockInv'
  BY <1>0, <1>1, SlotLeft DEF Holding, Owning
<1>3. \A d \in Callers : poolPc'[d] = IF d = c THEN "use" ELSE poolPc[d]
  BY <1>0, <1>1 DEF LockInv, PoolTypes, Go
<1>4. ASSUME NEW d \in Callers, Connecting(d)' PROVE target[d] \notin live'
  <2>1. d # c /\ Connecting(d)
    BY <1>3, <1>4 DEF Connecting
  <2>2. Owns(d) /\ Owns(c)
    BY <1>0, <1>1, <2>1 DEF Holding, Owning, Connecting
  <2>3. target[d] # target[c]
    BY <2>1, <2>2 DEF Owns
  <2>. QED BY <1>0, <1>1, <2>1, <2>3 DEF Making
<1>5. Making'
  BY <1>1, <1>4 DEF Making
<1>. QED BY <1>2, <1>5 DEF PoolInv

(* PoolInv is inductive. *)
LEMMA PoolStep == PoolInv /\ [PoolNext]_poolVars => PoolInv'
<1> SUFFICES ASSUME PoolInv, [PoolNext]_poolVars PROVE PoolInv'
  OBVIOUS
<1>0. LockInv /\ Making /\ Holding
  BY DEF PoolInv, LockInv
<1>p. /\ {"idle", "use"} \subseteq PoolStates \ Waits /\ Waits \subseteq PoolStates
      /\ {"validate", "lock", "remove"} \cup Owning \subseteq Waits
  BY DEF PoolStates, Waits, Owning
<1>1. ASSUME UNCHANGED <<poolPc, target, lockq>>, live' \subseteq live PROVE PoolInv'
  <2>1. LockInv'
    BY <1>0, <1>1 DEF LockInv, PoolTypes, Queued, Holding, Owns
  <2>2. Making'
    BY <1>0, <1>1 DEF Making, Connecting
  <2>. QED BY <2>1, <2>2 DEF PoolInv
<1>2. ASSUME NEW c \in Callers, BeginCall(c) PROVE PoolInv'
  <2>1. LockInv'
    BY <1>0, <1>2, SlotChosen
  <2>2. /\ Go(c, "entry") /\ live' = live
        /\ \E w \in Peers : target' = [target EXCEPT ![c] = w]
    BY <1>2 DEF BeginCall, connVars
  <2>3. \A d \in Callers : d # c => poolPc'[d] = poolPc[d] /\ target'[d] = target[d]
    BY <1>0, <2>2 DEF LockInv, PoolTypes, Go
  <2>4. poolPc'[c] = "entry"
    BY <1>0, <2>2 DEF LockInv, PoolTypes, Go
  <2>5. Making'
    BY <1>0, <2>2, <2>3, <2>4 DEF Making, Connecting
  <2>. QED BY <2>1, <2>5 DEF PoolInv
<1>3. ASSUME NEW c \in Callers, CallerStep(c) PROVE PoolInv'
  <2>1. CASE TakeSlot(c)
    <3>1. /\ poolPc[c] = "entry" /\ Enqueue(c) /\ UNCHANGED target /\ live' = live
          /\ \E s \in {"validate", "lock"} : Go(c, s) /\ (s = "validate" => Unlocked(target[c]))
      BY <2>1 DEF TakeSlot, connVars
    <3>2. PICK s \in {"validate", "lock"} : Go(c, s) /\ (s = "validate" => Unlocked(target[c]))
      BY <3>1
    <3>3. LockInv'
      BY <1>0, <3>1, <3>2, SlotJoined DEF Waits
    <3>4. Making'
      BY <1>0, <1>p, <3>1, <3>2, MakingKept
    <3>. QED BY <3>3, <3>4 DEF PoolInv
  <2>2. CASE Validate(c)
    <3>1. Owns(c) /\ UNCHANGED <<target, lockq>>
      BY <2>2 DEF Validate
    <3>2. \/ Go(c, "health") /\ live' = live
          \/ Go(c, "count") /\ live' = live \ {target[c]}
      BY <2>2 DEF Validate, Drop, connVars
    <3>. QED BY <1>p, <3>1, <3>2, CallerStays DEF Owning
  <2>3. CASE Healthy(c) \/ CannotConnect(c) \/ RemoveConnection(c)
    <3>1. /\ Unlock(c) /\ UNCHANGED target /\ live' \subseteq live
          /\ poolPc[c] \in {"health", "connect"} \/ Owns(c)
          /\ \E s \in {"idle", "use"} : Go(c, s)
      BY <2>3 DEF Healthy, CannotConnect, RemoveConnection, Drop, connVars
    <3>2. PICK s \in {"idle", "use"} : Go(c, s)
      BY <3>1
    <3>3. LockInv'
      BY <1>0, <3>1, <3>2, SlotLeft DEF Holding, Owning
    <3>4. Making'
      BY <1>0, <1>p, <3>1, <3>2, MakingKept
    <3>. QED BY <3>3, <3>4 DEF PoolInv
  <2>4. CASE Unhealthy(c)
    <3>1. /\ Owns(c) /\ UNCHANGED <<target, lockq>> /\ Go(c, "count") /\ live' = live \ {target[c]}
      BY <1>0, <2>4 DEF Unhealthy, Drop, Holding, Owning
    <3>. QED BY <1>p, <3>1, CallerStays DEF Owning
  <2>5. CASE CountSlot(c) \/ ChooseSlot(c)
    <3>1. UNCHANGED <<poolPc, target, lockq>> /\ live' = live
      BY <2>5 DEF CountSlot, ChooseSlot, connVars
    <3>. QED BY <1>1, <3>1
  <2>6. CASE Counted(c) \/ EvictOldest(c)
    <3>1. /\ poolPc[c] \in {"count", "choose"} /\ UNCHANGED <<target, lockq>>
          /\ Go(c, "choose") \/ Go(c, "connect")
      BY <2>6 DEF Counted, EvictOldest
    <3>2. live' \subseteq live
      BY <2>6 DEF Counted, EvictOldest, Drop, connVars
    <3>3. Owns(c) /\ target[c] \notin live
      BY <1>0, <3>1 DEF Holding, Owning, Making, Connecting
    <3>. QED BY <1>p, <3>1, <3>2, <3>3, CallerStays DEF Owning
  <2>7. CASE Connect(c)
    BY <2>7, ConnectStep
  <2>8. CASE CallEnds(c)
    <3>1. poolPc[c] = "use" /\ Go(c, "idle") /\ UNCHANGED <<target, lockq>> /\ live' = live
      BY <2>8 DEF CallEnds, connVars
    <3>. QED BY <1>p, <3>1, CallerStays DEF Owning
  <2>9. CASE CallFails(c)
    <3>1. poolPc[c] = "use" /\ UNCHANGED target
      BY <2>9 DEF CallFails
    <3>2. \/ live' = live \ {target[c]} /\ Go(c, "idle") /\ UNCHANGED lockq
          \/ Enqueue(c) /\ Go(c, "remove") /\ live' = live
      BY <2>9 DEF CallFails, Drop, connVars
    <3>3. CASE live' = live \ {target[c]} /\ Go(c, "idle") /\ UNCHANGED lockq
      BY <1>p, <3>1, <3>3, CallerStays DEF Owning
    <3>4. CASE Enqueue(c) /\ Go(c, "remove") /\ live' = live
      <4>1. LockInv'
        BY <1>0, <3>1, <3>4, SlotJoined DEF Waits
      <4>2. Making'
        BY <1>0, <1>p, <3>1, <3>4, MakingKept
      <4>. QED BY <4>1, <4>2 DEF PoolInv
    <3>. QED BY <3>2, <3>3, <3>4
  <2>. QED BY <1>3, <2>1, <2>2, <2>3, <2>4, <2>5, <2>6, <2>7, <2>8, <2>9 DEF CallerStep
<1>4. ASSUME NEW w \in Peers, ConnectionExpires(w) \/ EvictStale(w) PROVE PoolInv'
  BY <1>1, <1>4 DEF ConnectionExpires, EvictStale, Drop
<1>5. CASE UNCHANGED poolVars
  BY <1>1, <1>5 DEF poolVars, connVars
<1>. QED BY <1>2, <1>3, <1>4, <1>5 DEF PoolNext

(* ConnectsOnce: one caller at a time connects to a worker, and its slot   *)
(* is empty until it has, however many calls overlap, evict and remove     *)
(* (get_connection, try_evict_oldest, evict_stale_connections,             *)
(* remove_connection).                                                     *)
THEOREM PoolConnectsOnce == PoolSpec => []ConnectsOnce
<1>1. PoolInv => ConnectsOnce
  BY DEF PoolInv, LockInv, Holding, Owning, Owns, Making, Connecting, ConnectsOnce
<1>. QED BY <1>1, PoolStart, PoolStep, PTL DEF PoolSpec

----------------------------------------------------------------------------
(***************************************************************************)
(* What can stop the pool, for any callers, tasks and threads: nothing but *)
(* the guard of remove_connection.                                         *)
(***************************************************************************)
InLine ==
    \A c \in Callers : poolPc[c] \in Waits =>
        \E i \in 1..Len(lockq[target[c]]) : lockq[target[c]][i] = c

(* When a caller has a step: the guards of CallerStep.  A walk over the    *)
(* slots goes on whatever it finds there.                                  *)
Moves(c) ==
    \/ poolPc[c] = "entry" /\ ~ShardRead
    \/ poolPc[c] \in {"validate", "lock", "remove"} /\ Owns(c) /\ CanRun(c)
    \/ poolPc[c] \in {"count", "choose"}
    \/ poolPc[c] \in {"health", "connect", "use"} /\ CanRun(c)

(* While a call is under way, some caller has a step to take, or the guard *)
(* of remove_connection has closed the circle with a blocked entry().      *)
NeverStuck ==
    (\E c \in Callers : poolPc[c] # "idle") => GuardCircle \/ \E d \in Callers : Moves(d)

(* A step that leaves the queues alone brings nobody new to wait. *)
LEMMA LineKept ==
    ASSUME LockInv, InLine, UNCHANGED <<target, lockq>>, NEW c \in Callers, NEW s, Go(c, s),
           s \in Waits => poolPc[c] \in Waits
    PROVE  InLine'
<1>1. \A d \in Callers : poolPc'[d] = IF d = c THEN s ELSE poolPc[d]
  BY DEF LockInv, PoolTypes, Go
<1>2. \A d \in Callers : poolPc'[d] \in Waits => poolPc[d] \in Waits
  BY <1>1
<1>. QED BY <1>2 DEF InLine

(* Who comes to wait is the last in line. *)
LEMMA LineJoined ==
    ASSUME LockInv, InLine, UNCHANGED target, NEW c \in Callers, NEW s, Go(c, s), Enqueue(c)
    PROVE  InLine'
<1> DEFINE w == target[c]
           q == lockq[w]
<1>0. w \in Peers /\ q \in Seq(Callers) /\ Len(q) \in Nat
  BY DEF LockInv, PoolTypes
<1>1. \A d \in Callers : poolPc'[d] = IF d = c THEN s ELSE poolPc[d]
  BY DEF LockInv, PoolTypes, Go
<1>2. \A v \in Peers : lockq'[v] = IF v = w THEN Append(q, c) ELSE lockq[v]
  BY DEF LockInv, PoolTypes, Enqueue
<1>3. /\ Len(Append(q, c)) = Len(q) + 1 /\ Append(q, c)[Len(q) + 1] = c
      /\ \A i \in 1..Len(q) : Append(q, c)[i] = q[i]
  BY <1>0, AppendIsLast
<1> SUFFICES ASSUME NEW d \in Callers, poolPc'[d] \in Waits
             PROVE  \E i \in 1..Len(lockq'[target[d]]) : lockq'[target[d]][i] = d
  BY DEF InLine
<1>4. CASE d = c
  <2>1. lockq'[target[d]] = Append(q, c)
    BY <1>0, <1>2, <1>4
  <2>2. Len(q) + 1 \in 1..Len(Append(q, c))
    BY <1>0, <1>3
  <2>. QED BY <1>3, <1>4, <2>1, <2>2
<1>5. CASE d # c
  <2>0. target[d] \in Peers
    BY DEF LockInv, PoolTypes
  <2>1. PICK i \in 1..Len(lockq[target[d]]) : lockq[target[d]][i] = d
    BY <1>1, <1>5 DEF InLine
  <2>2. CASE target[d] = w
    <3>1. lockq'[target[d]] = Append(q, c) /\ i \in 1..Len(q) /\ q[i] = d
      BY <1>0, <1>2, <2>1, <2>2
    <3>2. i \in 1..Len(Append(q, c)) /\ Append(q, c)[i] = d
      BY <1>0, <1>3, <3>1
    <3>. QED BY <3>1, <3>2
  <2>3. CASE target[d] # w
    BY <1>2, <2>0, <2>1, <2>3
  <2>. QED BY <2>2, <2>3
<1>. QED BY <1>4, <1>5

(* The owner leaves the line; the others move up. *)
LEMMA LineLeft ==
    ASSUME LockInv, InLine, UNCHANGED target, NEW c \in Callers, NEW s \in {"idle", "use"},
           Go(c, s), Unlock(c), Owns(c)
    PROVE  InLine'
<1> DEFINE w == target[c]
           q == lockq[w]
<1>0. w \in Peers /\ q \in Seq(Callers) /\ q # <<>> /\ Head(q) = c
  BY DEF LockInv, PoolTypes, Owns
<1>1. \A d \in Callers : poolPc'[d] = IF d = c THEN s ELSE poolPc[d]
  BY DEF LockInv, PoolTypes, Go
<1>2. \A v \in Peers : lockq'[v] = IF v = w THEN Tail(q) ELSE lockq[v]
  BY DEF LockInv, PoolTypes, Unlock
<1>3. /\ Len(q) \in Nat /\ q[1] = c /\ Len(Tail(q)) = Len(q) - 1
      /\ \A j \in 1..Len(Tail(q)) : Tail(q)[j] = q[j + 1]
  BY <1>0, HeadIsFirst
<1> SUFFICES ASSUME NEW d \in Callers, poolPc'[d] \in Waits
             PROVE  \E i \in 1..Len(lockq'[target[d]]) : lockq'[target[d]][i] = d
  BY DEF InLine
<1>4. d # c /\ poolPc[d] \in Waits /\ target[d] \in Peers
  BY <1>1 DEF Waits, LockInv, PoolTypes
<1>5. PICK i \in 1..Len(lockq[target[d]]) : lockq[target[d]][i] = d
  BY <1>4 DEF InLine
<1>6. CASE target[d] = w
  <2>1. lockq'[target[d]] = Tail(q) /\ i \in 1..Len(q) /\ q[i] = d /\ i # 1
    BY <1>0, <1>2, <1>3, <1>4, <1>5, <1>6
  <2>2. i - 1 \in 1..Len(Tail(q)) /\ (i - 1) + 1 = i
    BY <1>3, <2>1
  <2>3. Tail(q)[i - 1] = d
    BY <1>3, <2>1, <2>2
  <2>. QED BY <2>1, <2>2, <2>3
<1>7. CASE target[d] # w
  BY <1>2, <1>4, <1>5, <1>7
<1>. QED BY <1>6, <1>7

(* Whoever waits for a slot is in its queue. *)
LEMMA LineStep == PoolInv /\ InLine /\ [PoolNext]_poolVars => InLine'
<1> SUFFICES ASSUME PoolInv, InLine, [PoolNext]_poolVars PROVE InLine'
  OBVIOUS
<1>0. LockInv /\ Holding
  BY DEF PoolInv, LockInv
<1>1. ASSUME UNCHANGED <<poolPc, target, lockq>> PROVE InLine'
  BY <1>1 DEF InLine
<1>2. ASSUME NEW c \in Callers, BeginCall(c) PROVE InLine'
  <2>1. /\ Go(c, "entry") /\ UNCHANGED lockq
        /\ \E w \in Peers : target' = [target EXCEPT ![c] = w]
    BY <1>2 DEF BeginCall
  <2>2. \A d \in Callers : d # c => poolPc'[d] = poolPc[d] /\ target'[d] = target[d]
    BY <1>0, <2>1 DEF LockInv, PoolTypes, Go
  <2>3. poolPc'[c] \notin Waits
    BY <1>0, <2>1 DEF LockInv, PoolTypes, Go, Waits
  <2>. QED BY <2>1, <2>2, <2>3 DEF InLine
<1>3. ASSUME NEW c \in Callers, CallerStep(c) PROVE InLine'
  <2>1. CASE TakeSlot(c)
    BY <1>0, <2>1, LineJoined DEF TakeSlot
  <2>2. CASE Healthy(c) \/ Connect(c) \/ CannotConnect(c) \/ RemoveConnection(c)
    <3>1. /\ Unlock(c) /\ UNCHANGED target
          /\ poolPc[c] \in {"health", "connect"} \/ Owns(c)
          /\ \E s \in {"idle", "use"} : Go(c, s)
      BY <2>2 DEF Healthy, Connect, CannotConnect, RemoveConnection
    <3>. QED BY <1>0, <3>1, LineLeft DEF Holding, Owning
  <2>3. CASE Validate(c) \/ Unhealthy(c) \/ Counted(c) \/ EvictOldest(c)
    <3>1. /\ poolPc[c] \in {"validate", "lock", "health", "count", "choose"}
          /\ UNCHANGED <<target, lockq>> /\ \E s \in Waits : Go(c, s)
      BY <2>3 DEF Validate, Unhealthy, Counted, EvictOldest, Waits, PoolStates
    <3>2. poolPc[c] \in Waits
      BY <3>1 DEF Waits, PoolStates
    <3>. QED BY <1>0, <3>1, <3>2, LineKept
  <2>4. CASE CountSlot(c) \/ ChooseSlot(c)
    BY <1>1, <2>4 DEF CountSlot, ChooseSlot
  <2>5. CASE CallEnds(c)
    BY <1>0, <2>5, LineKept DEF CallEnds, Waits
  <2>6. CASE CallFails(c)
    <3>1. /\ UNCHANGED target
          /\ \/ Go(c, "idle") /\ UNCHANGED lockq
             \/ Enqueue(c) /\ Go(c, "remove")
      BY <2>6 DEF CallFails
    <3>. QED BY <1>0, <3>1, LineJoined, LineKept DEF Waits
  <2>. QED BY <1>3, <2>1, <2>2, <2>3, <2>4, <2>5, <2>6 DEF CallerStep
<1>4. ASSUME NEW w \in Peers, ConnectionExpires(w) \/ EvictStale(w) PROVE InLine'
  BY <1>1, <1>4 DEF ConnectionExpires, EvictStale
<1>5. CASE UNCHANGED poolVars
  BY <1>1, <1>5 DEF poolVars
<1>. QED BY <1>2, <1>3, <1>4, <1>5 DEF PoolNext

(* Somebody has the slot a caller waits for, and is at work or waits for a *)
(* thread.                                                                 *)
LEMMA SlotHasOwner ==
    ASSUME PoolInv, InLine, NEW c \in Callers, poolPc[c] \in Waits
    PROVE  LET o == Head(lockq[target[c]]) IN o \in Callers /\ Owns(o) /\ poolPc[o] \in Waits
<1> DEFINE w == target[c]
           o == Head(lockq[w])
<1>0. PoolTypes /\ Queued /\ w \in Peers /\ lockq[w] \in Seq(Callers)
  BY DEF PoolInv, LockInv, PoolTypes
<1>1. lockq[w] # <<>>
  BY <1>0 DEF InLine
<1>2. 1 \in 1..Len(lockq[w]) /\ o = lockq[w][1] /\ o \in Callers
  BY <1>0, <1>1, HeadIsFirst
<1>3. target[o] = w /\ poolPc[o] \in Waits
  BY <1>0, <1>2 DEF Queued
<1>. QED BY <1>1, <1>2, <1>3 DEF Owns

(* When nobody moves, every thread that is taken is blocked in entry(),    *)
(* and the owner of the slot that the guard is kept for is on none.        *)
LEMMA StuckByGuard == PoolInv /\ InLine => NeverStuck
<1> SUFFICES ASSUME PoolInv, InLine, NEW c \in Callers, poolPc[c] # "idle",
                    \A d \in Callers : ~Moves(d)
             PROVE  GuardCircle
  BY DEF NeverStuck
<1> DEFINE blocked == {d \in Callers : poolPc[d] = "entry"}
<1>0. PoolTypes /\ Holding
  BY DEF PoolInv, LockInv
<1>1. OnThread = blocked
  <2>1. \A d \in Callers : poolPc[d] \notin {"validate", "count", "choose"}
    BY <1>0 DEF Moves, Holding, Owning, CanRun, OnThread
  <2>. QED BY <2>1 DEF OnThread
<1>2. ASSUME NEW d \in Callers, poolPc[d] \in Waits, Owns(d) PROVE ~CanRun(d)
  BY <1>0, <1>2 DEF Moves, Waits, PoolStates
<1>3. IsFiniteSet(blocked) /\ Cardinality(blocked) \in Nat
  BY PoolAssumption, FS_Subset, FS_CardinalityType
<1>4. blocked # {}
  <2> SUFFICES ASSUME blocked = {} PROVE FALSE
    OBVIOUS
  <2>1. \A d \in Callers : CanRun(d)
    BY <1>1, PoolAssumption, FS_EmptySet DEF CanRun
  <2>2. poolPc[c] \in Waits
    BY <1>0, <2>1 DEF PoolTypes, Waits, PoolStates, Moves
  <2>. QED BY <1>2, <2>1, <2>2, SlotHasOwner
<1>5. PICK r \in Callers : poolPc[r] = "remove"
  BY <1>4 DEF Moves, ShardRead
<1> DEFINE o == Head(lockq[target[r]])
<1>6. o \in Callers /\ ~CanRun(o)
  BY <1>2, <1>5, SlotHasOwner DEF Waits, PoolStates
<1>7. (\E d \in blocked : TaskOf[d] = TaskOf[o]) \/ ~(Cardinality(blocked) < Threads)
  BY <1>1, <1>6 DEF CanRun
<1>8. (\E d \in blocked : TaskOf[d] = TaskOf[o]) \/ Cardinality(blocked) >= Threads
  BY <1>3, <1>7, PoolAssumption
<1>. QED BY <1>5, <1>8 DEF GuardCircle

(* While a call is under way, some caller has a step to take, or the read  *)
(* guard that remove_connection keeps while it awaits a slot has closed    *)
(* the circle with a thread blocked in entry(): no other order of locks,   *)
(* walks with try_lock and threads can stop the pool, with any number of   *)
(* callers, workers and threads and any callers joined in a task.          *)
THEOREM PoolStuckOnlyByGuard == PoolSpec => []NeverStuck
<1>1. PoolInit => InLine
  BY DEF PoolInit, InLine, Waits
<1>. QED BY <1>1, PoolStart, PoolStep, LineStep, StuckByGuard, PTL DEF PoolSpec
=============================================================================
