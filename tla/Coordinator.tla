----------------------------- MODULE Coordinator -----------------------------
(***************************************************************************)
(* Batch execution of a plan (executor/coordinator.rs execute_distributed  *)
(* and execute_local) with its retries, timeout and cancellation.          *)
(*                                                                         *)
(* The stages of a level run as concurrent futures; each goes through its  *)
(* workers one after the other: resolve the inputs for the worker, submit, *)
(* and retry while the failure is transient.  A level that has a failed    *)
(* stage ends the query and cancels its running stages.  The worker is     *)
(* what the coordinator can tell of module StageService: a job that ends   *)
(* in a stored result or an error, whose reply may be lost, and a store    *)
(* that cancellation and age empty.  A caller may execute the same query   *)
(* id again (execute_query_with_id).                                       *)
(***************************************************************************)
EXTENDS Naturals, Sequences, FiniteSets, SequencesExt

CONSTANTS
    Plans,       \* [levels, sources, broadcast, homes, runs]: see the operators below
    MaxRetries   \* max_stage_retries

(* compute_execution_levels puts every stage in one level, after those it  *)
(* reads, and a stage with no worker is given the coordinator's.           *)
ASSUME PlansAssumption ==
    /\ MaxRetries \in Nat
    /\ \A p \in Plans :
         /\ p.runs \in Nat
         /\ p.levels \in Seq(SUBSET DOMAIN p.homes) /\ p.levels # <<>>
         /\ DOMAIN p.homes = UNION Range(p.levels)
         /\ \A n \in DOMAIN p.levels : \A s \in p.levels[n] :
              /\ p.sources[s] \subseteq UNION {p.levels[m] : m \in 1..(n - 1)}
              /\ \A m \in DOMAIN p.levels : s \in p.levels[m] => m = n
         /\ \A s \in DOMAIN p.homes :
              p.homes[s] \in Seq(Range(p.homes[s])) /\ p.homes[s] # <<>>

VARIABLES
    plan,        \* what plan_query made of the query
    distributed, \* CoordinatorConfig::distributed
    run,         \* executions of the query begun so far
    phase,       \* "idle", "level", "fetch", "ok", "failed", "unfetched" or "timeout"
    level,       \* the level that runs
    fut,         \* the future of each stage, see NoFuture
    status,      \* stage_status of the query: "none", "Running" or "Completed"
    cancelled,   \* a caller cancelled this execution
    jobs,        \* executions on the workers: [stage, worker, awaited, told]
    stored,      \* <<stage, worker>>: results the workers hold
    cancels      \* workers a cancel_query action is on its way to

coordVars == <<run, phase, level, fut, status, cancelled>>
workerVars == <<jobs, stored, cancels>>
clusterVars == <<plan, distributed, coordVars, workerVars>>

Levels == plan.levels           \* the stages, level by level; the last is the root alone
SourcesOf == plan.sources       \* the stages each stage reads
Broadcast == plan.broadcast     \* <<p, s>>: p's output goes to s by a broadcast
HomesOf == plan.homes           \* the workers each stage runs on, in order
MaxRuns == plan.runs            \* executions of the query id (a bound)

AllStages == UNION Range(Levels)
Homes(s) == Range(HomesOf[s])
Workers == UNION {Homes(s) : s \in AllStages}
Root == CHOOSE s \in Levels[Len(Levels)] : TRUE

(* doing: "rest", "resolve", "submit", "await", "done" or "failed"; at: the *)
(* index of the worker it is at; tries: submissions to that worker; reply: *)
(* what came of the last ("none", "ok", "error" or, if is_retryable_error, *)
(* "transient"); fed and ran: the workers that were given whole inputs,    *)
(* and those that replied ok.                                              *)
NoFuture == [doing |-> "rest", at |-> 1, tries |-> 0, reply |-> "none", fed |-> {}, ran |-> {}]
NoFutures == [s \in AllStages |-> NoFuture]

CoordinatorInit ==
    /\ plan \in Plans /\ distributed \in BOOLEAN
    /\ run = 0 /\ phase = "idle" /\ level = 1 /\ cancelled = FALSE
    /\ fut = NoFutures
    /\ status = [s \in AllStages |-> "none"]
    /\ jobs = {} /\ stored = {} /\ cancels = {}

Doing(s, what) == phase = "level" /\ fut[s].doing = what
WorkerOf(s) == HomesOf[s][fut[s].at]
StartLevel(n, f) == [s \in AllStages |-> IF s \in Levels[n] THEN [f[s] EXCEPT !.doing = "resolve"]
                                         ELSE f[s]]
Orphaned(js) == {[j EXCEPT !.awaited = FALSE] : j \in js}

----------------------------------------------------------------------------
(* Mutant: stages are not marked as running. *)
NotMarked(n, st) == st

(* execute_distributed marks every stage it starts; execute_local none. *)
MarkRunning(n, st) ==
    [s \in AllStages |-> IF s \in Levels[n] /\ distributed THEN "Running" ELSE st[s]]

(* set_stage_status, once a level's futures have all ended. *)
MarkCompleted(done, st) == [s \in AllStages |-> IF s \in done THEN "Completed" ELSE st[s]]

(* execute_query_with_id, admitted and planned; the workers may still hold *)
(* results of an earlier execution, and the statuses are its too.          *)
ExecutePlan ==
    /\ phase \notin {"level", "fetch"} /\ run < MaxRuns
    /\ run' = run + 1 /\ phase' = "level" /\ cancelled' = FALSE /\ level' = 1
    /\ fut' = StartLevel(1, NoFutures)
    /\ status' = MarkRunning(1, status)
    /\ UNCHANGED <<plan, distributed, workerVars>>

(* The workers whose result of p is fetched for s: over Flight a broadcast *)
(* asks the first of them alone.                                           *)
Asked(p, s) == IF distributed /\ <<p, s>> \in Broadcast THEN {HomesOf[p][1]} ELSE Homes(p)

(* resolve_distributed_inputs_for_worker: every result that is fetched has *)
(* to be there.                                                            *)
ResolveInputs(s) ==
    /\ Doing(s, "resolve")
    /\ LET there == \A p \in SourcesOf[s] : \A w \in Asked(p, s) : <<p, w>> \in stored
           whole == \A p \in SourcesOf[s] : fut[p].ran = Homes(p)
       IN  fut' = [fut EXCEPT ![s].doing = IF there THEN "submit" ELSE "failed", ![s].tries = 0,
                              ![s].fed = IF there /\ whole THEN @ \cup {WorkerOf(s)} ELSE @]
    /\ UNCHANGED <<plan, distributed, run, phase, level, status, cancelled, workerVars>>

(* An attempt of execute_stage_with_retry; the worker may be unreachable. *)
Submit(s) ==
    /\ Doing(s, "submit")
    /\ \E reached \in {TRUE, ~distributed} :
         /\ fut' = [fut EXCEPT ![s].doing = "await", ![s].tries = @ + 1,
                               ![s].reply = IF reached THEN "none" ELSE "transient"]
         /\ jobs' = IF ~reached THEN jobs
                    ELSE jobs \cup {[stage |-> s, worker |-> WorkerOf(s),
                                     awaited |-> TRUE, told |-> FALSE]}
    /\ UNCHANGED <<plan, distributed, run, phase, level, status, cancelled, stored, cancels>>

(* while retries <= max_stage_retries *)
RetriesLeft(f) == f.tries <= MaxRetries

(* Mutant: every attempt starts the count of retries again. *)
RetriesRestart(s, f) ==
    CASE f.reply = "error" -> [f EXCEPT !.doing = "failed"]
      [] f.reply = "transient" -> [f EXCEPT !.doing = "submit", !.tries = 0]
      [] f.reply = "ok" ->
           LET g == [f EXCEPT !.ran = @ \cup {WorkerOf(s)}] IN
           IF f.at = Len(HomesOf[s]) THEN [g EXCEPT !.doing = "done"]
           ELSE [g EXCEPT !.at = @ + 1, !.doing = "resolve"]

(* What becomes of a future that has its reply. *)
AfterReply(s, f) ==
    CASE f.reply = "error" -> [f EXCEPT !.doing = "failed"]
      [] f.reply = "transient" -> [f EXCEPT !.doing = IF RetriesLeft(f) THEN "submit" ELSE "failed"]
      [] f.reply = "ok" ->
           LET g == [f EXCEPT !.ran = @ \cup {WorkerOf(s)}] IN
           IF f.at = Len(HomesOf[s]) THEN [g EXCEPT !.doing = "done"]
           ELSE [g EXCEPT !.at = @ + 1, !.doing = "resolve"]

HandleReply(s) ==
    /\ Doing(s, "await") /\ fut[s].reply # "none"
    /\ fut' = [fut EXCEPT ![s] = AfterReply(s, fut[s])]
    /\ UNCHANGED <<plan, distributed, run, phase, level, status, cancelled, workerVars>>

----------------------------------------------------------------------------
(* cancel_query: an action to every worker for the sake of each stage that *)
(* is marked as running, and the query's statuses are forgotten.           *)
CancelQuery(st) ==
    /\ status' = [s \in AllStages |-> "none"]
    /\ IF distributed /\ (\E s \in AllStages : st[s] = "Running")
       THEN /\ cancels' = Workers
            /\ jobs' = {[j EXCEPT !.told = TRUE] : j \in jobs}
       ELSE UNCHANGED <<cancels, jobs>>

LevelOver == phase = "level" /\ \A s \in Levels[level] : fut[s].doing \in {"done", "failed"}
FailedStages == {s \in Levels[level] : fut[s].doing = "failed"}
GoOn(st) == IF level < Len(Levels)
            THEN /\ level' = level + 1 /\ fut' = StartLevel(level + 1, fut)
                 /\ status' = MarkRunning(level + 1, st) /\ UNCHANGED phase
            ELSE phase' = "fetch" /\ status' = st /\ UNCHANGED <<level, fut>>

(* Mutant: a failed stage is skipped. *)
SkipFailed ==
    /\ LevelOver
    /\ GoOn(MarkCompleted(Levels[level] \ FailedStages, status))
    /\ UNCHANGED <<plan, distributed, run, cancelled, workerVars>>

LevelSucceeds ==
    /\ LevelOver /\ FailedStages = {}
    /\ GoOn(MarkCompleted(Levels[level], status))
    /\ UNCHANGED <<plan, distributed, run, cancelled, workerVars>>

(* The results that come before the first failure are marked complete. *)
LevelFails ==
    /\ LevelOver /\ FailedStages # {}
    /\ \E before \in SUBSET (Levels[level] \ FailedStages) :
         CancelQuery(MarkCompleted(before, status))
    /\ phase' = "failed" /\ fut' = NoFutures
    /\ UNCHANGED <<plan, distributed, run, level, cancelled, stored>>

FetchOutput ==
    /\ phase = "fetch"
    /\ phase' = IF \A w \in Homes(Root) : <<Root, w>> \in stored THEN "ok" ELSE "unfetched"
    /\ UNCHANGED <<plan, distributed, run, level, fut, status, cancelled, workerVars>>

(* The future is dropped where it stands; nothing is cancelled. *)
QueryTimesOut ==
    /\ phase \in {"level", "fetch"} /\ phase' = "timeout"
    /\ fut' = NoFutures /\ jobs' = Orphaned(jobs)
    /\ UNCHANGED <<plan, distributed, run, level, status, cancelled, stored, cancels>>

(* A caller's cancel_query: the futures go on. *)
CallerCancels ==
    /\ phase \in {"level", "fetch"} /\ ~cancelled
    /\ cancelled' = TRUE
    /\ CancelQuery(status)
    /\ UNCHANGED <<plan, distributed, run, phase, level, fut, stored>>

----------------------------------------------------------------------------
(* What a stage that failed is to the coordinator: over Flight the status  *)
(* of the worker is a WorkerUnavailable, which is retryable whatever it    *)
(* says; the text of a local error may be or not.                          *)
Failures == IF distributed THEN {"transient"} ELSE {"error", "transient"}

(* The workers.  Orphans of one stage on one worker are alike, so that one *)
(* in the set may stand for several, which end one after the other.        *)
JobEnds(j) ==
    /\ jobs' \in {jobs \ {j}, IF j.awaited THEN jobs \ {j} ELSE jobs}
    /\ \E how \in {"ok"} \cup Failures :
         /\ stored' = IF how = "ok" THEN stored \cup {<<j.stage, j.worker>>} ELSE stored
         /\ fut' = IF j.awaited THEN [fut EXCEPT ![j.stage].reply = how] ELSE fut
    /\ UNCHANGED <<plan, distributed, run, phase, level, status, cancelled, cancels>>

(* The call fails, or the stream of its response: then the text of the     *)
(* error says whether it is retryable.                                     *)
LoseReply(j) ==
    /\ distributed /\ j.awaited
    /\ \E how \in {"transient", "error"} : fut' = [fut EXCEPT ![j.stage].reply = how]
    /\ jobs' = (jobs \ {j}) \cup Orphaned({j})
    /\ UNCHANGED <<plan, distributed, run, phase, level, status, cancelled, stored, cancels>>

(* It takes the results of the query from the worker, and interrupts jobs  *)
(* if it finds them; one of several actions may be still to come.          *)
CancelArrives(w) ==
    /\ w \in cancels
    /\ cancels' \in {cancels, cancels \ {w}}
    /\ stored' = {x \in stored : x[2] # w}
    /\ \E hit \in SUBSET {j \in jobs : j.worker = w} :
         /\ jobs' = jobs \ hit
         /\ fut' = [s \in AllStages |->
                      IF \E j \in hit : j.stage = s /\ j.awaited
                      THEN [fut[s] EXCEPT !.reply = "transient"] ELSE fut[s]]
    /\ UNCHANGED <<plan, distributed, run, phase, level, status, cancelled>>

LoseCancel(w) ==
    /\ w \in cancels /\ cancels' = cancels \ {w}
    /\ UNCHANGED <<plan, distributed, coordVars, jobs, stored>>

ResultExpires ==
    /\ \E x \in stored : stored' = stored \ {x}
    /\ UNCHANGED <<plan, distributed, coordVars, jobs, cancels>>

StageMoves(s) == ResolveInputs(s) \/ Submit(s) \/ HandleReply(s)
QueryMoves == LevelSucceeds \/ LevelFails \/ FetchOutput

CoordinatorNext ==
    \/ ExecutePlan \/ QueryMoves \/ QueryTimesOut \/ CallerCancels
    \/ \E s \in AllStages : StageMoves(s)
    \/ \E j \in jobs : JobEnds(j) \/ LoseReply(j)
    \/ \E w \in Workers : CancelArrives(w) \/ LoseCancel(w)
    \/ ResultExpires

(* The futures run and a worker answers in the end the calls that still    *)
(* wait; the timeout, losses and cancellations need not come.              *)
CoordinatorFairness ==
    /\ WF_clusterVars(\E s \in AllStages : StageMoves(s))
    /\ WF_clusterVars(QueryMoves)
    /\ WF_clusterVars(\E j \in jobs : j.awaited /\ JobEnds(j))

CoordinatorSpec == CoordinatorInit /\ [][CoordinatorNext]_clusterVars /\ CoordinatorFairness

----------------------------------------------------------------------------
(* A query that is answered ran every stage on every one of its workers in *)
(* this execution, each on inputs read after its sources had all finished, *)
(* although the workers hold results of earlier executions of the same id  *)
(* under the same names (execute_distributed).  It says that the inputs    *)
(* were there and when they were read, not who made them: a stored result  *)
(* carries the ids of its query and stage only, and an orphan of an        *)
(* earlier execution may have stored the one that is read.                 *)
AnsweredFromThisRun ==
    phase = "ok" => \A s \in AllStages : fut[s].ran = Homes(s) /\ fut[s].fed = Homes(s)

(* When a failed stage ends the query, whatever the query still has        *)
(* running on a worker, which only a lost reply can leave there, has been  *)
(* sent a cancellation: the failing level is cancelled "to prevent         *)
(* orphaned tasks" before the error is returned, unless the caller had     *)
(* cancelled before and with it wiped the statuses.                        *)
OrphansAreCancelled ==
    distributed /\ phase = "failed" /\ ~cancelled => \A j \in jobs : j.told

(* Without the help of its timeout an execution ends, whatever is lost,    *)
(* cancelled or expires in between.                                        *)
ExecutionsEnd == phase \in {"level", "fetch"} ~> phase \notin {"level", "fetch"}

=============================================================================
