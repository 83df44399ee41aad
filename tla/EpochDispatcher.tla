--------------------------- MODULE EpochDispatcher ---------------------------
(***************************************************************************)
(* WorkerRuntimeDispatcher of worker-cp driving the storage engine.  The     *)
(* control plane's commands reach handle_command one at a time, from the     *)
(* Receive Task; an assignment spawns a load task, an eviction runs inside   *)
(* the Receive Task.  Load tasks, the Receive Task, the engine's actor and a *)
(* caller of wait_for_drain interleave at every await, and between the       *)
(* reads and the writes of the shared epoch_phases map.                      *)
(***************************************************************************)
EXTENDS EpochEngine

CONSTANTS
  Tasks,          \* load tasks, one per accepted assignment (a bound)
  Receiver,       \* the Receive Task, as a client of the engine
  MaxLoads,       \* max_concurrent_loads
  Timed,          \* datasets whose assignments name a time column
  CpDisciplined   \* the control plane assigns only epochs it knows are absent

ASSUME DispatcherAssumption ==
  /\ Clients = Tasks \cup {Receiver}
  /\ Receiver \notin Tasks
  /\ MaxLoads \in Nat \ {0}
  /\ Timed \subseteq Datasets
  /\ CpDisciplined \in BOOLEAN

VARIABLES
  phase,       \* epoch_phases; "none" when the key is not in the map
  tpc,         \* where each load task is
  permits,     \* free permits of the load semaphore
  registered,  \* datasets registered with the SQL transformer
  draining,    \* drain mode
  notified,    \* the stored permit of drain_notify
  waiter,      \* a caller of wait_for_drain
  rpc,         \* where the Receive Task is inside handle_command
  rkey,        \* the key it is evicting
  rphase,      \* the phase it read for that key
  cp           \* what the control plane believes of each epoch

dispatchVars == <<phase, tpc, permits, registered, draining, notified, waiter,
                  rpc, rkey, rphase, cp>>
vars == <<engineVars, dispatchVars>>

Phases == {"none", "Loading", "Active", "Evicting"}
TaskAt == {"free", "queued", "loading", "register", "macro", "activate",
           "dropping", "evictMacro", "reportCompleted", "reportFailed",
           "notify", "done"}

DispatcherTypeOK ==
  /\ TypeOK
  /\ phase \in [Keys -> Phases]
  /\ tpc \in [Tasks -> TaskAt]
  /\ permits \in 0..MaxLoads
  /\ registered \subseteq Datasets
  /\ draining \in BOOLEAN
  /\ notified \in BOOLEAN
  /\ waiter \in {"idle", "counting", "waiting", "returned"}
  /\ rpc \in {"idle", "evict", "evictDrop", "evictMacro"}
  /\ rkey \in Keys
  /\ rphase \in Phases
  /\ cp \in [Keys -> {"absent", "assigned", "loaded", "cancelled"}]

Init ==
  /\ EngineInit
  /\ phase = [k \in Keys |-> "none"]
  /\ tpc = [t \in Tasks |-> "free"]
  /\ permits = MaxLoads
  /\ registered = {}
  /\ draining = FALSE
  /\ notified = FALSE
  /\ waiter = "idle"
  /\ rpc = "idle"
  /\ rkey = CHOOSE k \in Keys : TRUE
  /\ rphase = "none"
  /\ cp = [k \in Keys |-> "absent"]

SetPhase(k, p) == phase' = [phase EXCEPT ![k] = p]
TaskGoto(t, at) == tpc' = [tpc EXCEPT ![t] = at]

(***************************************************************************)
(* The control plane's view of an epoch: assigned until the load is         *)
(* answered, cancelled when it evicts an epoch whose load is unanswered.     *)
(* Statuses name only the dataset and the epoch, so a COMPLETED that follows *)
(* a cancellation tells it nothing.                                          *)
(***************************************************************************)
CpAssigns(k) == cp' = [cp EXCEPT ![k] = "assigned"]
CpEvicts(k) ==
  cp' = [cp EXCEPT ![k] = IF @ \in {"assigned", "cancelled"} THEN "cancelled"
                                                             ELSE "absent"]
ReportCompleted(k) ==
  cp' = [cp EXCEPT ![k] = IF @ = "cancelled" THEN @ ELSE "loaded"]
ReportFailed(k) == cp' = [cp EXCEPT ![k] = "absent"]

-----------------------------------------------------------------------------
(***************************************************************************)
(* handle_command, run by the Receive Task.                                *)
(***************************************************************************)

MayAssign(k) == CpDisciplined => cp[k] = "absent"

RejectWhenDraining(k) ==
  /\ rpc = "idle"
  /\ draining
  /\ MayAssign(k)
  /\ ReportFailed(k)
  /\ UNCHANGED <<engineVars, phase, tpc, permits, registered, draining, notified,
                 waiter, rpc, rkey, rphase>>

\* The epoch is being evicted: the assignment is ignored, and no status sent.
IgnoreAssignment(k) ==
  /\ rpc = "idle"
  /\ ~draining
  /\ MayAssign(k)
  /\ phase[k] = "Evicting"
  /\ CpAssigns(k)
  /\ UNCHANGED <<engineVars, phase, tpc, permits, registered, draining, notified,
                 waiter, rpc, rkey, rphase>>

\* into_load_request fails: Loading is inserted and removed again, and FAILED
\* reported, with no await in between.
RefuseAssignment(k) ==
  /\ rpc = "idle"
  /\ ~draining
  /\ MayAssign(k)
  /\ phase[k] # "Evicting"
  /\ SetPhase(k, "none")
  /\ ReportFailed(k)
  /\ UNCHANGED <<engineVars, tpc, permits, registered, draining, notified,
                 waiter, rpc, rkey, rphase>>

\* The assignment is accepted: task t is spawned for it.
Assign(k, t) ==
  /\ rpc = "idle"
  /\ ~draining
  /\ MayAssign(k)
  /\ phase[k] # "Evicting"
  /\ tpc[t] = "free"
  /\ SetPhase(k, "Loading")
  /\ TaskGoto(t, "queued")
  /\ carg' = [carg EXCEPT ![t] = k]
  /\ CpAssigns(k)
  /\ UNCHANGED <<engineUp, com, epochVars, macro, cpc, reply, done_rows,
                 sourceVars, listed, permits, registered, draining, notified,
                 waiter, rpc, rkey, rphase>>

\* EvictEpoch reads the phase...
EvictRead(k) ==
  /\ rpc = "idle"
  /\ rpc' = "evict"
  /\ rkey' = k
  /\ rphase' = phase[k]
  /\ CpEvicts(k)
  /\ UNCHANGED <<engineVars, phase, tpc, permits, registered, draining, notified,
                 waiter>>

\* ...and acts on what it read.
EvictDeferred ==
  /\ rpc = "evict"
  /\ rphase = "Loading"
  /\ SetPhase(rkey, "Evicting")
  /\ rpc' = "idle"
  /\ rphase' = "none"
  /\ UNCHANGED <<engineVars, tpc, permits, registered, draining, notified,
                 waiter, rkey, cp>>

EvictDuplicate ==
  /\ rpc = "evict"
  /\ rphase = "Evicting"
  /\ rpc' = "idle"
  /\ rphase' = "none"
  /\ UNCHANGED <<engineVars, phase, tpc, permits, registered, draining, notified,
                 waiter, rkey, cp>>

\* Mutant: the phase is left in the map.
ForgetPhaseNot(k) == UNCHANGED phase

\* The phase goes before the table does.
ForgetPhase(k) == SetPhase(k, "none")

EvictNow ==
  /\ rpc = "evict"
  /\ rphase \in {"Active", "none"}
  /\ ForgetPhase(rkey)
  /\ BeginDrop(Receiver, rkey)
  /\ rpc' = "evictDrop"
  /\ rphase' = "none"
  /\ UNCHANGED <<tpc, permits, registered, draining, notified, waiter, rkey, cp>>

\* The drop has returned: the macro is rewritten if the drop succeeded and the
\* dataset is registered.
EvictDropped ==
  /\ rpc = "evictDrop"
  /\ cpc[Receiver] = "returned"
  /\ \/ /\ reply[Receiver] = "ok" /\ DatasetOf[rkey] \in registered
        /\ BeginMacro(Receiver, rkey)
        /\ rpc' = "evictMacro"
     \/ /\ ~(reply[Receiver] = "ok" /\ DatasetOf[rkey] \in registered)
        /\ rpc' = "idle"
        /\ UNCHANGED engineVars
  /\ UNCHANGED <<phase, tpc, permits, registered, draining, notified, waiter,
                 rkey, rphase, cp>>

EvictMacroWritten ==
  /\ rpc = "evictMacro"
  /\ cpc[Receiver] = "returned"
  /\ rpc' = "idle"
  /\ UNCHANGED <<engineVars, phase, tpc, permits, registered, draining, notified,
                 waiter, rkey, rphase, cp>>

Drain ==
  /\ rpc = "idle"
  /\ draining' = TRUE
  /\ UNCHANGED <<engineVars, phase, tpc, permits, registered, notified, waiter,
                 rpc, rkey, rphase, cp>>

-----------------------------------------------------------------------------
(***************************************************************************)
(* The load task spawned for an assignment.  The permit is held from       *)
(* Acquire to the end of the task.                                         *)
(***************************************************************************)

\* Mutants: the permit is forgotten; no notification.
ReleasePermitNot == UNCHANGED permits
NotifyDrainNot == UNCHANGED notified

TakePermit == permits' = permits - 1
ReleasePermit == permits' = permits + 1
NotifyDrain == notified' = TRUE

\* The permit is acquired, IN_PROGRESS reported and load_epoch called.
Acquire(t) ==
  /\ tpc[t] = "queued"
  /\ permits > 0
  /\ TakePermit
  /\ TaskGoto(t, "loading")
  /\ BeginCreate(t, carg[t])
  /\ UNCHANGED <<phase, registered, draining, notified, waiter, rpc, rkey,
                 rphase, cp>>

LoadFailed(t) ==
  /\ tpc[t] = "loading"
  /\ cpc[t] = "returned" /\ reply[t] = "err"
  /\ SetPhase(carg[t], "none")
  /\ TaskGoto(t, "reportFailed")
  /\ UNCHANGED <<engineVars, permits, registered, draining, notified, waiter,
                 rpc, rkey, rphase, cp>>

ShouldEvict(k) == phase[k] = "Evicting"

\* The load succeeded and an eviction was requested meanwhile: drop the table.
EvictLoaded(t) ==
  /\ tpc[t] = "loading"
  /\ cpc[t] = "returned" /\ reply[t] = "ok"
  /\ ShouldEvict(carg[t])
  /\ BeginDrop(t, carg[t])
  /\ TaskGoto(t, "dropping")
  /\ UNCHANGED <<phase, permits, registered, draining, notified, waiter, rpc,
                 rkey, rphase, cp>>

Loaded(t) ==
  /\ tpc[t] = "loading"
  /\ cpc[t] = "returned" /\ reply[t] = "ok"
  /\ ~ShouldEvict(carg[t])
  /\ TaskGoto(t, IF DatasetOf[carg[t]] \in Timed THEN "register" ELSE "activate")
  /\ UNCHANGED <<engineVars, phase, permits, registered, draining, notified,
                 waiter, rpc, rkey, rphase, cp>>

\* The dataset is registered with the SQL transformer, then the macro updated.
RegisterDataset(t) ==
  /\ tpc[t] = "register"
  /\ registered' = registered \cup {DatasetOf[carg[t]]}
  /\ BeginMacro(t, carg[t])
  /\ TaskGoto(t, "macro")
  /\ UNCHANGED <<phase, permits, draining, notified, waiter, rpc, rkey, rphase,
                 cp>>

Activate(t) ==
  /\ \/ tpc[t] = "activate"
     \/ tpc[t] = "macro" /\ cpc[t] = "returned" /\ reply[t] = "ok"
  /\ SetPhase(carg[t], "Active")
  /\ TaskGoto(t, "reportCompleted")
  /\ UNCHANGED <<engineVars, permits, registered, draining, notified, waiter,
                 rpc, rkey, rphase, cp>>

MacroFailed(t) ==
  /\ tpc[t] = "macro"
  /\ cpc[t] = "returned" /\ reply[t] = "err"
  /\ SetPhase(carg[t], "none")
  /\ TaskGoto(t, "reportFailed")
  /\ UNCHANGED <<engineVars, permits, registered, draining, notified, waiter,
                 rpc, rkey, rphase, cp>>

\* The deferred drop has returned; a failed drop is only logged.
LoadedDropped(t) ==
  /\ tpc[t] = "dropping"
  /\ cpc[t] = "returned"
  /\ \/ /\ reply[t] = "ok" /\ DatasetOf[carg[t]] \in Timed
        /\ BeginMacro(t, carg[t])
        /\ TaskGoto(t, "evictMacro")
        /\ UNCHANGED phase
     \/ /\ ~(reply[t] = "ok" /\ DatasetOf[carg[t]] \in Timed)
        /\ SetPhase(carg[t], "none")
        /\ TaskGoto(t, "notify")
        /\ UNCHANGED engineVars
  /\ UNCHANGED <<permits, registered, draining, notified, waiter, rpc, rkey,
                 rphase, cp>>

LoadedMacroWritten(t) ==
  /\ tpc[t] = "evictMacro"
  /\ cpc[t] = "returned"
  /\ SetPhase(carg[t], "none")
  /\ TaskGoto(t, "notify")
  /\ UNCHANGED <<engineVars, permits, registered, draining, notified, waiter,
                 rpc, rkey, rphase, cp>>

Report(t) ==
  /\ \/ tpc[t] = "reportCompleted" /\ ReportCompleted(carg[t])
     \/ tpc[t] = "reportFailed" /\ ReportFailed(carg[t])
  /\ TaskGoto(t, "notify")
  /\ UNCHANGED <<engineVars, phase, permits, registered, draining, notified,
                 waiter, rpc, rkey, rphase>>

\* drain_notify.notify_one(), and the permit is dropped with the task.
Finish(t) ==
  /\ tpc[t] = "notify"
  /\ NotifyDrain
  /\ ReleasePermit
  /\ TaskGoto(t, "done")
  /\ UNCHANGED <<engineVars, phase, registered, draining, waiter, rpc, rkey,
                 rphase, cp>>

-----------------------------------------------------------------------------
(***************************************************************************)
(* wait_for_drain, called once drain mode is on.                           *)
(***************************************************************************)

CallWaitForDrain ==
  /\ draining
  /\ waiter = "idle"
  /\ waiter' = "counting"
  /\ UNCHANGED <<engineVars, phase, tpc, permits, registered, draining, notified,
                 rpc, rkey, rphase, cp>>

CountLoading ==
  /\ waiter = "counting"
  /\ waiter' = IF \E k \in Keys : phase[k] = "Loading" THEN "waiting"
                                                       ELSE "returned"
  /\ UNCHANGED <<engineVars, phase, tpc, permits, registered, draining, notified,
                 rpc, rkey, rphase, cp>>

WakeUp ==
  /\ waiter = "waiting"
  /\ notified
  /\ notified' = FALSE
  /\ waiter' = "counting"
  /\ UNCHANGED <<engineVars, phase, tpc, permits, registered, draining,
                 rpc, rkey, rphase, cp>>

-----------------------------------------------------------------------------

LoadStep(t) ==
  \/ Acquire(t) \/ LoadFailed(t) \/ EvictLoaded(t) \/ Loaded(t)
  \/ RegisterDataset(t) \/ Activate(t) \/ MacroFailed(t) \/ LoadedDropped(t)
  \/ LoadedMacroWritten(t) \/ Report(t) \/ Finish(t)

ReceiverStep ==
  \/ EvictDeferred \/ EvictDuplicate \/ EvictNow \/ EvictDropped
  \/ EvictMacroWritten

DrainStep == CountLoading \/ WakeUp

EngineStep ==
  /\ (\E c \in Clients : ClientStep(c)) \/ ActorStep
  /\ UNCHANGED dispatchVars

CpCommand ==
  \/ \E k \in Keys : \/ RejectWhenDraining(k) \/ IgnoreAssignment(k)
                     \/ RefuseAssignment(k) \/ EvictRead(k)
                     \/ \E t \in Tasks : Assign(k, t)
  \/ Drain

Next ==
  \/ CpCommand \/ ReceiverStep
  \/ \E t \in Tasks : LoadStep(t)
  \/ CallWaitForDrain \/ DrainStep
  \/ EngineStep

\* The runtime keeps polling every task and the actor thread keeps running.
\* The semaphore and the channel queue their waiters in FIFO order, hence strong
\* fairness for the steps that wait for a permit or for room.  A source stream
\* that neither yields, ends nor fails is excluded: nothing in the worker times
\* it out.
Fairness ==
  /\ \A t \in Tasks : SF_vars(LoadStep(t))
  /\ WF_vars(ReceiverStep)
  /\ WF_vars(DrainStep)
  /\ \A c \in Clients : SF_vars(ClientStep(c) /\ UNCHANGED dispatchVars)
  /\ WF_vars(ActorStep /\ UNCHANGED dispatchVars)

Spec == Init /\ [][Next]_vars /\ Fairness

-----------------------------------------------------------------------------
(***************************************************************************)
(* Properties.                                                             *)
(***************************************************************************)

\* Reconnect reconciliation reports exactly the Active epochs
\* (list_loaded_epochs): each of them is committed in the engine, whatever
\* evictions ran beside its load.
ActiveIsCommitted == \A k \in Keys : phase[k] = "Active" => k \in committed

\* Every accepted assignment's task ends and gives its permit back.
LoadsEnd == \A t \in Tasks : tpc[t] # "free" ~> tpc[t] = "done"

\* An eviction that finds the epoch loading takes effect: the epoch leaves the
\* engine and the phase map.
EvictionTakesEffect ==
  \A k \in Keys :
    phase[k] = "Evicting" ~> phase[k] = "none" /\ k \notin committed

\* A committed epoch holds the rows of one load, and that load succeeded.
CommittedIsOneLoad ==
  \A k \in committed :
    \E t \in Tasks : /\ carg[t] = k
                     /\ meta_rows[k] = streamed[t]
                     /\ meta_rows[k] = done_rows[t]

\* Whoever waits for the drain will be woken: a wake-up is stored, or a load task
\* that has yet to notify is running; and a wait_for_drain that has returned
\* leaves no epoch Loading.  (It does not wait for loads marked Evicting.)
NoWakeUpIsLost ==
  /\ waiter = "waiting" => notified \/ \E t \in Tasks : tpc[t] \notin {"free", "done"}
  /\ waiter = "returned" => \A k \in Keys : phase[k] # "Loading"

\* wait_for_drain returns: no wake-up is lost between counting and waiting.
DrainReturns == waiter # "idle" ~> waiter = "returned"

=============================================================================
