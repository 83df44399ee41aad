----------------------- MODULE EpochDispatcher_proofs -----------------------
(***************************************************************************)
(* Proofs about EpochDispatcher, for any keys, load tasks, permits, channel *)
(* capacity, threshold, batch sizes and faults.                             *)
(***************************************************************************)
EXTENDS EpochDispatcher, EpochEngine_proofs, FiniteSetTheorems

-----------------------------------------------------------------------------
(***************************************************************************)
(* The inductive invariants.                                               *)
(***************************************************************************)

\* The permits that are not free are held by the tasks between Acquire and the
\* end of their task.
Holders == {t \in Tasks : tpc[t] \notin {"free", "queued", "done"}}
PermitInv == IsFiniteSet(Holders) /\ permits + Cardinality(Holders) = MaxLoads

DropAt  == {"drop", "awaitReply", "returned"}
MacroAt == {"list", "awaitList", "schema", "awaitSchema", "macro", "returned"}

\* Where a task or the Receive Task is inside the engine's API follows from
\* where it is itself.
ClientsAt ==
  /\ engineUp
  /\ \A t \in Tasks :
       /\ tpc[t] \in {"free", "queued"} => cpc[t] = "idle"
       /\ tpc[t] = "loading" => cpc[t] \in CreateAt \cup {"returned"}
       /\ tpc[t] = "dropping" => cpc[t] \in DropAt
       /\ tpc[t] \in {"macro", "evictMacro"} => cpc[t] \in MacroAt
       /\ tpc[t] \notin {"free", "queued", "loading", "dropping", "macro",
                         "evictMacro"} => cpc[t] = "returned"
  /\ rpc \in {"idle", "evict"} => cpc[Receiver] \in {"idle", "returned"}
  /\ rpc = "evictDrop" => cpc[Receiver] \in DropAt
  /\ rpc = "evictMacro" => cpc[Receiver] \in MacroAt
  /\ rpc \in {"evictDrop", "evictMacro"} => carg[Receiver] = rkey
  /\ \A c \in Clients : cpc[c] \in {"drop", "list", "schema"} => reply[c] = "none"

LoadOps == {"StartEpoch", "IngestBatch", "FinishEpoch"}
AwaitOf(op) == CASE op = "DropEpoch" -> "awaitReply"
                 [] op = "ListEpoch" -> "awaitList"
                 [] op = "GetDatasetSchema" -> "awaitSchema"
                 [] OTHER -> "none"

\* A queued command is for the key its sender works on; only load tasks send
\* the commands of a load, and whoever sent another command still waits for its
\* answer, the only one it waits for.
CommandsAreAwaited ==
  \A i \in DOMAIN com :
    /\ com[i].key = carg[com[i].from]
    /\ com[i].from \in Tasks => tpc[com[i].from] \notin {"free", "queued"}
    /\ com[i].op \in LoadOps => com[i].from \in Tasks
    /\ com[i].op \notin LoadOps =>
         /\ cpc[com[i].from] = AwaitOf(com[i].op)
         /\ reply[com[i].from] = "none"
         /\ \A j \in DOMAIN com :
              com[j].op \notin LoadOps /\ com[j].from = com[i].from => j = i

\* An entry of in_progress belongs to the task that was assigned its key.
EntriesAreTasks ==
  \A k \in Keys :
    InProgress(k) => /\ in_progress[k] \in Tasks
                     /\ carg[in_progress[k]] = k
                     /\ tpc[in_progress[k]] \notin {"free", "queued"}

\* The task has not yet answered the control plane; it has not yet settled the
\* phase of its epoch.
Unanswered(t) == tpc[t] \notin {"free", "notify", "done"}
Unsettled(t)  == Unanswered(t) /\ tpc[t] \notin {"reportCompleted", "reportFailed"}

\* The Receive Task is about to drop, or is dropping, the table of rkey.
Dropping == \/ rpc = "evict" /\ rphase \in {"Active", "none"}
            \/ rpc = "evictDrop"

\* No two tasks work on one epoch, nobody but its task touches the phase of an
\* epoch being loaded except to mark it for eviction, and the Receive Task
\* drops no epoch being loaded.
OneTaskPerEpoch ==
  /\ \A t, u \in Tasks :
       Unanswered(t) /\ Unanswered(u) /\ carg[t] = carg[u] => t = u
  /\ \A t \in Tasks : Unanswered(t) => cp[carg[t]] \in {"assigned", "cancelled"}
  /\ \A t \in Tasks : Unsettled(t) => phase[carg[t]] \in {"Loading", "Evicting"}
  /\ Dropping => \A t \in Tasks : Unsettled(t) => carg[t] # rkey
  /\ rpc = "evictDrop" => phase[rkey] # "Active"

\* What a task has been told is still so when it acts on it.
LoadedIsCommitted ==
  /\ \A t \in Tasks :
       \/ tpc[t] \in {"register", "macro", "activate"}
       \/ tpc[t] = "loading" /\ reply[t] = "ok"
       => carg[t] \in committed
  /\ ActiveIsCommitted

EvictInv == /\ ClientsAt /\ CommandsAreAwaited /\ EntriesAreTasks
            /\ OneTaskPerEpoch /\ LoadedIsCommitted

-----------------------------------------------------------------------------
(***************************************************************************)
(* Type correctness, and the permits.                                      *)
(***************************************************************************)

\* What a step of the dispatcher does to the engine.
LEMMA EngineSide ==
  ASSUME DispatcherTypeOK, Next
  PROVE  \/ UNCHANGED engineVars
         \/ \E k \in Keys, t \in Tasks : Assign(k, t)
         \/ \E c \in Clients, k \in Keys :
              BeginCreate(c, k) \/ BeginDrop(c, k) \/ BeginMacro(c, k)
         \/ EngineStep
  <1>t. /\ rkey \in Keys /\ Receiver \in Clients
        /\ \A t \in Tasks : t \in Clients /\ carg[t] \in Keys
    BY DispatcherAssumption DEF DispatcherTypeOK, TypeOK
  <1>1. CASE CpCommand
    BY <1>1 DEF CpCommand, RejectWhenDraining, IgnoreAssignment,
                RefuseAssignment, EvictRead, Drain
  <1>2. CASE ReceiverStep
    BY <1>2, <1>t DEF ReceiverStep, EvictDeferred, EvictDuplicate, EvictNow,
                EvictDropped, EvictMacroWritten
  <1>3. CASE \E t \in Tasks : LoadStep(t)
    <2> PICK t \in Tasks : LoadStep(t)
      BY <1>3
    <2> QED
      BY <1>t DEF LoadStep, Acquire, LoadFailed, EvictLoaded, Loaded,
             RegisterDataset, Activate, MacroFailed, LoadedDropped,
             LoadedMacroWritten, Report, Finish
  <1>4. CASE CallWaitForDrain \/ DrainStep
    BY <1>4 DEF CallWaitForDrain, DrainStep, CountLoading, WakeUp
  <1> QED
    BY <1>1, <1>2, <1>3, <1>4 DEF Next

\* The engine keeps its types under the dispatcher.
LEMMA DispatchedEngineType ==
  ASSUME DispatcherTypeOK, Next
  PROVE  TypeOK'
  <1>t. TypeOK
    BY DEF DispatcherTypeOK
  <1>1. CASE UNCHANGED engineVars
    BY <1>t, <1>1 DEF engineVars, TypeOK
  <1>2. CASE \E k \in Keys, t \in Tasks : Assign(k, t)
    <2>1. carg' \in [Clients -> Keys]
      BY <1>t, <1>2, DispatcherAssumption, Zenon DEF Assign, TypeOK
    <2> QED
      BY <1>t, <1>2, <2>1 DEF Assign, epochVars, sourceVars, TypeOK
  <1>3. CASE \E c \in Clients, k \in Keys :
               BeginCreate(c, k) \/ BeginDrop(c, k) \/ BeginMacro(c, k)
    BY <1>t, <1>3, TypeBegin
  <1>4. CASE EngineStep
    BY <1>t, <1>4, TypeClient, TypeActor DEF EngineStep
  <1> QED
    BY <1>1, <1>2, <1>3, <1>4, EngineSide

\* A step takes a permit for one task, gives one task's back, or leaves both the
\* holders and the permits.
LEMMA PermitSide ==
  ASSUME DispatcherTypeOK, Next
  PROVE  \/ permits' = permits /\ Holders' = Holders
         \/ \E t \in Tasks \ Holders :
              permits > 0 /\ permits' = permits - 1 /\ Holders' = Holders \cup {t}
         \/ \E t \in Holders :
              permits' = permits + 1 /\ Holders' = Holders \ {t}
  <1>t. tpc \in [Tasks -> TaskAt]
    BY DEF DispatcherTypeOK
  <1>1. CASE \E k \in Keys, t \in Tasks : Assign(k, t)
    BY <1>t, <1>1 DEF Assign, TaskGoto, Holders
  <1>2. CASE UNCHANGED <<tpc, permits>>
    BY <1>2 DEF Holders
  <1>3. ASSUME NEW t \in Tasks, LoadStep(t)
        PROVE  \/ permits' = permits /\ Holders' = Holders
               \/ /\ t \in Tasks \ Holders
                  /\ permits > 0 /\ permits' = permits - 1 /\ Holders' = Holders \cup {t}
               \/ /\ t \in Holders
                  /\ permits' = permits + 1 /\ Holders' = Holders \ {t}
    <2>1. CASE Acquire(t)
      BY <1>t, <2>1 DEF Acquire, TakePermit, TaskGoto, Holders
    <2>2. CASE Finish(t)
      BY <1>t, <2>2 DEF Finish, ReleasePermit, TaskGoto, Holders
    <2>3. CASE /\ tpc[t] \notin {"free", "queued", "done"}
               /\ permits' = permits
               /\ \E at \in TaskAt \ {"free", "queued", "done"} : TaskGoto(t, at)
      BY <1>t, <2>3 DEF TaskGoto, Holders
    <2> QED
      BY <1>3, <2>1, <2>2, <2>3
         DEF LoadStep, LoadFailed, EvictLoaded, Loaded, RegisterDataset, Activate,
             MacroFailed, LoadedDropped, LoadedMacroWritten, Report, TaskAt
  <1>4. CASE CpCommand \/ ReceiverStep
    BY <1>1, <1>2, <1>4
       DEF CpCommand, RejectWhenDraining, IgnoreAssignment, RefuseAssignment,
           EvictRead, Drain, ReceiverStep, EvictDeferred, EvictDuplicate, EvictNow,
           EvictDropped, EvictMacroWritten
  <1>5. CASE CallWaitForDrain \/ DrainStep \/ EngineStep
    BY <1>2, <1>5 DEF CallWaitForDrain, DrainStep, CountLoading, WakeUp,
                      EngineStep, dispatchVars
  <1> QED
    BY <1>3, <1>4, <1>5 DEF Next

\* The permits in use are those of the tasks that hold one.
LEMMA PermitStep ==
  ASSUME DispatcherTypeOK, PermitInv, Next
  PROVE  permits' \in 0..MaxLoads /\ PermitInv'
  <1>t. /\ permits \in 0..MaxLoads /\ MaxLoads \in Nat
        /\ IsFiniteSet(Holders) /\ Cardinality(Holders) \in Nat
        /\ permits + Cardinality(Holders) = MaxLoads
    BY DispatcherAssumption, FS_CardinalityType DEF DispatcherTypeOK, PermitInv
  <1>1. CASE permits' = permits /\ Holders' = Holders
    BY <1>t, <1>1 DEF PermitInv
  <1>2. ASSUME NEW t \in Tasks \ Holders, permits > 0,
               permits' = permits - 1, Holders' = Holders \cup {t}
        PROVE  permits' \in 0..MaxLoads /\ PermitInv'
    <2>1. IsFiniteSet(Holders') /\ Cardinality(Holders') = Cardinality(Holders) + 1
      BY <1>t, <1>2, FS_AddElement
    <2> QED
      BY <1>t, <1>2, <2>1 DEF PermitInv
  <1>3. ASSUME NEW t \in Holders,
               permits' = permits + 1, Holders' = Holders \ {t}
        PROVE  permits' \in 0..MaxLoads /\ PermitInv'
    <2>1. IsFiniteSet(Holders') /\ Cardinality(Holders') = Cardinality(Holders) - 1
      BY <1>t, <1>3, FS_RemoveElement
    <2>2. Cardinality(Holders') \in Nat
      BY <2>1, FS_CardinalityType
    <2> QED
      BY <1>t, <1>3, <2>1, <2>2 DEF PermitInv
  <1> QED
    BY <1>1, <1>2, <1>3, PermitSide

\* The dispatcher's own variables keep their types.
LEMMA DispatcherStepType ==
  ASSUME DispatcherTypeOK, PermitInv, Next
  PROVE  DispatcherTypeOK'
  <1> DEFINE Own == /\ phase \in [Keys -> Phases]
                    /\ tpc \in [Tasks -> TaskAt]
                    /\ registered \subseteq Datasets
                    /\ draining \in BOOLEAN
                    /\ notified \in BOOLEAN
                    /\ waiter \in {"idle", "counting", "waiting", "returned"}
                    /\ rpc \in {"idle", "evict", "evictDrop", "evictMacro"}
                    /\ rkey \in Keys
                    /\ rphase \in Phases
                    /\ cp \in [Keys -> {"absent", "assigned", "loaded", "cancelled"}]
  <1>t. Own /\ \A t \in Tasks : carg[t] \in Keys
    BY DispatcherAssumption DEF DispatcherTypeOK, TypeOK
  <1> USE DEF SetPhase, TaskGoto, Phases, TaskAt
  <1>1. ASSUME CpCommand PROVE Own'
    <2>1. CASE Drain
      BY <1>t, <2>1 DEF Drain
    <2>2. ASSUME NEW k \in Keys, NEW t \in Tasks, Assign(k, t)
          PROVE  Own'
      BY <1>t, <2>2 DEF Assign, CpAssigns
    <2>3. ASSUME NEW k \in Keys,
                 RejectWhenDraining(k) \/ IgnoreAssignment(k) \/ RefuseAssignment(k)
          PROVE  Own'
      BY <1>t, <2>3 DEF RejectWhenDraining, IgnoreAssignment, RefuseAssignment,
                        CpAssigns, ReportFailed
    <2>4. ASSUME NEW k \in Keys, EvictRead(k)
          PROVE  Own'
      BY <1>t, <2>4 DEF EvictRead, CpEvicts
    <2> QED
      BY <1>1, <2>1, <2>2, <2>3, <2>4 DEF CpCommand
  <1>2. ASSUME ReceiverStep PROVE Own'
    BY <1>t, <1>2, Zenon
       DEF ReceiverStep, EvictDeferred, EvictDuplicate, EvictNow, EvictDropped,
           EvictMacroWritten, ForgetPhase
  <1>3. ASSUME NEW t \in Tasks, LoadStep(t)
        PROVE  Own'
    <2>1. phase' \in [Keys -> Phases] /\ tpc' \in [Tasks -> TaskAt]
      <3>1. CASE Acquire(t) \/ EvictLoaded(t) \/ Loaded(t)
        BY <1>t, <3>1 DEF Acquire, EvictLoaded, Loaded
      <3>2. CASE RegisterDataset(t) \/ Report(t) \/ Finish(t)
        BY <1>t, <3>2 DEF RegisterDataset, Report, Finish
      <3>3. CASE LoadFailed(t) \/ Activate(t) \/ MacroFailed(t)
        BY <1>t, <3>3 DEF LoadFailed, Activate, MacroFailed
      <3>4. CASE LoadedDropped(t) \/ LoadedMacroWritten(t)
        BY <1>t, <3>4 DEF LoadedDropped, LoadedMacroWritten
      <3> QED
        BY <1>3, <3>1, <3>2, <3>3, <3>4 DEF LoadStep
    <2>2. registered' \subseteq Datasets
      BY <1>t, <1>3, EngineAssumption
         DEF LoadStep, Acquire, LoadFailed, EvictLoaded, Loaded, RegisterDataset,
             Activate, MacroFailed, LoadedDropped, LoadedMacroWritten, Report,
             Finish
    <2>3. cp' \in [Keys -> {"absent", "assigned", "loaded", "cancelled"}]
      BY <1>t, <1>3
         DEF LoadStep, Acquire, LoadFailed, EvictLoaded, Loaded, RegisterDataset,
             Activate, MacroFailed, LoadedDropped, LoadedMacroWritten, Report,
             Finish, ReportCompleted, ReportFailed
    <2>4. notified' \in BOOLEAN /\ UNCHANGED <<draining, waiter, rpc, rkey, rphase>>
      BY <1>t, <1>3
         DEF LoadStep, Acquire, LoadFailed, EvictLoaded, Loaded, RegisterDataset,
             Activate, MacroFailed, LoadedDropped, LoadedMacroWritten, Report,
             Finish, NotifyDrain
    <2> QED
      BY <1>t, <2>1, <2>2, <2>3, <2>4
  <1>4. ASSUME CallWaitForDrain \/ DrainStep \/ EngineStep PROVE Own'
    BY <1>t, <1>4 DEF CallWaitForDrain, DrainStep, CountLoading, WakeUp,
                      EngineStep, dispatchVars
  <1>5. Own'
    BY <1>1, <1>2, <1>3, <1>4 DEF Next
  <1>6. TypeOK' /\ permits' \in 0..MaxLoads
    BY DispatchedEngineType, PermitStep
  <1> QED
    BY <1>5, <1>6 DEF DispatcherTypeOK

\* The dispatcher and the engine under it start well-formed, all permits free.
LEMMA DispatcherTypeInit == Init => DispatcherTypeOK /\ PermitInv
  <1> SUFFICES ASSUME Init PROVE DispatcherTypeOK /\ PermitInv
    OBVIOUS
  <1>1. (CHOOSE k \in Keys : TRUE) \in Keys
    BY EngineAssumption
  <1>2. TypeOK
    BY TypeInit DEF Init
  <1>3. DispatcherTypeOK
    <2>1. MaxLoads \in 0..MaxLoads
      BY DispatcherAssumption
    <2> QED
      BY <1>1, <1>2, <2>1 DEF Init, DispatcherTypeOK, Phases, TaskAt
  <1>4. Holders = {}
    BY DEF Init, Holders
  <1>5. PermitInv
    BY <1>4, FS_EmptySet, DispatcherAssumption DEF Init, PermitInv
  <1> QED
    BY <1>3, <1>5

\* Every step of the dispatcher keeps the types and the account of permits.
LEMMA DispatcherTypeStep ==
  DispatcherTypeOK /\ PermitInv /\ [Next]_vars => (DispatcherTypeOK /\ PermitInv)'
  <1> SUFFICES ASSUME DispatcherTypeOK, PermitInv, [Next]_vars
               PROVE  DispatcherTypeOK' /\ PermitInv'
    OBVIOUS
  <1>1. CASE Next
    BY <1>1, DispatcherStepType, PermitStep
  <1>2. CASE UNCHANGED vars
    <2>1. TypeOK'
      BY <1>2 DEF vars, engineVars, DispatcherTypeOK, TypeOK
    <2> QED
      BY <1>2, <2>1 DEF vars, dispatchVars, DispatcherTypeOK, PermitInv, Holders
  <1> QED
    BY <1>1, <1>2

\* Dispatcher and engine keep their types whatever the control plane commands;
\* in particular the semaphore of handle_assignment never has more permits than
\* max_concurrent_loads nor fewer than none, as a permit is free exactly when no
\* task between acquire_owned and its end holds it.
THEOREM DispatcherTypeCorrect == Spec => []DispatcherTypeOK
  BY DispatcherTypeInit, DispatcherTypeStep, PTL DEF Spec

-----------------------------------------------------------------------------
(***************************************************************************)
(* The steps of the engine's callers and of its actor, as far as the        *)
(* invariants tell them apart.                                              *)
(***************************************************************************)

Msg(c, o, n) == [op |-> o, key |-> carg[c], from |-> c, rows |-> n]

\* Client c moves on to where cpc' says, with the answer reply' says.
Moves(c) ==
  /\ cpc' = [cpc EXCEPT ![c] = cpc'[c]]
  /\ reply' = [reply EXCEPT ![c] = reply'[c]]

\* A step inside create_epoch_table: at most one command of the load is sent.
LoadMove(c) ==
  /\ cpc[c] \in CreateAt
  /\ cpc'[c] \in CreateAt \cup {"returned"}
  /\ reply'[c] \in {reply[c], "err"}
  /\ com' = com \/ \E o \in LoadOps, n \in Nat : com' = Append(com, Msg(c, o, n))

\* A request is sent.
RequestMove(c) ==
  \E o \in {"DropEpoch", "ListEpoch", "GetDatasetSchema"} :
    /\ cpc[c] = CASE o = "DropEpoch" -> "drop"
                  [] o = "ListEpoch" -> "list"
                  [] o = "GetDatasetSchema" -> "schema"
    /\ cpc'[c] = AwaitOf(o)
    /\ reply'[c] = reply[c]
    /\ com' = Append(com, Msg(c, o, 0))

\* A request's answer is read, or the macro is written.
AnswerMove(c) ==
  /\ com' = com
  /\ \/ cpc[c] = "awaitReply" /\ reply[c] # "none" /\ cpc'[c] = "returned"
     \/ /\ cpc[c] \in {"awaitList", "awaitSchema"} /\ reply[c] # "none"
        /\ cpc'[c] \in {"schema", "macro"} /\ reply'[c] = "none"
     \/ cpc[c] = "macro" /\ cpc'[c] = "returned"

\* Every step of a caller is one of these while the engine is up and nobody has
\* asked it to shut down.
LEMMA ClientMoves ==
  ASSUME TypeOK, engineUp, NEW c \in Clients, cpc[c] # "shutdown", ClientStep(c)
  PROVE  /\ engineUp' /\ UNCHANGED <<epochVars, carg>>
         /\ Moves(c)
         /\ LoadMove(c) \/ RequestMove(c) \/ AnswerMove(c)
  <1>t. /\ cpc \in [Clients -> ClientAt] /\ reply \in [Clients -> Replies]
        /\ batch \in [Clients -> Nat]
    BY DEF TypeOK
  <1> USE DEF Moves, Goto, Return, CreateAt
  <1>1. CASE SourceFails(c) \/ FirstBatch(c) \/ NextBatch(c) \/ StreamFails(c) \/ StreamEnds(c)
    BY <1>t, <1>1 DEF SourceFails, FirstBatch, NextBatch, StreamFails, StreamEnds, LoadMove
  <1>2. CASE SendStart(c) \/ SendIngest(c) \/ SendFinish(c)
    <2>1. batch[c] \in Nat
      BY <1>t
    <2>2. \E o \in LoadOps, n \in Nat : com' = Append(com, Msg(c, o, n))
      BY <1>2, <2>1 DEF SendStart, SendIngest, SendFinish, Send, Msg, LoadOps
    <2> QED
      BY <1>t, <1>2, <2>2 DEF SendStart, SendIngest, SendFinish, LoadMove
  <1>3. CASE SendRequest(c)
    BY <1>t, <1>3 DEF SendRequest, Send, Msg, RequestMove, AwaitOf
  <1>4. CASE Receive(c)
    <2>1. CASE cpc[c] = "awaitDone"
      BY <1>t, <1>4, <2>1 DEF Receive, LoadMove
    <2>2. CASE cpc[c] \in {"awaitReply", "awaitList", "awaitSchema"}
      BY <1>t, <1>4, <2>2 DEF Receive, AnswerMove
    <2> QED
      BY <1>4, <2>1, <2>2 DEF Receive, AwaitAt
  <1>5. CASE CreateMacro(c)
    BY <1>t, <1>5 DEF CreateMacro, AnswerMove
  <1>6. ~EngineClosed(c)
    BY DEF EngineClosed
  <1>7. engineUp' /\ UNCHANGED <<epochVars, carg>>
    BY <1>6 DEF ClientStep, SourceFails, FirstBatch, SendStart, SendIngest,
         NextBatch, StreamFails, StreamEnds, SendFinish, SendRequest, Receive,
         CreateMacro
  <1> QED
    BY <1>1, <1>2, <1>3, <1>4, <1>5, <1>6, <1>7 DEF ClientStep

-----------------------------------------------------------------------------
(***************************************************************************)
(* EvictInv under the steps of the engine.                                 *)
(***************************************************************************)

\* Clients are the load tasks and the Receive Task, nowhere near a shutdown.
LEMMA ClientKinds ==
  ASSUME DispatcherTypeOK, ClientsAt, NEW c \in Clients
  PROVE  /\ c \in Tasks \/ c = Receiver
         /\ cpc[c] # "shutdown"
         /\ cpc[c] \in CreateAt => c \in Tasks /\ tpc[c] = "loading"
         /\ cpc[c] = "awaitReply" => \/ c \in Tasks /\ tpc[c] = "dropping"
                                     \/ c = Receiver /\ rpc = "evictDrop"
  <1>1. c \in Tasks \/ c = Receiver
    BY DispatcherAssumption
  <1>2. CASE c \in Tasks
    BY <1>2, DispatcherAssumption DEF ClientsAt, CreateAt, DropAt, MacroAt
  <1>3. CASE c = Receiver
    BY <1>3 DEF DispatcherTypeOK, ClientsAt, CreateAt, DropAt, MacroAt
  <1> QED
    BY <1>1, <1>2, <1>3

\* A caller's step preserves where the callers are.
LEMMA ClientsAtClient ==
  ASSUME DispatcherTypeOK, ClientsAt, NEW c \in Clients, ClientStep(c),
         UNCHANGED dispatchVars
  PROVE  ClientsAt'
  <1>t. /\ cpc \in [Clients -> ClientAt] /\ reply \in [Clients -> Replies]
        /\ Tasks \subseteq Clients /\ Receiver \in Clients /\ Receiver \notin Tasks
    BY DispatcherAssumption DEF DispatcherTypeOK, TypeOK
  <1>m. /\ engineUp' /\ carg' = carg
        /\ Moves(c)
        /\ LoadMove(c) \/ RequestMove(c) \/ AnswerMove(c)
    BY ClientMoves, ClientKinds DEF ClientsAt, DispatcherTypeOK
  <1>d. UNCHANGED <<tpc, rpc, rkey>>
    BY DEF dispatchVars
  <1>1. /\ cpc[c] \in CreateAt => cpc'[c] \in CreateAt \cup {"returned"}
        /\ cpc[c] \in DropAt => cpc'[c] \in DropAt
        /\ cpc[c] \in MacroAt => cpc'[c] \in MacroAt
        /\ cpc[c] \notin {"idle", "returned"}
        /\ cpc'[c] \in {"drop", "list", "schema"} => reply'[c] = "none"
    BY <1>m DEF LoadMove, RequestMove, AnswerMove, CreateAt, DropAt, MacroAt, AwaitOf
  <1>2. \A d \in Clients : d # c => cpc'[d] = cpc[d] /\ reply'[d] = reply[d]
    BY <1>t, <1>m DEF Moves
  <1>3. \A t \in Tasks :
          /\ tpc[t] \in {"free", "queued"} => cpc'[t] = "idle"
          /\ tpc[t] = "loading" => cpc'[t] \in CreateAt \cup {"returned"}
          /\ tpc[t] = "dropping" => cpc'[t] \in DropAt
          /\ tpc[t] \in {"macro", "evictMacro"} => cpc'[t] \in MacroAt
          /\ tpc[t] \notin {"free", "queued", "loading", "dropping", "macro",
                            "evictMacro"} => cpc'[t] = "returned"
    BY <1>t, <1>1, <1>2 DEF ClientsAt
  <1>4. /\ rpc \in {"idle", "evict"} => cpc'[Receiver] \in {"idle", "returned"}
        /\ rpc = "evictDrop" => cpc'[Receiver] \in DropAt
        /\ rpc = "evictMacro" => cpc'[Receiver] \in MacroAt
    BY <1>t, <1>1, <1>2 DEF ClientsAt
  <1>5. \A d \in Clients : cpc'[d] \in {"drop", "list", "schema"} => reply'[d] = "none"
    BY <1>1, <1>2 DEF ClientsAt
  <1> QED
    BY <1>m, <1>d, <1>3, <1>4, <1>5 DEF ClientsAt

\* The queue holds well-formed commands, and what serving its head leaves.
LEMMA QueuedType ==
  ASSUME TypeOK
  PROVE  /\ Len(com) \in Nat /\ DOMAIN com = 1..Len(com)
         /\ \A i \in DOMAIN com : /\ com[i].op \in Ops /\ com[i].key \in Keys
                                  /\ com[i].from \in Clients /\ com[i].rows \in Nat
         /\ com # <<>> => /\ 1 \in DOMAIN com /\ Head(com) = com[1]
                          /\ Len(Tail(com)) = Len(com) - 1
                          /\ DOMAIN Tail(com) = 1..(Len(com) - 1)
                          /\ \A i \in DOMAIN Tail(com) :
                               i + 1 \in DOMAIN com /\ Tail(com)[i] = com[i + 1]
  <1>1. com \in Seq(Command)
    BY DEF TypeOK
  <1>2. \A i \in DOMAIN com : com[i] \in Command
    BY <1>1
  <1>3. \A i \in DOMAIN com : /\ com[i].op \in Ops /\ com[i].key \in Keys
                              /\ com[i].from \in Clients /\ com[i].rows \in Nat
    BY <1>2 DEF Command
  <1>4. Len(com) \in Nat /\ DOMAIN com = 1..Len(com)
    BY <1>1
  <1>5. ASSUME com # <<>>
        PROVE  /\ 1 \in DOMAIN com /\ Head(com) = com[1]
               /\ Len(Tail(com)) = Len(com) - 1
               /\ DOMAIN Tail(com) = 1..(Len(com) - 1)
               /\ \A i \in DOMAIN Tail(com) :
                    i + 1 \in DOMAIN com /\ Tail(com)[i] = com[i + 1]
    BY <1>1, <1>4, <1>5
  <1> QED
    BY <1>3, <1>4, <1>5

\* A caller that waits for the answer to a queued request takes no step.
LEMMA WaitingCallersWait ==
  ASSUME DispatcherTypeOK, ClientsAt, CommandsAreAwaited,
         NEW c \in Clients, ClientStep(c),
         NEW i \in DOMAIN com, com[i].from = c
  PROVE  com[i].op \in LoadOps
  <1>m. LoadMove(c) \/ RequestMove(c) \/ AnswerMove(c)
    BY ClientMoves, ClientKinds DEF ClientsAt, DispatcherTypeOK
  <1> SUFFICES ASSUME com[i].op \notin LoadOps PROVE FALSE
    OBVIOUS
  <1>1. /\ cpc[c] \in {"awaitReply", "awaitList", "awaitSchema", "none"}
        /\ reply[c] = "none"
    BY DEF CommandsAreAwaited, AwaitOf
  <1> QED
    BY <1>m, <1>1 DEF LoadMove, RequestMove, AnswerMove, CreateAt

\* Queued commands stay awaited when a caller takes a step.
LEMMA AwaitedClient ==
  ASSUME DispatcherTypeOK, ClientsAt, CommandsAreAwaited,
         NEW c \in Clients, ClientStep(c), UNCHANGED dispatchVars
  PROVE  CommandsAreAwaited'
  <1>t. /\ cpc \in [Clients -> ClientAt] /\ reply \in [Clients -> Replies]
        /\ Tasks \subseteq Clients /\ com \in Seq(Command)
        /\ carg \in [Clients -> Keys]
    BY DispatcherAssumption DEF DispatcherTypeOK, TypeOK
  <1>m. /\ carg' = carg /\ tpc' = tpc
        /\ Moves(c)
        /\ LoadMove(c) \/ RequestMove(c) \/ AnswerMove(c)
    BY ClientMoves, ClientKinds DEF ClientsAt, DispatcherTypeOK, dispatchVars
  <1>2. \A d \in Clients : d # c => cpc'[d] = cpc[d] /\ reply'[d] = reply[d]
    BY <1>t, <1>m DEF Moves
  <1>f. \A i \in DOMAIN com : com[i].from \in Clients
    BY QueuedType DEF DispatcherTypeOK
  <1>3. \A i \in DOMAIN com :
          /\ com[i].key = carg'[com[i].from]
          /\ com[i].from \in Tasks => tpc'[com[i].from] \notin {"free", "queued"}
          /\ com[i].op \in LoadOps => com[i].from \in Tasks
          /\ com[i].op \notin LoadOps =>
               /\ com[i].from # c
               /\ cpc'[com[i].from] = AwaitOf(com[i].op)
               /\ reply'[com[i].from] = "none"
               /\ \A j \in DOMAIN com :
                    com[j].op \notin LoadOps /\ com[j].from = com[i].from => j = i
    <2>1. \A i \in DOMAIN com : com[i].op \notin LoadOps => com[i].from # c
      BY WaitingCallersWait
    <2> QED
      BY <1>m, <1>2, <1>f, <2>1 DEF CommandsAreAwaited
  <1>4. CASE com' = com
    BY <1>3, <1>4 DEF CommandsAreAwaited
  <1>5. ASSUME NEW o, NEW n, com' = Append(com, Msg(c, o, n)),
               \/ o \in LoadOps /\ c \in Tasks /\ tpc[c] \notin {"free", "queued"}
               \/ /\ o \notin LoadOps /\ cpc'[c] = AwaitOf(o) /\ reply'[c] = "none"
                  /\ c \in Tasks => tpc[c] \notin {"free", "queued"}
        PROVE  CommandsAreAwaited'
    <2> DEFINE m == Msg(c, o, n)
    <2>1. m.op = o /\ m.from = c /\ m.key = carg[c]
      BY DEF Msg
    <2>2. /\ DOMAIN com = 1..Len(com) /\ Len(com) \in Nat
          /\ DOMAIN com' = 1..(Len(com) + 1)
          /\ com'[Len(com) + 1] = m
          /\ \A i \in DOMAIN com : com'[i] = com[i]
      BY <1>t, <1>5
    <2> HIDE DEF m
    <2>3. \A i \in DOMAIN com' : i \in DOMAIN com \/ i = Len(com) + 1
      BY <2>2
    <2>4. \A i \in DOMAIN com :
            com[i].op \notin LoadOps =>
              \A j \in DOMAIN com' :
                com'[j].op \notin LoadOps /\ com'[j].from = com[i].from => j = i
      BY <1>3, <2>1, <2>2, <2>3
    <2>5. \A j \in DOMAIN com' :
            com'[j].op \notin LoadOps /\ com'[j].from = c => j = Len(com) + 1
      BY <1>3, <2>2, <2>3
    <2>6. /\ m.key = carg'[m.from]
          /\ m.from \in Tasks => tpc'[m.from] \notin {"free", "queued"}
          /\ m.op \in LoadOps => m.from \in Tasks
          /\ m.op \notin LoadOps => cpc'[m.from] = AwaitOf(m.op) /\ reply'[m.from] = "none"
      BY <1>m, <1>5, <2>1
    <2>7. ASSUME NEW i \in DOMAIN com'
          PROVE  /\ com'[i].key = carg'[com'[i].from]
                 /\ com'[i].from \in Tasks => tpc'[com'[i].from] \notin {"free", "queued"}
                 /\ com'[i].op \in LoadOps => com'[i].from \in Tasks
                 /\ com'[i].op \notin LoadOps =>
                      /\ cpc'[com'[i].from] = AwaitOf(com'[i].op)
                      /\ reply'[com'[i].from] = "none"
                      /\ \A j \in DOMAIN com' :
                           com'[j].op \notin LoadOps /\ com'[j].from = com'[i].from => j = i
      <3>1. CASE i \in DOMAIN com
        <4>1. com'[i] = com[i]
          BY <2>2, <3>1
        <4> QED
          BY <1>3, <2>4, <3>1, <4>1
      <3>2. CASE i = Len(com) + 1
        <4>1. com'[i] = m
          BY <2>2, <3>2
        <4> QED
          BY <2>1, <2>5, <2>6, <3>2, <4>1
      <3> QED
        BY <2>3, <3>1, <3>2
    <2> QED
      BY <2>7 DEF CommandsAreAwaited, AwaitOf
  <1>6. CASE LoadMove(c)
    <2>1. c \in Tasks /\ tpc[c] = "loading"
      BY <1>6, ClientKinds DEF LoadMove
    <2> QED
      BY <1>4, <1>5, <1>6, <2>1 DEF LoadMove
  <1>7. CASE RequestMove(c)
    <2>1. PICK o \in {"DropEpoch", "ListEpoch", "GetDatasetSchema"} :
            /\ cpc[c] \in {"drop", "list", "schema"}
            /\ cpc'[c] = AwaitOf(o)
            /\ reply'[c] = reply[c]
            /\ com' = Append(com, Msg(c, o, 0))
      BY <1>7 DEF RequestMove
    <2>2. reply[c] = "none" /\ (c \in Tasks => tpc[c] \notin {"free", "queued"})
      BY <2>1 DEF ClientsAt
    <2>3. o \notin LoadOps
      BY <2>1 DEF LoadOps
    <2> QED
      BY <1>5, <2>1, <2>2, <2>3
  <1> QED
    BY <1>m, <1>4, <1>6, <1>7 DEF AnswerMove

\* The actor serves the head of the queue, which leaves the callers in place.
Served == com # <<>> /\ com' = Tail(com) /\ UNCHANGED <<engineUp, cpc, carg>>

\* It was a command of a load: the only callers answered are in a create, and
\* success is told only to the one whose entry has just been committed.
LoadServed ==
  /\ com[1].op \in LoadOps
  /\ \A c \in Clients :
       \/ reply'[c] = reply[c]
       \/ cpc[c] \in CreateAt /\ reply'[c] = "err"
       \/ /\ cpc[c] \in CreateAt
          /\ c = in_progress[com[1].key] /\ com[1].key \in committed'
  /\ committed \subseteq committed'
  /\ \A k \in Keys : \/ in_progress'[k] \in {in_progress[k], NoClient}
                     \/ /\ com[1].op = "StartEpoch" /\ k = com[1].key
                        /\ in_progress'[k] = com[1].from

\* It was a request: its caller is answered.
RequestServed ==
  /\ com[1].op \notin LoadOps
  /\ reply'[com[1].from] # "none"
  /\ \A c \in Clients : c # com[1].from => reply'[c] = reply[c]
  /\ in_progress' = in_progress
  /\ \/ committed' = committed
     \/ com[1].op = "DropEpoch" /\ committed' = committed \ {com[1].key}

\* A step of the actor serves the first command, of a load or of a request.
LEMMA ActorMoves ==
  ASSUME TypeOK, ActorStep
  PROVE  Served /\ (LoadServed \/ RequestServed)
  <1>t. /\ reply \in [Clients -> Replies]
        /\ in_progress \in [Keys -> Clients \cup {NoClient}]
    BY DEF TypeOK
  <1>1. Served
    BY DEF ActorStep, OnStartEpoch, OnIngestBatch, OnFinishEpoch, OnDropEpoch,
           OnListEpochs, OnGetDatasetSchema, Take, Served, clientVars
  <1>2. /\ Head(com) = com[1] /\ com[1].op \in Ops /\ com[1].key \in Keys
        /\ com[1].from \in Clients
    BY <1>1, QueuedType DEF Served
  <1>3. CASE OnStartEpoch
    <2>1. com[1].op = "StartEpoch" /\ committed' = committed
      BY <1>2, <1>3 DEF OnStartEpoch, Take
    <2>2. \A c \in Clients :
            reply'[c] = reply[c] \/ (cpc[c] \in CreateAt /\ reply'[c] = "err")
      BY <1>t, <1>2, <1>3 DEF OnStartEpoch, Done
    <2>3. \A k \in Keys : \/ in_progress'[k] = in_progress[k]
                          \/ k = com[1].key /\ in_progress'[k] = com[1].from
      BY <1>t, <1>2, <1>3 DEF OnStartEpoch
    <2> QED
      BY <1>1, <2>1, <2>2, <2>3 DEF LoadServed, LoadOps
  <1>4. CASE OnIngestBatch
    <2>1. com[1].op = "IngestBatch" /\ UNCHANGED <<reply, in_progress, committed>>
      BY <1>2, <1>4 DEF OnIngestBatch, Take, clientVars
    <2> QED
      BY <1>1, <2>1 DEF LoadServed, LoadOps
  <1>5. CASE OnFinishEpoch
    <2> DEFINE k == com[1].key
    <2>1. com[1].op = "FinishEpoch" /\ committed' \in {committed, committed \cup {k}}
      BY <1>2, <1>5 DEF OnFinishEpoch, Take
    <2>2. InProgress(k) => in_progress[k] \in Clients
      BY <1>t, <1>2 DEF InProgress
    <2>3. \A c \in Clients :
            \/ reply'[c] = reply[c]
            \/ cpc[c] \in CreateAt /\ reply'[c] = "err"
            \/ cpc[c] \in CreateAt /\ c = in_progress[k] /\ k \in committed'
      BY <1>t, <1>2, <1>5, <2>2 DEF OnFinishEpoch, Done
    <2>4. \A j \in Keys : in_progress'[j] \in {in_progress[j], NoClient}
      BY <1>t, <1>2, <1>5 DEF OnFinishEpoch, RemoveEntry
    <2> QED
      BY <1>1, <2>1, <2>3, <2>4 DEF LoadServed, LoadOps
  <1>6. CASE OnDropEpoch
    <2>1. com[1].op = "DropEpoch" /\ in_progress' = in_progress
      BY <1>2, <1>6 DEF OnDropEpoch, Take
    <2>2. committed' \in {committed, committed \ {com[1].key}}
      BY <1>2, <1>6 DEF OnDropEpoch
    <2>3. \E r \in {"ok", "err"} : reply' = [reply EXCEPT ![com[1].from] = r]
      BY <1>2, <1>6 DEF OnDropEpoch
    <2> QED
      BY <1>t, <1>1, <1>2, <2>1, <2>2, <2>3 DEF RequestServed, LoadOps
  <1>7. CASE OnListEpochs \/ OnGetDatasetSchema
    <2>1. /\ com[1].op \in {"ListEpoch", "GetDatasetSchema"}
          /\ in_progress' = in_progress /\ committed' = committed
      BY <1>2, <1>7 DEF OnListEpochs, OnGetDatasetSchema, Take, epochVars
    <2>2. \E r \in {"ok", "err"} : reply' = [reply EXCEPT ![com[1].from] = r]
      BY <1>2, <1>7 DEF OnListEpochs, OnGetDatasetSchema
    <2> QED
      BY <1>t, <1>1, <1>2, <2>1, <2>2 DEF RequestServed, LoadOps
  <1> QED
    BY <1>1, <1>3, <1>4, <1>5, <1>6, <1>7 DEF ActorStep

\* Queued commands stay awaited when the actor serves the first.
LEMMA AwaitedActor ==
  ASSUME DispatcherTypeOK, ClientsAt, CommandsAreAwaited, ActorStep,
         UNCHANGED dispatchVars
  PROVE  CommandsAreAwaited'
  <1>m. Served /\ (LoadServed \/ RequestServed)
    BY ActorMoves DEF DispatcherTypeOK
  <1>q. /\ 1 \in DOMAIN com
        /\ \A i \in DOMAIN com : com[i].from \in Clients
        /\ \A i \in DOMAIN com' : /\ i \in Nat /\ i # 0 /\ i + 1 # 1
                                  /\ i + 1 \in DOMAIN com
                                  /\ com'[i] = com[i + 1]
    BY <1>m, QueuedType DEF Served, DispatcherTypeOK
  <1>d. UNCHANGED <<cpc, carg, tpc>>
    BY <1>m DEF Served, dispatchVars
  <1>1. \A i \in DOMAIN com :
          com[i].op \notin LoadOps /\ i # 1 => reply'[com[i].from] = reply[com[i].from]
    <2> SUFFICES ASSUME NEW i \in DOMAIN com, com[i].op \notin LoadOps, i # 1
                 PROVE  reply'[com[i].from] = reply[com[i].from]
      OBVIOUS
    <2>1. cpc[com[i].from] \notin CreateAt
      BY DEF CommandsAreAwaited, AwaitOf, CreateAt
    <2>2. CASE LoadServed
      BY <1>q, <2>1, <2>2 DEF LoadServed
    <2>3. CASE RequestServed
      <3>1. com[i].from # com[1].from
        BY <1>q, <2>3 DEF RequestServed, CommandsAreAwaited
      <3> QED
        BY <1>q, <2>3, <3>1 DEF RequestServed
    <2> QED
      BY <1>m, <2>2, <2>3
  <1> SUFFICES ASSUME NEW i \in DOMAIN com'
               PROVE  /\ com'[i].key = carg[com'[i].from]
                      /\ com'[i].from \in Tasks => tpc[com'[i].from] \notin {"free", "queued"}
                      /\ com'[i].op \in LoadOps => com'[i].from \in Tasks
                      /\ com'[i].op \notin LoadOps =>
                           /\ cpc[com'[i].from] = AwaitOf(com'[i].op)
                           /\ reply'[com'[i].from] = "none"
                           /\ \A j \in DOMAIN com' :
                                com'[j].op \notin LoadOps /\ com'[j].from = com'[i].from => j = i
    BY <1>d DEF CommandsAreAwaited, AwaitOf
  <1>2. i + 1 \in DOMAIN com /\ i + 1 # 1 /\ com'[i] = com[i + 1]
    BY <1>q
  <1>3. \A j \in DOMAIN com' :
          /\ j + 1 \in DOMAIN com /\ com'[j] = com[j + 1]
          /\ j + 1 = i + 1 => j = i
    BY <1>q
  <1> QED
    BY <1>1, <1>2, <1>3 DEF CommandsAreAwaited

\* The actor's steps preserve the rest of the invariant.  A DropEpoch comes from
\* the task whose load was evicted or from the Receive Task, and either way no
\* other task works on the epoch and its phase is not Active.
LEMMA EvictActor ==
  ASSUME DispatcherTypeOK, EvictInv, ActorStep, UNCHANGED dispatchVars
  PROVE  EvictInv'
  <1>i. /\ ClientsAt /\ CommandsAreAwaited /\ EntriesAreTasks
        /\ OneTaskPerEpoch /\ LoadedIsCommitted
    BY DEF EvictInv
  <1>t. Tasks \subseteq Clients /\ Receiver \in Clients
    BY DispatcherAssumption
  <1>m. Served /\ (LoadServed \/ RequestServed)
    BY ActorMoves DEF DispatcherTypeOK
  <1>q. /\ 1 \in DOMAIN com
        /\ com[1].from \in Clients /\ com[1].key \in Keys /\ com[1].key = carg[com[1].from]
    BY <1>i, <1>m, QueuedType DEF Served, DispatcherTypeOK, CommandsAreAwaited
  <1>d. UNCHANGED <<engineUp, cpc, carg, phase, tpc, rpc, rkey, rphase, cp>>
    BY <1>m DEF Served, dispatchVars
  <1>1. ClientsAt'
    <2>1. \A c \in Clients : cpc[c] \in {"drop", "list", "schema"} => reply'[c] = reply[c]
      <3>1. CASE LoadServed
        BY <3>1 DEF LoadServed, CreateAt
      <3>2. CASE RequestServed
        <4>1. cpc[com[1].from] \notin {"drop", "list", "schema"}
          BY <1>i, <1>q, <3>2 DEF CommandsAreAwaited, AwaitOf, RequestServed
        <4> QED
          BY <3>2, <4>1 DEF RequestServed
      <3> QED
        BY <1>m, <3>1, <3>2
    <2> QED
      BY <1>i, <1>d, <2>1 DEF ClientsAt
  <1>2. CommandsAreAwaited'
    BY <1>i, AwaitedActor
  <1>3. EntriesAreTasks'
    <2>1. CASE LoadServed
      <3>1. com[1].from \in Tasks /\ tpc[com[1].from] \notin {"free", "queued"}
        BY <1>i, <1>q, <2>1 DEF LoadServed, CommandsAreAwaited
      <3> QED
        BY <1>i, <1>d, <1>q, <2>1, <3>1 DEF LoadServed, EntriesAreTasks, InProgress
    <2>2. CASE RequestServed
      BY <1>i, <1>d, <2>2 DEF RequestServed, EntriesAreTasks, InProgress
    <2> QED
      BY <1>m, <2>1, <2>2
  <1>4. OneTaskPerEpoch'
    BY <1>i, <1>d DEF OneTaskPerEpoch, Unanswered, Unsettled, Dropping
  <1>5. LoadedIsCommitted'
    <2>1. CASE LoadServed
      <3>1. committed \subseteq committed'
        BY <2>1 DEF LoadServed
      <3>2. ASSUME NEW t \in Tasks, tpc[t] = "loading", reply'[t] = "ok"
            PROVE  carg[t] \in committed'
        <4>1. CASE reply[t] = "ok"
          BY <1>i, <3>1, <3>2, <4>1 DEF LoadedIsCommitted
        <4>2. CASE reply[t] # "ok"
          <5>1. t = in_progress[com[1].key] /\ com[1].key \in committed'
            BY <1>t, <2>1, <3>2, <4>2 DEF LoadServed
          <5>2. carg[t] = com[1].key
            BY <1>i, <1>q, <1>t, <5>1, EngineAssumption DEF EntriesAreTasks, InProgress
          <5> QED
            BY <5>1, <5>2
        <4> QED
          BY <4>1, <4>2
      <3> QED
        BY <1>i, <1>d, <3>1, <3>2 DEF LoadedIsCommitted, ActiveIsCommitted
    <2>2. CASE RequestServed /\ committed' = committed
      <3>1. ASSUME NEW t \in Tasks, tpc[t] = "loading"
            PROVE  reply'[t] = reply[t]
        <4>1. com[1].from # t
          BY <1>i, <1>q, <1>t, <2>2, <3>1
             DEF RequestServed, CommandsAreAwaited, AwaitOf, ClientsAt, CreateAt
        <4> QED
          BY <1>t, <2>2, <4>1 DEF RequestServed
      <3> QED
        BY <1>i, <1>d, <2>2, <3>1 DEF LoadedIsCommitted, ActiveIsCommitted
    <2>3. CASE /\ RequestServed /\ com[1].op = "DropEpoch"
               /\ committed' = committed \ {com[1].key}
      <3> DEFINE c == com[1].from
                 k == com[1].key
      <3>1. cpc[c] = "awaitReply"
        BY <1>i, <1>q, <2>3 DEF CommandsAreAwaited, AwaitOf, LoadOps
      <3>2. \/ c \in Tasks /\ tpc[c] = "dropping"
            \/ c = Receiver /\ rpc = "evictDrop" /\ k = rkey
        BY <1>i, <1>q, <3>1, ClientKinds DEF ClientsAt
      <3>3. \A t \in Tasks :
              tpc[t] \in {"register", "macro", "activate", "loading"} => carg[t] # k
        BY <1>i, <1>q, <3>2 DEF OneTaskPerEpoch, Unanswered, Unsettled, Dropping
      <3>4. phase[k] # "Active"
        BY <1>i, <1>q, <3>2 DEF OneTaskPerEpoch, Unanswered, Unsettled
      <3>5. \A t \in Tasks : tpc[t] = "loading" => reply'[t] = reply[t]
        BY <1>i, <1>t, <2>3, <3>1 DEF RequestServed, ClientsAt, CreateAt
      <3> QED
        BY <1>i, <1>d, <2>3, <3>3, <3>4, <3>5 DEF LoadedIsCommitted, ActiveIsCommitted
    <2> QED
      BY <1>m, <2>1, <2>2, <2>3 DEF RequestServed
  <1> QED
    BY <1>1, <1>2, <1>3, <1>4, <1>5 DEF EvictInv

\* A caller's step preserves the invariant.
LEMMA EvictClient ==
  ASSUME DispatcherTypeOK, EvictInv, NEW c \in Clients, ClientStep(c),
         UNCHANGED dispatchVars
  PROVE  EvictInv'
  <1>i. /\ ClientsAt /\ CommandsAreAwaited /\ EntriesAreTasks
        /\ OneTaskPerEpoch /\ LoadedIsCommitted
    BY DEF EvictInv
  <1>t. Tasks \subseteq Clients /\ reply \in [Clients -> Replies]
    BY DispatcherAssumption DEF DispatcherTypeOK, TypeOK
  <1>m. /\ UNCHANGED <<epochVars, carg>>
        /\ Moves(c)
        /\ LoadMove(c) \/ RequestMove(c) \/ AnswerMove(c)
    BY <1>i, ClientMoves, ClientKinds DEF ClientsAt, DispatcherTypeOK
  <1>d. UNCHANGED <<committed, in_progress, carg, phase, tpc, rpc, rkey, rphase, cp>>
    BY <1>m DEF epochVars, dispatchVars
  <1>1. ClientsAt' /\ CommandsAreAwaited'
    BY <1>i, ClientsAtClient, AwaitedClient
  <1>2. EntriesAreTasks' /\ OneTaskPerEpoch'
    BY <1>i, <1>d DEF EntriesAreTasks, InProgress, OneTaskPerEpoch, Unanswered,
                      Unsettled, Dropping
  <1>3. ASSUME NEW t \in Tasks, tpc[t] = "loading", reply'[t] = "ok"
        PROVE  reply[t] = "ok"
    <2>1. CASE t # c
      BY <1>t, <1>m, <1>3, <2>1 DEF Moves
    <2>2. CASE t = c
      <3>1. cpc[c] \in CreateAt \cup {"returned"}
        BY <1>i, <1>3, <2>2 DEF ClientsAt
      <3>2. LoadMove(c)
        BY <1>m, <3>1 DEF RequestMove, AnswerMove, CreateAt
      <3> QED
        BY <1>3, <2>2, <3>2 DEF LoadMove
    <2> QED
      BY <2>1, <2>2
  <1>4. LoadedIsCommitted'
    BY <1>i, <1>d, <1>3 DEF LoadedIsCommitted, ActiveIsCommitted
  <1> QED
    BY <1>1, <1>2, <1>4 DEF EvictInv

-----------------------------------------------------------------------------
(***************************************************************************)
(* EvictInv under the steps of the dispatcher itself.                      *)
(***************************************************************************)

\* Nothing of the invariant speaks of the permits, the registered datasets, the
\* drain flag or its notification.
LEMMA EvictUnchanged ==
  ASSUME EvictInv, UNCHANGED engineVars,
         UNCHANGED <<phase, tpc, rpc, rkey, rphase, cp>>
  PROVE  EvictInv'
  <1>d. UNCHANGED <<engineUp, com, in_progress, committed, cpc, carg, reply>>
    BY DEF engineVars
  <1>1. ClientsAt'
    BY <1>d DEF EvictInv, ClientsAt
  <1>2. CommandsAreAwaited'
    BY <1>d DEF EvictInv, CommandsAreAwaited, AwaitOf
  <1>3. EntriesAreTasks' /\ LoadedIsCommitted'
    BY <1>d DEF EvictInv, EntriesAreTasks, InProgress, LoadedIsCommitted, ActiveIsCommitted
  <1>4. OneTaskPerEpoch'
    BY <1>d DEF EvictInv, OneTaskPerEpoch, Unanswered, Unsettled, Dropping
  <1> QED
    BY <1>1, <1>2, <1>3, <1>4 DEF EvictInv

\* A command of a control plane that assigns only what it knows to be absent.
LEMMA EvictCommand ==
  ASSUME CpDisciplined, DispatcherTypeOK, EvictInv, CpCommand
  PROVE  EvictInv'
  <1>i. /\ ClientsAt /\ CommandsAreAwaited /\ EntriesAreTasks
        /\ OneTaskPerEpoch /\ LoadedIsCommitted
    BY DEF EvictInv
  <1>t. /\ phase \in [Keys -> Phases] /\ tpc \in [Tasks -> TaskAt]
        /\ cp \in [Keys -> {"absent", "assigned", "loaded", "cancelled"}]
        /\ carg \in [Clients -> Keys]
        /\ Tasks \subseteq Clients /\ Receiver \in Clients /\ Receiver \notin Tasks
        /\ \A t \in Tasks : carg[t] \in Keys
    BY DispatcherAssumption DEF DispatcherTypeOK, TypeOK
  <1>1. ASSUME NEW k \in Keys,
               \/ RejectWhenDraining(k) \/ IgnoreAssignment(k)
               \/ RefuseAssignment(k) \/ EvictRead(k)
        PROVE  EvictInv'
    <2>1. UNCHANGED <<engineUp, com, in_progress, committed, cpc, carg, reply, tpc>>
      BY <1>1 DEF RejectWhenDraining, IgnoreAssignment, RefuseAssignment, EvictRead, engineVars
    <2>2. /\ rpc = "idle" /\ rpc' \in {"idle", "evict"}
      BY <1>1 DEF RejectWhenDraining, IgnoreAssignment, RefuseAssignment, EvictRead
    <2>3. \/ cp[k] = "absent" /\ rpc' = "idle"
          \/ EvictRead(k)
      BY <1>1 DEF RejectWhenDraining, IgnoreAssignment, RefuseAssignment, MayAssign
    <2>4. \A j \in Keys : /\ j # k => cp'[j] = cp[j] /\ phase'[j] = phase[j]
                          /\ cp[j] \in {"assigned", "cancelled"} =>
                               /\ cp'[j] \in {"assigned", "cancelled"}
                               /\ phase'[j] = phase[j]
                          /\ phase'[j] = "Active" => phase[j] = "Active"
      BY <1>1, <1>t, <2>3
         DEF RejectWhenDraining, IgnoreAssignment, RefuseAssignment, EvictRead,
             SetPhase, ReportFailed, CpAssigns, CpEvicts
    <2>5. ClientsAt' /\ CommandsAreAwaited' /\ EntriesAreTasks'
      <3>1. ClientsAt'
        BY <1>i, <2>1, <2>2 DEF ClientsAt
      <3>2. CommandsAreAwaited'
        BY <1>i, <2>1 DEF CommandsAreAwaited, AwaitOf
      <3> QED
        BY <1>i, <2>1, <3>1, <3>2 DEF EntriesAreTasks, InProgress
    <2>6. LoadedIsCommitted'
      BY <1>i, <1>t, <2>1, <2>4 DEF LoadedIsCommitted, ActiveIsCommitted
    <2>7. Dropping' => \A t \in Tasks : Unsettled(t) => carg[t] # rkey'
      <3> SUFFICES ASSUME Dropping', NEW t \in Tasks, Unsettled(t)
                   PROVE  carg[t] # rkey'
        OBVIOUS
      <3>1. EvictRead(k)
        BY <2>2, <2>3 DEF Dropping
      <3>2. rkey' = k /\ phase[k] \in {"Active", "none"}
        BY <3>1 DEF EvictRead, Dropping
      <3> QED
        BY <1>i, <3>2 DEF OneTaskPerEpoch
    <2>8. OneTaskPerEpoch'
      <3> USE DEF Unanswered, Unsettled
      <3>2. /\ \A t, u \in Tasks :
                 Unanswered(t)' /\ Unanswered(u)' /\ carg'[t] = carg'[u] => t = u
            /\ \A t \in Tasks : Unanswered(t)' => cp'[carg'[t]] \in {"assigned", "cancelled"}
        BY <1>i, <1>t, <2>1, <2>4 DEF OneTaskPerEpoch
      <3>3. \A t \in Tasks : Unsettled(t)' => phase'[carg'[t]] \in {"Loading", "Evicting"}
        BY <1>i, <1>t, <2>1, <2>4 DEF OneTaskPerEpoch
      <3>4. Dropping' => \A t \in Tasks : Unsettled(t)' => carg'[t] # rkey'
        BY <2>1, <2>7
      <3>5. rpc' # "evictDrop"
        BY <2>2
      <3> QED
        BY <3>2, <3>3, <3>4, <3>5 DEF OneTaskPerEpoch
    <2> QED
      BY <2>5, <2>6, <2>8 DEF EvictInv
  <1>2. ASSUME NEW k \in Keys, NEW t \in Tasks, Assign(k, t)
        PROVE  EvictInv'
    <2>1. /\ rpc = "idle" /\ cp[k] = "absent" /\ tpc[t] = "free"
          /\ UNCHANGED <<engineUp, com, in_progress, committed, cpc, reply, rpc, rkey, rphase>>
      BY <1>2 DEF Assign, MayAssign, epochVars
    <2>2. /\ carg'[t] = k /\ tpc'[t] = "queued"
          /\ \A u \in Clients : u # t => carg'[u] = carg[u]
          /\ \A u \in Tasks : u # t => tpc'[u] = tpc[u]
      BY <1>2, <1>t DEF Assign, TaskGoto
    <2>3. /\ cp'[k] = "assigned" /\ phase'[k] = "Loading"
          /\ \A j \in Keys : j # k => cp'[j] = cp[j] /\ phase'[j] = phase[j]
      BY <1>2, <1>t DEF Assign, CpAssigns, SetPhase
    <2>4. ClientsAt'
      BY <1>i, <1>t, <2>1, <2>2 DEF ClientsAt
    <2>5. \A i \in DOMAIN com : com[i].from # t /\ com[i].from \in Clients
      BY <1>i, <2>1, QueuedType DEF CommandsAreAwaited, DispatcherTypeOK
    <2>6. CommandsAreAwaited'
      BY <1>i, <2>1, <2>2, <2>5 DEF CommandsAreAwaited, AwaitOf
    <2>7. EntriesAreTasks'
      BY <1>i, <1>t, <2>1, <2>2 DEF EntriesAreTasks, InProgress
    <2>8. \A u \in Tasks : Unanswered(u) => carg[u] # k
      BY <1>i, <2>1 DEF OneTaskPerEpoch
    <2>9. OneTaskPerEpoch'
      <3> USE DEF Unanswered, Unsettled
      <3>1. \A u, v \in Tasks :
              Unanswered(u)' /\ Unanswered(v)' /\ carg'[u] = carg'[v] => u = v
        BY <1>i, <1>t, <2>2, <2>8 DEF OneTaskPerEpoch
      <3>2. \A u \in Tasks : Unanswered(u)' => cp'[carg'[u]] \in {"assigned", "cancelled"}
        BY <1>i, <1>t, <2>2, <2>3, <2>8 DEF OneTaskPerEpoch
      <3>3. \A u \in Tasks : Unsettled(u)' => phase'[carg'[u]] \in {"Loading", "Evicting"}
        BY <1>i, <1>t, <2>2, <2>3, <2>8 DEF OneTaskPerEpoch
      <3>4. ~Dropping' /\ rpc' # "evictDrop"
        BY <2>1 DEF Dropping
      <3> QED
        BY <3>1, <3>2, <3>3, <3>4 DEF OneTaskPerEpoch
    <2>10. LoadedIsCommitted'
      BY <1>i, <1>t, <2>1, <2>2, <2>3 DEF LoadedIsCommitted, ActiveIsCommitted
    <2> QED
      BY <2>4, <2>6, <2>7, <2>9, <2>10 DEF EvictInv
  <1>3. CASE Drain
    BY <1>3, EvictUnchanged DEF Drain
  <1> QED
    BY <1>1, <1>2, <1>3 DEF CpCommand

\* Task or Receive Task c enters a procedure of the engine at its step at.
Enters(c, k, at) ==
  /\ Call(c, k, at)
  /\ UNCHANGED <<engineUp, com, in_progress, committed>>

\* Entering a procedure keeps the queued commands awaited.
LEMMA AwaitedCall ==
  ASSUME DispatcherTypeOK, ClientsAt, CommandsAreAwaited,
         NEW c \in Clients, NEW k \in Keys, NEW at, Enters(c, k, at),
         cpc[c] \in {"idle", "returned"},
         c \in Tasks => k = carg[c],
         \A t \in Tasks : tpc[t] \notin {"free", "queued"} => tpc'[t] \notin {"free", "queued"}
  PROVE  CommandsAreAwaited'
  <1>t. /\ cpc \in [Clients -> ClientAt] /\ reply \in [Clients -> Replies]
        /\ carg \in [Clients -> Keys]
        /\ Tasks \subseteq Clients
    BY DispatcherAssumption DEF DispatcherTypeOK, TypeOK
  <1>1. com' = com /\ \A i \in DOMAIN com : com[i].from \in Clients
    BY QueuedType DEF Enters, DispatcherTypeOK
  <1>2. \A i \in DOMAIN com : com[i].from = c => com[i].op \in LoadOps /\ c \in Tasks
    BY DEF CommandsAreAwaited, AwaitOf
  <1>3. \A d \in Clients : d # c => /\ cpc'[d] = cpc[d]
                                    /\ reply'[d] = reply[d]
                                    /\ carg'[d] = carg[d]
    BY <1>t DEF Enters, Call, Goto
  <1>4. c \in Tasks => carg'[c] = carg[c]
    BY <1>t DEF Enters, Call
  <1> QED
    BY <1>1, <1>2, <1>3, <1>4 DEF CommandsAreAwaited, AwaitOf

\* A step of the Receive Task.
LEMMA EvictReceiver ==
  ASSUME DispatcherTypeOK, EvictInv, ReceiverStep
  PROVE  EvictInv'
  <1>i. /\ ClientsAt /\ CommandsAreAwaited /\ EntriesAreTasks
        /\ OneTaskPerEpoch /\ LoadedIsCommitted
    BY DEF EvictInv
  <1>t. /\ phase \in [Keys -> Phases] /\ rkey \in Keys
        /\ carg \in [Clients -> Keys] /\ cpc \in [Clients -> ClientAt]
        /\ reply \in [Clients -> Replies]
        /\ Tasks \subseteq Clients /\ Receiver \in Clients /\ Receiver \notin Tasks
        /\ \A t \in Tasks : carg[t] \in Keys
    BY DispatcherAssumption DEF DispatcherTypeOK, TypeOK
  <1>1. CASE EvictDeferred \/ EvictDuplicate \/ EvictMacroWritten
    <2>1. UNCHANGED <<engineUp, com, in_progress, committed, cpc, carg, reply, tpc, cp, rkey>>
      BY <1>1 DEF EvictDeferred, EvictDuplicate, EvictMacroWritten, engineVars
    <2>2. /\ rpc' = "idle" /\ rpc # "idle"
          /\ cpc[Receiver] \in {"idle", "returned"}
          /\ phase' = phase \/ phase' = [phase EXCEPT ![rkey] = "Evicting"]
      BY <1>1, <1>i DEF EvictDeferred, EvictDuplicate, EvictMacroWritten, SetPhase, ClientsAt
    <2>3. ClientsAt'
      BY <1>i, <2>1, <2>2 DEF ClientsAt
    <2>4. CommandsAreAwaited'
      BY <1>i, <2>1 DEF CommandsAreAwaited, AwaitOf
    <2>5. EntriesAreTasks'
      BY <1>i, <2>1 DEF EntriesAreTasks, InProgress
    <2>6. OneTaskPerEpoch'
      BY <1>i, <1>t, <2>1, <2>2 DEF OneTaskPerEpoch, Unanswered, Unsettled, Dropping
    <2>7. LoadedIsCommitted'
      BY <1>i, <1>t, <2>1, <2>2 DEF LoadedIsCommitted, ActiveIsCommitted
    <2> QED
      BY <2>3, <2>4, <2>5, <2>6, <2>7 DEF EvictInv
  <1>2. ASSUME NEW at \in {"drop", "list"}, Enters(Receiver, rkey, at),
               cpc[Receiver] \in {"idle", "returned"},
               rpc' = IF at = "drop" THEN "evictDrop" ELSE "evictMacro",
               at = "drop" => Dropping /\ phase'[rkey] # "Active",
               \A k \in Keys : phase'[k] = phase[k] \/ (k = rkey /\ Dropping /\ phase'[k] = "none"),
               UNCHANGED <<tpc, cp, rkey>>
        PROVE  EvictInv'
    <2>1. /\ cpc'[Receiver] = at /\ carg'[Receiver] = rkey /\ reply'[Receiver] = "none"
          /\ \A c \in Clients : c # Receiver => /\ cpc'[c] = cpc[c]
                                                /\ carg'[c] = carg[c]
                                                /\ reply'[c] = reply[c]
          /\ UNCHANGED <<engineUp, com, in_progress, committed>>
      BY <1>2, <1>t DEF Enters, Call, Goto
    <2>2. CommandsAreAwaited'
      BY <1>i, <1>t, <1>2, AwaitedCall
    <2>3. ClientsAt'
      <3>1. rpc' \in {"evictDrop", "evictMacro"} /\ cpc'[Receiver] \in DropAt \cup MacroAt
        BY <1>2, <2>1 DEF DropAt, MacroAt
      <3> QED
        BY <1>i, <1>t, <1>2, <2>1, <3>1 DEF ClientsAt, DropAt, MacroAt
    <2>4. EntriesAreTasks'
      BY <1>i, <1>t, <1>2, <2>1 DEF EntriesAreTasks, InProgress
    <2>5. \A t \in Tasks : carg'[t] = carg[t] /\ reply'[t] = reply[t]
      BY <1>t, <2>1
    <2>6. Dropping' => Dropping
      BY <1>2 DEF Dropping
    <2>7. OneTaskPerEpoch'
      <3> USE DEF Unanswered, Unsettled
      <3>2. /\ \A t, u \in Tasks :
                 Unanswered(t)' /\ Unanswered(u)' /\ carg'[t] = carg'[u] => t = u
            /\ \A t \in Tasks : Unanswered(t)' => cp'[carg'[t]] \in {"assigned", "cancelled"}
        BY <1>i, <1>2, <2>5 DEF OneTaskPerEpoch
      <3>3. \A t \in Tasks : Unsettled(t)' => phase'[carg'[t]] \in {"Loading", "Evicting"}
        BY <1>i, <1>t, <1>2, <2>5 DEF OneTaskPerEpoch
      <3>4. Dropping' => \A t \in Tasks : Unsettled(t)' => carg'[t] # rkey'
        BY <1>i, <1>2, <2>5, <2>6 DEF OneTaskPerEpoch
      <3>5. rpc' = "evictDrop" => phase'[rkey'] # "Active"
        BY <1>i, <1>t, <1>2 DEF OneTaskPerEpoch
      <3> QED
        BY <3>2, <3>3, <3>4, <3>5 DEF OneTaskPerEpoch
    <2>8. LoadedIsCommitted'
      BY <1>i, <1>t, <1>2, <2>1, <2>5 DEF LoadedIsCommitted, ActiveIsCommitted
    <2> QED
      BY <2>2, <2>3, <2>4, <2>7, <2>8 DEF EvictInv
  <1>3. CASE EvictNow
    <2>1. Enters(Receiver, rkey, "drop")
      BY <1>3 DEF EvictNow, BeginDrop, Enters, epochVars
    <2>2. /\ cpc[Receiver] \in {"idle", "returned"} /\ Dropping
          /\ rpc' = "evictDrop" /\ UNCHANGED <<tpc, cp, rkey>>
      BY <1>3, <1>i DEF EvictNow, Dropping, ClientsAt
    <2>3. /\ phase'[rkey] = "none"
          /\ \A k \in Keys : k # rkey => phase'[k] = phase[k]
      BY <1>3, <1>t DEF EvictNow, ForgetPhase, SetPhase
    <2> QED
      BY <1>2, <2>1, <2>2, <2>3
  <1>4. CASE EvictDropped
    <2>1. CASE BeginMacro(Receiver, rkey) /\ rpc' = "evictMacro"
      <3>1. Enters(Receiver, rkey, "list")
        BY <2>1 DEF BeginMacro, Enters, epochVars
      <3>2. cpc[Receiver] = "returned" /\ UNCHANGED <<phase, tpc, cp, rkey>>
        BY <1>4 DEF EvictDropped
      <3> QED
        BY <1>2, <2>1, <3>1, <3>2
    <2>2. CASE rpc' = "idle" /\ UNCHANGED engineVars
      <3>1. UNCHANGED <<engineUp, com, in_progress, committed, cpc, carg, reply>>
        BY <2>2 DEF engineVars
      <3>2. cpc[Receiver] = "returned" /\ UNCHANGED <<phase, tpc, cp, rkey>>
        BY <1>4 DEF EvictDropped
      <3>3. ClientsAt'
        BY <1>i, <2>2, <3>1, <3>2 DEF ClientsAt
      <3>4. CommandsAreAwaited'
        BY <1>i, <3>1, <3>2 DEF CommandsAreAwaited, AwaitOf
      <3>5. EntriesAreTasks' /\ LoadedIsCommitted'
        BY <1>i, <3>1, <3>2 DEF EntriesAreTasks, InProgress, LoadedIsCommitted, ActiveIsCommitted
      <3>6. OneTaskPerEpoch'
        BY <1>i, <2>2, <3>1, <3>2 DEF OneTaskPerEpoch, Unanswered, Unsettled, Dropping
      <3> QED
        BY <3>3, <3>4, <3>5, <3>6 DEF EvictInv
    <2> QED
      BY <1>4, <2>1, <2>2 DEF EvictDropped
  <1> QED
    BY <1>1, <1>3, <1>4 DEF ReceiverStep

\* What a step of load task t may do to the phase map and to the control plane's
\* view: it touches only its own epoch, settles the phase and answers once.
LoadEffect(t) ==
  /\ UNCHANGED <<engineUp, com, in_progress, committed, carg, rpc, rkey, rphase>>
  /\ tpc[t] \notin {"free", "done"}
  /\ tpc'[t] \notin {"free", "queued"}
  /\ \A u \in Tasks : u # t => tpc'[u] = tpc[u]
  /\ \A k \in Keys : k # carg[t] => phase'[k] = phase[k] /\ cp'[k] = cp[k]
  /\ \/ Unsettled(t) /\ Unsettled(t)' /\ phase' = phase /\ cp' = cp
     \/ Unsettled(t) /\ ~Unsettled(t)' /\ cp' = cp
     \/ ~Unsettled(t) /\ ~Unsettled(t)' /\ phase' = phase
  /\ cp' = cp \/ (Unanswered(t) /\ ~Unanswered(t)')
  /\ Unanswered(t)' => Unanswered(t)
  /\ \A k \in Keys : phase'[k] = "Active" =>
       phase[k] = "Active" \/ tpc[t] \in {"macro", "activate"}

\* Each step of a load task is one of the kinds LoadEffect lists.
LEMMA LoadEffects ==
  ASSUME DispatcherTypeOK, NEW t \in Tasks, LoadStep(t)
  PROVE  LoadEffect(t)
  <1>t. /\ phase \in [Keys -> Phases] /\ tpc \in [Tasks -> TaskAt]
        /\ cp \in [Keys -> {"absent", "assigned", "loaded", "cancelled"}]
        /\ carg \in [Clients -> Keys] /\ t \in Clients /\ carg[t] \in Keys
    BY DispatcherAssumption DEF DispatcherTypeOK, TypeOK
  <1> USE DEF LoadEffect, Unsettled, Unanswered, TaskGoto, SetPhase
  <1>1. ASSUME NEW at, BeginCreate(t, carg[t]) \/ BeginDrop(t, carg[t]) \/ BeginMacro(t, carg[t])
        PROVE  UNCHANGED <<engineUp, com, in_progress, committed, carg>>
    BY <1>t, <1>1 DEF BeginCreate, BeginDrop, BeginMacro, Call, epochVars
  <1>2. UNCHANGED engineVars => UNCHANGED <<engineUp, com, in_progress, committed, carg>>
    BY DEF engineVars
  <1>3. CASE Acquire(t)
    BY <1>t, <1>1, <1>3 DEF Acquire
  <1>4. CASE EvictLoaded(t)
    BY <1>t, <1>1, <1>4 DEF EvictLoaded
  <1>5. CASE RegisterDataset(t)
    BY <1>t, <1>1, <1>5 DEF RegisterDataset
  <1>6. CASE LoadFailed(t) \/ MacroFailed(t) \/ LoadedMacroWritten(t)
    BY <1>t, <1>2, <1>6 DEF LoadFailed, MacroFailed, LoadedMacroWritten
  <1>7. CASE Loaded(t) \/ Finish(t)
    BY <1>t, <1>2, <1>7 DEF Loaded, Finish
  <1>8. CASE Activate(t)
    BY <1>t, <1>2, <1>8 DEF Activate
  <1>9. CASE LoadedDropped(t)
    BY <1>t, <1>1, <1>2, <1>9 DEF LoadedDropped
  <1>10. CASE Report(t)
    BY <1>t, <1>2, <1>10 DEF Report, ReportCompleted, ReportFailed
  <1> QED
    BY <1>3, <1>4, <1>5, <1>6, <1>7, <1>8, <1>9, <1>10 DEF LoadStep

\* Where a step of load task t leaves it inside the engine's API.
LEMMA LoadCalls ==
  ASSUME DispatcherTypeOK, ClientsAt, NEW t \in Tasks, LoadStep(t)
  PROVE  /\ \/ UNCHANGED <<cpc, reply>> /\ cpc[t] = "returned"
            \/ /\ cpc[t] \in {"idle", "returned"}
               /\ \E at \in {"source", "drop", "list"} : Enters(t, carg[t], at)
         /\ tpc'[t] = "loading" => cpc'[t] \in CreateAt
         /\ tpc'[t] = "dropping" => cpc'[t] \in DropAt
         /\ tpc'[t] \in {"macro", "evictMacro"} => cpc'[t] \in MacroAt
         /\ tpc'[t] \notin {"free", "queued", "loading", "dropping", "macro",
                            "evictMacro"} => cpc'[t] = "returned"
         /\ tpc'[t] = "loading" => reply'[t] = "none"
         /\ tpc'[t] \in {"register", "macro", "activate"} =>
              \/ tpc[t] \in {"register", "macro", "activate"}
              \/ tpc[t] = "loading" /\ reply[t] = "ok"
         /\ tpc[t] = "macro" /\ tpc'[t] = "reportCompleted" => reply[t] = "ok"
  <1>t. /\ tpc \in [Tasks -> TaskAt] /\ cpc \in [Clients -> ClientAt]
        /\ carg \in [Clients -> Keys] /\ t \in Clients
        /\ reply \in [Clients -> Replies]
    BY DispatcherAssumption DEF DispatcherTypeOK, TypeOK
  <1>c. /\ tpc[t] \in {"free", "queued"} => cpc[t] = "idle"
        /\ tpc[t] \notin {"free", "queued", "loading", "dropping", "macro",
                          "evictMacro"} => cpc[t] = "returned"
    BY DEF ClientsAt
  <1> USE DEF TaskGoto, Enters, Call, Goto
  <1>2. UNCHANGED engineVars => UNCHANGED <<cpc, reply>>
    BY DEF engineVars
  <1>3. CASE Acquire(t)
    BY <1>t, <1>c, <1>3 DEF Acquire, BeginCreate, epochVars, CreateAt
  <1>4. CASE EvictLoaded(t)
    BY <1>t, <1>4 DEF EvictLoaded, BeginDrop, epochVars, DropAt
  <1>5. CASE RegisterDataset(t)
    BY <1>t, <1>c, <1>5 DEF RegisterDataset, BeginMacro, epochVars, MacroAt
  <1>6. CASE LoadFailed(t) \/ MacroFailed(t) \/ LoadedMacroWritten(t)
    BY <1>t, <1>2, <1>6 DEF LoadFailed, MacroFailed, LoadedMacroWritten
  <1>7. CASE Loaded(t) \/ Finish(t)
    BY <1>t, <1>c, <1>2, <1>7 DEF Loaded, Finish
  <1>8. CASE Activate(t)
    BY <1>t, <1>c, <1>2, <1>8 DEF Activate
  <1>9. CASE LoadedDropped(t)
    BY <1>t, <1>2, <1>9 DEF LoadedDropped, BeginMacro, epochVars, MacroAt
  <1>10. CASE Report(t)
    BY <1>t, <1>c, <1>2, <1>10 DEF Report
  <1> QED
    BY <1>3, <1>4, <1>5, <1>6, <1>7, <1>8, <1>9, <1>10 DEF LoadStep

\* A step of a load task.
LEMMA EvictLoad ==
  ASSUME DispatcherTypeOK, EvictInv, NEW t \in Tasks, LoadStep(t)
  PROVE  EvictInv'
  <1>i. /\ ClientsAt /\ CommandsAreAwaited /\ EntriesAreTasks
        /\ OneTaskPerEpoch /\ LoadedIsCommitted
    BY DEF EvictInv
  <1>t. /\ phase \in [Keys -> Phases] /\ tpc \in [Tasks -> TaskAt]
        /\ cpc \in [Clients -> ClientAt] /\ reply \in [Clients -> Replies]
        /\ Tasks \subseteq Clients /\ Receiver \in Clients /\ Receiver \notin Tasks
        /\ carg \in [Clients -> Keys] /\ \A u \in Tasks : carg[u] \in Keys
    BY DispatcherAssumption DEF DispatcherTypeOK, TypeOK
  <1>e. LoadEffect(t)
    BY LoadEffects
  <1>c. \/ UNCHANGED <<cpc, reply>>
        \/ \E at \in {"source", "drop", "list"} :
             /\ Enters(t, carg[t], at)
             /\ cpc[t] \in {"idle", "returned"}
    BY <1>i, LoadCalls
  <1>o. \A c \in Clients : c # t => cpc'[c] = cpc[c] /\ reply'[c] = reply[c]
    BY <1>t, <1>c DEF Enters, Call, Goto
  <1>1. ClientsAt'
    <2>1. cpc'[t] \in {"drop", "list", "schema"} => reply'[t] = "none"
      BY <1>i, <1>t, <1>c DEF ClientsAt, Enters, Call, Goto
    <2>2. /\ tpc'[t] \notin {"free", "queued"}
          /\ tpc'[t] = "loading" => cpc'[t] \in CreateAt
          /\ tpc'[t] = "dropping" => cpc'[t] \in DropAt
          /\ tpc'[t] \in {"macro", "evictMacro"} => cpc'[t] \in MacroAt
          /\ tpc'[t] \notin {"free", "queued", "loading", "dropping", "macro",
                             "evictMacro"} => cpc'[t] = "returned"
      BY <1>i, <1>e, LoadCalls DEF LoadEffect
    <2>3. UNCHANGED <<engineUp, rpc, rkey, carg>> /\ \A u \in Tasks : u # t => tpc'[u] = tpc[u]
      BY <1>e DEF LoadEffect
    <2> QED
      BY <1>i, <1>t, <1>o, <2>1, <2>2, <2>3 DEF ClientsAt
  <1>2. CommandsAreAwaited'
    <2>1. /\ \A u \in Tasks : tpc[u] \notin {"free", "queued"} => tpc'[u] \notin {"free", "queued"}
          /\ UNCHANGED <<com, carg>>
      BY <1>e DEF LoadEffect
    <2>2. CASE UNCHANGED <<cpc, reply>>
      BY <1>i, <2>1, <2>2 DEF CommandsAreAwaited, AwaitOf
    <2> QED
      BY <1>i, <1>t, <1>c, <2>1, <2>2, AwaitedCall
  <1>3. EntriesAreTasks'
    BY <1>i, <1>e DEF EntriesAreTasks, InProgress, LoadEffect
  <1>4. OneTaskPerEpoch'
    <2>1. \A u \in Tasks : /\ Unanswered(u)' => Unanswered(u)
                           /\ Unsettled(u)' => Unsettled(u)
      BY <1>e DEF LoadEffect, Unanswered, Unsettled
    <2>2. \A u \in Tasks : Unanswered(u)' => cp'[carg[u]] = cp[carg[u]]
      BY <1>i, <1>t, <1>e, <2>1 DEF LoadEffect, OneTaskPerEpoch
    <2>3. \A u \in Tasks : Unsettled(u)' => phase'[carg[u]] = phase[carg[u]]
      BY <1>i, <1>t, <1>e, <2>1 DEF LoadEffect, OneTaskPerEpoch, Unsettled
    <2>4. rpc = "evictDrop" => phase'[rkey] # "Active"
      <3>1. rkey \in Keys
        BY DEF DispatcherTypeOK
      <3>2. tpc[t] \in {"macro", "activate"} => Unsettled(t)
        BY DEF Unsettled, Unanswered
      <3> QED
        BY <1>i, <1>e, <3>1, <3>2 DEF LoadEffect, OneTaskPerEpoch, Dropping
    <2>5. UNCHANGED <<carg, rpc, rkey, rphase>>
      BY <1>e DEF LoadEffect
    <2> QED
      BY <1>i, <2>1, <2>2, <2>3, <2>4, <2>5 DEF OneTaskPerEpoch, Dropping
  <1>5. LoadedIsCommitted'
    <2>1. UNCHANGED <<carg, committed>> /\ \A u \in Tasks : u # t => tpc'[u] = tpc[u]
      BY <1>e DEF LoadEffect
    <2>2. \/ tpc'[t] \in {"register", "macro", "activate"}
          \/ tpc'[t] = "loading" /\ reply'[t] = "ok"
          => carg[t] \in committed
      BY <1>i, LoadCalls DEF LoadedIsCommitted
    <2>3. \A k \in Keys : phase'[k] = "Active" => k \in committed
      BY <1>i, <1>e DEF LoadEffect, LoadedIsCommitted, ActiveIsCommitted
    <2> QED
      BY <1>i, <1>t, <1>o, <2>1, <2>2, <2>3 DEF LoadedIsCommitted, ActiveIsCommitted
  <1> QED
    BY <1>1, <1>2, <1>3, <1>4, <1>5 DEF EvictInv

-----------------------------------------------------------------------------

\* EvictInv is inductive with the types.
LEMMA EvictStep ==
  ASSUME CpDisciplined, DispatcherTypeOK, EvictInv, [Next]_vars
  PROVE  EvictInv'
  <1>1. CASE CallWaitForDrain \/ DrainStep \/ UNCHANGED vars
    BY <1>1, EvictUnchanged
       DEF CallWaitForDrain, DrainStep, CountLoading, WakeUp, vars, dispatchVars
  <1> QED
    BY <1>1, EvictCommand, EvictReceiver, EvictLoad, EvictClient, EvictActor
       DEF Next, EngineStep

\* EvictInv holds at the start.
LEMMA EvictInit == Init => EvictInv
  <1> SUFFICES ASSUME Init PROVE EvictInv
    OBVIOUS
  <1>1. /\ engineUp /\ com = <<>> /\ rpc = "idle"
        /\ \A c \in Clients : cpc[c] = "idle"
        /\ \A t \in Tasks : t \in Clients /\ tpc[t] = "free"
        /\ Receiver \in Clients
        /\ \A k \in Keys : in_progress[k] = NoClient /\ phase[k] = "none"
    BY DispatcherAssumption DEF Init, EngineInit
  <1>2. ClientsAt
    BY <1>1 DEF ClientsAt
  <1>3. CommandsAreAwaited
    <2>1. com = <<>>
      BY <1>1, Zenon
    <2>2. DOMAIN com = {}
      BY <2>1
    <2> QED
      BY <2>2, Zenon DEF CommandsAreAwaited
  <1>4. EntriesAreTasks
    BY <1>1 DEF EntriesAreTasks, InProgress
  <1>5. OneTaskPerEpoch
    BY <1>1 DEF OneTaskPerEpoch, Unanswered, Unsettled, Dropping
  <1>6. LoadedIsCommitted
    BY <1>1 DEF LoadedIsCommitted, ActiveIsCommitted
  <1> QED
    BY <1>2, <1>3, <1>4, <1>5, <1>6 DEF EvictInv

\* The Active epochs that reconciliation reports (list_loaded_epochs) are all
\* committed in the engine, whatever evictions, cancellations and failures ran
\* beside their loads, provided the control plane assigns an epoch only while it
\* knows it to be absent.
THEOREM ActiveEpochsAreCommitted ==
  ASSUME CpDisciplined
  PROVE  Spec => []ActiveIsCommitted
  <1>1. DispatcherTypeOK /\ EvictInv /\ [Next]_vars => EvictInv'
    BY EvictStep
  <1>2. EvictInv => ActiveIsCommitted
    BY DEF EvictInv, LoadedIsCommitted
  <1> QED
    BY <1>1, <1>2, EvictInit, DispatcherTypeCorrect, PTL DEF Spec

-----------------------------------------------------------------------------
(***************************************************************************)
(* The engine under the dispatcher.  A load task enters the engine in ways  *)
(* the engine's own specification does not name (an assignment sets the key *)
(* of a later call), so its theorems are carried over, not inherited.       *)
(***************************************************************************)

\* Only the actor touches the epochs.
LEMMA DispatchedEpochs ==
  ASSUME DispatcherTypeOK, [Next]_vars
  PROVE  UNCHANGED epochVars \/ ActorStep
  <1>1. CASE UNCHANGED engineVars \/ UNCHANGED vars
    BY <1>1 DEF vars, engineVars, epochVars
  <1>2. CASE \E k \in Keys, t \in Tasks : Assign(k, t)
    BY <1>2 DEF Assign
  <1>3. CASE \E c \in Clients, k \in Keys :
               BeginCreate(c, k) \/ BeginDrop(c, k) \/ BeginMacro(c, k)
    BY <1>3 DEF BeginCreate, BeginDrop, BeginMacro
  <1>4. CASE EngineStep
    BY <1>4, CallsLeaveEpochs DEF EngineStep
  <1> QED
    BY <1>1, <1>2, <1>3, <1>4, EngineSide

\* Under the dispatcher too, and for an undisciplined control plane, the engine
\* lists only epochs that have a table and rows, and never one still ingested.
THEOREM DispatchedEpochsAreSound == Spec => [](EpochsHaveTables /\ CommittedNotEmpty)
  <1>1. Init => EpochInv
    BY DEF Init, EngineInit, EpochInv, EpochsHaveTables, CommittedNotEmpty, InProgress
  <1>2. DispatcherTypeOK /\ EpochInv /\ [Next]_vars => EpochInv'
    BY DispatchedEpochs, EpochInvUnchanged, EpochInvActor DEF DispatcherTypeOK
  <1>3. EpochInv => EpochsHaveTables /\ CommittedNotEmpty
    BY DEF EpochInv
  <1> QED
    BY <1>1, <1>2, <1>3, DispatcherTypeCorrect, PTL DEF Spec

\* The dispatcher's specification implements EpochStore: assignments, evictions
\* and cancellations in any order change what an epoch's users see only by a
\* whole load, a whole drop or a failure that leaves a wreck.
THEOREM DispatcherImplementsStore == Spec => ImplementsStore
  <1>1. Init => Store!StoreInit
    BY DEF Init, EngineInit, Store!StoreInit, EpochState, InProgress
  <1>2. DispatcherTypeOK /\ EpochInv /\ [Next]_vars => [Store!StoreNext]_(Store!storeVars)
    <2> SUFFICES ASSUME DispatcherTypeOK, EpochInv, [Next]_vars
                 PROVE  [Store!StoreNext]_(Store!storeVars)
      OBVIOUS
    <2>1. CASE UNCHANGED epochVars
      BY <2>1 DEF epochVars, Store!storeVars, EpochState, InProgress
    <2> QED
      BY <2>1, DispatchedEpochs, ActorRefines DEF DispatcherTypeOK
  <1>3. EpochsHaveTables /\ CommittedNotEmpty => EpochInv
    BY DEF EpochInv
  <1> QED
    BY <1>1, <1>2, <1>3, DispatcherTypeCorrect, DispatchedEpochsAreSound, PTL
       DEF Spec, ImplementsStore, Store!StoreSpec

-----------------------------------------------------------------------------
(***************************************************************************)
(* What callers wait for, for an undisciplined control plane as well.       *)
(***************************************************************************)

\* An epoch is Loading only while a task works on it that has yet to settle its
\* phase, whichever of several assignments of the epoch that task is for.
LoadingHasTask ==
  \A k \in Keys : phase[k] = "Loading" => \E t \in Tasks : Unsettled(t) /\ carg[t] = k

DrainInv == /\ LoadingHasTask /\ NoWakeUpIsLost
            /\ waiter # "idle" => draining

\* The steps that neither start nor settle a load.
LEMMA DrainKept ==
  ASSUME DispatcherTypeOK, DrainInv,
         \A t \in Tasks : tpc'[t] = tpc[t] /\ carg'[t] = carg[t],
         \A k \in Keys : phase'[k] = "Loading" => phase[k] = "Loading",
         UNCHANGED <<waiter, notified>>,
         draining => draining'
  PROVE  DrainInv'
  <1>1. LoadingHasTask'
    BY DEF DrainInv, LoadingHasTask, Unsettled, Unanswered
  <1>2. NoWakeUpIsLost'
    BY DEF DrainInv, NoWakeUpIsLost
  <1> QED
    BY <1>1, <1>2 DEF DrainInv

\* A step of a load task settles the phase when it stops working on it, and
\* notifies when it ends.
LEMMA DrainLoad ==
  ASSUME DispatcherTypeOK, DrainInv, NEW t \in Tasks, LoadStep(t)
  PROVE  DrainInv'
  <1>t. /\ phase \in [Keys -> Phases] /\ tpc \in [Tasks -> TaskAt] /\ carg[t] \in Keys
    BY DispatcherAssumption DEF DispatcherTypeOK, TypeOK
  <1>e. LoadEffect(t)
    BY LoadEffects
  <1>1. UNCHANGED <<waiter, draining>> /\ (notified => notified')
    <2>1. CASE Finish(t)
      BY <2>1 DEF Finish, NotifyDrain
    <2>2. ASSUME ~Finish(t) PROVE UNCHANGED <<waiter, draining, notified>>
      <3>1. CASE Acquire(t)
        BY <3>1, Zenon DEF Acquire
      <3>2. CASE LoadFailed(t)
        BY <3>2, Zenon DEF LoadFailed
      <3>3. CASE EvictLoaded(t)
        BY <3>3, Zenon DEF EvictLoaded
      <3>4. CASE Loaded(t)
        BY <3>4, Zenon DEF Loaded
      <3>5. CASE RegisterDataset(t)
        BY <3>5, Zenon DEF RegisterDataset
      <3>6. CASE Activate(t)
        BY <3>6, Zenon DEF Activate
      <3>7. CASE MacroFailed(t)
        BY <3>7, Zenon DEF MacroFailed
      <3>8. CASE LoadedDropped(t)
        BY <3>8, Zenon DEF LoadedDropped
      <3>9. CASE LoadedMacroWritten(t)
        BY <3>9, Zenon DEF LoadedMacroWritten
      <3>10. CASE Report(t)
        BY <3>10, Zenon DEF Report
      <3> QED
        BY <2>2, <3>1, <3>2, <3>3, <3>4, <3>5, <3>6, <3>7,
           <3>8, <3>9, <3>10, Zenon DEF LoadStep
    <2>3. CASE ~Finish(t)
      <3>1. waiter' = waiter /\ draining' = draining /\ notified' = notified
        BY <2>2, <2>3
      <3>2. notified => notified'
        BY <3>1, Zenon
      <3> QED
        BY <3>1, <3>2
    <2> QED
      BY <2>1, <2>3, Zenon
  <1>2. ~Unsettled(t)' => phase'[carg[t]] # "Loading" \/ ~Unsettled(t)
    <2> USE DEF SetPhase, TaskGoto
    <2>1. CASE LoadFailed(t) \/ Activate(t) \/ MacroFailed(t) \/ LoadedMacroWritten(t)
      BY <1>t, <2>1 DEF LoadFailed, Activate, MacroFailed, LoadedMacroWritten
    <2>2. CASE LoadedDropped(t)
      BY <1>t, <2>2 DEF LoadedDropped, Unsettled, Unanswered
    <2>3. CASE Acquire(t) \/ EvictLoaded(t) \/ Loaded(t) \/ RegisterDataset(t)
      BY <1>t, <2>3 DEF Acquire, EvictLoaded, Loaded, RegisterDataset, Unsettled, Unanswered
    <2>4. CASE Report(t) \/ Finish(t)
      BY <1>t, <2>4 DEF Report, Finish, Unsettled, Unanswered
    <2> QED
      BY <2>1, <2>2, <2>3, <2>4 DEF LoadStep
  <1>3. \A k \in Keys : phase'[k] = "Loading" => phase[k] = "Loading"
    BY <1>t DEF LoadStep, Acquire, LoadFailed, EvictLoaded, Loaded, RegisterDataset, Activate,
           MacroFailed, LoadedDropped, LoadedMacroWritten, Report, Finish, SetPhase
  <1>4. LoadingHasTask'
    <2> SUFFICES ASSUME NEW k \in Keys, phase'[k] = "Loading"
                 PROVE  \E u \in Tasks : Unsettled(u)' /\ carg'[u] = k
      BY DEF LoadingHasTask
    <2>1. PICK u \in Tasks : Unsettled(u) /\ carg[u] = k
      BY <1>3 DEF DrainInv, LoadingHasTask
    <2>2. CASE u # t
      BY <1>e, <2>1, <2>2 DEF LoadEffect, Unsettled, Unanswered
    <2>3. CASE u = t
      BY <1>e, <1>2, <2>1, <2>3 DEF LoadEffect
    <2> QED
      BY <2>2, <2>3
  <1>5. tpc'[t] \notin {"free", "done"} \/ notified'
    <2>1. CASE Finish(t)
      BY <2>1 DEF Finish, NotifyDrain
    <2>2. CASE ~Finish(t)
      BY <1>t, <2>2 DEF LoadStep, Acquire, LoadFailed, EvictLoaded, Loaded, RegisterDataset,
           Activate, MacroFailed, LoadedDropped, LoadedMacroWritten, Report, TaskGoto
    <2> QED
      BY <2>1, <2>2
  <1>6. NoWakeUpIsLost'
    BY <1>1, <1>3, <1>5 DEF DrainInv, NoWakeUpIsLost
  <1> QED
    BY <1>1, <1>4, <1>6 DEF DrainInv

\* Every step.
LEMMA DrainInvStep ==
  ASSUME DispatcherTypeOK, DrainInv, [Next]_vars
  PROVE  DrainInv'
  <1>t. /\ phase \in [Keys -> Phases] /\ rkey \in Keys /\ tpc \in [Tasks -> TaskAt]
        /\ carg \in [Clients -> Keys] /\ cpc \in [Clients -> ClientAt]
        /\ Tasks \subseteq Clients /\ Receiver \notin Tasks
    BY DispatcherAssumption DEF DispatcherTypeOK, TypeOK
  <1>1. CASE UNCHANGED vars
    BY <1>1, DrainKept DEF vars, engineVars, dispatchVars
  <1>2. ASSUME NEW k \in Keys,
               \/ RejectWhenDraining(k) \/ IgnoreAssignment(k)
               \/ RefuseAssignment(k) \/ EvictRead(k)
        PROVE  DrainInv'
    <2>1. UNCHANGED <<tpc, carg, waiter, notified, draining>>
      BY <1>2 DEF RejectWhenDraining, IgnoreAssignment, RefuseAssignment, EvictRead, engineVars
    <2>2. \A j \in Keys : phase'[j] = "Loading" => phase[j] = "Loading"
      BY <1>t, <1>2 DEF RejectWhenDraining, IgnoreAssignment, RefuseAssignment, EvictRead, SetPhase
    <2> QED
      BY <2>1, <2>2, DrainKept
  <1>3. ASSUME NEW k \in Keys, NEW t \in Tasks, Assign(k, t)
        PROVE  DrainInv'
    <2>1. /\ ~draining /\ tpc[t] = "free"
          /\ UNCHANGED <<waiter, notified, draining>>
          /\ tpc' = [tpc EXCEPT ![t] = "queued"]
          /\ carg' = [carg EXCEPT ![t] = k]
          /\ phase' = [phase EXCEPT ![k] = "Loading"]
      BY <1>3 DEF Assign, TaskGoto, SetPhase
    <2>2. Unsettled(t)' /\ carg'[t] = k
      BY <1>t, <2>1 DEF Unsettled, Unanswered
    <2>3. \A u \in Tasks : Unsettled(u) => Unsettled(u)' /\ carg'[u] = carg[u]
      BY <1>t, <2>1 DEF Unsettled, Unanswered
    <2>4. LoadingHasTask'
      <3> SUFFICES ASSUME NEW j \in Keys, phase'[j] = "Loading"
                   PROVE  \E u \in Tasks : Unsettled(u)' /\ carg'[u] = j
        BY DEF LoadingHasTask
      <3>1. CASE j = k
        BY <2>2, <3>1
      <3>2. CASE j # k
        <4>1. phase[j] = "Loading"
          BY <1>t, <2>1, <3>2
        <4> QED
          BY <2>3, <4>1 DEF DrainInv, LoadingHasTask
      <3> QED
        BY <3>1, <3>2
    <2>5. waiter = "idle"
      BY <2>1 DEF DrainInv
    <2>6. NoWakeUpIsLost'
      BY <2>1, <2>5 DEF NoWakeUpIsLost
    <2> QED
      BY <2>1, <2>4, <2>5, <2>6 DEF DrainInv
  <1>4. CASE Drain
    BY <1>4, DrainKept DEF Drain, engineVars
  <1>5. CASE ReceiverStep
    <2>1. \A t \in Tasks : tpc'[t] = tpc[t] /\ carg'[t] = carg[t]
      BY <1>t, <1>5 DEF ReceiverStep, EvictDeferred, EvictDuplicate, EvictNow, EvictDropped,
             EvictMacroWritten, BeginDrop, BeginMacro, Call, engineVars
    <2>2. \A k \in Keys : phase'[k] = "Loading" => phase[k] = "Loading"
      BY <1>t, <1>5 DEF ReceiverStep, EvictDeferred, EvictDuplicate, EvictNow, EvictDropped,
             EvictMacroWritten, ForgetPhase, SetPhase
    <2>3. UNCHANGED <<waiter, notified, draining>>
      BY <1>5 DEF ReceiverStep, EvictDeferred, EvictDuplicate, EvictNow, EvictDropped,
             EvictMacroWritten
    <2> QED
      BY <2>1, <2>2, <2>3, DrainKept
  <1>6. CASE EngineStep
    <2>1. carg' = carg
      BY <1>6 DEF EngineStep, ClientStep, SourceFails, FirstBatch, SendStart, SendIngest,
             NextBatch, StreamFails, StreamEnds, SendFinish, SendRequest, Receive,
             EngineClosed, CreateMacro, ActorStep, OnStartEpoch, OnIngestBatch, OnFinishEpoch,
             OnDropEpoch, OnListEpochs, OnGetDatasetSchema, clientVars
    <2> QED
      BY <1>6, <2>1, DrainKept DEF EngineStep, dispatchVars
  <1>7. CASE CallWaitForDrain \/ DrainStep
    <2>1. UNCHANGED <<phase, tpc, carg, draining>>
      BY <1>7 DEF CallWaitForDrain, DrainStep, CountLoading, WakeUp, engineVars
    <2>2. LoadingHasTask'
      BY <2>1 DEF DrainInv, LoadingHasTask, Unsettled, Unanswered
    <2>3. draining' /\ NoWakeUpIsLost'
      <3>1. CASE CallWaitForDrain \/ WakeUp
        BY <2>1, <3>1 DEF CallWaitForDrain, WakeUp, DrainInv, NoWakeUpIsLost
      <3>2. CASE CountLoading
        <4>1. \A t \in Tasks : Unsettled(t) => tpc[t] \notin {"free", "done"}
          BY DEF Unsettled, Unanswered
        <4>2. draining'
          BY <2>1, <3>2 DEF CountLoading, DrainInv
        <4>3. CASE \E k \in Keys : phase[k] = "Loading"
          <5>1. waiter' = "waiting"
            BY <3>2, <4>3 DEF CountLoading
          <5>2. \E t \in Tasks : tpc'[t] \notin {"free", "done"}
            BY <2>1, <4>1, <4>3 DEF DrainInv, LoadingHasTask
          <5> QED
            BY <4>2, <5>1, <5>2 DEF NoWakeUpIsLost
        <4>4. CASE \A k \in Keys : phase[k] # "Loading"
          <5>1. waiter' = "returned"
            BY <3>2, <4>4 DEF CountLoading
          <5> QED
            BY <2>1, <4>2, <4>4, <5>1 DEF NoWakeUpIsLost
        <4> QED
          BY <4>3, <4>4
      <3> QED
        BY <1>7, <3>1, <3>2 DEF DrainStep
    <2> QED
      BY <2>2, <2>3 DEF DrainInv
  <1> QED
    BY <1>1, <1>2, <1>3, <1>4, <1>5, <1>6, <1>7, DrainLoad DEF Next, CpCommand

\* wait_for_drain is never left waiting without a stored wake-up or a task that
\* will notify, and leaves no epoch Loading: for any tasks, epochs and faults,
\* and a control plane that assigns an epoch again while it is being loaded.
THEOREM DrainIsWokenUp == Spec => []NoWakeUpIsLost
  <1>1. Init => DrainInv
    BY DEF Init, DrainInv, LoadingHasTask, NoWakeUpIsLost
  <1>2. DispatcherTypeOK /\ DrainInv /\ [Next]_vars => DrainInv'
    BY DrainInvStep
  <1>3. DrainInv => NoWakeUpIsLost
    BY DEF DrainInv
  <1> QED
    BY <1>1, <1>2, <1>3, DispatcherTypeCorrect, PTL DEF Spec

\* Outside the engine's API a task has no call open in the engine.
NoCallOpen ==
  /\ \A t \in Tasks :
       /\ tpc[t] \in {"free", "queued"} => cpc[t] = "idle"
       /\ tpc[t] \notin {"free", "queued", "loading", "dropping", "macro", "evictMacro"} =>
            cpc[t] = "returned"
  /\ rpc \in {"idle", "evict"} => cpc[Receiver] \in {"idle", "returned"}

\* The dispatcher calls the engine as its specification expects: nobody enters
\* a procedure while in another, and a task creates once.
LEMMA DispatchedCalls ==
  ASSUME DispatcherTypeOK, NoCallOpen, Next
  PROVE  /\ NoCallOpen'
         /\ \/ UNCHANGED engineVars
            \/ \E k \in Keys, t \in Tasks : Assign(k, t)
            \/ \E c \in Clients : AnyCall(c)
            \/ EngineStep
  <1>t. /\ rkey \in Keys /\ Receiver \in Clients /\ Receiver \notin Tasks /\ Tasks \subseteq Clients
        /\ \A t \in Tasks : carg[t] \in Keys
        /\ tpc \in [Tasks -> TaskAt] /\ cpc \in [Clients -> ClientAt]
    BY DispatcherAssumption DEF DispatcherTypeOK, TypeOK
  <1>u. UNCHANGED engineVars => cpc' = cpc
    BY DEF engineVars
  <1>c. ASSUME NEW c \in Clients, NEW k \in Keys, cpc[c] \in {"idle", "returned"},
               \/ cpc[c] = "idle" /\ BeginCreate(c, k)
               \/ BeginDrop(c, k) \/ BeginMacro(c, k)
        PROVE  AnyCall(c) /\ \A d \in Clients : d # c => cpc'[d] = cpc[d]
    BY <1>t, <1>c DEF AnyCall, BeginCreate, BeginDrop, BeginMacro, Call, Goto
  <1>1. CASE CpCommand
    BY <1>t, <1>1 DEF NoCallOpen, CpCommand, RejectWhenDraining, IgnoreAssignment,
           RefuseAssignment, EvictRead, Drain, Assign, TaskGoto, engineVars
  <1>2. CASE ReceiverStep
    <2>1. CASE EvictDeferred \/ EvictDuplicate \/ EvictMacroWritten
      BY <1>t, <1>u, <2>1 DEF NoCallOpen, EvictDeferred, EvictDuplicate, EvictMacroWritten
    <2>2. CASE EvictNow
      <3>1. /\ BeginDrop(Receiver, rkey) /\ cpc[Receiver] \in {"idle", "returned"}
            /\ rpc' = "evictDrop" /\ tpc' = tpc
        BY <2>2 DEF EvictNow, NoCallOpen
      <3> QED
        BY <1>t, <1>c, <3>1 DEF NoCallOpen
    <2>3. CASE EvictDropped /\ UNCHANGED engineVars
      BY <1>t, <1>u, <2>3 DEF NoCallOpen, EvictDropped
    <2>4. CASE EvictDropped /\ BeginMacro(Receiver, rkey) /\ rpc' = "evictMacro"
      <3>1. cpc[Receiver] = "returned" /\ tpc' = tpc
        BY <2>4 DEF EvictDropped
      <3> QED
        BY <1>t, <1>c, <2>4, <3>1 DEF NoCallOpen
    <2> QED
      BY <1>2, <2>1, <2>2, <2>3, <2>4 DEF ReceiverStep, EvictDropped
  <1>3. ASSUME NEW t \in Tasks, LoadStep(t)
        PROVE  /\ NoCallOpen'
               /\ UNCHANGED engineVars \/ AnyCall(t)
    <2>0. rpc' = rpc /\ \A u \in Tasks : u # t => tpc'[u] = tpc[u]
      BY <1>3, LoadEffects DEF LoadEffect
    <2>1. ASSUME /\ tpc'[t] \in {"loading", "dropping", "macro", "evictMacro"}
                 /\ cpc[t] \in {"idle", "returned"}
                 /\ \/ cpc[t] = "idle" /\ BeginCreate(t, carg[t])
                    \/ BeginDrop(t, carg[t]) \/ BeginMacro(t, carg[t])
          PROVE  NoCallOpen' /\ AnyCall(t)
      BY <1>t, <1>c, <2>0, <2>1 DEF NoCallOpen
    <2>2. ASSUME tpc'[t] \notin {"free", "queued"}, cpc[t] = "returned", UNCHANGED engineVars
          PROVE  NoCallOpen'
      BY <1>t, <1>u, <2>0, <2>2 DEF NoCallOpen
    <2>3. CASE Acquire(t)
      BY <1>t, <2>1, <2>3 DEF Acquire, TaskGoto, NoCallOpen
    <2>4. CASE EvictLoaded(t)
      BY <1>t, <2>1, <2>4 DEF EvictLoaded, TaskGoto
    <2>5. CASE RegisterDataset(t)
      <3>1. cpc[t] = "returned" /\ BeginMacro(t, carg[t]) /\ tpc'[t] = "macro"
        BY <1>t, <2>5 DEF RegisterDataset, TaskGoto, NoCallOpen
      <3> QED
        BY <2>1, <3>1
    <2>6. CASE LoadedDropped(t)
      <3>1. /\ cpc[t] = "returned"
            /\ \/ BeginMacro(t, carg[t]) /\ tpc'[t] = "evictMacro"
               \/ UNCHANGED engineVars /\ tpc'[t] = "notify"
        BY <1>t, <2>6 DEF LoadedDropped, TaskGoto
      <3> QED
        BY <2>1, <2>2, <3>1
    <2>7. CASE LoadFailed(t) \/ Loaded(t) \/ MacroFailed(t) \/ LoadedMacroWritten(t)
      BY <1>t, <2>2, <2>7 DEF LoadFailed, Loaded, MacroFailed, LoadedMacroWritten, TaskGoto
    <2>8. CASE Activate(t) \/ Report(t) \/ Finish(t)
      <3>1. cpc[t] = "returned"
        BY <2>8 DEF Activate, Report, Finish, NoCallOpen
      <3> QED
        BY <1>t, <2>2, <2>8, <3>1 DEF Activate, Report, Finish, TaskGoto
    <2> QED
      BY <1>3, <2>3, <2>4, <2>5, <2>6, <2>7, <2>8 DEF LoadStep
  <1>4. CASE CallWaitForDrain \/ DrainStep
    BY <1>u, <1>4 DEF NoCallOpen, CallWaitForDrain, DrainStep, CountLoading, WakeUp
  <1>5. CASE EngineStep
    <2>1. UNCHANGED <<tpc, rpc>>
      BY <1>5 DEF EngineStep, dispatchVars
    <2>2. ASSUME ActorStep PROVE NoCallOpen'
      <3>1. cpc' = cpc
        BY <2>2, ServedMoves DEF DispatcherTypeOK
      <3> QED
        BY <2>1, <3>1 DEF NoCallOpen
    <2>3. ASSUME NEW c \in Clients, ClientStep(c) PROVE NoCallOpen'
      <3>1. cpc[c] \notin {"idle", "returned"} /\ \A d \in Clients : d # c => cpc'[d] = cpc[d]
        <4>1. \A d \in Clients : d # c => cpc'[d] = cpc[d]
          BY <2>3, CallerMoves DEF DispatcherTypeOK
        <4> QED
          BY <2>3, <4>1 DEF ClientStep, SourceFails, FirstBatch, SendStart, SendIngest,
             NextBatch, StreamFails, StreamEnds, SendFinish, SendRequest, Receive,
             EngineClosed, CreateMacro, SendAt, AwaitAt
      <3> QED
        BY <1>t, <2>1, <3>1 DEF NoCallOpen
    <2> QED
      BY <1>5, <2>2, <2>3 DEF EngineStep
  <1> QED
    BY <1>1, <1>2, <1>3, <1>4, <1>5, <1>t, EngineSide DEF Next, CpCommand, RejectWhenDraining,
       IgnoreAssignment, RefuseAssignment, EvictRead, Drain, CallWaitForDrain, DrainStep,
       CountLoading, WakeUp

\* Under the dispatcher too, and for an undisciplined control plane, no load
\* task and no eviction waits for an answer the engine does not owe it.
THEOREM DispatchedRepliesAreOwed == Spec => []NoReplyIsLost
  <1>1. Init => NoCallOpen /\ ReplyInv
    <2> SUFFICES ASSUME Init PROVE NoCallOpen /\ ReplyInv
      OBVIOUS
    <2>1. EngineInit /\ (\A t \in Tasks : tpc[t] = "free")
      BY DEF Init
    <2>2. \A c \in Clients : cpc[c] = "idle"
      BY <2>1 DEF EngineInit
    <2>3. Tasks \subseteq Clients /\ Receiver \in Clients
      BY DispatcherAssumption
    <2> QED
      BY <2>1, <2>2, <2>3, ReplyInit DEF NoCallOpen
  <1>2. DispatcherTypeOK /\ NoCallOpen /\ ReplyInv /\ [Next]_vars => NoCallOpen' /\ ReplyInv'
    <2> SUFFICES ASSUME DispatcherTypeOK, NoCallOpen, ReplyInv, [Next]_vars
                 PROVE  NoCallOpen' /\ ReplyInv'
      OBVIOUS
    <2>t. TypeOK
      BY DEF DispatcherTypeOK
    <2>1. UNCHANGED engineVars => ReplyInv'
      BY ReplyKept
    <2>2. CASE UNCHANGED vars
      BY <2>1, <2>2 DEF vars, engineVars, dispatchVars, NoCallOpen
    <2>3. ASSUME NEW k \in Keys, NEW t \in Tasks, Assign(k, t) PROVE ReplyInv'
      <3>1. /\ UNCHANGED <<engineUp, com, in_progress, cpc, reply>>
            /\ cpc[t] = "idle" /\ t \in Clients
            /\ \A c \in Clients : c # t => carg'[c] = carg[c]
        BY <2>3, DispatcherAssumption DEF Assign, epochVars, NoCallOpen, DispatcherTypeOK, TypeOK
      <3>2. \A n \in DOMAIN com : com[n].from \in Clients
        BY <2>t, Queued
      <3>3. QueueInv'
        BY <3>1, <3>2 DEF ReplyInv, QueueInv, BeforeStart
      <3>4. EntryInv'
        BY <3>1 DEF ReplyInv, EntryInv, BeforeStart
      <3>5. EntryOwed'
        BY <3>1 DEF ReplyInv, EntryOwed, QueuedAt, Sending
      <3>6. ReplyOwed'
        BY <3>1 DEF ReplyInv, ReplyOwed, QueuedAt
      <3> QED
        BY <3>3, <3>4, <3>5, <3>6 DEF ReplyInv
    <2>4. CASE Next
      BY <2>t, <2>1, <2>3, <2>4, DispatchedCalls, ReplyCaller, ReplyActor DEF EngineStep
    <2> QED
      BY <2>2, <2>4
  <1>3. DispatcherTypeOK /\ ReplyInv => NoReplyIsLost
    BY ReplyAnswers DEF DispatcherTypeOK
  <1> QED
    BY <1>1, <1>2, <1>3, DispatcherTypeCorrect, PTL DEF Spec

=============================================================================
