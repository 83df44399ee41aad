------------------------- MODULE EpochEngine_proofs -------------------------
(***************************************************************************)
(* Proofs about EpochEngine, for any keys, clients, channel capacity,       *)
(* threshold, batch sizes and faults.                                       *)
(***************************************************************************)
EXTENDS EpochEngine, TLAPS

-----------------------------------------------------------------------------
(***************************************************************************)
(* Type correctness.                                                       *)
(***************************************************************************)

\* The actor takes a well-formed command, and leaves a well-formed queue.
LEMMA TakeType ==
  ASSUME TypeOK, NEW o, Take(o)
  PROVE  Head(com) \in Command /\ com' \in Seq(Command)
  BY DEF TypeOK, Take

\* A send leaves a well-formed queue.
LEMMA SendType ==
  ASSUME TypeOK, NEW c \in Clients, NEW o \in Ops, NEW n \in Nat, Send(c, o, n)
  PROVE  com' \in Seq(Command)
  <1>1. [op |-> o, key |-> carg[c], from |-> c, rows |-> n] \in Command
    BY DEF TypeOK, Command
  <1> QED
    BY <1>1 DEF TypeOK, Send

\* The first state is well-formed.
LEMMA TypeInit == EngineInit => TypeOK
  <1> SUFFICES ASSUME EngineInit PROVE TypeOK
    OBVIOUS
  <1>1. (CHOOSE k \in Keys : TRUE) \in Keys
    BY EngineAssumption
  <1>2. com \in Seq(Command)
    BY DEF EngineInit
  <1> QED
    BY <1>1, <1>2 DEF EngineInit, TypeOK, ClientAt, Replies

\* Entering an API procedure keeps the state well-formed.
LEMMA TypeBegin ==
  ASSUME TypeOK, NEW c \in Clients, NEW k \in Keys,
         BeginCreate(c, k) \/ BeginDrop(c, k) \/ BeginMacro(c, k)
  PROVE  TypeOK'
  <1>1. CASE BeginCreate(c, k)
    BY <1>1 DEF BeginCreate, Call, Goto, TypeOK, epochVars, CreateAt, ClientAt,
                Replies
  <1>2. CASE BeginDrop(c, k)
    BY <1>2 DEF BeginDrop, Call, Goto, TypeOK, epochVars, sourceVars, SendAt,
                ClientAt, Replies
  <1>3. CASE BeginMacro(c, k)
    BY <1>3 DEF BeginMacro, Call, Goto, TypeOK, epochVars, sourceVars, SendAt,
                ClientAt, Replies
  <1> QED
    BY <1>1, <1>2, <1>3

\* So does any call.
LEMMA TypeCall ==
  ASSUME TypeOK, NEW c \in Clients, AnyCall(c)
  PROVE  TypeOK'
  <1>1. CASE \E k \in Keys : BeginCreate(c, k) \/ BeginDrop(c, k) \/ BeginMacro(c, k)
    BY <1>1, TypeBegin
  <1>2. CASE BeginShutdown(c)
    BY <1>2 DEF BeginShutdown, Call, Goto, TypeOK, epochVars, sourceVars,
                SendAt, ClientAt, Replies
  <1> QED
    BY <1>1, <1>2 DEF AnyCall

\* So does every step of a procedure.
LEMMA TypeClient ==
  ASSUME TypeOK, NEW c \in Clients, ClientStep(c)
  PROVE  TypeOK'
  <1> USE DEF epochVars, sourceVars
  <1>1. CASE SourceFails(c)
    BY <1>1 DEF SourceFails, Return, Goto, TypeOK, ClientAt, Replies
  <1>2. CASE FirstBatch(c)
    <2>1. batch' \in [Clients -> Nat]
      BY <1>2, EngineAssumption DEF FirstBatch, TypeOK
    <2> QED
      BY <1>2, <2>1 DEF FirstBatch, Goto, TypeOK, ClientAt, SendAt
  <1>3. CASE SendStart(c)
    <2>1. com' \in Seq(Command)
      BY <1>3, SendType DEF SendStart, Ops
    <2> QED
      BY <1>3, <2>1 DEF SendStart, Goto, TypeOK, ClientAt, SendAt
  <1>4. CASE SendIngest(c)
    <2>1. com' \in Seq(Command)
      BY <1>4, SendType DEF SendIngest, Ops, TypeOK
    <2> QED
      <3>1. cpc' \in [Clients -> ClientAt]
        BY <1>4 DEF SendIngest, Goto, TypeOK, ClientAt, CreateAt
      <3>2. batch' \in [Clients -> Nat] /\ streamed' \in [Clients -> Nat]
        BY <1>4 DEF SendIngest, TypeOK
      <3> QED
        BY <1>4, <2>1, <3>1, <3>2 DEF SendIngest, TypeOK
  <1>5. CASE NextBatch(c)
    <2>1. batch' \in [Clients -> Nat]
      BY <1>5, EngineAssumption DEF NextBatch, TypeOK
    <2> QED
      BY <1>5, <2>1 DEF NextBatch, Goto, TypeOK, ClientAt, SendAt
  <1>6. CASE StreamFails(c)
    BY <1>6 DEF StreamFails, Return, Goto, TypeOK, ClientAt, Replies
  <1>7. CASE StreamEnds(c)
    BY <1>7 DEF StreamEnds, Goto, TypeOK, ClientAt, SendAt
  <1>8. CASE SendFinish(c)
    <2>1. com' \in Seq(Command)
      BY <1>8, SendType DEF SendFinish, Ops
    <2> QED
      BY <1>8, <2>1 DEF SendFinish, Goto, TypeOK, ClientAt, AwaitAt
  <1>9. CASE SendRequest(c)
    <2>1. com' \in Seq(Command)
      BY <1>9, SendType DEF SendRequest, Ops
    <2> QED
      BY <1>9, <2>1, Zenon DEF SendRequest, Goto, TypeOK, ClientAt, AwaitAt
  <1>10. CASE Receive(c)
    <2>1. cpc' \in [Clients -> ClientAt]
      BY <1>10 DEF Receive, Goto, TypeOK, ClientAt, SendAt, AwaitAt
    <2>2. reply' \in [Clients -> Replies]
      BY <1>10 DEF Receive, TypeOK, Replies
    <2> QED
      BY <1>10, <2>1, <2>2, Zenon DEF Receive, TypeOK
  <1>11. CASE EngineClosed(c)
    BY <1>11 DEF EngineClosed, Return, Goto, TypeOK, ClientAt, Replies
  <1>12. CASE CreateMacro(c)
    <2>1. macro' \in [Datasets -> SUBSET Keys]
      BY <1>12, EngineAssumption, Zenon DEF CreateMacro, TypeOK
    <2> QED
      BY <1>12, <2>1, Zenon DEF CreateMacro, Return, Goto, TypeOK, ClientAt, Replies
  <1> QED
    BY <1>1, <1>2, <1>3, <1>4, <1>5, <1>6, <1>7, <1>8, <1>9, <1>10, <1>11,
       <1>12 DEF ClientStep

\* So does every command the actor serves.
LEMMA TypeActor ==
  ASSUME TypeOK, ActorStep \/ OnShutdown
  PROVE  TypeOK'
  <1> USE DEF epochVars, sourceVars
  <1>1. CASE OnStartEpoch
    <2>1. Head(com) \in Command /\ com' \in Seq(Command)
      BY <1>1, TakeType DEF OnStartEpoch
    <2>2. Head(com).key \in Keys /\ Head(com).from \in Clients
      BY <2>1 DEF Command
    <2>3. tables' \subseteq Keys /\ schemas' \subseteq Datasets
      BY <1>1, <2>2, EngineAssumption DEF OnStartEpoch, TypeOK
    <2>5. in_progress' \in [Keys -> Clients \cup {NoClient}]
      BY <1>1, <2>2, Zenon DEF OnStartEpoch, TypeOK
    <2>4. reply' \in [Clients -> Replies]
      BY <1>1, <2>2, Zenon DEF OnStartEpoch, Done, TypeOK, Replies
    <2> QED
      BY <1>1, <2>1, <2>3, <2>4, <2>5 DEF OnStartEpoch, TypeOK
  <1>2. CASE OnIngestBatch
    <2>1. Head(com) \in Command /\ com' \in Seq(Command)
      BY <1>2, TakeType DEF OnIngestBatch
    <2>2. Head(com).key \in Keys /\ Head(com).rows \in Nat
      BY <2>1 DEF Command
    <2>3. pending_rows' \in [Keys -> Nat]
      BY <1>2, <2>2 DEF OnIngestBatch, Flushed, TypeOK
    <2>4. total_rows' \in [Keys -> Nat]
      <3>1. /\ total_rows \in [Keys -> Nat]
            /\ pending_rows \in [Keys -> Nat]
        BY DEF TypeOK
      <3>2. \/ total_rows' = total_rows
            \/ Flushed(Head(com).key, Head(com).rows)
        BY <1>2 DEF OnIngestBatch
      <3> QED
        BY <2>2, <3>1, <3>2 DEF Flushed
    <2>5. first_error' \in [Keys -> BOOLEAN]
      BY <1>2, <2>2, Zenon DEF OnIngestBatch, TypeOK
    <2> QED
      BY <1>2, <2>1, <2>3, <2>4, <2>5 DEF OnIngestBatch, TypeOK, clientVars
  <1>3. CASE OnFinishEpoch
    <2>1. Head(com) \in Command /\ com' \in Seq(Command)
      BY <1>3, TakeType DEF OnFinishEpoch
    <2> DEFINE k == Head(com).key
    <2>2. k \in Keys
      BY <2>1 DEF Command
    <2>3. InProgress(k) => in_progress[k] \in Clients
      BY <2>2 DEF InProgress, TypeOK
    <2>4. /\ in_progress' \in [Keys -> Clients \cup {NoClient}]
          /\ pending_rows' \in [Keys -> Nat]
          /\ total_rows' \in [Keys -> Nat]
          /\ first_error' \in [Keys -> BOOLEAN]
      <3>1. \/ RemoveEntry(k)
            \/ UNCHANGED <<in_progress, pending_rows, total_rows, first_error>>
        BY <1>3 DEF OnFinishEpoch
      <3>2. /\ in_progress \in [Keys -> Clients \cup {NoClient}]
            /\ pending_rows \in [Keys -> Nat]
            /\ total_rows \in [Keys -> Nat]
            /\ first_error \in [Keys -> BOOLEAN]
        BY DEF TypeOK
      <3>3. CASE RemoveEntry(k)
        BY <2>2, <3>2, <3>3 DEF RemoveEntry
      <3> QED
        BY <3>1, <3>2, <3>3
    <2>5. reply' \in [Clients -> Replies]
      BY <1>3, <2>2, <2>3, Zenon DEF OnFinishEpoch, Done, TypeOK, Replies
    <2>6. total_rows[k] + pending_rows[k] \in Nat
      BY <2>2 DEF TypeOK
    <2>7. committed' \subseteq Keys
      BY <1>3, <2>2 DEF OnFinishEpoch, TypeOK
    <2>8. meta_rows' \in [Keys -> Nat]
      BY <1>3, <2>2, <2>6 DEF OnFinishEpoch, TypeOK
    <2>9. done_rows' \in [Clients -> Nat]
      BY <1>3, <2>2, <2>3, <2>6, Zenon DEF OnFinishEpoch, TypeOK
    <2> QED
      BY <1>3, <2>1, <2>4, <2>5, <2>7, <2>8, <2>9, Zenon DEF OnFinishEpoch, TypeOK
  <1>4. CASE OnDropEpoch
    <2>1. Head(com) \in Command /\ com' \in Seq(Command)
      BY <1>4, TakeType DEF OnDropEpoch
    <2>2. Head(com).key \in Keys /\ Head(com).from \in Clients
      BY <2>1 DEF Command
    <2>3. tables' \subseteq Keys /\ committed' \subseteq Keys
      BY <1>4 DEF OnDropEpoch, TypeOK
    <2>4. meta_rows' \in [Keys -> Nat]
      <3>1. meta_rows \in [Keys -> Nat]
        BY DEF TypeOK
      <3> QED
        BY <1>4, <2>2, <3>1 DEF OnDropEpoch
    <2>5. reply' \in [Clients -> Replies]
      BY <1>4, <2>2, Zenon DEF OnDropEpoch, TypeOK, Replies
    <2> QED
      BY <1>4, <2>1, <2>3, <2>4, <2>5 DEF OnDropEpoch, TypeOK
  <1>5. CASE OnListEpochs
    <2>1. Head(com) \in Command /\ com' \in Seq(Command)
      BY <1>5, TakeType DEF OnListEpochs
    <2> QED
      BY <1>5, <2>1, Zenon DEF OnListEpochs, Command, TypeOK, Replies
  <1>6. CASE OnGetDatasetSchema
    <2>1. Head(com) \in Command /\ com' \in Seq(Command)
      BY <1>6, TakeType DEF OnGetDatasetSchema
    <2> QED
      BY <1>6, <2>1, Zenon DEF OnGetDatasetSchema, Command, TypeOK, Replies
  <1>7. CASE OnShutdown
    <2>1. com' \in Seq(Command)
      BY <1>7 DEF OnShutdown
    <2>2. reply' \in [Clients -> Replies]
      BY <1>7 DEF OnShutdown, TypeOK, Replies
    <2> QED
      BY <1>7, <2>1, <2>2, Zenon DEF OnShutdown, TypeOK
  <1> QED
    BY <1>1, <1>2, <1>3, <1>4, <1>5, <1>6, <1>7 DEF ActorStep

\* Every step of the engine keeps the types.
LEMMA TypeStep == TypeOK /\ [EngineNext]_engineVars => TypeOK'
  <1> SUFFICES ASSUME TypeOK, [EngineNext]_engineVars PROVE TypeOK'
    OBVIOUS
  <1>1. CASE UNCHANGED engineVars
    BY <1>1 DEF engineVars, TypeOK
  <1>2. CASE EngineNext
    BY <1>2, TypeCall, TypeClient, TypeActor DEF EngineNext
  <1> QED
    BY <1>1, <1>2

\* The engine's state keeps its types whatever its callers do.
THEOREM EngineTypeCorrect == EngineSpec => []TypeOK
  BY TypeInit, TypeStep, PTL DEF EngineSpec

-----------------------------------------------------------------------------
(***************************************************************************)
(* The epoch tables.  Only the actor writes the epoch maps, so an engine    *)
(* call or a step of one leaves them alone.                                 *)
(***************************************************************************)

EpochInv == EpochsHaveTables /\ CommittedNotEmpty

\* What callers do leaves the epochs, their tables and rows alone.
LEMMA CallsLeaveEpochs ==
  ASSUME NEW c \in Clients, AnyCall(c) \/ ClientStep(c)
  PROVE  UNCHANGED epochVars
  BY DEF AnyCall, BeginCreate, BeginDrop, BeginMacro, BeginShutdown, ClientStep,
         SourceFails, FirstBatch, SendStart, SendIngest, NextBatch, StreamFails,
         StreamEnds, SendFinish, SendRequest, Receive, EngineClosed, CreateMacro

\* The invariant speaks of nothing but the epochs.
LEMMA EpochInvUnchanged ==
  ASSUME EpochInv, UNCHANGED epochVars
  PROVE  EpochInv'
  BY DEF EpochInv, EpochsHaveTables, CommittedNotEmpty, InProgress, epochVars

\* Every command the actor serves preserves the invariant.
LEMMA EpochInvActor ==
  ASSUME TypeOK, EpochInv, ActorStep \/ OnShutdown
  PROVE  EpochInv'
  <1> USE DEF EpochInv, EpochsHaveTables, CommittedNotEmpty, InProgress
  <1>t. /\ in_progress \in [Keys -> Clients \cup {NoClient}]
        /\ meta_rows \in [Keys -> Nat]
        /\ total_rows \in [Keys -> Nat]
        /\ pending_rows \in [Keys -> Nat]
        /\ committed \subseteq Keys
    BY DEF TypeOK
  <1>1. CASE OnStartEpoch
    <2>1. Head(com).key \in Keys
      BY <1>1, TakeType DEF OnStartEpoch, Command
    <2> QED
      BY <1>1, <1>t, <2>1 DEF OnStartEpoch, AlreadyExists
  <1>2. CASE OnIngestBatch
    BY <1>2 DEF OnIngestBatch
  <1>3. CASE OnFinishEpoch
    <2> DEFINE k == Head(com).key
    <2>1. k \in Keys
      BY <1>3, TakeType DEF OnFinishEpoch, Command
    <2>2. CASE UNCHANGED <<in_progress, committed, meta_rows>>
      BY <1>3, <2>2 DEF OnFinishEpoch
    <2>3. CASE RemoveEntry(k) /\ UNCHANGED <<committed, meta_rows>>
      BY <1>3, <1>t, <2>1, <2>3 DEF OnFinishEpoch, RemoveEntry
    <2>4. CASE /\ RemoveEntry(k)
               /\ InProgress(k)
               /\ ~EmptyEpoch(k)
               /\ committed' = committed \cup {k}
               /\ meta_rows' = [meta_rows EXCEPT ![k] =
                                  total_rows[k] + pending_rows[k]]
      <3>1. total_rows[k] + pending_rows[k] > 0
        BY <1>t, <2>1, <2>4 DEF EmptyEpoch
      <3>2. CommittedNotEmpty'
        BY <1>t, <2>1, <2>4, <3>1
      <3>3. EpochsHaveTables'
        BY <1>3, <1>t, <2>1, <2>4 DEF OnFinishEpoch, RemoveEntry
      <3> QED
        BY <3>2, <3>3
    <2> QED
      BY <1>3, <2>2, <2>3, <2>4 DEF OnFinishEpoch
  <1>4. CASE OnDropEpoch
    <2>1. Head(com).key \in Keys
      BY <1>4, TakeType DEF OnDropEpoch, Command
    <2>2. CommittedNotEmpty'
      BY <1>4, <1>t, <2>1 DEF OnDropEpoch
    <2>3. EpochsHaveTables'
      BY <1>4, <2>1 DEF OnDropEpoch, CannotDrop
    <2> QED
      BY <2>2, <2>3
  <1>5. CASE OnListEpochs
    BY <1>5 DEF OnListEpochs, epochVars
  <1>6. CASE OnGetDatasetSchema
    BY <1>6 DEF OnGetDatasetSchema, epochVars
  <1>7. CASE OnShutdown
    BY <1>7 DEF OnShutdown
  <1> QED
    BY <1>1, <1>2, <1>3, <1>4, <1>5, <1>6, <1>7 DEF ActorStep

\* Whatever its callers do, the engine never both ingests and lists an epoch,
\* lists or ingests only epochs whose table exists, and lists no empty one.
THEOREM EpochsAreSound == EngineSpec => [](EpochsHaveTables /\ CommittedNotEmpty)
  <1>1. EngineInit => EpochInv
    BY DEF EngineInit, EpochInv, EpochsHaveTables, CommittedNotEmpty, InProgress
  <1>2. TypeOK /\ EpochInv /\ [EngineNext]_engineVars => EpochInv'
    <2> SUFFICES ASSUME TypeOK, EpochInv, [EngineNext]_engineVars
                 PROVE  EpochInv'
      OBVIOUS
    <2>1. CASE UNCHANGED engineVars
      BY <2>1, EpochInvUnchanged DEF engineVars, epochVars
    <2>2. CASE EngineNext
      BY <2>2, CallsLeaveEpochs, EpochInvUnchanged, EpochInvActor DEF EngineNext
    <2> QED
      BY <2>1, <2>2
  <1>3. EpochInv => EpochsHaveTables /\ CommittedNotEmpty
    BY DEF EpochInv
  <1> QED
    BY <1>1, <1>2, <1>3, EngineTypeCorrect, PTL DEF EngineSpec

-----------------------------------------------------------------------------
(***************************************************************************)
(* The engine implements EpochStore, under the mapping EpochState.          *)
(***************************************************************************)

\* An actor step is a step of the store, or leaves it alone.
LEMMA ActorRefines ==
  ASSUME TypeOK, EpochInv, ActorStep \/ OnShutdown
  PROVE  [Store!StoreNext]_(Store!storeVars)
  <1> USE DEF Store!storeVars, InProgress
  <1>t. /\ in_progress \in [Keys -> Clients \cup {NoClient}]
        /\ meta_rows \in [Keys -> Nat]
        /\ total_rows \in [Keys -> Nat]
        /\ pending_rows \in [Keys -> Nat]
        /\ committed \subseteq Keys
    BY DEF TypeOK
  <1>i. EpochsHaveTables
    BY DEF EpochInv
  <1> DEFINE k == Head(com).key
  <1>1. CASE OnStartEpoch
    <2>1. k \in Keys /\ Head(com).from \in Clients
      BY <1>1, TakeType DEF OnStartEpoch, Command
    <2>2. CASE UNCHANGED <<tables, in_progress>>
      BY <1>1, <2>2 DEF OnStartEpoch, EpochState
    <2>3. CASE /\ ~AlreadyExists(k)
               /\ ~NameTaken(k)
               /\ tables' = tables \cup {k}
               /\ in_progress' = [in_progress EXCEPT ![k] = Head(com).from]
      <3>1. committed' = committed /\ meta_rows' = meta_rows
        BY <1>1 DEF OnStartEpoch
      <3>2. Store!Load(k)
        BY <1>t, <2>1, <2>3, <3>1, EngineAssumption
           DEF Store!Load, EpochState, AlreadyExists, NameTaken
      <3> QED
        BY <2>1, <3>2 DEF Store!StoreNext
    <2> QED
      BY <1>1, <2>2, <2>3 DEF OnStartEpoch
  <1>2. CASE OnIngestBatch
    BY <1>2 DEF OnIngestBatch, EpochState
  <1>3. CASE OnFinishEpoch
    <2>1. k \in Keys
      BY <1>3, TakeType DEF OnFinishEpoch, Command
    <2>2. CASE UNCHANGED <<in_progress, committed, meta_rows>>
      BY <1>3, <2>2 DEF OnFinishEpoch, EpochState
    <2>3. CASE /\ InProgress(k)
               /\ RemoveEntry(k)
               /\ UNCHANGED <<committed, meta_rows>>
      <3>1. tables' = tables
        BY <1>3 DEF OnFinishEpoch
      <3>2. \A j \in Keys : EpochState(j)' = IF j \in {k} THEN "wreck" ELSE EpochState(j)
        BY <1>t, <1>i, <2>1, <2>3, <3>1 DEF EpochsHaveTables, EpochState, RemoveEntry
      <3>3. {k} \in SUBSET {j \in Keys : EpochState(j) = "loading"}
        BY <1>i, <2>1, <2>3 DEF EpochsHaveTables, EpochState
      <3>4. Store!Abort
        BY <2>3, <3>2, <3>3, Zenon DEF Store!Abort
      <3> QED
        BY <3>4 DEF Store!StoreNext
    <2>4. CASE /\ RemoveEntry(k)
               /\ InProgress(k)
               /\ ~EmptyEpoch(k)
               /\ committed' = committed \cup {k}
               /\ meta_rows' = [meta_rows EXCEPT ![k] =
                                  total_rows[k] + pending_rows[k]]
      <3>1. total_rows[k] + pending_rows[k] \in Nat \ {0}
        BY <1>t, <2>1, <2>4 DEF EmptyEpoch
      <3>2. tables' = tables
        BY <1>3 DEF OnFinishEpoch
      <3>3. meta_rows'[k] \in Nat \ {0} /\ meta_rows' = [meta_rows EXCEPT ![k] = meta_rows'[k]]
        BY <1>t, <2>1, <2>4, <3>1, Zenon
      <3>4. Store!Publish(k)
        BY <1>t, <1>i, <2>1, <2>4, <3>2, <3>3
           DEF Store!Publish, EpochsHaveTables, EpochState, RemoveEntry
      <3> QED
        BY <2>1, <3>4 DEF Store!StoreNext
    <2> QED
      BY <1>3, <2>2, <2>3, <2>4 DEF OnFinishEpoch
  <1>4. CASE OnDropEpoch
    <2>1. k \in Keys
      BY <1>4, TakeType DEF OnDropEpoch, Command
    <2>2. CASE UNCHANGED <<tables, committed, meta_rows>>
      BY <1>4, <2>2 DEF OnDropEpoch, EpochState
    <2>3. CASE /\ ~CannotDrop(k)
               /\ committed' = committed \ {k}
               /\ meta_rows' = [meta_rows EXCEPT ![k] = 0]
               /\ tables' \in {tables, tables \ {k}}
      <3>1. in_progress' = in_progress
        BY <1>4 DEF OnDropEpoch
      <3>2. CASE tables' = tables
        BY <1>i, <2>1, <2>3, <3>1, <3>2, Zenon
           DEF Store!Drop, Store!StoreNext, EpochsHaveTables, EpochState, CannotDrop
      <3>3. CASE tables' = tables \ {k}
        BY <1>i, <2>1, <2>3, <3>1, <3>3, Zenon
           DEF Store!Drop, Store!StoreNext, EpochsHaveTables, EpochState, CannotDrop
      <3> QED
        BY <2>3, <3>2, <3>3
    <2> QED
      BY <1>4, <2>2, <2>3 DEF OnDropEpoch
  <1>5. CASE OnListEpochs
    BY <1>5 DEF OnListEpochs, epochVars, EpochState
  <1>6. CASE OnGetDatasetSchema
    BY <1>6 DEF OnGetDatasetSchema, epochVars, EpochState
  <1>7. CASE OnShutdown
    <2> DEFINE loading == {j \in Keys : EpochState(j) = "loading"}
    <2>1. /\ in_progress' = [j \in Keys |-> NoClient]
          /\ tables' = tables /\ committed' = committed /\ meta_rows' = meta_rows
      BY <1>7 DEF OnShutdown
    <2>2. \A j \in Keys : EpochState(j)' = IF j \in loading THEN "wreck" ELSE EpochState(j)
      BY <1>i, <2>1 DEF EpochsHaveTables, EpochState
    <2>3. Store!Abort
      <3>1. loading \in SUBSET {j \in Keys : EpochState(j) = "loading"}
        OBVIOUS
      <3> QED
        BY <2>1, <2>2, <3>1, Zenon DEF Store!Abort
    <2> QED
      BY <2>3 DEF Store!StoreNext
  <1> QED
    BY <1>1, <1>2, <1>3, <1>4, <1>5, <1>6, <1>7 DEF ActorStep

\* The engine implements the abstract store, for any callers, capacity,
\* threshold and faults: what an epoch's users see changes only by a whole
\* load, a whole drop or a failure that leaves a wreck.
THEOREM EngineImplementsStore == EngineSpec => ImplementsStore
  <1>1. EngineInit => Store!StoreInit
    BY DEF EngineInit, Store!StoreInit, EpochState, InProgress
  <1>2. TypeOK /\ EpochInv /\ [EngineNext]_engineVars => [Store!StoreNext]_(Store!storeVars)
    <2> SUFFICES ASSUME TypeOK, EpochInv, [EngineNext]_engineVars
                 PROVE  [Store!StoreNext]_(Store!storeVars)
      OBVIOUS
    <2>1. CASE UNCHANGED epochVars
      BY <2>1 DEF epochVars, Store!storeVars, EpochState, InProgress
    <2>2. CASE EngineNext
      BY <2>1, <2>2, CallsLeaveEpochs, ActorRefines DEF EngineNext
    <2> QED
      BY <2>1, <2>2 DEF engineVars, epochVars
  <1>3. EpochsHaveTables /\ CommittedNotEmpty => EpochInv
    BY DEF EpochInv
  <1> QED
    BY <1>1, <1>2, <1>3, EngineTypeCorrect, EpochsAreSound, PTL
       DEF EngineSpec, ImplementsStore, Store!StoreSpec

-----------------------------------------------------------------------------
(***************************************************************************)
(* Replies.  A caller's create shares its key's entry, and its queue, with  *)
(* the commands of every other caller, so that NoReplyIsLost needs to know  *)
(* whose commands are queued and in which order.                            *)
(***************************************************************************)

BeforeStart == {"idle", "source", "start"}
Sending     == {"ingest", "stream", "finish"}

\* Whose commands are queued: a create's carry its key, and its FinishEpoch
\* comes after its StartEpoch.
QueueInv ==
  /\ \A n \in DOMAIN com : cpc[com[n].from] \notin BeforeStart
  /\ \A n \in DOMAIN com : cpc[com[n].from] \in CreateAt => com[n].key = carg[com[n].from]
  /\ \A n \in DOMAIN com : com[n].op = "FinishEpoch" => cpc[com[n].from] \notin Sending
  /\ \A m, n \in DOMAIN com :
       com[m].from = com[n].from /\ com[m].op = "StartEpoch" /\ com[n].op = "FinishEpoch"
         => m < n

\* Whose entries in_progress holds.
EntryInv ==
  \A k \in Keys, c \in Clients :
    in_progress[k] = c => cpc[c] \notin BeforeStart /\ (cpc[c] \in CreateAt => k = carg[c])

\* A create that has started, and has no answer, has its entry or will get it.
EntryOwed ==
  \A c \in Clients :
    engineUp /\ reply[c] = "none" /\ cpc[c] \in Sending \cup {"awaitDone"} =>
      in_progress[carg[c]] = c \/ \E n \in DOMAIN com : QueuedAt(n, c, {"StartEpoch"})

\* A caller that waits has the command that answers it in the queue.
ReplyOwed ==
  \A c \in Clients :
    engineUp /\ reply[c] = "none" /\ cpc[c] \in AwaitAt =>
      \E n \in DOMAIN com : QueuedAt(n, c, AnsweredBy(cpc[c]))

ReplyInv == QueueInv /\ EntryInv /\ EntryOwed /\ ReplyOwed

\* A command that is sent goes behind those in the queue.
LEMMA Sent ==
  ASSUME TypeOK, NEW cmd, cmd \in Command, com' = Append(com, cmd)
  PROVE  /\ \A m \in DOMAIN com : m \in DOMAIN com' /\ com'[m] = com[m] /\ m < Len(com) + 1
         /\ Len(com) + 1 \in DOMAIN com' /\ com'[Len(com) + 1] = cmd
         /\ \A m \in DOMAIN com' : m \in DOMAIN com \/ m = Len(com) + 1
  <1>1. com \in Seq(Command)
    BY DEF TypeOK
  <1> QED
    BY <1>1

\* The command that is taken is the first; the others move up.
LEMMA Taken ==
  ASSUME TypeOK, com # <<>>, com' = Tail(com)
  PROVE  /\ \A m \in DOMAIN com' : m + 1 \in DOMAIN com /\ com'[m] = com[m + 1]
         /\ \A m \in DOMAIN com : m # 1 => m - 1 \in DOMAIN com' /\ com'[m - 1] = com[m]
         /\ 1 \in DOMAIN com /\ com[1] = Head(com)
         /\ DOMAIN com \subseteq Nat /\ DOMAIN com' \subseteq Nat
  <1>1. com \in Seq(Command)
    BY DEF TypeOK
  <1> QED
    BY <1>1

\* Every queued command has a caller and a key.
LEMMA Queued ==
  ASSUME TypeOK, NEW n \in DOMAIN com
  PROVE  com[n] \in Command /\ com[n].from \in Clients /\ com[n].key \in Keys
  <1>1. com[n] \in Command
    BY DEF TypeOK
  <1> QED
    BY <1>1 DEF Command

\* A caller's step that sends nothing.
StepsOn(c) ==
  /\ com' = com
  /\ cpc'[c] \in BeforeStart => cpc[c] \in BeforeStart
  /\ cpc'[c] \in CreateAt =>
       \/ cpc'[c] \in BeforeStart /\ cpc[c] \in BeforeStart
       \/ cpc'[c] \in Sending /\ cpc[c] \in Sending /\ carg'[c] = carg[c] /\ reply'[c] = reply[c]
  /\ cpc'[c] \notin AwaitAt

\* A caller's step that sends the command o.
HandsIn(c, o, r) ==
  /\ com' = Append(com, [op |-> o, key |-> carg[c], from |-> c, rows |-> r])
  /\ carg'[c] = carg[c] /\ reply'[c] = reply[c]
  /\ \/ o = "StartEpoch" /\ cpc[c] = "start" /\ cpc'[c] = "ingest"
     \/ o = "IngestBatch" /\ cpc[c] = "ingest" /\ cpc'[c] = "stream"
     \/ o = "FinishEpoch" /\ cpc[c] = "finish" /\ cpc'[c] = "awaitDone"
     \/ /\ o \in {"DropEpoch", "ListEpoch", "GetDatasetSchema", "Shutdown"}
        /\ cpc[c] \notin BeforeStart /\ cpc'[c] \in AwaitAt \ {"awaitDone"}
        /\ o \in AnsweredBy(cpc'[c])

\* A caller's step walks or sends, and leaves the other callers alone.
LEMMA CallerMoves ==
  ASSUME TypeOK, NEW c \in Clients, AnyCall(c) \/ ClientStep(c)
  PROVE  /\ UNCHANGED <<engineUp, in_progress>>
         /\ \A d \in Clients \ {c} : cpc'[d] = cpc[d] /\ carg'[d] = carg[d] /\ reply'[d] = reply[d]
         /\ StepsOn(c) \/ \E o \in Ops, r \in Nat : HandsIn(c, o, r)
  <1>t. /\ cpc \in [Clients -> ClientAt] /\ carg \in [Clients -> Keys]
        /\ reply \in [Clients -> Replies] /\ batch \in [Clients -> Nat]
    BY DEF TypeOK
  <1> USE DEF Goto, Return, StepsOn, BeforeStart, Sending, CreateAt, AwaitAt, SendAt
  <1>1. CASE AnyCall(c)
    BY <1>t, <1>1 DEF AnyCall, BeginCreate, BeginDrop, BeginMacro, BeginShutdown, Call, epochVars
  <1>2. CASE SourceFails(c) \/ FirstBatch(c) \/ NextBatch(c) \/ StreamFails(c) \/ StreamEnds(c)
    BY <1>t, <1>2 DEF SourceFails, FirstBatch, NextBatch, StreamFails, StreamEnds, epochVars
  <1>3. CASE EngineClosed(c) \/ CreateMacro(c)
    BY <1>t, <1>3 DEF EngineClosed, CreateMacro, epochVars
  <1>4. CASE Receive(c)
    BY <1>t, <1>4 DEF Receive, epochVars
  <1>5. CASE SendStart(c)
    <2>1. HandsIn(c, "StartEpoch", 0)
      BY <1>t, <1>5 DEF SendStart, Send, HandsIn
    <2> QED
      BY <1>t, <1>5, <2>1 DEF SendStart, Ops, epochVars
  <1>6. CASE SendIngest(c)
    <2>1. HandsIn(c, "IngestBatch", batch[c])
      BY <1>t, <1>6 DEF SendIngest, Send, HandsIn
    <2> QED
      BY <1>t, <1>6, <2>1 DEF SendIngest, Ops, epochVars
  <1>7. CASE SendFinish(c)
    <2>1. HandsIn(c, "FinishEpoch", 0)
      BY <1>t, <1>7 DEF SendFinish, Send, HandsIn
    <2> QED
      BY <1>t, <1>7, <2>1 DEF SendFinish, Ops, epochVars
  <1>8. CASE SendRequest(c)
    <2>1. PICK o \in {"DropEpoch", "ListEpoch", "GetDatasetSchema", "Shutdown"} :
            /\ Send(c, o, 0)
            /\ cpc[c] \in {"drop", "list", "schema", "shutdown"}
            /\ cpc' = [cpc EXCEPT ![c] = CASE o \in {"DropEpoch", "Shutdown"} -> "awaitReply"
                                           [] o = "ListEpoch" -> "awaitList"
                                           [] o = "GetDatasetSchema" -> "awaitSchema"]
      BY <1>8 DEF SendRequest
    <2>2. UNCHANGED <<carg, reply>>
      BY <1>8 DEF SendRequest
    <2>3. HandsIn(c, o, 0)
      BY <1>t, <2>1, <2>2 DEF Send, HandsIn, AnsweredBy
    <2> QED
      BY <1>t, <1>8, <2>1, <2>2, <2>3 DEF SendRequest, Ops, epochVars
  <1> QED
    BY <1>1, <1>2, <1>3, <1>4, <1>5, <1>6, <1>7, <1>8 DEF ClientStep

\* What a caller does keeps the invariant.
LEMMA ReplyCaller ==
  ASSUME TypeOK, ReplyInv, NEW c \in Clients, AnyCall(c) \/ ClientStep(c)
  PROVE  ReplyInv'
  <1>m. /\ UNCHANGED <<engineUp, in_progress>>
        /\ \A d \in Clients \ {c} : cpc'[d] = cpc[d] /\ carg'[d] = carg[d] /\ reply'[d] = reply[d]
        /\ StepsOn(c) \/ \E o \in Ops, r \in Nat : HandsIn(c, o, r)
    BY CallerMoves
  <1>q. \A n \in DOMAIN com : com[n].from \in Clients
    BY Queued
  <1>1. CASE StepsOn(c)
    <2> USE DEF StepsOn
    <2>1. QueueInv'
      BY <1>m, <1>q, <1>1 DEF ReplyInv, QueueInv, BeforeStart, Sending, CreateAt
    <2>2. EntryInv'
      BY <1>m, <1>1 DEF ReplyInv, EntryInv, BeforeStart, Sending, CreateAt
    <2>3. EntryOwed'
      <3> SUFFICES ASSUME NEW d \in Clients, engineUp', reply'[d] = "none",
                          cpc'[d] \in Sending \cup {"awaitDone"}
                   PROVE  in_progress'[carg'[d]] = d \/ \E n \in DOMAIN com : QueuedAt(n, d, {"StartEpoch"})'
        BY <1>1 DEF EntryOwed
      <3>1. /\ cpc[d] \in Sending \cup {"awaitDone"}
            /\ carg'[d] = carg[d] /\ reply'[d] = reply[d]
        BY <1>m, <1>1 DEF Sending, CreateAt, AwaitAt, BeforeStart
      <3> QED
        BY <1>m, <1>1, <3>1 DEF ReplyInv, EntryOwed, QueuedAt
    <2>4. ReplyOwed'
      <3> SUFFICES ASSUME NEW d \in Clients, engineUp', reply'[d] = "none", cpc'[d] \in AwaitAt
                   PROVE  \E n \in DOMAIN com : QueuedAt(n, d, AnsweredBy(cpc[d]))' /\ cpc'[d] = cpc[d]
        BY <1>1 DEF ReplyOwed, QueuedAt
      <3>1. d # c
        BY <1>1
      <3> QED
        BY <1>m, <1>1, <3>1 DEF ReplyInv, ReplyOwed, QueuedAt
    <2> QED
      BY <2>1, <2>2, <2>3, <2>4 DEF ReplyInv
  <1>2. CASE \E o \in Ops, r \in Nat : HandsIn(c, o, r)
    <2>1. PICK o \in Ops, r \in Nat : HandsIn(c, o, r)
      BY <1>2
    <2> DEFINE cmd == [op |-> o, key |-> carg[c], from |-> c, rows |-> r]
               new == Len(com) + 1
    <2>2. cmd \in Command /\ cmd.op = o /\ cmd.from = c /\ cmd.key = carg[c]
      BY DEF Command, TypeOK
    <2>3. com' = Append(com, cmd) /\ carg'[c] = carg[c] /\ reply'[c] = reply[c]
      BY <2>1 DEF HandsIn
    <2> HIDE DEF cmd
    <2>4. /\ \A m \in DOMAIN com : m \in DOMAIN com' /\ com'[m] = com[m] /\ m < new
          /\ new \in DOMAIN com' /\ com'[new] = cmd
          /\ \A m \in DOMAIN com' : m \in DOMAIN com \/ m = new
      BY <2>2, <2>3, Sent
    <2> HIDE DEF new
    <2>5. /\ cpc'[c] \notin BeforeStart
          /\ cpc[c] \in BeforeStart => cpc[c] = "start" /\ o = "StartEpoch"
          /\ cpc'[c] \in CreateAt => cpc[c] \in CreateAt
          /\ o = "FinishEpoch" => cpc'[c] = "awaitDone"
          /\ cpc'[c] \in Sending => cpc[c] \in Sending \cup {"start"}
          /\ o = "StartEpoch" => cpc[c] = "start"
      BY <2>1 DEF HandsIn, BeforeStart, CreateAt, Sending, AwaitAt
    <2>6. QueueInv'
      <3>1. ASSUME NEW n \in DOMAIN com'
            PROVE  /\ cpc'[com'[n].from] \notin BeforeStart
                   /\ cpc'[com'[n].from] \in CreateAt => com'[n].key = carg'[com'[n].from]
                   /\ com'[n].op = "FinishEpoch" => cpc'[com'[n].from] \notin Sending
        <4>1. CASE n = new
          BY <2>2, <2>3, <2>4, <2>5, <4>1 DEF Sending
        <4>2. CASE n \in DOMAIN com
          <5>1. com'[n] = com[n] /\ com[n].from \in Clients
            BY <1>q, <2>4, <4>2
          <5>2. CASE com[n].from = c
            BY <2>3, <2>5, <4>2, <5>1, <5>2 DEF ReplyInv, QueueInv, BeforeStart, Sending
          <5>3. CASE com[n].from # c
            BY <1>m, <4>2, <5>1, <5>3 DEF ReplyInv, QueueInv
          <5> QED
            BY <5>2, <5>3
        <4> QED
          BY <2>4, <4>1, <4>2
      <3>2. ASSUME NEW m \in DOMAIN com', NEW n \in DOMAIN com', com'[m].from = com'[n].from,
                   com'[m].op = "StartEpoch", com'[n].op = "FinishEpoch"
            PROVE  m < n
        <4>1. CASE m \in DOMAIN com /\ n \in DOMAIN com
          BY <2>4, <3>2, <4>1 DEF ReplyInv, QueueInv
        <4>2. CASE m \in DOMAIN com /\ n = new
          BY <2>4, <4>2
        <4>3. CASE m = new /\ n \in DOMAIN com
          <5>1. com[n].from = c /\ cpc[c] = "start"
            BY <2>2, <2>4, <2>5, <3>2, <4>3
          <5> QED
            BY <4>3, <5>1 DEF ReplyInv, QueueInv, BeforeStart
        <4>4. ~(m = new /\ n = new)
          BY <3>2
        <4> QED
          BY <2>4, <4>1, <4>2, <4>3, <4>4
      <3> QED
        BY <3>1, <3>2 DEF QueueInv
    <2>7. EntryInv'
      BY <1>m, <2>3, <2>5 DEF ReplyInv, EntryInv
    <2>8. EntryOwed'
      <3> SUFFICES ASSUME NEW d \in Clients, engineUp', reply'[d] = "none",
                          cpc'[d] \in Sending \cup {"awaitDone"}
                   PROVE  in_progress'[carg'[d]] = d \/ \E n \in DOMAIN com' : QueuedAt(n, d, {"StartEpoch"})'
        BY DEF EntryOwed
      <3>1. carg'[d] = carg[d] /\ reply'[d] = reply[d]
        BY <1>m, <2>3
      <3>2. CASE cpc[d] \in Sending \cup {"awaitDone"}
        <4>1. in_progress[carg[d]] = d \/ \E n \in DOMAIN com : QueuedAt(n, d, {"StartEpoch"})
          BY <1>m, <3>1, <3>2 DEF ReplyInv, EntryOwed
        <4> QED
          BY <1>m, <2>4, <3>1, <4>1 DEF QueuedAt
      <3>3. CASE d = c /\ o = "StartEpoch"
        BY <2>2, <2>4, <3>3 DEF QueuedAt
      <3>4. d # c => cpc[d] \in Sending \cup {"awaitDone"}
        BY <1>m
      <3>5. d = c => o = "StartEpoch" \/ cpc[d] \in Sending \cup {"awaitDone"}
        BY <2>1 DEF HandsIn, Sending, AwaitAt
      <3> QED
        BY <3>2, <3>3, <3>4, <3>5
    <2>9. ReplyOwed'
      <3> SUFFICES ASSUME NEW d \in Clients, engineUp', reply'[d] = "none", cpc'[d] \in AwaitAt
                   PROVE  \E n \in DOMAIN com' : com'[n].from = d /\ com'[n].op \in AnsweredBy(cpc'[d])
        BY DEF ReplyOwed, QueuedAt
      <3>1. CASE d # c
        <4>1. cpc'[d] = cpc[d] /\ reply'[d] = reply[d]
          BY <1>m, <3>1
        <4>2. PICK n \in DOMAIN com : QueuedAt(n, d, AnsweredBy(cpc[d]))
          BY <1>m, <4>1 DEF ReplyInv, ReplyOwed
        <4> QED
          BY <2>4, <4>1, <4>2 DEF QueuedAt
      <3>2. CASE d = c
        <4>1. o \in AnsweredBy(cpc'[c])
          BY <2>1, <3>2 DEF HandsIn, AwaitAt, AnsweredBy
        <4> QED
          BY <2>2, <2>4, <3>2, <4>1
      <3> QED
        BY <3>1, <3>2
    <2> QED
      BY <2>6, <2>7, <2>8, <2>9 DEF ReplyInv
  <1> QED
    BY <1>m, <1>1, <1>2

\* What serving a command does to replies and entries.
LEMMA ServedMoves ==
  ASSUME TypeOK, ActorStep
  PROVE  /\ UNCHANGED <<engineUp, cpc, carg>>
         /\ com # <<>> /\ com' = Tail(com) /\ Head(com) \in Command
         /\ Head(com).op # "Shutdown"
         /\ \A d \in Clients : reply'[d] = "none" => reply[d] = "none"
         /\ Head(com).op \in {"DropEpoch", "ListEpoch", "GetDatasetSchema"} =>
              reply'[Head(com).from] # "none"
         /\ \/ in_progress' = in_progress /\ Head(com).op # "StartEpoch" /\ Head(com).op # "FinishEpoch"
            \/ /\ Head(com).op = "StartEpoch"
               /\ \/ /\ in_progress' = in_progress
                     /\ cpc[Head(com).from] \in CreateAt => reply'[Head(com).from] # "none"
                  \/ /\ in_progress[Head(com).key] = NoClient
                     /\ in_progress' = [in_progress EXCEPT ![Head(com).key] = Head(com).from]
            \/ /\ Head(com).op = "FinishEpoch"
               /\ \/ in_progress' = in_progress /\ in_progress[Head(com).key] = NoClient
                  \/ /\ in_progress[Head(com).key] \in Clients
                     /\ in_progress' = [in_progress EXCEPT ![Head(com).key] = NoClient]
                     /\ cpc[in_progress[Head(com).key]] \in CreateAt =>
                          reply'[in_progress[Head(com).key]] # "none"
  <1>t. reply \in [Clients -> Replies] /\ in_progress \in [Keys -> Clients \cup {NoClient}]
    BY DEF TypeOK
  <1>0. /\ UNCHANGED <<engineUp, cpc, carg>> /\ com # <<>> /\ com' = Tail(com)
        /\ Head(com).op \in Ops \ {"Shutdown"}
    BY DEF ActorStep, OnStartEpoch, OnIngestBatch, OnFinishEpoch, OnDropEpoch, OnListEpochs,
           OnGetDatasetSchema, Take, Ops, clientVars
  <1>h. Head(com) \in Command /\ Head(com).from \in Clients /\ Head(com).key \in Keys
    BY <1>0, Taken, Queued
  <1>1. CASE OnStartEpoch
    <2>1. Head(com).op = "StartEpoch"
      BY <1>1 DEF OnStartEpoch, Take
    <2>2. CASE Done(Head(com).from, "err") /\ in_progress' = in_progress
      BY <1>t, <1>0, <1>h, <2>1, <2>2 DEF Done
    <2>3. CASE /\ ~AlreadyExists(Head(com).key) /\ UNCHANGED reply
               /\ in_progress' = [in_progress EXCEPT ![Head(com).key] = Head(com).from]
      BY <1>t, <1>0, <1>h, <2>1, <2>3 DEF AlreadyExists, InProgress
    <2> QED
      BY <1>1, <2>2, <2>3 DEF OnStartEpoch
  <1>2. CASE OnIngestBatch
    BY <1>0, <1>h, <1>2 DEF OnIngestBatch, Take, clientVars
  <1>3. CASE OnFinishEpoch
    <2>1. Head(com).op = "FinishEpoch"
      BY <1>3 DEF OnFinishEpoch, Take
    <2> DEFINE k == Head(com).key
    <2>2. CASE ~InProgress(k) /\ UNCHANGED <<in_progress, reply>>
      BY <1>t, <1>0, <1>h, <2>1, <2>2 DEF InProgress
    <2>3. CASE InProgress(k) /\ RemoveEntry(k) /\ \E r \in {"ok", "err"} : Done(in_progress[k], r)
      <3>1. in_progress[k] \in Clients
        BY <1>t, <1>h, <2>3 DEF InProgress
      <3>2. in_progress' = [in_progress EXCEPT ![k] = NoClient]
        BY <2>3 DEF RemoveEntry
      <3>3. PICK r \in {"ok", "err"} : Done(in_progress[k], r)
        BY <2>3
      <3>4. /\ \A d \in Clients : reply'[d] = "none" => reply[d] = "none"
            /\ cpc[in_progress[k]] \in CreateAt => reply'[in_progress[k]] # "none"
        BY <1>t, <3>1, <3>3 DEF Done
      <3> QED
        BY <1>0, <1>h, <2>1, <3>1, <3>2, <3>4
    <2> QED
      BY <1>3, <2>2, <2>3, Zenon DEF OnFinishEpoch
  <1>4. CASE OnDropEpoch
    <2>1. \E r \in {"ok", "err"} : reply' = [reply EXCEPT ![Head(com).from] = r]
      BY <1>4, Zenon DEF OnDropEpoch
    <2> QED
      BY <1>t, <1>0, <1>h, <1>4, <2>1 DEF OnDropEpoch, Take
  <1>5. CASE OnListEpochs
    BY <1>t, <1>0, <1>h, <1>5 DEF OnListEpochs, Take, epochVars
  <1>6. CASE OnGetDatasetSchema
    BY <1>t, <1>0, <1>h, <1>6 DEF OnGetDatasetSchema, Take, epochVars
  <1> QED
    BY <1>1, <1>2, <1>3, <1>4, <1>5, <1>6 DEF ActorStep

\* Serving a command keeps the invariant.
LEMMA ReplyActor ==
  ASSUME TypeOK, ReplyInv, ActorStep
  PROVE  ReplyInv'
  <1> DEFINE cmd == Head(com)
             k == Head(com).key
             c == Head(com).from
  <1>t. in_progress \in [Keys -> Clients \cup {NoClient}] /\ carg \in [Clients -> Keys]
    BY DEF TypeOK
  <1>0. /\ UNCHANGED <<engineUp, cpc, carg>> /\ com # <<>> /\ com' = Tail(com)
        /\ cmd.op # "Shutdown" /\ c \in Clients /\ k \in Keys
        /\ \A d \in Clients : reply'[d] = "none" => reply[d] = "none"
    BY ServedMoves DEF Command
  <1>s. /\ \A m \in DOMAIN com' : m + 1 \in DOMAIN com /\ com'[m] = com[m + 1]
        /\ \A m \in DOMAIN com : m # 1 => m - 1 \in DOMAIN com' /\ com'[m - 1] = com[m]
        /\ 1 \in DOMAIN com /\ com[1] = cmd
        /\ DOMAIN com \subseteq Nat /\ DOMAIN com' \subseteq Nat
    BY <1>0, Taken
  <1>w. ASSUME NEW d \in Clients, NEW ops, NEW n \in DOMAIN com, QueuedAt(n, d, ops),
               ~(cmd.from = d /\ cmd.op \in ops)
        PROVE  \E m \in DOMAIN com' : com'[m].from = d /\ com'[m].op \in ops
    <2>1. n # 1
      BY <1>s, <1>w DEF QueuedAt
    <2> QED
      BY <1>s, <1>w, <2>1 DEF QueuedAt
  <1>e. \/ in_progress' = in_progress
        \/ in_progress' = [in_progress EXCEPT ![k] = c]
        \/ in_progress' = [in_progress EXCEPT ![k] = NoClient]
    BY ServedMoves
  <1>1. QueueInv'
    <2>1. ASSUME NEW n \in DOMAIN com'
          PROVE  /\ cpc'[com'[n].from] \notin BeforeStart
                 /\ cpc'[com'[n].from] \in CreateAt => com'[n].key = carg'[com'[n].from]
                 /\ com'[n].op = "FinishEpoch" => cpc'[com'[n].from] \notin Sending
      BY <1>0, <1>s DEF ReplyInv, QueueInv
    <2>2. ASSUME NEW m \in DOMAIN com', NEW n \in DOMAIN com', com'[m].from = com'[n].from,
                 com'[m].op = "StartEpoch", com'[n].op = "FinishEpoch"
          PROVE  m < n
      <3>1. m + 1 \in DOMAIN com /\ n + 1 \in DOMAIN com /\ m \in Nat /\ n \in Nat
        BY <1>s
      <3>2. m + 1 < n + 1
        BY <1>s, <2>2, <3>1 DEF ReplyInv, QueueInv
      <3> QED
        BY <3>1, <3>2
    <2> QED
      BY <2>1, <2>2 DEF QueueInv
  <1>2. EntryInv'
    <2> SUFFICES ASSUME NEW j \in Keys, NEW d \in Clients, in_progress'[j] = d
                 PROVE  cpc[d] \notin BeforeStart /\ (cpc[d] \in CreateAt => j = carg[d])
      BY <1>0 DEF EntryInv
    <2>1. CASE in_progress[j] = d
      BY <2>1 DEF ReplyInv, EntryInv
    <2>2. CASE in_progress[j] # d
      <3>1. j = k /\ d = c
        BY <1>t, <1>e, <2>2, EngineAssumption
      <3> QED
        BY <1>s, <3>1 DEF ReplyInv, QueueInv
    <2> QED
      BY <2>1, <2>2
  <1>3. EntryOwed'
    <2> SUFFICES ASSUME NEW d \in Clients, engineUp, reply'[d] = "none",
                        cpc[d] \in Sending \cup {"awaitDone"}
                 PROVE  \/ in_progress'[carg[d]] = d
                        \/ \E n \in DOMAIN com' : com'[n].from = d /\ com'[n].op \in {"StartEpoch"}
      BY <1>0 DEF EntryOwed, QueuedAt
    <2>1. reply[d] = "none" /\ cpc[d] \in CreateAt /\ carg[d] \in Keys
      BY <1>t, <1>0 DEF Sending, CreateAt
    <2>2. CASE in_progress[carg[d]] = d
      <3>1. CASE in_progress' = in_progress
        BY <2>2, <3>1
      <3>2. CASE in_progress[k] = NoClient /\ in_progress' = [in_progress EXCEPT ![k] = c]
        <4>1. carg[d] # k
          BY <2>2, <3>2, EngineAssumption
        <4> QED
          BY <1>t, <2>1, <2>2, <3>2, <4>1
      <3>3. CASE /\ in_progress' = [in_progress EXCEPT ![k] = NoClient]
                 /\ cpc[in_progress[k]] \in CreateAt => reply'[in_progress[k]] # "none"
        <4>1. carg[d] # k
          BY <2>1, <2>2, <3>3
        <4> QED
          BY <1>t, <2>1, <2>2, <3>3, <4>1
      <3> QED
        BY <3>1, <3>2, <3>3, ServedMoves
    <2>3. CASE in_progress[carg[d]] # d
      <3>1. PICK n \in DOMAIN com : QueuedAt(n, d, {"StartEpoch"})
        BY <2>1, <2>3 DEF ReplyInv, EntryOwed
      <3>2. CASE ~(c = d /\ cmd.op = "StartEpoch")
        BY <1>w, <3>1, <3>2
      <3>3. CASE c = d /\ cmd.op = "StartEpoch"
        <4>1. k = carg[d]
          BY <1>s, <2>1, <3>3 DEF ReplyInv, QueueInv
        <4>2. in_progress' = [in_progress EXCEPT ![k] = c]
          BY <2>1, <3>3, ServedMoves
        <4> QED
          BY <1>t, <1>0, <3>3, <4>1, <4>2
      <3> QED
        BY <3>2, <3>3
    <2> QED
      BY <2>2, <2>3
  <1>4. ReplyOwed'
    <2> SUFFICES ASSUME NEW d \in Clients, engineUp, reply'[d] = "none", cpc[d] \in AwaitAt
                 PROVE  \E n \in DOMAIN com' : com'[n].from = d /\ com'[n].op \in AnsweredBy(cpc[d])
      BY <1>0 DEF ReplyOwed, QueuedAt
    <2>1. reply[d] = "none"
      BY <1>0
    <2>2. PICK n \in DOMAIN com : QueuedAt(n, d, AnsweredBy(cpc[d]))
      BY <2>1 DEF ReplyInv, ReplyOwed
    <2>3. ~(c = d /\ cmd.op \in AnsweredBy(cpc[d]))
      <3> SUFFICES ASSUME c = d, cmd.op \in AnsweredBy(cpc[d]) PROVE FALSE
        OBVIOUS
      <3>1. CASE cpc[d] # "awaitDone"
        <4>1. cmd.op \in {"DropEpoch", "ListEpoch", "GetDatasetSchema"}
          BY <1>0, <3>1 DEF AwaitAt, AnsweredBy
        <4> QED
          BY <4>1, ServedMoves
      <3>2. CASE cpc[d] = "awaitDone"
        <4>1. cmd.op = "FinishEpoch" /\ cpc[d] \in CreateAt
          BY <3>2 DEF AnsweredBy, CreateAt
        <4>2. k = carg[d]
          BY <1>s, <4>1 DEF ReplyInv, QueueInv
        <4>3. in_progress[carg[d]] = d
          <5>1. ASSUME NEW m \in DOMAIN com, QueuedAt(m, d, {"StartEpoch"}) PROVE FALSE
            <6>1. m < 1
              BY <1>s, <4>1, <5>1 DEF ReplyInv, QueueInv, QueuedAt
            <6>2. com \in Seq(Command)
              BY DEF TypeOK
            <6> QED
              BY <6>1, <6>2
          <5> QED
            BY <2>1, <3>2, <5>1 DEF ReplyInv, EntryOwed
        <4> QED
          BY <4>1, <4>2, <4>3, ServedMoves, EngineAssumption
      <3> QED
        BY <3>1, <3>2
    <2> QED
      BY <1>w, <2>2, <2>3
  <1> QED
    BY <1>1, <1>2, <1>3, <1>4 DEF ReplyInv

\* Once the actor has stopped nobody is owed a reply, and no entry is left.
LEMMA ReplyShutdown ==
  ASSUME TypeOK, ReplyInv, OnShutdown
  PROVE  ReplyInv'
  <1>1. /\ com' = <<>> /\ engineUp' = FALSE /\ in_progress' = [k \in Keys |-> NoClient]
    BY DEF OnShutdown
  <1>2. EntryInv'
    BY <1>1, EngineAssumption DEF EntryInv
  <1>3. DOMAIN com' = {} /\ ~engineUp'
    BY <1>1
  <1>4. QueueInv'
    BY <1>3, Zenon DEF QueueInv
  <1>5. EntryOwed' /\ ReplyOwed'
    BY <1>3, Zenon DEF EntryOwed, ReplyOwed
  <1> QED
    BY <1>2, <1>4, <1>5 DEF ReplyInv

\* The invariant leaves every wait its answer.
LEMMA ReplyAnswers ==
  ASSUME TypeOK, ReplyInv
  PROVE  NoReplyIsLost
  <1> SUFFICES ASSUME NEW c \in Clients, engineUp, cpc[c] \in AwaitAt, reply[c] = "none"
               PROVE  \E n \in DOMAIN com :
                        /\ QueuedAt(n, c, AnsweredBy(cpc[c]))
                        /\ cpc[c] = "awaitDone" =>
                             \/ in_progress[com[n].key] = c
                             \/ \E m \in 1 .. n - 1 :
                                  QueuedAt(m, c, {"StartEpoch"}) /\ com[m].key = com[n].key
    BY DEF NoReplyIsLost
  <1>1. PICK n \in DOMAIN com : QueuedAt(n, c, AnsweredBy(cpc[c]))
    BY DEF ReplyInv, ReplyOwed
  <1>2. ASSUME cpc[c] = "awaitDone"
        PROVE  \/ in_progress[com[n].key] = c
               \/ \E m \in 1 .. n - 1 :
                    QueuedAt(m, c, {"StartEpoch"}) /\ com[m].key = com[n].key
    <2>1. cpc[c] \in CreateAt /\ com[n].from = c /\ com[n].op = "FinishEpoch"
      BY <1>1, <1>2 DEF CreateAt, QueuedAt, AnsweredBy
    <2>2. com[n].key = carg[c]
      BY <2>1 DEF ReplyInv, QueueInv
    <2>3. ASSUME NEW m \in DOMAIN com, QueuedAt(m, c, {"StartEpoch"})
          PROVE  m \in 1 .. n - 1 /\ com[m].key = com[n].key
      <3>1. com[m].from = c /\ com[m].op = "StartEpoch"
        BY <2>3 DEF QueuedAt
      <3>2. m < n /\ com[m].key = carg[c]
        BY <2>1, <3>1 DEF ReplyInv, QueueInv
      <3>3. com \in Seq(Command)
        BY DEF TypeOK
      <3> QED
        BY <2>2, <3>2, <3>3
    <2> QED
      BY <1>2, <2>2, <2>3 DEF ReplyInv, EntryOwed
  <1> QED
    BY <1>1, <1>2

\* At the start nobody has called.
LEMMA ReplyInit == EngineInit => ReplyInv
  <1> SUFFICES ASSUME EngineInit PROVE ReplyInv
    OBVIOUS
  <1>1. DOMAIN com = {}
    BY DEF EngineInit
  <1>2. \A c \in Clients : cpc[c] = "idle"
    BY DEF EngineInit
  <1>3. \A k \in Keys : in_progress[k] = NoClient
    BY DEF EngineInit
  <1>4. QueueInv
    BY <1>1 DEF QueueInv
  <1>5. EntryInv
    BY <1>3, EngineAssumption DEF EntryInv
  <1>6. EntryOwed
    BY <1>2 DEF EntryOwed, Sending
  <1>7. ReplyOwed
    BY <1>2 DEF ReplyOwed, AwaitAt
  <1> QED
    BY <1>4, <1>5, <1>6, <1>7 DEF ReplyInv

\* ReplyInv is about the engine's variables only.
LEMMA ReplyKept == ReplyInv /\ UNCHANGED engineVars => ReplyInv'
  <1> SUFFICES ASSUME ReplyInv, UNCHANGED engineVars PROVE ReplyInv'
    OBVIOUS
  <1>0. UNCHANGED <<engineUp, com, in_progress, cpc, carg, reply>>
    BY DEF engineVars
  <1>1. QueueInv'
    BY <1>0 DEF ReplyInv, QueueInv
  <1>2. EntryInv'
    BY <1>0 DEF ReplyInv, EntryInv
  <1>3. EntryOwed'
    BY <1>0 DEF ReplyInv, EntryOwed, QueuedAt
  <1>4. ReplyOwed'
    BY <1>0 DEF ReplyInv, ReplyOwed, QueuedAt
  <1> QED
    BY <1>1, <1>2, <1>3, <1>4 DEF ReplyInv

\* No engine call waits for a reply that nobody owes it, for any callers, keys,
\* channel capacity and faults: the safety half of EveryCallReturns.
THEOREM RepliesAreOwed == EngineSpec => []NoReplyIsLost
  <1>1. EngineInit => ReplyInv
    BY ReplyInit
  <1>2. TypeOK /\ ReplyInv /\ [EngineNext]_engineVars => ReplyInv'
    <2> SUFFICES ASSUME TypeOK, ReplyInv, [EngineNext]_engineVars PROVE ReplyInv'
      OBVIOUS
    <2>1. CASE UNCHANGED engineVars
      BY <2>1, ReplyKept
    <2>2. CASE EngineNext
      BY <2>2, ReplyCaller, ReplyActor, ReplyShutdown DEF EngineNext
    <2> QED
      BY <2>1, <2>2
  <1>3. TypeOK /\ ReplyInv => NoReplyIsLost
    BY ReplyAnswers
  <1> QED
    BY <1>1, <1>2, <1>3, EngineTypeCorrect, PTL DEF EngineSpec

=============================================================================
