-------------------------- MODULE EpochLoads_proofs --------------------------
(***************************************************************************)
(* Proofs about the rows of the loads EpochDispatcher runs, for any keys,    *)
(* load tasks, permits, channel capacity, threshold and batch sizes.  They   *)
(* rest on the invariants of EpochDispatcher_proofs.                         *)
(***************************************************************************)
EXTENDS EpochDispatcher_proofs

-----------------------------------------------------------------------------
(***************************************************************************)
(* The inductive invariant.                                                *)
(***************************************************************************)

\* The commands of one load are queued in the order they are sent: nothing
\* before its StartEpoch, and an entry belongs to a load whose StartEpoch has
\* been served.
LoadsAreInOrder ==
  /\ \A t \in Tasks :
       cpc[t] \in {"idle", "source", "start"} => \A i \in DOMAIN com : com[i].from # t
  /\ \A i, j \in DOMAIN com :
       com[i].op = "StartEpoch" /\ com[j].from = com[i].from => i <= j
  /\ \A i \in DOMAIN com : com[i].op = "StartEpoch" => com[i].rows = 0
  /\ \A i \in DOMAIN com : com[i].op = "FinishEpoch" =>
       cpc[com[i].from] \notin CreateAt \ {"awaitDone"}
  /\ \A k \in Keys : InProgress(k) =>
       /\ cpc[in_progress[k]] \notin {"idle", "source", "start"}
       /\ \A i \in DOMAIN com : com[i].op = "StartEpoch" => com[i].from # in_progress[k]

\* While a load runs, what earlier loads of its epoch left in the queue is
\* before its StartEpoch: the entry it opens sees no other load's commands.
EarlierLoadsComeFirst ==
  \A t \in Tasks : cpc[t] \in CreateAt =>
    \A i \in DOMAIN com :
      com[i].op \in LoadOps /\ com[i].key = carg[t] /\ com[i].from # t =>
        /\ in_progress[carg[t]] # t
        /\ \A j \in DOMAIN com :
             com[j].op = "StartEpoch" /\ com[j].from = t => i < j

\* f[i] is how many rows of task t's stream the engine has been given when the
\* first i - 1 queued commands are served.
Given(t, f) ==
  /\ f \in [1..(Len(com) + 1) -> Nat]
  /\ f[Len(com) + 1] = streamed[t]
  /\ \A i \in DOMAIN com :
       f[i + 1] = IF com[i].from = t THEN f[i] + com[i].rows ELSE f[i]
  /\ cpc[t] \in {"source", "start"} => f[1] = 0
  /\ \A i \in DOMAIN com : com[i].op = "StartEpoch" /\ com[i].from = t => f[1] = 0
  /\ \A i \in DOMAIN com : com[i].op = "FinishEpoch" /\ com[i].from = t => f[i] = streamed[t]
  /\ in_progress[carg[t]] = t /\ ~first_error[carg[t]] =>
       f[1] = total_rows[carg[t]] + pending_rows[carg[t]]

\* No row of a running load is lost or counted twice between its stream and the
\* entry it loads into.
RowsAreGiven ==
  /\ \A t \in Tasks : cpc[t] \in CreateAt =>
       \E f \in [1..(Len(com) + 1) -> Nat] : Given(t, f)
  /\ \A k \in Keys : ~InProgress(k) =>
       total_rows[k] = 0 /\ pending_rows[k] = 0 /\ ~first_error[k]
  /\ \A c \in Clients : done_rows[c] # 0 => cpc[c] \notin CreateAt \ {"awaitDone"}
  /\ RowsAreTheLoads

RowInv == LoadsAreInOrder /\ EarlierLoadsComeFirst /\ RowsAreGiven

-----------------------------------------------------------------------------
(***************************************************************************)
(* The rows of a load.                                                     *)
(***************************************************************************)

Early == CreateAt \ {"awaitDone"}

\* A step of caller c that sends nothing.
Silent(c) ==
  /\ com' = com /\ streamed' = streamed
  /\ cpc'[c] \notin {"idle", "source"}
  /\ cpc'[c] \in CreateAt => cpc[c] \in CreateAt
  /\ cpc'[c] \in Early => cpc[c] \in Early
  /\ cpc'[c] = "start" => cpc[c] = "source"

\* A step of caller c that sends command o with n rows.
Sends(c, o, n) ==
  /\ com' = Append(com, Msg(c, o, n))
  /\ streamed'[c] = streamed[c] + n
  /\ cpc'[c] \notin {"idle", "source", "start"}
  /\ cpc'[c] \in CreateAt => cpc[c] \in Early
  /\ o \in LoadOps => cpc[c] \in Early
  /\ o = "StartEpoch" => n = 0 /\ cpc[c] = "start"
  /\ o = "FinishEpoch" => n = 0 /\ cpc'[c] = "awaitDone"
  /\ n # 0 => cpc[c] = "ingest"

\* A step of a caller sends one command at most, and no other caller sees it.
LEMMA RowMoves ==
  ASSUME DispatcherTypeOK, ClientsAt, NEW c \in Clients, ClientStep(c)
  PROVE  /\ UNCHANGED <<in_progress, total_rows, pending_rows, first_error, carg, done_rows>>
         /\ \A d \in Clients : d # c => cpc'[d] = cpc[d] /\ streamed'[d] = streamed[d]
         /\ Silent(c) \/ \E o \in Ops, n \in Nat : Sends(c, o, n)
  <1>t. /\ cpc \in [Clients -> ClientAt] /\ streamed \in [Clients -> Nat]
        /\ batch \in [Clients -> Nat] /\ reply \in [Clients -> Replies]
        /\ batch[c] \in Nat
    BY DEF DispatcherTypeOK, TypeOK
  <1>k. cpc[c] # "shutdown" /\ engineUp
    BY ClientKinds DEF ClientsAt
  <1>0. streamed[c] = streamed[c] + 0
    BY <1>t
  <1> USE DEF Silent, Sends, Goto, Return, CreateAt, Early, sourceVars, epochVars
  <1>1. CASE SourceFails(c) \/ FirstBatch(c)
    BY <1>t, <1>1 DEF SourceFails, FirstBatch
  <1>2. CASE NextBatch(c) \/ StreamFails(c) \/ StreamEnds(c)
    BY <1>t, <1>2 DEF NextBatch, StreamFails, StreamEnds
  <1>3. CASE SendStart(c)
    <2>1. Sends(c, "StartEpoch", 0)
      BY <1>t, <1>0, <1>3 DEF SendStart, Send, Msg, LoadOps
    <2> QED
      BY <1>t, <1>3, <2>1 DEF SendStart, Ops
  <1>4. CASE SendIngest(c)
    <2>1. Sends(c, "IngestBatch", batch[c])
      BY <1>t, <1>4 DEF SendIngest, Send, Msg, LoadOps
    <2> QED
      BY <1>t, <1>4, <2>1 DEF SendIngest, Ops
  <1>5. CASE SendFinish(c)
    <2>1. Sends(c, "FinishEpoch", 0)
      BY <1>t, <1>0, <1>5 DEF SendFinish, Send, Msg, LoadOps
    <2> QED
      BY <1>t, <1>5, <2>1 DEF SendFinish, Ops
  <1>6. CASE SendRequest(c)
    <2>1. \E o \in {"DropEpoch", "ListEpoch", "GetDatasetSchema"} : Sends(c, o, 0)
      BY <1>t, <1>0, <1>k, <1>6 DEF SendRequest, Send, Msg, LoadOps
    <2> QED
      BY <1>t, <1>6, <2>1 DEF SendRequest, Ops
  <1>7. CASE Receive(c)
    BY <1>t, <1>7 DEF Receive, AwaitAt
  <1>8. CASE CreateMacro(c)
    BY <1>t, <1>8 DEF CreateMacro
  <1>9. ~EngineClosed(c)
    BY <1>k DEF EngineClosed
  <1> QED
    BY <1>1, <1>2, <1>3, <1>4, <1>5, <1>6, <1>7, <1>8, <1>9 DEF ClientStep

\* The queue after a send.
LEMMA SentQueue ==
  ASSUME DispatcherTypeOK, NEW c \in Clients, NEW o \in Ops, NEW n \in Nat, Sends(c, o, n)
  PROVE  /\ Len(com) \in Nat /\ Len(com') = Len(com) + 1
         /\ DOMAIN com = 1..Len(com) /\ DOMAIN com' = 1..(Len(com) + 1)
         /\ \A i \in DOMAIN com : com'[i] = com[i] /\ i # Len(com) + 1
         /\ \A i \in DOMAIN com' : i \in DOMAIN com \/ i = Len(com) + 1
         /\ com'[Len(com) + 1].op = o /\ com'[Len(com) + 1].key = carg[c]
         /\ com'[Len(com) + 1].from = c /\ com'[Len(com) + 1].rows = n
  <1>1. com \in Seq(Command)
    BY DEF DispatcherTypeOK, TypeOK
  <1> DEFINE m == Msg(c, o, n)
  <1>2. com' = Append(com, m)
    BY DEF Sends
  <1>3. m.op = o /\ m.key = carg[c] /\ m.from = c /\ m.rows = n
    BY DEF Msg
  <1> HIDE DEF m
  <1>4. /\ Len(com) \in Nat /\ Len(com') = Len(com) + 1
        /\ DOMAIN com = 1..Len(com) /\ DOMAIN com' = 1..(Len(com) + 1)
        /\ \A i \in DOMAIN com : com'[i] = com[i]
        /\ com'[Len(com) + 1] = m
    BY <1>1, <1>2
  <1> QED
    BY <1>3, <1>4

\* A caller's step keeps the loads in order.
LEMMA OrderClient ==
  ASSUME DispatcherTypeOK, EvictInv, LoadsAreInOrder, NEW c \in Clients, ClientStep(c)
  PROVE  LoadsAreInOrder'
  <1>i. ClientsAt /\ EntriesAreTasks
    BY DEF EvictInv
  <1>t. Tasks \subseteq Clients
    BY DispatcherAssumption
  <1>m. /\ in_progress' = in_progress
        /\ \A d \in Clients : d # c => cpc'[d] = cpc[d]
        /\ Silent(c) \/ \E o \in Ops, n \in Nat : Sends(c, o, n)
    BY <1>i, RowMoves
  <1>f. \A i \in DOMAIN com : com[i].from \in Clients
    BY QueuedType DEF DispatcherTypeOK
  <1>s. cpc[c] # "idle"
    BY DEF ClientStep, SourceFails, FirstBatch, SendStart, SendIngest, NextBatch,
           StreamFails, StreamEnds, SendFinish, SendRequest, Receive, EngineClosed,
           CreateMacro, SendAt, AwaitAt
  <1>e. \A k \in Keys : InProgress(k) => in_progress[k] \in Tasks
    BY <1>i DEF EntriesAreTasks
  <1>1. CASE Silent(c)
    <2>1. \A d \in Clients : cpc'[d] \in {"idle", "source", "start"} =>
                             cpc[d] \in {"idle", "source", "start"}
      BY <1>m, <1>1 DEF Silent
    <2>2. \A d \in Clients : cpc'[d] \in CreateAt \ {"awaitDone"} =>
                             cpc[d] \in CreateAt \ {"awaitDone"}
      BY <1>m, <1>1 DEF Silent, Early
    <2>3. com' = com
      BY <1>1 DEF Silent
    <2> QED
      BY <1>m, <1>e, <1>f, <1>t, <2>1, <2>2, <2>3 DEF LoadsAreInOrder, InProgress
  <1>2. ASSUME NEW o \in Ops, NEW n \in Nat, Sends(c, o, n)
        PROVE  LoadsAreInOrder'
    <2>q. /\ Len(com) \in Nat
          /\ DOMAIN com = 1..Len(com) /\ DOMAIN com' = 1..(Len(com) + 1)
          /\ \A i \in DOMAIN com : com'[i] = com[i] /\ i # Len(com) + 1
          /\ \A i \in DOMAIN com' : i \in DOMAIN com \/ i = Len(com) + 1
          /\ com'[Len(com) + 1].op = o
          /\ com'[Len(com) + 1].from = c /\ com'[Len(com) + 1].rows = n
      BY <1>2, SentQueue
    <2>s. /\ cpc'[c] \notin {"idle", "source", "start"}
          /\ cpc'[c] \in CreateAt => cpc[c] \in CreateAt \ {"awaitDone"}
          /\ o = "StartEpoch" => n = 0 /\ cpc[c] = "start"
          /\ o = "FinishEpoch" => cpc'[c] = "awaitDone"
      BY <1>2 DEF Sends, Early
    <2>c. o = "StartEpoch" => c \in Tasks
      BY <1>i, <2>s, ClientKinds DEF CreateAt
    <2>1. \A t \in Tasks : cpc'[t] \in {"idle", "source", "start"} =>
            \A i \in DOMAIN com' : com'[i].from # t
      BY <1>m, <1>t, <2>q, <2>s DEF LoadsAreInOrder
    <2>2. \A i, j \in DOMAIN com' :
            com'[i].op = "StartEpoch" /\ com'[j].from = com'[i].from => i <= j
      <3>1. \A i \in DOMAIN com : o = "StartEpoch" => com[i].from # c
        BY <2>s, <2>c DEF LoadsAreInOrder
      <3> QED
        BY <2>q, <3>1 DEF LoadsAreInOrder
    <2>3. \A i \in DOMAIN com' : com'[i].op = "StartEpoch" => com'[i].rows = 0
      BY <2>q, <2>s DEF LoadsAreInOrder
    <2>4. \A i \in DOMAIN com' : com'[i].op = "FinishEpoch" =>
            cpc'[com'[i].from] \notin CreateAt \ {"awaitDone"}
      BY <1>m, <1>f, <2>q, <2>s DEF LoadsAreInOrder
    <2>5. \A k \in Keys : InProgress(k) =>
            /\ cpc'[in_progress[k]] \notin {"idle", "source", "start"}
            /\ \A i \in DOMAIN com' : com'[i].op = "StartEpoch" => com'[i].from # in_progress[k]
      BY <1>m, <1>e, <1>t, <2>q, <2>s DEF LoadsAreInOrder
    <2> QED
      BY <1>m, <2>1, <2>2, <2>3, <2>4, <2>5 DEF LoadsAreInOrder, InProgress
  <1> QED
    BY <1>m, <1>1, <1>2

\* A caller's step keeps earlier loads ahead of running ones.
LEMMA EarlierClient ==
  ASSUME DispatcherTypeOK, EvictInv, EarlierLoadsComeFirst, NEW c \in Clients, ClientStep(c)
  PROVE  EarlierLoadsComeFirst'
  <1>i. ClientsAt /\ OneTaskPerEpoch
    BY DEF EvictInv
  <1>t. Tasks \subseteq Clients
    BY DispatcherAssumption
  <1>m. /\ in_progress' = in_progress /\ carg' = carg
        /\ \A d \in Clients : d # c => cpc'[d] = cpc[d]
        /\ Silent(c) \/ \E o \in Ops, n \in Nat : Sends(c, o, n)
    BY <1>i, RowMoves
  <1>1. \A d \in Clients : cpc'[d] \in CreateAt => cpc[d] \in CreateAt
    BY <1>m DEF Silent, Sends, Early
  <1>2. CASE com' = com
    BY <1>m, <1>t, <1>1, <1>2 DEF EarlierLoadsComeFirst
  <1>3. ASSUME NEW o \in Ops, NEW n \in Nat, Sends(c, o, n)
        PROVE  EarlierLoadsComeFirst'
    <2>q. /\ Len(com) \in Nat
          /\ DOMAIN com = 1..Len(com) /\ DOMAIN com' = 1..(Len(com) + 1)
          /\ \A i \in DOMAIN com : com'[i] = com[i]
          /\ \A i \in DOMAIN com' : i \in DOMAIN com \/ i = Len(com) + 1
          /\ com'[Len(com) + 1].op = o /\ com'[Len(com) + 1].key = carg[c]
          /\ com'[Len(com) + 1].from = c
      BY <1>3, SentQueue
    <2> SUFFICES ASSUME NEW t \in Tasks, cpc[t] \in CreateAt,
                        NEW i \in DOMAIN com',
                        com'[i].op \in LoadOps, com'[i].key = carg[t], com'[i].from # t
                 PROVE  /\ in_progress[carg[t]] # t
                        /\ \A j \in DOMAIN com' :
                             com'[j].op = "StartEpoch" /\ com'[j].from = t => i < j
      BY <1>m, <1>t, <1>1 DEF EarlierLoadsComeFirst
    <2>1. i \in DOMAIN com
      <3> SUFFICES ASSUME i = Len(com) + 1 PROVE FALSE
        BY <2>q
      <3>1. o \in LoadOps /\ carg[c] = carg[t] /\ c # t
        BY <2>q
      <3>2. cpc[c] \in CreateAt
        BY <1>3, <3>1 DEF Sends, Early
      <3>3. c \in Tasks /\ tpc[c] = "loading" /\ tpc[t] = "loading"
        BY <1>i, <1>t, <3>2, ClientKinds
      <3> QED
        BY <1>i, <3>1, <3>3 DEF OneTaskPerEpoch, Unanswered
    <2>2. com'[i] = com[i] /\ i < Len(com) + 1
      BY <2>q, <2>1
    <2> QED
      BY <2>q, <2>1, <2>2 DEF EarlierLoadsComeFirst
  <1> QED
    BY <1>m, <1>2, <1>3 DEF Silent


\* A caller's step keeps the rows of a load accounted for.
LEMMA GivenClient ==
  ASSUME DispatcherTypeOK, ClientsAt, LoadsAreInOrder, NEW c \in Clients, ClientStep(c),
         NEW t \in Tasks, cpc'[t] \in CreateAt,
         NEW f \in [1..(Len(com) + 1) -> Nat], Given(t, f)
  PROVE  \E g \in [1..(Len(com') + 1) -> Nat] : Given(t, g)'
  <1>t. /\ t \in Clients /\ streamed[t] \in Nat /\ Len(com) \in Nat
        /\ DOMAIN com = 1..Len(com)
    BY QueuedType, DispatcherAssumption DEF DispatcherTypeOK, TypeOK
  <1>m. /\ UNCHANGED <<in_progress, total_rows, pending_rows, first_error, carg>>
        /\ \A d \in Clients : d # c => cpc'[d] = cpc[d] /\ streamed'[d] = streamed[d]
        /\ Silent(c) \/ \E o \in Ops, n \in Nat : Sends(c, o, n)
    BY RowMoves
  <1>1. CASE Silent(c)
    <2>1. /\ cpc'[t] \in {"source", "start"} => cpc[t] \in {"source", "start"}
          /\ streamed'[t] = streamed[t] /\ com' = com
      BY <1>t, <1>m, <1>1 DEF Silent
    <2>2. Given(t, f)'
      BY <1>m, <2>1 DEF Given
    <2> QED
      BY <2>1, <2>2
  <1>2. ASSUME NEW o \in Ops, NEW n \in Nat, Sends(c, o, n)
        PROVE  \E g \in [1..(Len(com') + 1) -> Nat] : Given(t, g)'
    <2>q. /\ Len(com') = Len(com) + 1
          /\ DOMAIN com' = 1..(Len(com) + 1)
          /\ \A i \in DOMAIN com : com'[i] = com[i] /\ i # Len(com) + 1
          /\ \A i \in DOMAIN com' : i \in DOMAIN com \/ i = Len(com) + 1
          /\ com'[Len(com) + 1].op = o
          /\ com'[Len(com) + 1].from = c /\ com'[Len(com) + 1].rows = n
      BY <1>2, SentQueue
    <2> DEFINE last == f[Len(com) + 1] + (IF c = t THEN n ELSE 0)
               h    == [i \in 1..(Len(com) + 2) |-> IF i = Len(com) + 2 THEN last ELSE f[i]]
    <2>f. /\ \A i \in 1..(Len(com) + 1) : f[i] \in Nat
          /\ f[Len(com) + 1] = streamed[t]
      BY DEF Given
    <2>0. /\ h \in [1..(Len(com') + 1) -> Nat]
          /\ \A i \in 1..(Len(com) + 1) : h[i] = f[i]
          /\ h[Len(com) + 2] = last
      BY <1>t, <2>q, <2>f
    <2>2. last = streamed'[t]
      BY <1>t, <1>m, <1>2, <2>f DEF Sends
    <2>3. last = IF c = t THEN f[Len(com) + 1] + n ELSE f[Len(com) + 1]
      BY <1>t, <2>f
    <2> HIDE DEF last, h
    <2>1. PICK g \in [1..(Len(com') + 1) -> Nat] :
            /\ \A i \in 1..(Len(com) + 1) : g[i] = f[i]
            /\ g[Len(com) + 2] = last
      BY <2>0
    <2>4. \A i \in DOMAIN com' :
            g[i + 1] = IF com'[i].from = t THEN g[i] + com'[i].rows ELSE g[i]
      <3>1. ASSUME NEW i \in DOMAIN com
            PROVE  g[i + 1] = IF com'[i].from = t THEN g[i] + com'[i].rows ELSE g[i]
        BY <1>t, <2>q, <2>1 DEF Given
      <3>2. g[Len(com) + 2] = IF c = t THEN g[Len(com) + 1] + n ELSE g[Len(com) + 1]
        BY <1>t, <2>1, <2>3
      <3> QED
        BY <1>t, <2>q, <3>1, <3>2
    <2>5. /\ cpc'[t] \in {"source", "start"} => g[1] = 0
          /\ \A i \in DOMAIN com' : com'[i].op = "StartEpoch" /\ com'[i].from = t => g[1] = 0
      <3>1. g[1] = f[1] /\ (cpc[t] \in {"source", "start"} => f[1] = 0)
        BY <1>t, <2>1 DEF Given
      <3>2. cpc'[t] \in {"source", "start"} => cpc[t] \in {"source", "start"}
        BY <1>t, <1>m, <1>2 DEF Sends
      <3>3. ASSUME NEW i \in DOMAIN com', com'[i].op = "StartEpoch", com'[i].from = t
            PROVE  f[1] = 0
        <4>1. CASE i \in DOMAIN com
          BY <2>q, <3>3, <4>1 DEF Given
        <4>2. CASE i = Len(com) + 1
          <5>1. o = "StartEpoch" /\ c = t
            BY <2>q, <3>3, <4>2
          <5> QED
            BY <1>2, <3>1, <5>1 DEF Sends
        <4> QED
          BY <2>q, <4>1, <4>2
      <3> QED
        BY <3>1, <3>2, <3>3
    <2>6. \A i \in DOMAIN com' :
            com'[i].op = "FinishEpoch" /\ com'[i].from = t => g[i] = streamed'[t]
      <3>1. ASSUME NEW i \in DOMAIN com, com[i].op = "FinishEpoch", com[i].from = t
            PROVE  g[i] = streamed'[t]
        <4>1. c # t
          BY <1>2, <3>1 DEF Sends, LoadsAreInOrder, Early
        <4>2. f[i] = streamed[t]
          BY <3>1, Zenon DEF Given
        <4>3. streamed'[t] = streamed[t]
          BY <1>t, <1>m, <4>1, Zenon
        <4>4. g[i] = f[i]
          BY <1>t, <2>1, <3>1
        <4> QED
          BY <4>2, <4>3, <4>4
      <3>2. o = "FinishEpoch" /\ c = t => g[Len(com) + 1] = streamed'[t]
        BY <1>t, <1>2, <2>1, <2>f DEF Sends
      <3> QED
        BY <2>q, <3>1, <3>2
    <2>7. in_progress[carg[t]] = t /\ ~first_error[carg[t]] =>
            g[1] = total_rows[carg[t]] + pending_rows[carg[t]]
      BY <1>t, <2>1 DEF Given
    <2>8. g[Len(com') + 1] = streamed'[t]
      BY <1>t, <2>q, <2>1, <2>2
    <2>9. Given(t, g)'
      BY <1>m, <2>1, <2>4, <2>5, <2>6, <2>7, <2>8, Zenon DEF Given
    <2> QED
      BY <2>1, <2>9
  <1> QED
    BY <1>m, <1>1, <1>2

\* RowInv is kept by the steps of the callers,
LEMMA RowClient ==
  ASSUME DispatcherTypeOK, EvictInv, RowInv, NEW c \in Clients, ClientStep(c)
  PROVE  RowInv'
  <1>i. ClientsAt /\ LoadsAreInOrder /\ EarlierLoadsComeFirst /\ RowsAreGiven
    BY DEF EvictInv, RowInv
  <1>t. /\ Tasks \subseteq Clients
        /\ streamed \in [Clients -> Nat] /\ done_rows \in [Clients -> Nat]
    BY DispatcherAssumption DEF DispatcherTypeOK, TypeOK
  <1>m. /\ UNCHANGED <<in_progress, total_rows, pending_rows, first_error, carg, done_rows>>
        /\ \A d \in Clients : d # c => cpc'[d] = cpc[d] /\ streamed'[d] = streamed[d]
        /\ Silent(c) \/ \E o \in Ops, n \in Nat : Sends(c, o, n)
    BY <1>i, RowMoves
  <1>1. \A d \in Clients : /\ cpc'[d] \in CreateAt => cpc[d] \in CreateAt
                           /\ cpc'[d] \in Early => cpc[d] \in Early
                           /\ streamed'[d] # streamed[d] => cpc[d] \in Early
    <2>1. CASE Silent(c)
      BY <1>m, <2>1 DEF Silent
    <2>2. ASSUME NEW o \in Ops, NEW n \in Nat, Sends(c, o, n)
          PROVE  /\ cpc'[c] \in CreateAt => cpc[c] \in CreateAt
                 /\ cpc'[c] \in Early => cpc[c] \in Early
                 /\ streamed'[c] # streamed[c] => cpc[c] \in Early
      BY <1>t, <2>2 DEF Sends, Early, CreateAt
    <2> QED
      BY <1>m, <2>1, <2>2
  <1>2. \A t \in Tasks : cpc'[t] \in CreateAt =>
          \E f \in [1..(Len(com') + 1) -> Nat] : Given(t, f)'
    BY <1>i, <1>t, <1>1, GivenClient DEF RowsAreGiven
  <1>3. \A d \in Clients : done_rows[d] # 0 => cpc[d] \notin Early
    BY <1>i DEF RowsAreGiven, Early
  <1>4. RowsAreTheLoads'
    BY <1>i, <1>m, <1>1, <1>3 DEF RowsAreGiven, RowsAreTheLoads
  <1>5. RowsAreGiven'
    BY <1>i, <1>m, <1>1, <1>2, <1>3, <1>4 DEF RowsAreGiven, InProgress, Early
  <1> QED
    BY <1>i, <1>5, OrderClient, EarlierClient DEF RowInv


\* What serving the head of the queue may do to the entry of epoch k.
EntryKept(k) ==
  /\ in_progress'[k] = in_progress[k] /\ total_rows'[k] = total_rows[k]
  /\ pending_rows'[k] = pending_rows[k] /\ first_error'[k] = first_error[k]
  /\ com[1].key = k /\ com[1].op \in {"IngestBatch", "FinishEpoch"} =>
       ~InProgress(k) \/ first_error[k]
EntryOpened(k) ==
  /\ com[1].op = "StartEpoch" /\ com[1].key = k
  /\ ~InProgress(k) /\ in_progress'[k] = com[1].from
  /\ total_rows'[k] = total_rows[k] /\ pending_rows'[k] = pending_rows[k]
EntryFed(k) ==
  /\ com[1].op = "IngestBatch" /\ com[1].key = k
  /\ InProgress(k) /\ in_progress'[k] = in_progress[k]
  /\ ~first_error[k]
  /\ \/ first_error'[k]
     \/ total_rows'[k] + pending_rows'[k] = total_rows[k] + pending_rows[k] + com[1].rows
EntryClosed(k) ==
  /\ com[1].op = "FinishEpoch" /\ com[1].key = k
  /\ in_progress'[k] = NoClient
  /\ total_rows'[k] = 0 /\ pending_rows'[k] = 0 /\ ~first_error'[k]

\* Caller c is told the rows of the entry that has just been committed.
Told(c) ==
  /\ com[1].op = "FinishEpoch" /\ InProgress(com[1].key) /\ ~first_error[com[1].key]
  /\ c = in_progress[com[1].key] /\ cpc[c] \in CreateAt
  /\ done_rows'[c] = total_rows[com[1].key] + pending_rows[com[1].key]

\* What the actor's step does to the entry of each epoch.
LEMMA EntryMoves ==
  ASSUME TypeOK, ActorStep
  PROVE  /\ com # <<>> /\ com' = Tail(com) /\ UNCHANGED <<cpc, carg, streamed>>
         /\ \A k \in Keys : EntryKept(k) \/ EntryOpened(k) \/ EntryFed(k) \/ EntryClosed(k)
         /\ \A c \in Clients : done_rows'[c] = done_rows[c] \/ Told(c)
  <1>t. /\ in_progress \in [Keys -> Clients \cup {NoClient}]
        /\ total_rows \in [Keys -> Nat] /\ pending_rows \in [Keys -> Nat]
        /\ first_error \in [Keys -> BOOLEAN] /\ done_rows \in [Clients -> Nat]
    BY DEF TypeOK
  <1>1. com # <<>> /\ com' = Tail(com) /\ UNCHANGED <<cpc, carg, streamed>>
    BY DEF ActorStep, OnStartEpoch, OnIngestBatch, OnFinishEpoch, OnDropEpoch,
           OnListEpochs, OnGetDatasetSchema, Take, clientVars, sourceVars
  <1>2. /\ Head(com) = com[1] /\ com[1].op \in Ops /\ com[1].key \in Keys
        /\ com[1].from \in Clients /\ com[1].rows \in Nat
    BY <1>1, QueuedType
  <1>3. CASE OnStartEpoch
    <2>1. /\ com[1].op = "StartEpoch"
          /\ UNCHANGED <<total_rows, pending_rows, first_error, done_rows>>
          /\ \/ in_progress' = in_progress
             \/ /\ ~InProgress(com[1].key)
                /\ in_progress' = [in_progress EXCEPT ![com[1].key] = com[1].from]
      BY <1>2, <1>3 DEF OnStartEpoch, Take, AlreadyExists
    <2>2. \A k \in Keys : EntryKept(k) \/ EntryOpened(k)
      BY <1>t, <1>2, <2>1 DEF EntryKept, EntryOpened
    <2> QED
      BY <1>1, <2>1, <2>2
  <1>4. CASE OnIngestBatch
    <2> DEFINE j == com[1].key
    <2>1. /\ com[1].op = "IngestBatch" /\ UNCHANGED <<in_progress, done_rows>>
          /\ j \in Keys /\ com[1].rows \in Nat
      BY <1>2, <1>4 DEF OnIngestBatch, Take, clientVars
    <2>2. \A k \in Keys : k # j => EntryKept(k)
      BY <1>t, <1>2, <1>4, <2>1 DEF OnIngestBatch, Flushed, EntryKept
    <2>3. EntryFed(j) \/ EntryKept(j)
      <3>1. CASE /\ ~InProgress(j) \/ first_error[j]
                 /\ UNCHANGED <<pending_rows, total_rows, first_error>>
        BY <2>1, <3>1 DEF EntryKept
      <3>2. CASE /\ InProgress(j) /\ ~first_error[j]
                 /\ pending_rows' = [pending_rows EXCEPT ![j] = @ + com[1].rows]
                 /\ UNCHANGED <<total_rows, first_error>>
        BY <1>t, <2>1, <3>2 DEF EntryFed
      <3>3. CASE /\ InProgress(j) /\ ~first_error[j]
                 /\ Flushed(j, com[1].rows)
        BY <1>t, <2>1, <3>3 DEF EntryFed, Flushed
      <3>4. CASE /\ InProgress(j) /\ ~first_error[j]
                 /\ first_error' = [first_error EXCEPT ![j] = TRUE]
        BY <1>t, <2>1, <3>4 DEF EntryFed
      <3> QED
        BY <1>2, <1>4, <3>1, <3>2, <3>3, <3>4 DEF OnIngestBatch
    <2> QED
      BY <1>1, <2>1, <2>2, <2>3
  <1>5. CASE OnFinishEpoch
    <2> DEFINE j == com[1].key
    <2>1. com[1].op = "FinishEpoch" /\ j \in Keys
      BY <1>2, <1>5 DEF OnFinishEpoch, Take
    <2>2. \/ /\ UNCHANGED <<in_progress, pending_rows, total_rows, first_error>>
             /\ ~InProgress(j)
          \/ RemoveEntry(j)
      BY <1>2, <1>5 DEF OnFinishEpoch
    <2>3. \A k \in Keys : EntryKept(k) \/ EntryClosed(k)
      BY <1>t, <2>1, <2>2 DEF EntryKept, EntryClosed, RemoveEntry
    <2>4. \/ done_rows' = done_rows
          \/ /\ InProgress(j) /\ ~first_error[j]
             /\ cpc[in_progress[j]] \in CreateAt
             /\ done_rows' = [done_rows EXCEPT ![in_progress[j]] =
                                total_rows[j] + pending_rows[j]]
      BY <1>2, <1>5 DEF OnFinishEpoch
    <2>5. \A c \in Clients : done_rows'[c] = done_rows[c] \/ Told(c)
      BY <1>t, <2>1, <2>4 DEF Told
    <2> QED
      BY <1>1, <2>1, <2>3, <2>5
  <1>6. CASE OnDropEpoch \/ OnListEpochs \/ OnGetDatasetSchema
    <2>1. /\ com[1].op \notin {"IngestBatch", "FinishEpoch"}
          /\ UNCHANGED <<in_progress, total_rows, pending_rows, first_error, done_rows>>
      BY <1>2, <1>6 DEF OnDropEpoch, OnListEpochs, OnGetDatasetSchema, Take, epochVars
    <2> QED
      BY <1>1, <2>1 DEF EntryKept
  <1> QED
    BY <1>3, <1>4, <1>5, <1>6 DEF ActorStep


\* Serving a command keeps the loads in order and earlier loads ahead.
LEMMA OrderActor ==
  ASSUME DispatcherTypeOK, EvictInv, LoadsAreInOrder, EarlierLoadsComeFirst, ActorStep
  PROVE  LoadsAreInOrder' /\ EarlierLoadsComeFirst'
  <1>i. CommandsAreAwaited
    BY DEF EvictInv
  <1>t. /\ Tasks \subseteq Clients /\ NoClient \notin Clients
        /\ in_progress \in [Keys -> Clients \cup {NoClient}]
        /\ carg \in [Clients -> Keys]
    BY DispatcherAssumption, EngineAssumption DEF DispatcherTypeOK, TypeOK
  <1>m. /\ com # <<>> /\ com' = Tail(com) /\ UNCHANGED <<cpc, carg>>
        /\ \A k \in Keys : EntryKept(k) \/ EntryOpened(k) \/ EntryFed(k) \/ EntryClosed(k)
    BY EntryMoves DEF DispatcherTypeOK
  <1>q. /\ 1 \in DOMAIN com /\ Len(com) \in Nat
        /\ \A i \in DOMAIN com' :
             i \in Nat /\ i >= 1 /\ i + 1 \in DOMAIN com /\ com'[i] = com[i + 1]
    BY <1>m, QueuedType DEF DispatcherTypeOK
  <1>e. \A k \in Keys : \/ in_progress'[k] \in {in_progress[k], NoClient}
                        \/ /\ com[1].op = "StartEpoch" /\ k = com[1].key
                           /\ in_progress'[k] = com[1].from
    BY <1>m DEF EntryKept, EntryOpened, EntryFed, EntryClosed
  <1>1. /\ \A t \in Tasks :
             cpc'[t] \in {"idle", "source", "start"} => \A i \in DOMAIN com' : com'[i].from # t
        /\ \A i, j \in DOMAIN com' :
             com'[i].op = "StartEpoch" /\ com'[j].from = com'[i].from => i <= j
        /\ \A i \in DOMAIN com' : com'[i].op = "StartEpoch" => com'[i].rows = 0
        /\ \A i \in DOMAIN com' : com'[i].op = "FinishEpoch" =>
             cpc'[com'[i].from] \notin CreateAt \ {"awaitDone"}
    BY <1>m, <1>q DEF LoadsAreInOrder
  <1>2. ASSUME NEW k \in Keys, InProgress(k)'
        PROVE  /\ cpc'[in_progress'[k]] \notin {"idle", "source", "start"}
               /\ \A i \in DOMAIN com' : com'[i].op = "StartEpoch" => com'[i].from # in_progress'[k]
    <2>1. CASE in_progress'[k] = in_progress[k]
      BY <1>m, <1>q, <1>2, <2>1 DEF LoadsAreInOrder, InProgress
    <2>2. CASE com[1].op = "StartEpoch" /\ in_progress'[k] = com[1].from
      <3>1. com[1].from \in Tasks
        BY <1>i, <1>q, <2>2 DEF CommandsAreAwaited, LoadOps
      <3>2. cpc[com[1].from] \notin {"idle", "source", "start"}
        BY <1>q, <3>1 DEF LoadsAreInOrder
      <3>3. ASSUME NEW i \in DOMAIN com', com'[i].op = "StartEpoch", com'[i].from = com[1].from
            PROVE  FALSE
        <4>1. i + 1 <= 1
          BY <1>q, <3>3 DEF LoadsAreInOrder
        <4> QED
          BY <1>q, <4>1
      <3> QED
        BY <1>m, <2>2, <3>2, <3>3
    <2> QED
      BY <1>e, <1>2, <2>1, <2>2 DEF InProgress
  <1>3. LoadsAreInOrder'
    BY <1>1, <1>2 DEF LoadsAreInOrder
  <1>4. EarlierLoadsComeFirst'
    <2> SUFFICES ASSUME NEW t \in Tasks, cpc[t] \in CreateAt, NEW i \in DOMAIN com',
                        com'[i].op \in LoadOps, com'[i].key = carg[t], com'[i].from # t
                 PROVE  /\ in_progress'[carg[t]] # t
                        /\ \A j \in DOMAIN com' :
                             com'[j].op = "StartEpoch" /\ com'[j].from = t => i < j
      BY <1>m DEF EarlierLoadsComeFirst
    <2>1. /\ i + 1 \in DOMAIN com /\ com'[i] = com[i + 1]
          /\ carg[t] \in Keys /\ t # NoClient
      BY <1>t, <1>q
    <2>2. in_progress[carg[t]] # t
      BY <2>1 DEF EarlierLoadsComeFirst
    <2>3. \A j \in DOMAIN com : com[j].op = "StartEpoch" /\ com[j].from = t => i + 1 < j
      BY <2>1 DEF EarlierLoadsComeFirst
    <2>4. ~(com[1].op = "StartEpoch" /\ com[1].from = t)
      BY <1>q, <2>3
    <2>5. \A j \in DOMAIN com' : com'[j].op = "StartEpoch" /\ com'[j].from = t => i < j
      BY <1>q, <2>3
    <2> QED
      BY <1>e, <2>1, <2>2, <2>4, <2>5
  <1> QED
    BY <1>3, <1>4

\* Serving a command keeps the rows of a load accounted for.
LEMMA GivenActor ==
  ASSUME DispatcherTypeOK, EvictInv, RowInv, ActorStep, NEW t \in Tasks, cpc[t] \in CreateAt,
         NEW f \in [1..(Len(com) + 1) -> Nat], Given(t, f)
  PROVE  \E g \in [1..(Len(com') + 1) -> Nat] : Given(t, g)'
  <1>i. /\ CommandsAreAwaited /\ LoadsAreInOrder /\ EarlierLoadsComeFirst /\ RowsAreGiven
    BY DEF EvictInv, RowInv
  <1> DEFINE k == carg[t]
  <1>t. /\ t \in Clients /\ k \in Keys /\ t # NoClient
        /\ total_rows[k] \in Nat /\ pending_rows[k] \in Nat
    BY DispatcherAssumption, EngineAssumption DEF DispatcherTypeOK, TypeOK
  <1>m. /\ com # <<>> /\ com' = Tail(com) /\ UNCHANGED <<cpc, carg, streamed>>
        /\ EntryKept(k) \/ EntryOpened(k) \/ EntryFed(k) \/ EntryClosed(k)
    BY <1>t, EntryMoves DEF DispatcherTypeOK
  <1>q. /\ 1 \in DOMAIN com /\ Len(com) \in Nat /\ Len(com') = Len(com) - 1
        /\ DOMAIN com' = 1..(Len(com) - 1) /\ DOMAIN com = 1..Len(com)
        /\ \A i \in DOMAIN com' : i + 1 \in DOMAIN com /\ com'[i] = com[i + 1]
        /\ com[1].rows \in Nat
    BY <1>m, QueuedType DEF DispatcherTypeOK
  <1> DEFINE h == [i \in 1..Len(com) |-> f[i + 1]]
  <1>0. h \in [1..(Len(com') + 1) -> Nat] /\ \A i \in 1..Len(com) : h[i] = f[i + 1]
    <2>1. Len(com') + 1 = Len(com) /\ \A i \in 1..Len(com) : i + 1 \in 1..(Len(com) + 1)
      <3>1. Len(com) \in Nat /\ Len(com') = Len(com) - 1
        BY <1>q, Zenon
      <3> QED
        BY <3>1
    <2>2. \A i \in 1..Len(com) : f[i + 1] \in Nat
      BY <2>1, Zenon
    <2> QED
      BY <2>1, <2>2, Zenon
  <1> HIDE DEF h
  <1>1. PICK g \in [1..(Len(com') + 1) -> Nat] : \A i \in 1..Len(com) : g[i] = f[i + 1]
    BY <1>0
  <1>f. /\ f[1] \in Nat /\ g[1] = f[2]
        /\ f[2] = IF com[1].from = t THEN f[1] + com[1].rows ELSE f[1]
    BY <1>q, <1>1 DEF Given
  <1>a. \A i \in DOMAIN com' : /\ i \in 1..Len(com) /\ i + 1 \in 1..Len(com)
                               /\ g[i] = f[i + 1] /\ g[i + 1] = f[i + 1 + 1]
    BY <1>q, <1>1
  <1>b. g[Len(com') + 1] = f[Len(com) + 1]
    <2>1. Len(com') + 1 = Len(com) /\ Len(com) \in 1..Len(com)
      BY <1>q
    <2> QED
      BY <1>1, <2>1
  <1>2. /\ g[Len(com') + 1] = streamed[t]
        /\ \A i \in DOMAIN com' :
             g[i + 1] = IF com'[i].from = t THEN g[i] + com'[i].rows ELSE g[i]
        /\ \A i \in DOMAIN com' :
             com'[i].op = "FinishEpoch" /\ com'[i].from = t => g[i] = streamed[t]
    BY <1>q, <1>a, <1>b DEF Given
  <1>3. cpc[t] \in {"source", "start"} => g[1] = 0
    BY <1>i, <1>q, <1>f DEF Given, LoadsAreInOrder
  <1>4. \A i \in DOMAIN com' : com'[i].op = "StartEpoch" /\ com'[i].from = t => g[1] = 0
    <2> SUFFICES ASSUME NEW i \in DOMAIN com', com'[i].op = "StartEpoch", com'[i].from = t
                 PROVE  g[1] = 0
      OBVIOUS
    <2>1. com[i + 1].op = "StartEpoch" /\ com[i + 1].from = t /\ i + 1 \in DOMAIN com /\ i >= 1
      BY <1>q
    <2>2. com[1].from # t
      BY <1>i, <1>q, <2>1 DEF LoadsAreInOrder
    <2> QED
      BY <1>f, <2>1, <2>2 DEF Given
  <1>5. in_progress'[k] = t /\ ~first_error'[k] => g[1] = total_rows'[k] + pending_rows'[k]
    <2> SUFFICES ASSUME in_progress'[k] = t, ~first_error'[k]
                 PROVE  f[2] = total_rows'[k] + pending_rows'[k]
      BY <1>f
    <2>h. com[1].from = t => com[1].key = k /\ com[1].op \in LoadOps
      BY <1>i, <1>q DEF CommandsAreAwaited, AwaitOf, CreateAt
    <2>o. com[1].key = k /\ com[1].from # t => com[1].op \notin LoadOps \/ in_progress[k] # t
      BY <1>i, <1>q DEF EarlierLoadsComeFirst
    <2>1. CASE EntryKept(k)
      <3>1. in_progress[k] = t /\ ~first_error[k] /\ InProgress(k)
        BY <1>t, <2>1 DEF EntryKept, InProgress
      <3>2. com[1].from # t
        <4>1. com[1].from = t => com[1].op = "StartEpoch"
          BY <2>1, <2>h, <3>1 DEF LoadOps, EntryKept
        <4>2. com[1].from = t => com[1].op # "StartEpoch"
          BY <1>i, <1>t, <1>q, <3>1 DEF LoadsAreInOrder
        <4> QED
          BY <4>1, <4>2
      <3> QED
        BY <1>f, <2>1, <3>1, <3>2 DEF EntryKept, Given
    <2>2. CASE EntryOpened(k)
      <3>1. com[1].from = t /\ com[1].op = "StartEpoch"
        BY <2>2 DEF EntryOpened
      <3>2. f[1] = 0 /\ com[1].rows = 0
        BY <1>i, <1>q, <3>1 DEF Given, LoadsAreInOrder
      <3>3. total_rows[k] = 0 /\ pending_rows[k] = 0
        BY <1>i, <1>t, <2>2 DEF RowsAreGiven, EntryOpened
      <3> QED
        BY <1>f, <2>2, <3>1, <3>2, <3>3 DEF EntryOpened
    <2>3. CASE EntryFed(k)
      <3>1. in_progress[k] = t /\ ~first_error[k]
        BY <2>3 DEF EntryFed
      <3>2. com[1].from = t
        BY <2>3, <2>o, <3>1 DEF EntryFed, LoadOps
      <3>3. f[1] = total_rows[k] + pending_rows[k]
        BY <3>1 DEF Given
      <3> QED
        BY <1>f, <2>3, <3>2, <3>3 DEF EntryFed
    <2>4. CASE EntryClosed(k)
      BY <1>t, <2>4 DEF EntryClosed
    <2> QED
      BY <1>m, <2>1, <2>2, <2>3, <2>4
  <1>6. Given(t, g)'
    BY <1>m, <1>2, <1>3, <1>4, <1>5 DEF Given
  <1> QED
    BY <1>6


\* by those of the actor,
LEMMA RowActor ==
  ASSUME DispatcherTypeOK, EvictInv, RowInv, ActorStep
  PROVE  RowInv'
  <1>i. /\ CommandsAreAwaited /\ EntriesAreTasks
        /\ LoadsAreInOrder /\ EarlierLoadsComeFirst /\ RowsAreGiven
    BY DEF EvictInv, RowInv
  <1>t. /\ Tasks \subseteq Clients /\ NoClient \notin Clients
        /\ in_progress \in [Keys -> Clients \cup {NoClient}]
        /\ done_rows \in [Clients -> Nat]
    BY DispatcherAssumption, EngineAssumption DEF DispatcherTypeOK, TypeOK
  <1>m. /\ com # <<>> /\ com' = Tail(com) /\ UNCHANGED <<cpc, carg, streamed>>
        /\ \A k \in Keys : EntryKept(k) \/ EntryOpened(k) \/ EntryFed(k) \/ EntryClosed(k)
        /\ \A c \in Clients : done_rows'[c] = done_rows[c] \/ Told(c)
    BY EntryMoves DEF DispatcherTypeOK
  <1>q. 1 \in DOMAIN com /\ com[1].key \in Keys /\ com[1].from \in Clients
    BY <1>m, QueuedType DEF DispatcherTypeOK
  <1>1. \A t \in Tasks : cpc'[t] \in CreateAt =>
          \E f \in [1..(Len(com') + 1) -> Nat] : Given(t, f)'
    BY <1>i, <1>m, GivenActor DEF RowsAreGiven
  <1>2. ASSUME NEW k \in Keys, ~InProgress(k)'
        PROVE  total_rows'[k] = 0 /\ pending_rows'[k] = 0 /\ ~first_error'[k]
    <2>1. CASE EntryKept(k)
      BY <1>i, <1>2, <2>1 DEF RowsAreGiven, EntryKept, InProgress
    <2>2. ~EntryOpened(k) /\ ~EntryFed(k)
      BY <1>t, <1>q, <1>2 DEF EntryOpened, EntryFed, InProgress
    <2> QED
      BY <1>m, <2>1, <2>2 DEF EntryClosed
  <1>3. ASSUME NEW c \in Clients, Told(c)
        PROVE  cpc[c] \notin Early /\ done_rows'[c] = streamed[c]
    <2> DEFINE k == com[1].key
    <2>1. /\ com[1].op = "FinishEpoch" /\ InProgress(k) /\ ~first_error[k]
          /\ c = in_progress[k] /\ cpc[c] \in CreateAt
          /\ done_rows'[c] = total_rows[k] + pending_rows[k]
      BY <1>3 DEF Told
    <2>2. c \in Tasks /\ carg[c] = k
      BY <1>i, <1>q, <2>1 DEF EntriesAreTasks
    <2>3. com[1].from = c
      BY <1>i, <1>q, <2>1, <2>2 DEF EarlierLoadsComeFirst, LoadOps
    <2>4. cpc[c] \notin Early
      BY <1>i, <1>q, <2>1, <2>3 DEF LoadsAreInOrder, Early
    <2>5. PICK f \in [1..(Len(com) + 1) -> Nat] : Given(c, f)
      BY <1>i, <2>1, <2>2 DEF RowsAreGiven
    <2>6. f[1] = streamed[c] /\ f[1] = total_rows[k] + pending_rows[k]
      BY <1>q, <2>1, <2>2, <2>3, <2>5 DEF Given
    <2> QED
      BY <2>1, <2>4, <2>6
  <1>4. RowsAreTheLoads'
    BY <1>i, <1>m, <1>3 DEF RowsAreGiven, RowsAreTheLoads
  <1>5. \A c \in Clients : done_rows'[c] # 0 => cpc'[c] \notin CreateAt \ {"awaitDone"}
    BY <1>i, <1>m, <1>3 DEF RowsAreGiven, Early
  <1>6. RowsAreGiven'
    BY <1>1, <1>2, <1>4, <1>5 DEF RowsAreGiven
  <1> QED
    BY <1>i, <1>6, OrderActor DEF RowInv

-----------------------------------------------------------------------------

\* Steps of the dispatcher that leave the callers and the engine alone.
LEMMA RowUnchanged ==
  ASSUME RowInv, UNCHANGED engineVars
  PROVE  RowInv'
  <1>1. UNCHANGED <<com, in_progress, total_rows, pending_rows, first_error, cpc, carg,
                    done_rows, streamed>>
    BY DEF engineVars
  <1>2. LoadsAreInOrder' /\ EarlierLoadsComeFirst'
    BY <1>1 DEF RowInv, LoadsAreInOrder, EarlierLoadsComeFirst, InProgress
  <1>3. ASSUME NEW t \in Tasks, NEW f, Given(t, f) PROVE Given(t, f)'
    BY <1>1, <1>3 DEF Given
  <1>4. RowsAreGiven'
    BY <1>1, <1>3 DEF RowInv, RowsAreGiven, RowsAreTheLoads, InProgress
  <1> QED
    BY <1>2, <1>4 DEF RowInv

\* An assignment changes only the key of a task that runs nothing yet.
LEMMA RowAssign ==
  ASSUME DispatcherTypeOK, EvictInv, RowInv, NEW k \in Keys, NEW u \in Tasks, Assign(k, u)
  PROVE  RowInv'
  <1>i. ClientsAt /\ EntriesAreTasks /\ LoadsAreInOrder /\ EarlierLoadsComeFirst /\ RowsAreGiven
    BY DEF EvictInv, RowInv
  <1>1. /\ UNCHANGED <<com, in_progress, total_rows, pending_rows, first_error, cpc,
                       done_rows, streamed>>
        /\ tpc[u] = "free" /\ carg' = [carg EXCEPT ![u] = k]
    BY DEF Assign, epochVars, sourceVars
  <1>2. /\ carg \in [Clients -> Keys] /\ Tasks \subseteq Clients
    BY DispatcherAssumption DEF DispatcherTypeOK, TypeOK
  <1>3. cpc[u] \notin CreateAt
    BY <1>i, <1>1 DEF ClientsAt, CreateAt
  <1>4. \A t \in Tasks : t # u => carg'[t] = carg[t]
    BY <1>1, <1>2
  <1>5. LoadsAreInOrder'
    BY <1>i, <1>1 DEF LoadsAreInOrder, InProgress
  <1>6. EarlierLoadsComeFirst'
    BY <1>i, <1>1, <1>3, <1>4 DEF EarlierLoadsComeFirst
  <1>7. ASSUME NEW t \in Tasks, t # u, NEW f, Given(t, f) PROVE Given(t, f)'
    BY <1>1, <1>4, <1>7 DEF Given
  <1>8. RowsAreGiven'
    BY <1>i, <1>1, <1>3, <1>7 DEF RowsAreGiven, RowsAreTheLoads, InProgress
  <1> QED
    BY <1>5, <1>6, <1>8 DEF RowInv


\* Entering a drop or a macro update leaves every load alone.
LEMMA RowRequest ==
  ASSUME DispatcherTypeOK, RowInv, NEW c \in Clients, NEW k \in Keys,
         BeginDrop(c, k) \/ BeginMacro(c, k), c \in Tasks => k = carg[c]
  PROVE  RowInv'
  <1>i. LoadsAreInOrder /\ EarlierLoadsComeFirst /\ RowsAreGiven
    BY DEF RowInv
  <1>t. /\ carg \in [Clients -> Keys] /\ cpc \in [Clients -> ClientAt]
        /\ Tasks \subseteq Clients
        /\ in_progress \in [Keys -> Clients \cup {NoClient}]
        /\ \A i \in DOMAIN com : com[i].from \in Clients
    BY QueuedType, DispatcherAssumption DEF DispatcherTypeOK, TypeOK
  <1>1. /\ UNCHANGED <<com, in_progress, total_rows, pending_rows, first_error,
                       done_rows, streamed>>
        /\ cpc'[c] \in {"drop", "list"}
        /\ \A d \in Clients : d # c => cpc'[d] = cpc[d]
        /\ carg' = [carg EXCEPT ![c] = k]
    BY <1>t DEF BeginDrop, BeginMacro, Call, Goto, epochVars, sourceVars
  <1>2. \A t \in Tasks : carg'[t] = carg[t]
    BY <1>t, <1>1
  <1>3. LoadsAreInOrder'
    BY <1>i, <1>t, <1>1 DEF LoadsAreInOrder, InProgress, CreateAt
  <1>4. EarlierLoadsComeFirst'
    BY <1>i, <1>t, <1>1, <1>2 DEF EarlierLoadsComeFirst, CreateAt
  <1>5. ASSUME NEW t \in Tasks, t # c, NEW f, Given(t, f) PROVE Given(t, f)'
    BY <1>t, <1>1, <1>2, <1>5 DEF Given
  <1>6. cpc'[c] \notin CreateAt
    BY <1>1 DEF CreateAt
  <1>7. \A t \in Tasks : cpc'[t] \in CreateAt =>
          \E f \in [1..(Len(com') + 1) -> Nat] : Given(t, f)'
    BY <1>i, <1>t, <1>1, <1>5, <1>6 DEF RowsAreGiven
  <1>8. RowsAreGiven'
    BY <1>i, <1>1, <1>6, <1>7 DEF RowsAreGiven, RowsAreTheLoads, InProgress
  <1> QED
    BY <1>3, <1>4, <1>8 DEF RowInv

\* A load begins with nothing queued, nothing loaded and nothing streamed.
LEMMA RowCreate ==
  ASSUME DispatcherTypeOK, EvictInv, RowInv, NEW u \in Tasks, Acquire(u)
  PROVE  RowInv'
  <1>i. /\ CommandsAreAwaited /\ EntriesAreTasks
        /\ LoadsAreInOrder /\ EarlierLoadsComeFirst /\ RowsAreGiven
    BY DEF EvictInv, RowInv
  <1>t. /\ carg \in [Clients -> Keys] /\ cpc \in [Clients -> ClientAt]
        /\ streamed \in [Clients -> Nat] /\ done_rows \in [Clients -> Nat]
        /\ Tasks \subseteq Clients /\ NoClient \notin Clients
        /\ in_progress \in [Keys -> Clients \cup {NoClient}]
        /\ Len(com) \in Nat /\ DOMAIN com = 1..Len(com)
        /\ \A i \in DOMAIN com : com[i].from \in Clients
    BY QueuedType, DispatcherAssumption, EngineAssumption DEF DispatcherTypeOK, TypeOK
  <1>1. /\ UNCHANGED <<com, in_progress, total_rows, pending_rows, first_error>>
        /\ cpc'[u] = "source" /\ streamed'[u] = 0 /\ done_rows'[u] = 0
        /\ \A d \in Clients : d # u => /\ cpc'[d] = cpc[d] /\ streamed'[d] = streamed[d]
                                       /\ done_rows'[d] = done_rows[d]
        /\ carg' = carg /\ tpc[u] = "queued"
    BY <1>t DEF Acquire, BeginCreate, Call, Goto, epochVars
  <1>2. /\ \A i \in DOMAIN com : com[i].from # u
        /\ \A k \in Keys : in_progress[k] # u
    <2>1. \A i \in DOMAIN com : com[i].from # u
      BY <1>i, <1>1, Zenon DEF CommandsAreAwaited
    <2>2. u # NoClient
      BY <1>t
    <2>3. \A k \in Keys : in_progress[k] # u
      BY <1>i, <1>1, <2>2, Zenon DEF EntriesAreTasks, InProgress
    <2> QED
      BY <2>1, <2>3
  <1>3. LoadsAreInOrder'
    BY <1>i, <1>t, <1>1, <1>2 DEF LoadsAreInOrder, InProgress
  <1>4. EarlierLoadsComeFirst'
    <2> SUFFICES ASSUME NEW t \in Tasks, cpc'[t] \in CreateAt, NEW i \in DOMAIN com,
                        com[i].op \in LoadOps, com[i].key = carg[t], com[i].from # t
                 PROVE  /\ in_progress[carg[t]] # t
                        /\ \A j \in DOMAIN com :
                             com[j].op = "StartEpoch" /\ com[j].from = t => i < j
      BY <1>1, Zenon DEF EarlierLoadsComeFirst
    <2>1. CASE t = u
      BY <1>t, <1>2, <2>1
    <2>2. CASE t # u
      BY <1>i, <1>t, <1>1, <2>2 DEF EarlierLoadsComeFirst
    <2> QED
      BY <2>1, <2>2
  <1>5. ASSUME NEW t \in Tasks, t # u, NEW f, Given(t, f) PROVE Given(t, f)'
    BY <1>t, <1>1, <1>5 DEF Given
  <1>6. \E f \in [1..(Len(com') + 1) -> Nat] : Given(u, f)'
    <2> DEFINE h == [i \in 1..(Len(com) + 1) |-> 0]
    <2>1. h \in [1..(Len(com) + 1) -> Nat] /\ \A i \in 1..(Len(com) + 1) : h[i] = 0
      OBVIOUS
    <2> HIDE DEF h
    <2>2. PICK f \in [1..(Len(com) + 1) -> Nat] : \A i \in 1..(Len(com) + 1) : f[i] = 0
      BY <2>1
    <2>3. /\ 1 \in 1..(Len(com) + 1) /\ Len(com) + 1 \in 1..(Len(com) + 1)
          /\ \A i \in DOMAIN com : i \in 1..(Len(com) + 1) /\ i + 1 \in 1..(Len(com) + 1)
      BY <1>t
    <2>4. f[1] = 0 /\ f[Len(com) + 1] = streamed'[u]
      BY <1>1, <2>2, <2>3
    <2>5. \A i \in DOMAIN com :
            f[i + 1] = IF com[i].from = u THEN f[i] + com[i].rows ELSE f[i]
      BY <1>2, <2>2, <2>3
    <2>6. in_progress[carg[u]] # u
      BY <1>t, <1>2
    <2>7. Given(u, f)'
      BY <1>1, <1>2, <2>2, <2>4, <2>5, <2>6, Zenon DEF Given
    <2> QED
      BY <1>1, <2>7
  <1>7. \A t \in Tasks : cpc'[t] \in CreateAt =>
          \E f \in [1..(Len(com') + 1) -> Nat] : Given(t, f)'
    BY <1>i, <1>t, <1>1, <1>5, <1>6 DEF RowsAreGiven
  <1>8. RowsAreTheLoads'
    BY <1>i, <1>1 DEF RowsAreGiven, RowsAreTheLoads
  <1>9. RowsAreGiven'
    BY <1>i, <1>1, <1>7, <1>8 DEF RowsAreGiven, InProgress
  <1> QED
    BY <1>3, <1>4, <1>9 DEF RowInv

\* and so by every step of a disciplined control plane's dispatcher.
LEMMA RowStep ==
  ASSUME DispatcherTypeOK, EvictInv, RowInv, [Next]_vars
  PROVE  RowInv'
  <1>t. /\ Tasks \subseteq Clients /\ Receiver \in Clients /\ Receiver \notin Tasks
        /\ rkey \in Keys /\ carg \in [Clients -> Keys]
    BY DispatcherAssumption DEF DispatcherTypeOK, TypeOK
  <1>1. CASE CallWaitForDrain \/ DrainStep \/ UNCHANGED vars
    BY <1>1, RowUnchanged
       DEF CallWaitForDrain, DrainStep, CountLoading, WakeUp, vars
  <1>2. CASE CpCommand
    BY <1>2, RowUnchanged, RowAssign
       DEF CpCommand, RejectWhenDraining, IgnoreAssignment, RefuseAssignment, EvictRead, Drain
  <1>3. CASE ReceiverStep
    BY <1>t, <1>3, RowUnchanged, RowRequest
       DEF ReceiverStep, EvictDeferred, EvictDuplicate, EvictNow, EvictDropped,
           EvictMacroWritten
  <1>4. ASSUME NEW t \in Tasks, LoadStep(t) PROVE RowInv'
    <2>1. CASE Acquire(t)
      BY <2>1, RowCreate
    <2>2. CASE UNCHANGED engineVars
      BY <2>2, RowUnchanged
    <2>3. CASE BeginDrop(t, carg[t]) \/ BeginMacro(t, carg[t])
      BY <1>t, <2>3, RowRequest
    <2> QED
      BY <1>4, <2>1, <2>2, <2>3
         DEF LoadStep, LoadFailed, EvictLoaded, Loaded, RegisterDataset, Activate,
             MacroFailed, LoadedDropped, LoadedMacroWritten, Report, Finish
  <1>5. CASE EngineStep
    BY <1>5, RowClient, RowActor DEF EngineStep
  <1> QED
    BY <1>1, <1>2, <1>3, <1>4, <1>5 DEF Next

\* RowInv holds at the start.
LEMMA RowInit == Init => RowInv
  <1> SUFFICES ASSUME Init PROVE RowInv
    OBVIOUS
  <1>1. DOMAIN com = {} /\ \A c \in Clients : cpc[c] = "idle" /\ done_rows[c] = 0
    BY DEF Init, EngineInit
  <1>2. \A k \in Keys : /\ ~InProgress(k) /\ total_rows[k] = 0 /\ pending_rows[k] = 0
                        /\ ~first_error[k]
    BY DEF Init, EngineInit, InProgress
  <1>3. \A t \in Tasks : cpc[t] \notin CreateAt
    BY <1>1, DispatcherAssumption DEF CreateAt
  <1>4. LoadsAreInOrder /\ EarlierLoadsComeFirst
    BY <1>1, <1>2, <1>3, Zenon DEF LoadsAreInOrder, EarlierLoadsComeFirst
  <1>5. RowsAreGiven
    BY <1>1, <1>2, <1>3, Zenon DEF RowsAreGiven, RowsAreTheLoads
  <1> QED
    BY <1>4, <1>5 DEF RowInv

\* The rows a load reports (TableMetadata.total_rows) are exactly those of its own
\* source stream: however the commands of other loads, of evictions and of
\* abandoned loads of the same epoch interleave in the channel, and whatever
\* threshold the buffer is flushed at, no row is lost, counted twice or taken from
\* another load, provided the control plane assigns only absent epochs.
THEOREM LoadsReportTheirRows ==
  ASSUME CpDisciplined
  PROVE  Spec => []RowsAreTheLoads
  <1>1. DispatcherTypeOK /\ EvictInv /\ [Next]_vars => EvictInv'
    BY EvictStep
  <1>2. DispatcherTypeOK /\ EvictInv /\ RowInv /\ [Next]_vars => RowInv'
    BY RowStep
  <1>3. RowInv => RowsAreTheLoads
    BY DEF RowInv, RowsAreGiven
  <1> QED
    BY <1>1, <1>2, <1>3, EvictInit, RowInit, DispatcherTypeCorrect, PTL DEF Spec

=============================================================================
