-------------------------- MODULE CpSession_proofs --------------------------
(***************************************************************************)
(* Proofs about CpSession, for any epochs, channel capacity, number of       *)
(* retries and number of messages.                                           *)
(***************************************************************************)
EXTENDS CpSession, TLAPS

Starting == {"connect", "open", "register", "awaitAck", "reconcile", "spawn"}

(***************************************************************************)
(* How the two tasks end.  They do not exist while start runs, which is what *)
(* publishes the other statuses.  A task that is past its select loop has    *)
(* seen or fired the token; and once the token is fired, either the status   *)
(* is Disconnected or the task that fired it is about to publish that.       *)
(***************************************************************************)
EndInv ==
  /\ main \in Starting => spc = "none" /\ rpc = "none"
  /\ spc \in {"closing", "draining", "done"} => cancel = TRUE
  /\ rpc \in {"closing", "done"} => cancel = TRUE
  /\ cancel = TRUE => \/ status = "Disconnected"
                      \/ spc = "closing"
                      \/ rpc = "closing"
  /\ status = "Disconnected" => cancel = TRUE
  /\ cancel = TRUE => spc # "none" \/ rpc # "none"
  /\ cancel \in BOOLEAN

\* What the steps that touch neither the tasks nor the status leave alone.
endVars == <<cancel, spc, rpc, status>>

\* The first state satisfies the invariant.
LEMMA EndInit == Init => EndInv
  BY Zenon DEF Init, EndInv, Starting

\* A step after which the tasks and the status are the same, and that does not
\* take main back into start.
LEMMA EndFrame ==
  ASSUME EndInv, UNCHANGED endVars, main' \in Starting => main \in Starting
  PROVE  EndInv'
  BY DEF EndInv, endVars

\* main's steps preserve the invariant; those of start happen before any task
\* can have fired the token.
LEMMA EndMain == EndInv /\ (MainStep \/ Interrupt) => EndInv'
  <1> SUFFICES ASSUME EndInv, MainStep \/ Interrupt PROVE EndInv'
    OBVIOUS
  <1>1. CASE SendRegister
    BY <1>1 DEF SendRegister, Publish, EndInv, Starting, taskVars
  <1>2. CASE GoActive
    BY <1>2 DEF GoActive, SpawnTasks, Publish, EndInv, Starting, taskVars, watchVars
  <1>3. CASE Connect \/ OpenStream \/ FirstMessage \/ HandshakeFails \/ Interrupt
    BY <1>3, EndFrame
    DEF Connect, OpenStream, FirstMessage, HandshakeFails, Interrupt, endVars, taskVars,
        watchVars, Starting
  <1>4. ASSUME NEW k \in Keys, Reconcile(k) PROVE EndInv'
    BY <1>4, EndFrame DEF Reconcile, endVars, taskVars, watchVars
  <1>5. CASE InitSender \/ StartFlight \/ StatusChanged
    BY <1>5, EndFrame
    DEF InitSender, StartFlight, StatusChanged, endVars, taskVars, watchVars, Starting
  <1> QED
    BY <1>1, <1>2, <1>3, <1>4, <1>5 DEF MainStep

\* The Receive Task's steps preserve the invariant.
LEMMA EndReceive == EndInv /\ ReceiveStep => EndInv'
  <1> SUFFICES ASSUME EndInv, ReceiveStep PROVE EndInv'
    OBVIOUS
  <1>1. CASE ReceiveCancelled
    BY <1>1 DEF ReceiveCancelled, EndInv, startVars, watchVars
  <1>2. CASE ResponseEnds
    BY <1>2 DEF ResponseEnds, EndInv, Starting, startVars, watchVars
  <1>3. CASE ReceivePublishes
    BY <1>3 DEF ReceivePublishes, Publish, EndInv, Starting, startVars
  <1>4. CASE HandleInbound
    BY <1>4 DEF HandleInbound, EndInv, Starting, startVars, watchVars
  <1>5. CASE InboundHandled
    BY <1>5 DEF InboundHandled, EndInv, Starting, startVars, watchVars
  <1> QED
    BY <1>1, <1>2, <1>3, <1>4, <1>5 DEF ReceiveStep

\* The Send Task's steps preserve the invariant.
LEMMA EndSend == EndInv /\ SendStep => EndInv'
  <1> SUFFICES ASSUME EndInv, SendStep PROVE EndInv'
    OBVIOUS
  <1>1. CASE SendCancelled
    BY <1>1 DEF SendCancelled, EndInv, startVars, watchVars
  <1>2. CASE Flush
    BY <1>2, EndFrame DEF Flush, startVars, watchVars, taskVars, endVars
  <1>3. CASE Flushed
    BY <1>3 DEF Flushed, EndInv, startVars, watchVars
  <1>4. CASE TakeUpdate \/ TakeHeartbeat
    BY <1>4 DEF TakeUpdate, TakeHeartbeat, EndInv, Starting, startVars, watchVars
  <1>5. CASE WriteProto
    BY <1>5 DEF WriteProto, EndInv, Starting, startVars, watchVars
  <1>6. CASE WriteFails
    BY <1>6 DEF WriteFails, EndInv, Starting, startVars, watchVars
  <1>7. CASE SendPublishes
    BY <1>7 DEF SendPublishes, Publish, EndInv, Starting, startVars
  <1> QED
    BY <1>1, <1>2, <1>3, <1>4, <1>5, <1>6, <1>7 DEF SendStep

\* Reporters, the stream and the control plane touch neither task.
LEMMA EndRest ==
  ASSUME \/ StreamStep
         \/ \E r \in Reporters : ReportStep(r)
         \/ \E k \in Keys : LoadStep(k)
         \/ UNCHANGED vars
  PROVE  UNCHANGED <<main, endVars>>
  <1> USE DEF startVars, watchVars, taskVars, endVars
  <1>1. CASE StreamStep
    BY <1>1 DEF StreamStep, CpSends, CpReads, RequestDies, ResponseDies
  <1>2. ASSUME NEW r \in Reporters, ReportStep(r) PROVE UNCHANGED <<main, endVars>>
    BY <1>2 DEF ReportStep, SkipReport, TrySend, TrySendFull, TrySendClosed
  <1>3. ASSUME NEW k \in Keys, LoadStep(k) PROVE UNCHANGED <<main, endVars>>
    BY <1>3 DEF LoadStep, LoadStarts, LoadEnds
  <1>4. CASE UNCHANGED vars
    BY <1>4 DEF vars
  <1> QED
    BY <1>1, <1>2, <1>3, <1>4

\* The invariant holds in every reachable state.
THEOREM EndInvariant == Spec => []EndInv
  <1>1. ASSUME EndInv, [Next]_vars PROVE EndInv'
    <2>1. CASE UNCHANGED <<main, endVars>>
      BY <1>1, <2>1, EndFrame
    <2> QED
      BY <1>1, <2>1, EndMain, EndReceive, EndSend, EndRest DEF Next
  <1> QED
    BY <1>1, EndInit, PTL DEF Spec

\* The two tasks never both end without Disconnected on the channel, in any
\* order of failures of the two halves of the stream.
THEOREM NoSilentEnd == Spec => []NeverSilentlyGone
  <1>1. EndInv => NeverSilentlyGone
    BY DEF EndInv, NeverSilentlyGone
  <1> QED
    BY <1>1, EndInvariant, PTL

\* No later value replaces Disconnected: start has published its own values
\* before a task exists that could fire the token.
THEOREM DisconnectedStays == Spec => DisconnectedIsFinal
  <1> DEFINE Stays == status = "Disconnected" => status' = "Disconnected"
  <1>1. ASSUME EndInv, [Next]_vars PROVE Stays
    <2> SUFFICES ASSUME status = "Disconnected" PROVE status' = "Disconnected"
      OBVIOUS
    <2>1. main \notin Starting
      BY <1>1 DEF EndInv
    <2>2. CASE MainStep \/ Interrupt
      BY <2>1, <2>2
      DEF MainStep, Interrupt, Connect, OpenStream, SendRegister, FirstMessage,
          HandshakeFails, Reconcile, GoActive, InitSender, StartFlight, StatusChanged,
          Starting, watchVars
    <2>3. CASE ReceiveStep
      BY <2>3
      DEF ReceiveStep, ReceiveCancelled, ResponseEnds, ReceivePublishes, HandleInbound,
          InboundHandled, Publish, watchVars
    <2>4. CASE SendStep
      BY <2>4
      DEF SendStep, SendCancelled, Flush, Flushed, TakeUpdate, TakeHeartbeat, WriteProto,
          WriteFails, SendPublishes, Publish, watchVars
    <2>5. CASE UNCHANGED <<main, endVars>>
      BY <2>5 DEF endVars
    <2> QED
      BY <1>1, <2>2, <2>3, <2>4, <2>5, EndRest DEF Next
  <1>2. [][Stays]_vars <=> DisconnectedIsFinal
    BY DEF DisconnectedIsFinal
  <1> HIDE DEF Stays
  <1> QED
    BY <1>1, <1>2, EndInvariant, PTL DEF Spec

-----------------------------------------------------------------------------
(***************************************************************************)
(* Reports in turn, along one channel.                                     *)
(***************************************************************************)

\* A channel that holds nothing of k.
LEMMA TurnNone ==
  ASSUME NEW q, NEW k, NEW lo, NEW hi, \A i \in DOMAIN q : q[i].key # k
  PROVE  InTurn(q, k, lo, hi)
  <1> DEFINE g == [i \in {i \in DOMAIN q : q[i].key = k} |-> lo]
  <1>1. {i \in DOMAIN q : q[i].key = k} = {}
    OBVIOUS
  <1>2. g \in [{i \in DOMAIN q : q[i].key = k} -> lo..(hi - 1)] /\ DOMAIN g = {}
    BY <1>1
  <1> QED
    BY <1>2 DEF InTurn

\* No turn is left between lo and lo: the channel holds nothing of k.
LEMMA TurnVoid ==
  ASSUME NEW q, NEW k, NEW lo \in Nat, InTurn(q, k, lo, lo)
  PROVE  \A i \in DOMAIN q : q[i].key # k
  BY DEF InTurn

\* More turns than needed do no harm.
LEMMA TurnWiden ==
  ASSUME NEW q, NEW k, NEW lo \in Nat, NEW hi \in Nat, InTurn(q, k, lo, hi),
         NEW l \in Nat, NEW h \in Nat, l <= lo, hi <= h
  PROVE  InTurn(q, k, l, h)
  <1>1. PICK g \in [{i \in DOMAIN q : q[i].key = k} -> lo..(hi - 1)] :
               /\ \A i \in DOMAIN g : Turn(k, q[i].status, g[i])
               /\ \A i, j \in DOMAIN g : i < j => g[i] < g[j]
    BY DEF InTurn
  <1>2. \A n \in lo..(hi - 1) : n \in l..(h - 1)
    OBVIOUS
  <1>3. g \in [{i \in DOMAIN q : q[i].key = k} -> l..(h - 1)]
    BY <1>2
  <1> QED
    BY <1>1, <1>3 DEF InTurn

\* One channel after the other.
LEMMA TurnConcat ==
  ASSUME NEW S, NEW p \in Seq(S), NEW q \in Seq(S), NEW k,
         NEW lo \in Nat, NEW mid \in Nat, NEW hi \in Nat, lo <= mid, mid <= hi,
         InTurn(p, k, lo, mid), InTurn(q, k, mid, hi)
  PROVE  InTurn(p \o q, k, lo, hi)
  <1> DEFINE Of(s) == {i \in DOMAIN s : s[i].key = k}
  <1>1. PICK f \in [Of(p) -> lo..(mid - 1)] :
               /\ \A i \in DOMAIN f : Turn(k, p[i].status, f[i])
               /\ \A i, j \in DOMAIN f : i < j => f[i] < f[j]
    BY DEF InTurn
  <1>2. PICK g \in [Of(q) -> mid..(hi - 1)] :
               /\ \A i \in DOMAIN g : Turn(k, q[i].status, g[i])
               /\ \A i, j \in DOMAIN g : i < j => g[i] < g[j]
    BY DEF InTurn
  <1>l. /\ Len(p) \in Nat /\ Len(q) \in Nat /\ DOMAIN p = 1..Len(p) /\ DOMAIN q = 1..Len(q)
        /\ DOMAIN (p \o q) = 1..(Len(p) + Len(q))
        /\ \A i \in 1..Len(p) : (p \o q)[i] = p[i]
        /\ \A i \in 1..(Len(p) + Len(q)) : i \notin 1..Len(p) =>
             i - Len(p) \in 1..Len(q) /\ (p \o q)[i] = q[i - Len(p)]
    OBVIOUS
  <1>d. /\ \A i \in Of(p \o q) : /\ i \in 1..Len(p) => i \in Of(p) /\ (p \o q)[i] = p[i]
                                 /\ i \notin 1..Len(p) => /\ i - Len(p) \in Of(q)
                                                          /\ (p \o q)[i] = q[i - Len(p)]
        /\ \A i \in Of(p \o q) : i \in Nat /\ i >= 1
    BY <1>l
  <1> DEFINE h == [i \in Of(p \o q) |-> IF i \in 1..Len(p) THEN f[i] ELSE g[i - Len(p)]]
  <1>f. \A i \in Of(p) : f[i] \in lo..(mid - 1) /\ f[i] \in lo..(hi - 1)
    BY <1>1
  <1>g. \A i \in Of(q) : g[i] \in mid..(hi - 1) /\ g[i] \in lo..(hi - 1)
    BY <1>2
  <1>3. h \in [Of(p \o q) -> lo..(hi - 1)]
    BY <1>d, <1>f, <1>g
  <1>4. \A i \in Of(p \o q) : Turn(k, (p \o q)[i].status, h[i])
    BY <1>1, <1>2, <1>d
  <1>5. ASSUME NEW i \in Of(p \o q), NEW j \in Of(p \o q), i < j
        PROVE  h[i] < h[j]
    <2>1. CASE i \in 1..Len(p) /\ j \in 1..Len(p)
      BY <1>1, <1>5, <1>d, <2>1
    <2>2. CASE i \in 1..Len(p) /\ j \notin 1..Len(p)
      <3>1. h[i] = f[i] /\ h[j] = g[j - Len(p)] /\ i \in Of(p) /\ j - Len(p) \in Of(q)
        BY <1>d, <2>2
      <3>2. f[i] \in lo..(mid - 1) /\ g[j - Len(p)] \in mid..(hi - 1)
        BY <1>f, <1>g, <3>1
      <3> QED
        BY <3>1, <3>2
    <2>3. CASE i \notin 1..Len(p) /\ j \notin 1..Len(p)
      <3>1. i - Len(p) \in Of(q) /\ j - Len(p) \in Of(q) /\ i - Len(p) < j - Len(p)
        BY <1>5, <1>d, <1>l, <2>3
      <3>2. g[i - Len(p)] < g[j - Len(p)]
        BY <1>2, <3>1
      <3> QED
        BY <2>3, <3>2
    <2>4. ~(i \notin 1..Len(p) /\ j \in 1..Len(p))
      BY <1>5, <1>d, <1>l
    <2> QED
      BY <2>1, <2>2, <2>3, <2>4
  <1> QED
    BY <1>3, <1>4, <1>5 DEF InTurn

\* A message that follows a channel in turn may be appended to it.
LEMMA TurnAppend ==
  ASSUME NEW S, NEW q \in Seq(S), NEW u \in S, NEW k,
         NEW lo \in Nat, NEW mid \in Nat, NEW hi \in Nat, lo <= mid, mid <= hi,
         InTurn(q, k, lo, mid), InTurn(<<u>>, k, mid, hi)
  PROVE  InTurn(Append(q, u), k, lo, hi)
  <1>1. Append(q, u) = q \o <<u>> /\ <<u>> \in Seq(S)
    OBVIOUS
  <1> QED
    BY <1>1, TurnConcat

\* The head of a channel takes some of its turns, and leaves it the others.
LEMMA TurnHead ==
  ASSUME NEW S, NEW q \in Seq(S), q # <<>>, NEW k,
         NEW lo \in Nat, NEW hi \in Nat, lo <= hi, InTurn(q, k, lo, hi)
  PROVE  \E r \in lo..hi : InTurn(<<Head(q)>>, k, lo, r) /\ InTurn(Tail(q), k, r, hi)
  <1> DEFINE Of(s) == {i \in DOMAIN s : s[i].key = k}
  <1>1. PICK g \in [Of(q) -> lo..(hi - 1)] :
               /\ \A i \in DOMAIN g : Turn(k, q[i].status, g[i])
               /\ \A i, j \in DOMAIN g : i < j => g[i] < g[j]
    BY DEF InTurn
  <1>l. /\ Len(q) \in Nat /\ DOMAIN q = 1..Len(q) /\ 1 \in 1..Len(q) /\ Head(q) = q[1]
        /\ DOMAIN Tail(q) = 1..(Len(q) - 1)
        /\ \A i \in DOMAIN Tail(q) : i + 1 \in 1..Len(q) /\ Tail(q)[i] = q[i + 1]
    OBVIOUS
  <1>t. \A i \in Of(Tail(q)) : /\ i \in Nat /\ i >= 1 /\ i + 1 \in Of(q)
                               /\ Tail(q)[i] = q[i + 1]
    BY <1>l
  <1>2. ASSUME NEW r \in lo..hi, \A i \in Of(Tail(q)) : g[i + 1] >= r
        PROVE  InTurn(Tail(q), k, r, hi)
    <2> DEFINE h == [i \in Of(Tail(q)) |-> g[i + 1]]
    <2>1. \A i \in Of(Tail(q)) : h[i] \in r..(hi - 1)
      <3> TAKE i \in Of(Tail(q))
      <3>1. g[i + 1] \in lo..(hi - 1) /\ g[i + 1] >= r
        BY <1>1, <1>2, <1>t
      <3> QED
        BY <3>1
    <2>2. \A i \in Of(Tail(q)) : Turn(k, Tail(q)[i].status, h[i])
      BY <1>1, <1>t
    <2>3. \A i, j \in Of(Tail(q)) : i < j => h[i] < h[j]
      BY <1>1, <1>t
    <2> QED
      BY <2>1, <2>2, <2>3 DEF InTurn
  <1>o. DOMAIN <<Head(q)>> = {1} /\ <<Head(q)>>[1] = q[1]
    BY <1>l
  <1>3. CASE q[1].key # k
    <2>1. InTurn(<<Head(q)>>, k, lo, lo)
      BY <1>3, <1>o, TurnNone
    <2>2. \A i \in Of(Tail(q)) : g[i + 1] >= lo
      BY <1>1, <1>t
    <2> QED
      BY <1>2, <2>1, <2>2
  <1>4. CASE q[1].key = k
    <2>1. 1 \in Of(q) /\ g[1] \in lo..(hi - 1)
      BY <1>1, <1>4, <1>l
    <2> DEFINE r == g[1] + 1
    <2>2. r \in lo..hi
      BY <2>1
    <2>3. \A i \in Of(Tail(q)) : g[i + 1] >= r
      <3> TAKE i \in Of(Tail(q))
      <3>1. g[1] < g[i + 1] /\ g[i + 1] \in lo..(hi - 1)
        BY <1>1, <1>t, <2>1
      <3> QED
        BY <2>1, <3>1
    <2>4. InTurn(<<Head(q)>>, k, lo, r)
      <3> DEFINE f == [i \in {1} |-> g[1]]
      <3>1. Of(<<Head(q)>>) = {1}
        BY <1>4, <1>o
      <3>2. f \in [Of(<<Head(q)>>) -> lo..(r - 1)]
        BY <2>1, <3>1
      <3>3. Turn(k, q[1].status, g[1])
        BY <1>1, <2>1
      <3>4. /\ \A i \in DOMAIN f : Turn(k, <<Head(q)>>[i].status, f[i])
            /\ \A i, j \in DOMAIN f : i < j => f[i] < f[j]
        BY <1>o, <3>3
      <3> HIDE DEF f, Of
      <3>5. Of(<<Head(q)>>) = {i \in DOMAIN <<Head(q)>> : <<Head(q)>>[i].key = k}
        BY DEF Of
      <3> QED
        BY <3>2, <3>4, <3>5 DEF InTurn
    <2> QED
      BY <1>2, <2>2, <2>3, <2>4
  <1> QED
    BY <1>3, <1>4

-----------------------------------------------------------------------------
(***************************************************************************)
(* Type correctness.  The registration is the first message of the stream,   *)
(* which is why it always finds room.                                        *)
(***************************************************************************)

SessionInv ==
  /\ SessionTypeOK
  /\ main \in {"connect", "open", "register"} => grpc = <<>>
  /\ main # "reconcile" => todo = {}
  /\ todo \subseteq Loaded
  /\ sender => main \in {"flight", "loop", "exited"}
  /\ spc = "write" <=> smsg # NoUpdate

\* The messages of the model are told apart by their key.
LEMMA MessageTypes ==
  /\ \A u \in Updates : u.key \in Keys /\ u.status \in LoadStatus
  /\ \A k \in Keys, st \in LoadStatus :
       Update(k, st) \in Updates /\ Update(k, st).key = k /\ Update(k, st).status = st
  /\ NoUpdate.key = Receiver /\ Heartbeat.key = Receiver /\ Register.key = Receiver
  /\ Receiver \notin Keys
  /\ Updates \subseteq Outgoing /\ Heartbeat \in Outgoing /\ Register \in Outgoing
  /\ \A u \in Outgoing : u \notin Updates => u.key = Receiver
  /\ NoUpdate \notin Updates /\ NoUpdate # Heartbeat
  BY SessionAssumption
     DEF Updates, Update, LoadStatus, NoUpdate, Heartbeat, Register, Outgoing

\* Assignments name epochs.
LEMMA InboundTypes ==
  \A msg \in Inbound : msg.type = "assign" => msg.key \in Keys
  BY DEF Inbound

\* The types and the room for the registration hold at the start.
LEMMA SessionInit == Init => SessionInv
  <1> SUFFICES ASSUME Init PROVE SessionInv
    OBVIOUS
  <1>1. Loaded \subseteq Keys /\ Capacity \in Nat /\ RetryCount \in Nat \ {0} /\ MaxInbound \in Nat
    BY SessionAssumption
  <1>2. /\ load \in [Keys -> {"none", "queued", "started", "ending"}]
        /\ report \in [Reporters -> Updates \cup {NoUpdate}]
        /\ attempt \in [Reporters -> 0..(RetryCount - 1)]
        /\ inbound \in 0..MaxInbound
    BY <1>1 DEF Init
  <1>3. /\ out \in Seq(Updates) /\ Len(out) <= Capacity
        /\ grpc \in Seq(Outgoing) /\ Len(grpc) <= Capacity
        /\ inbox \in Seq(Inbound) /\ wire \in Seq(Updates)
    BY <1>1 DEF Init
  <1> QED
    BY <1>2, <1>3 DEF Init, SessionInv, SessionTypeOK

\* main's steps.
LEMMA SessionMain ==
  ASSUME SessionInv, EndInv, MainStep \/ Interrupt
  PROVE  SessionInv'
  <1> USE DEF startVars, watchVars, taskVars, reportVars, streamVars
  <1>t. /\ grpc \in Seq(Outgoing) /\ inbox \in Seq(Inbound) /\ Capacity \in Nat \ {0}
        /\ Loaded \subseteq Keys
    BY SessionAssumption DEF SessionInv, SessionTypeOK
  <1>1. CASE SendRegister
    <2>1. grpc' \in Seq(Outgoing) /\ Len(grpc') <= Capacity
      <3>1. Len(grpc) = 0
        BY <1>1 DEF SendRegister, SessionInv
      <3>2. grpc' = grpc \/ grpc' = Append(grpc, Register)
        BY <1>1 DEF SendRegister
      <3>3. Register \in Outgoing
        BY MessageTypes
      <3>4. Append(grpc, Register) \in Seq(Outgoing) /\ Len(Append(grpc, Register)) = 1
        BY <1>t, <3>1, <3>3
      <3>5. 0 <= Capacity /\ 1 <= Capacity
        BY <1>t
      <3> QED
        BY <1>t, <3>1, <3>2, <3>4, <3>5
    <2> QED
      BY <1>1, <2>1 DEF SendRegister, Publish, SessionInv, SessionTypeOK
  <1>2. CASE FirstMessage
    <2>1. inbox' \in Seq(Inbound)
      BY <1>t, <1>2 DEF FirstMessage
    <2> QED
      BY <1>t, <1>2, <2>1 DEF FirstMessage, SessionInv, SessionTypeOK
  <1>3. ASSUME NEW k \in Keys, Reconcile(k) PROVE SessionInv'
    <2>1. grpc' \in Seq(Outgoing) /\ Len(grpc') <= Capacity
      <3>1. \/ grpc' = grpc
            \/ grpc' = Append(grpc, Update(k, "Completed")) /\ Len(grpc) < Capacity
        BY <1>3 DEF Reconcile
      <3>2. Update(k, "Completed") \in Outgoing /\ Len(grpc) <= Capacity
        BY MessageTypes DEF LoadStatus, SessionInv, SessionTypeOK
      <3> QED
        BY <1>t, <3>1, <3>2
    <2> QED
      BY <1>3, <2>1 DEF Reconcile, SessionInv, SessionTypeOK
  <1>4. CASE GoActive
    <2>1. CASE main = "reconcile"
      BY <1>4, <2>1 DEF GoActive, Publish, SessionInv, SessionTypeOK
    <2>2. CASE main = "spawn"
      <3>1. smsg = NoUpdate
        BY <2>2 DEF EndInv, Starting, SessionInv
      <3> QED
        BY <1>4, <2>2, <3>1 DEF GoActive, SpawnTasks, SessionInv, SessionTypeOK
    <2> QED
      BY <1>4, <2>1, <2>2 DEF GoActive
  <1>5. CASE Connect \/ OpenStream \/ HandshakeFails \/ Interrupt
    <2>1. /\ main' \in {"open", "register", "exited"}
          /\ main' = "open" => main = "connect"
          /\ main' = "register" => main = "open"
          /\ main # "reconcile"
          /\ UNCHANGED <<todo, sender, watchVars, taskVars, reportVars, streamVars>>
      BY <1>5 DEF Connect, OpenStream, HandshakeFails, Interrupt
    <2> QED
      BY <2>1 DEF SessionInv, SessionTypeOK
  <1>6. CASE InitSender
    BY <1>6 DEF InitSender, SessionInv, SessionTypeOK
  <1>7. CASE StartFlight \/ StatusChanged
    <2>1. /\ main \in {"flight", "loop"} /\ main' \in {"loop", "exited"}
          /\ unseen' = unseen \/ unseen' = FALSE
          /\ UNCHANGED <<todo, sender, status, taskVars, reportVars, streamVars>>
      BY <1>7 DEF StartFlight, StatusReceiver, StatusChanged
    <2>2. unseen' \in BOOLEAN
      BY <2>1, Zenon DEF SessionInv, SessionTypeOK
    <2> QED
      BY <2>1, <2>2 DEF SessionInv, SessionTypeOK
  <1> QED
    BY <1>1, <1>2, <1>3, <1>4, <1>5, <1>6, <1>7 DEF MainStep

\* The Receive Task's steps.
LEMMA SessionReceive ==
  ASSUME SessionInv, ReceiveStep
  PROVE  SessionInv'
  <1> USE DEF startVars, watchVars, taskVars, reportVars, streamVars
  <1>1. CASE HandleInbound
    <2>t. /\ inbox \in Seq(Inbound) /\ inbox # <<>>
          /\ load \in [Keys -> {"none", "queued", "started", "ending"}]
          /\ report \in [Reporters -> Updates \cup {NoUpdate}]
      BY <1>1 DEF SessionInv, SessionTypeOK, HandleInbound
    <2>1. inbox' \in Seq(Inbound) /\ Head(inbox) \in Inbound
      BY <1>1, <2>t DEF HandleInbound
    <2>2. /\ load' \in [Keys -> {"none", "queued", "started", "ending"}]
          /\ report' \in [Reporters -> Updates \cup {NoUpdate}]
      <3>1. CASE Head(inbox).type = "assign"
        <4>1. Head(inbox).key \in Keys /\ HandleAssignment(Head(inbox).key)
          BY <1>1, <2>1, <3>1, InboundTypes DEF HandleInbound
        <4>2. Update(Head(inbox).key, "Failed") \in Updates /\ Receiver \in Reporters
          BY <4>1, MessageTypes DEF LoadStatus, Reporters
        <4> QED
          BY <2>t, <4>1, <4>2 DEF HandleAssignment, StartsReport
      <3>2. CASE Head(inbox).type # "assign"
        BY <1>1, <2>t, <3>2 DEF HandleInbound
      <3> QED
        BY <3>1, <3>2
    <2> QED
      BY <1>1, <2>1, <2>2 DEF HandleInbound, SessionInv, SessionTypeOK
  <1>2. CASE ReceiveCancelled \/ InboundHandled
    BY <1>2 DEF ReceiveCancelled, InboundHandled, SessionInv, SessionTypeOK
  <1>3. CASE ResponseEnds
    BY <1>3 DEF ResponseEnds, SessionInv, SessionTypeOK
  <1>4. CASE ReceivePublishes
    BY <1>4 DEF ReceivePublishes, Publish, SessionInv, SessionTypeOK
  <1> QED
    BY <1>1, <1>2, <1>3, <1>4 DEF ReceiveStep


\* The Send Task's steps.
LEMMA SessionSend ==
  ASSUME SessionInv, EndInv, SendStep
  PROVE  SessionInv'
  <1> USE DEF startVars, watchVars, taskVars, reportVars, streamVars
  <1>t. /\ grpc \in Seq(Outgoing) /\ out \in Seq(Updates) /\ Capacity \in Nat
        /\ Len(grpc) <= Capacity /\ Len(out) <= Capacity
    BY SessionAssumption DEF SessionInv, SessionTypeOK
  <1>m. spc # "none" => main \notin {"connect", "open", "register"}
    BY DEF EndInv, Starting
  <1>h. out # <<>> => /\ Head(out) \in Updates /\ Tail(out) \in Seq(Updates)
                      /\ Len(Tail(out)) <= Capacity
    BY <1>t
  <1>a. ASSUME NEW u \in Outgoing, Len(grpc) < Capacity
        PROVE  Append(grpc, u) \in Seq(Outgoing) /\ Len(Append(grpc, u)) <= Capacity
    BY <1>t, <1>a
  <1>1. CASE Flush
    <2>1. grpc' \in Seq(Outgoing) /\ Len(grpc') <= Capacity
      BY <1>t, <1>h, <1>a, <1>1, MessageTypes DEF Flush
    <2>2. out' \in Seq(Updates) /\ Len(out') <= Capacity
      BY <1>h, <1>1 DEF Flush
    <2> QED
      BY <1>1, <1>m, <2>1, <2>2 DEF Flush, SessionInv, SessionTypeOK
  <1>2. CASE TakeUpdate
    <2>1. /\ out' \in Seq(Updates) /\ Len(out') <= Capacity
          /\ smsg' \in Updates \cup {Heartbeat, NoUpdate}
      BY <1>h, <1>2 DEF TakeUpdate
    <2>2. smsg' # NoUpdate
      BY <1>h, <1>2, MessageTypes DEF TakeUpdate
    <2> QED
      BY <1>2, <2>1, <2>2 DEF TakeUpdate, SessionInv, SessionTypeOK
  <1>3. CASE TakeHeartbeat
    <2>1. smsg' = Heartbeat /\ Heartbeat # NoUpdate
      BY <1>3, MessageTypes DEF TakeHeartbeat
    <2> QED
      BY <1>3, <2>1 DEF TakeHeartbeat, SessionInv, SessionTypeOK
  <1>4. CASE WriteProto
    <2>1. smsg \in Updates \cup {Heartbeat, NoUpdate} /\ smsg # NoUpdate
      BY <1>4 DEF WriteProto, SessionInv, SessionTypeOK
    <2>2. smsg \in Outgoing
      BY <2>1, MessageTypes
    <2>3. grpc' \in Seq(Outgoing) /\ Len(grpc') <= Capacity
      BY <1>a, <1>4, <2>2 DEF WriteProto
    <2> QED
      BY <1>4, <1>m, <2>3 DEF WriteProto, SessionInv, SessionTypeOK
  <1>5. CASE SendCancelled \/ Flushed
    BY <1>5 DEF SendCancelled, Flushed, SessionInv, SessionTypeOK
  <1>6. CASE WriteFails
    BY <1>6 DEF WriteFails, SessionInv, SessionTypeOK
  <1>7. CASE SendPublishes
    BY <1>7 DEF SendPublishes, Publish, SessionInv, SessionTypeOK
  <1> QED
    BY <1>1, <1>2, <1>3, <1>4, <1>5, <1>6, <1>7 DEF SendStep

\* The stream and the control plane.
LEMMA SessionStream ==
  ASSUME SessionInv, StreamStep
  PROVE  SessionInv'
  <1> USE DEF startVars, watchVars, taskVars, reportVars, streamVars
  <1>t. /\ grpc \in Seq(Outgoing) /\ wire \in Seq(Updates) /\ inbox \in Seq(Inbound)
        /\ Len(grpc) <= Capacity /\ Capacity \in Nat
        /\ inbound \in 0..MaxInbound /\ MaxInbound \in Nat
    BY SessionAssumption DEF SessionInv, SessionTypeOK
  <1>1. ASSUME NEW msg \in Inbound, CpSends(msg) PROVE SessionInv'
    <2>1. inbox' \in Seq(Inbound) /\ inbound' \in 0..MaxInbound
      BY <1>t, <1>1 DEF CpSends
    <2> QED
      BY <1>1, <2>1 DEF CpSends, SessionInv, SessionTypeOK
  <1>2. CASE CpReads
    <2>1. grpc' \in Seq(Outgoing) /\ Len(grpc') <= Capacity /\ wire' \in Seq(Updates)
      BY <1>t, <1>2 DEF CpReads
    <2>2. main \notin {"connect", "open", "register"}
      BY <1>2 DEF CpReads, SessionInv
    <2> QED
      BY <1>2, <2>1, <2>2 DEF CpReads, SessionInv, SessionTypeOK
  <1>3. CASE RequestDies
    <2>1. grpc' \in Seq(Outgoing) /\ Len(grpc') <= Capacity
      BY <1>t, <1>3 DEF RequestDies
    <2>2. reqUp' \in BOOLEAN
      BY <1>3, Zenon DEF RequestDies
    <2>3. UNCHANGED <<startVars, watchVars, taskVars, reportVars, respUp, inbox, inbound, wire>>
      BY <1>3 DEF RequestDies
    <2>4. SessionTypeOK'
      BY <2>1, <2>2, <2>3 DEF SessionInv, SessionTypeOK
    <2>5. grpc' = <<>>
      BY <1>3 DEF RequestDies
    <2> QED
      BY <2>3, <2>4, <2>5 DEF SessionInv
  <1>4. CASE ResponseDies
    <2>1. inbox' \in Seq(Inbound)
      <3>1. inbox' \in {inbox, <<>>}
        BY <1>4, Zenon DEF ResponseDies
      <3>2. <<>> \in Seq(Inbound)
        OBVIOUS
      <3> QED
        BY <1>t, <3>1, <3>2, Zenon
    <2>2. respUp' \in BOOLEAN
      BY <1>4, Zenon DEF ResponseDies
    <2>3. UNCHANGED <<startVars, watchVars, taskVars, reportVars, grpc, reqUp, inbound, wire>>
      BY <1>4, Zenon DEF ResponseDies
    <2> QED
      BY <2>1, <2>2, <2>3 DEF SessionInv, SessionTypeOK
  <1> QED
    BY <1>1, <1>2, <1>3, <1>4 DEF StreamStep

\* The reporters and the load tasks.
LEMMA SessionReports ==
  ASSUME SessionInv,
         (\E r \in Reporters : ReportStep(r)) \/ (\E k \in Keys : LoadStep(k))
  PROVE  SessionInv'
  <1> USE DEF startVars, watchVars, taskVars, reportVars, streamVars
  <1>t. /\ out \in Seq(Updates) /\ Len(out) <= Capacity /\ Capacity \in Nat
        /\ load \in [Keys -> {"none", "queued", "started", "ending"}]
        /\ report \in [Reporters -> Updates \cup {NoUpdate}]
        /\ attempt \in [Reporters -> 0..(RetryCount - 1)] /\ RetryCount \in Nat \ {0}
    BY SessionAssumption DEF SessionInv, SessionTypeOK
  <1>1. ASSUME /\ report' \in [Reporters -> Updates \cup {NoUpdate}]
               /\ attempt' \in [Reporters -> 0..(RetryCount - 1)]
               /\ load' \in [Keys -> {"none", "queued", "started", "ending"}]
               /\ out' \in Seq(Updates) /\ Len(out') <= Capacity
               /\ UNCHANGED <<startVars, watchVars, taskVars, streamVars>>
        PROVE  SessionInv'
    BY <1>1 DEF SessionInv, SessionTypeOK
  <1>2. ASSUME NEW r \in Reporters, ReportDone(r)
        PROVE  /\ report' \in [Reporters -> Updates \cup {NoUpdate}]
               /\ attempt' \in [Reporters -> 0..(RetryCount - 1)]
    BY <1>t, <1>2 DEF ReportDone
  <1>3. ASSUME NEW r \in Reporters, SkipReport(r) \/ TrySendClosed(r) PROVE SessionInv'
    BY <1>t, <1>1, <1>2, <1>3 DEF SkipReport, TrySendClosed
  <1>4. ASSUME NEW r \in Reporters, TrySend(r) PROVE SessionInv'
    <2>1. report[r] \in Updates /\ Len(out) < Capacity
      BY <1>t, <1>4 DEF TrySend, Reporting
    <2>2. out' \in Seq(Updates) /\ Len(out') <= Capacity
      BY <1>t, <1>4, <2>1 DEF TrySend, Enqueued
    <2> QED
      BY <1>t, <1>1, <1>2, <1>4, <2>2 DEF TrySend, Enqueued
  <1>5. ASSUME NEW r \in Reporters, TrySendFull(r) PROVE SessionInv'
    <2>1. /\ report' \in [Reporters -> Updates \cup {NoUpdate}]
          /\ attempt' \in [Reporters -> 0..(RetryCount - 1)]
      <3>1. CASE RetriesLeft(r)
        <4>1. attempt[r] + 1 \in 0..(RetryCount - 1)
          BY <1>t, <3>1 DEF RetriesLeft
        <4> QED
          BY <1>t, <1>5, <3>1, <4>1 DEF TrySendFull
      <3>2. CASE ~RetriesLeft(r)
        BY <1>2, <1>5, <3>2 DEF TrySendFull
      <3> QED
        BY <3>1, <3>2
    <2> QED
      BY <1>t, <1>1, <1>5, <2>1 DEF TrySendFull
  <1>6. ASSUME NEW k \in Keys, LoadStep(k) PROVE SessionInv'
    <2>1. /\ k \in Reporters
          /\ \A st \in LoadStatus : Update(k, st) \in Updates
      BY MessageTypes DEF Reporters
    <2>2. /\ report' \in [Reporters -> Updates \cup {NoUpdate}]
          /\ load' \in [Keys -> {"none", "queued", "started", "ending"}]
      <3>1. CASE LoadStarts(k)
        BY <1>t, <2>1, <3>1 DEF LoadStarts, StartsReport, LoadStatus
      <3>2. CASE LoadEnds(k)
        BY <1>t, <2>1, <3>2 DEF LoadEnds, StartsReport, LoadStatus
      <3> QED
        BY <1>6, <3>1, <3>2 DEF LoadStep
    <2> QED
      BY <1>t, <1>1, <1>6, <2>2 DEF LoadStep, LoadStarts, LoadEnds
  <1> QED
    BY <1>3, <1>4, <1>5, <1>6 DEF ReportStep

\* Every step of the session keeps SessionInv.
LEMMA SessionStep ==
  ASSUME SessionInv, EndInv, [Next]_vars
  PROVE  SessionInv'
  <1>1. CASE UNCHANGED vars
    BY <1>1 DEF vars, startVars, watchVars, taskVars, reportVars, streamVars,
                SessionInv, SessionTypeOK
  <1> QED
    BY <1>1, SessionMain, SessionReceive, SessionSend, SessionStream, SessionReports DEF Next

\* Every variable of the session keeps its type; in particular neither channel
\* ever holds more than its capacity, and no reporter exceeds its retries.
THEOREM SessionTypeCorrect == Spec => []SessionTypeOK
  <1>1. SessionInv /\ EndInv /\ [Next]_vars => SessionInv'
    BY SessionStep
  <1>2. SessionInv => SessionTypeOK
    BY DEF SessionInv
  <1> QED
    BY <1>1, <1>2, SessionInit, EndInvariant, PTL DEF Spec

-----------------------------------------------------------------------------
(***************************************************************************)
(* Reports in order.  The channels of the path divide the turns of an epoch  *)
(* among them, the oldest first, and what has still to be reported of it     *)
(* comes after them all.                                                     *)
(***************************************************************************)

\* An assignment is in the inbox once, and its load has not begun.
InboxInv ==
  \A i \in DOMAIN inbox : inbox[i].type = "assign" =>
    /\ load[inbox[i].key] = "none"
    /\ \A j \in DOMAIN inbox : inbox[j] = inbox[i] => j = i

\* What a reporter is sending is of the turn its load is in, and only one of
\* them is sending for it.
SendingInv ==
  \A k \in Keys :
    /\ report[k] # NoUpdate =>
         /\ report[k].key = k
         /\ \/ load[k] = "started" /\ report[k].status = "InProgress"
            \/ load[k] = "ending" /\ report[k].status \in {"Completed", "Failed"}
    /\ report[Receiver].key = k =>
         load[k] = "ending" /\ report[k] = NoUpdate /\ report[Receiver].status = "Failed"

\* The first turn that may still be reported of k, by its load and by main.
LoadTurn(k) ==
  IF load[k] \in {"none", "queued"} \/ (load[k] = "started" /\ report[k] # NoUpdate) THEN 2
  ELSE IF load[k] = "started" \/ report[k] # NoUpdate \/ report[Receiver].key = k THEN 3
  ELSE 4

Greeting == {"connect", "open", "register", "awaitAck"}
NextTurn(k) == IF main \in Greeting \/ k \in todo THEN 1 ELSE LoadTurn(k)

\* The turns of k in the four parts of the path.
Turns(k, a, b, c, d) ==
  /\ 1 <= a /\ a <= b /\ b <= c /\ c <= d /\ d <= NextTurn(k)
  /\ InTurn(wire, k, 1, a) /\ InTurn(grpc, k, a, b) /\ InTurn(<<smsg>>, k, b, c)
  /\ InTurn(out, k, c, d)

TurnInv == \A k \in Keys : \E a, b, c, d \in Nat : Turns(k, a, b, c, d)

\* The whole path is in turn when its parts are.
LEMMA PathInTurn ==
  ASSUME SessionTypeOK, TurnInv
  PROVE  ReportsInOrder
  <1> SUFFICES ASSUME NEW k \in Keys PROVE InTurn(Path, k, 1, 4)
    BY DEF ReportsInOrder
  <1> DEFINE S == Outgoing \cup {NoUpdate}
  <1>1. wire \in Seq(S) /\ grpc \in Seq(S) /\ <<smsg>> \in Seq(S) /\ out \in Seq(S)
    <2>1. Updates \subseteq S /\ Outgoing \subseteq S /\ Heartbeat \in S /\ NoUpdate \in S
      BY MessageTypes
    <2>2. /\ wire \in Seq(Updates) /\ grpc \in Seq(Outgoing) /\ out \in Seq(Updates)
          /\ smsg \in Updates \cup {Heartbeat, NoUpdate}
      BY DEF SessionTypeOK
    <2>3. smsg \in S
      BY <2>1, <2>2
    <2> HIDE DEF S
    <2> QED
      BY <2>1, <2>2, <2>3
  <1> HIDE DEF S
  <1>2. PICK a, b, c, d \in Nat : Turns(k, a, b, c, d)
    BY DEF TurnInv
  <1>3. /\ 1 <= a /\ a <= b /\ b <= c /\ c <= d /\ d <= NextTurn(k)
        /\ InTurn(wire, k, 1, a) /\ InTurn(grpc, k, a, b) /\ InTurn(<<smsg>>, k, b, c)
        /\ InTurn(out, k, c, d)
    BY <1>2 DEF Turns
  <1>4. 1 \in Nat /\ 4 \in Nat /\ 1 <= b /\ 1 <= c /\ 1 <= 1 /\ d <= 4
    BY <1>3 DEF NextTurn, LoadTurn
  <1>5. InTurn(wire \o grpc, k, 1, b)
    BY <1>1, <1>3, <1>4, TurnConcat, Zenon
  <1>6. wire \o grpc \in Seq(S)
    BY <1>1
  <1>7. InTurn(wire \o grpc \o <<smsg>>, k, 1, c)
    BY <1>1, <1>3, <1>4, <1>5, <1>6, TurnConcat, Zenon
  <1>8. wire \o grpc \o <<smsg>> \in Seq(S)
    BY <1>1, <1>6
  <1>9. InTurn(wire \o grpc \o <<smsg>> \o out, k, 1, d)
    BY <1>1, <1>3, <1>4, <1>7, <1>8, TurnConcat, Zenon
  <1> QED
    BY <1>4, <1>9, TurnWiden, Zenon DEF Path

\* The inbox loses its first message, or all of them, or keeps them.
LEMMA InboxTail ==
  ASSUME InboxInv, inbox \in Seq(Inbound), inbox # <<>>, inbox' = Tail(inbox),
         \A k \in Keys : \/ load'[k] = load[k]
                         \/ Head(inbox).type = "assign" /\ k = Head(inbox).key
  PROVE  InboxInv'
  <1> SUFFICES ASSUME NEW i \in DOMAIN inbox', inbox'[i].type = "assign"
               PROVE  /\ load'[inbox'[i].key] = "none"
                      /\ \A j \in DOMAIN inbox' : inbox'[j] = inbox'[i] => j = i
    BY DEF InboxInv
  <1>1. /\ \A j \in DOMAIN inbox' : j \in Nat /\ j + 1 \in DOMAIN inbox /\ inbox'[j] = inbox[j + 1]
        /\ 1 \in DOMAIN inbox /\ Head(inbox) = inbox[1] /\ i + 1 # 1
    OBVIOUS
  <1>2. \A j \in DOMAIN inbox : inbox[j] = inbox[i + 1] => j = i + 1
    BY <1>1 DEF InboxInv
  <1>3. load[inbox'[i].key] = "none"
    BY <1>1 DEF InboxInv
  <1>4. inbox'[i] \in Inbound /\ Head(inbox) \in Inbound /\ inbox'[i] # Head(inbox)
    BY <1>1, <1>2
  <1>5. inbox'[i].key \in Keys
    BY <1>4, InboundTypes
  <1>6. ~(Head(inbox).type = "assign" /\ inbox'[i].key = Head(inbox).key)
    BY <1>4 DEF Inbound
  <1> QED
    BY <1>1, <1>2, <1>3, <1>5, <1>6

\* A step that leaves the inbox alone and forgets no load keeps InboxInv.
LEMMA InboxFrame ==
  ASSUME InboxInv, inbox \in Seq(Inbound), inbox' = inbox,
         \A k \in Keys : load[k] = "none" => load'[k] = "none"
  PROVE  InboxInv'
  <1>1. \A i \in DOMAIN inbox : inbox[i].type = "assign" => inbox[i].key \in Keys
    BY InboundTypes
  <1> QED
    BY <1>1 DEF InboxInv

\* An assignment is never made again: InboxInv is inductive.
LEMMA InboxStep ==
  ASSUME SessionInv, InboxInv, [Next]_vars
  PROVE  InboxInv'
  <1> USE DEF startVars, watchVars, taskVars, reportVars, streamVars
  <1>t. /\ inbox \in Seq(Inbound)
        /\ load \in [Keys -> {"none", "queued", "started", "ending"}]
    BY DEF SessionInv, SessionTypeOK
  <1>1. CASE UNCHANGED <<inbox, load>>
    BY <1>t, <1>1, InboxFrame
  <1>2. CASE FirstMessage
    BY <1>t, <1>2, InboxTail DEF FirstMessage
  <1>3. CASE HandleInbound
    <2>1. inbox # <<>> /\ inbox' = Tail(inbox)
      BY <1>3 DEF HandleInbound
    <2>2. \A k \in Keys : \/ load'[k] = load[k]
                          \/ Head(inbox).type = "assign" /\ k = Head(inbox).key
      BY <1>t, <1>3 DEF HandleInbound, HandleAssignment
    <2> QED
      BY <1>t, <2>1, <2>2, InboxTail
  <1>4. ASSUME NEW k \in Keys, LoadStep(k) PROVE InboxInv'
    <2>1. inbox' = inbox /\ \A l \in Keys : load[l] = "none" => load'[l] = "none"
      BY <1>t, <1>4 DEF LoadStep, LoadStarts, LoadEnds
    <2> QED
      BY <1>t, <2>1, InboxFrame
  <1>5. ASSUME NEW msg \in Inbound, CpSends(msg) PROVE InboxInv'
    <2>1. /\ inbox' = Append(inbox, msg) /\ load' = load
          /\ msg.type = "assign" => load[msg.key] = "none" /\ msg \notin ToSet(inbox)
      BY <1>5 DEF CpSends
    <2>2. msg.type = "assign" => \A i \in DOMAIN inbox : inbox[i] # msg
      BY <2>1 DEF ToSet
    <2>3. /\ DOMAIN inbox' = DOMAIN inbox \cup {Len(inbox) + 1}
          /\ inbox'[Len(inbox) + 1] = msg
          /\ \A i \in DOMAIN inbox : inbox'[i] = inbox[i] /\ i # Len(inbox) + 1
      BY <1>t, <2>1
    <2> QED
      BY <2>1, <2>2, <2>3 DEF InboxInv
  <1>6. CASE ResponseDies
    <2>1. load' = load /\ (inbox' = inbox \/ inbox' = <<>>)
      BY <1>6, Zenon DEF ResponseDies
    <2>2. CASE inbox' = <<>>
      BY <2>2 DEF InboxInv
    <2> QED
      BY <1>1, <2>1, <2>2
  <1>7. UNCHANGED <<inbox, load>> \/ FirstMessage \/ HandleInbound \/ ResponseDies
          \/ (\E k \in Keys : LoadStep(k)) \/ (\E msg \in Inbound : CpSends(msg))
    <2>1. CASE MainStep \/ Interrupt
      BY <2>1 DEF MainStep, Interrupt, Connect, OpenStream, SendRegister, HandshakeFails,
                  Reconcile, GoActive, InitSender, StartFlight, StatusChanged
    <2>2. CASE ReceiveStep
      BY <2>2 DEF ReceiveStep, ReceiveCancelled, ResponseEnds, ReceivePublishes, InboundHandled
    <2>3. CASE SendStep
      BY <2>3 DEF SendStep, SendCancelled, Flush, Flushed, TakeUpdate, TakeHeartbeat,
                  WriteProto, WriteFails, SendPublishes
    <2>4. CASE StreamStep
      BY <2>4 DEF StreamStep, CpReads, RequestDies
    <2>5. CASE \E r \in Reporters : ReportStep(r)
      BY <2>5 DEF ReportStep, SkipReport, TrySend, TrySendFull, TrySendClosed
    <2>6. CASE UNCHANGED vars
      BY <2>6 DEF vars
    <2> QED
      BY <2>1, <2>2, <2>3, <2>4, <2>5, <2>6 DEF Next
  <1> QED
    BY <1>1, <1>2, <1>3, <1>4, <1>5, <1>6, <1>7


\* A reporter that is done.
LEMMA DoneReport ==
  ASSUME SessionInv, SendingInv, NEW r \in Reporters, ReportDone(r), load' = load
  PROVE  SendingInv' /\ \A k \in Keys : LoadTurn(k) <= LoadTurn(k)'
  <1>t. /\ load \in [Keys -> {"none", "queued", "started", "ending"}]
        /\ report \in [Reporters -> Updates \cup {NoUpdate}]
    BY DEF SessionInv, SessionTypeOK
  <1>m. NoUpdate.key = Receiver /\ Receiver \notin Keys
    BY MessageTypes
  <1>1. \A x \in Reporters : report'[x] = IF x = r THEN NoUpdate ELSE report[x]
    BY <1>t DEF ReportDone
  <1>2. Receiver \in Reporters /\ Keys \subseteq Reporters
    BY DEF Reporters
  <1>3. SendingInv'
    BY <1>m, <1>1, <1>2 DEF SendingInv
  <1>4. ASSUME NEW k \in Keys PROVE LoadTurn(k) <= LoadTurn(k)'
    <2>1. load'[k] = load[k] /\ load[k] \in {"none", "queued", "started", "ending"}
      BY <1>t
    <2>2. CASE report'[k] = report[k] /\ report'[Receiver] = report[Receiver]
      BY <2>1, <2>2 DEF LoadTurn
    <2>3. CASE r = k
      <3>1. report'[k] = NoUpdate /\ report'[Receiver] = report[Receiver]
        BY <1>m, <1>1, <1>2, <2>3
      <3> QED
        BY <2>1, <3>1 DEF LoadTurn
    <2>4. CASE r = Receiver
      <3>1. report'[k] = report[k] /\ report'[Receiver].key # k
        BY <1>m, <1>1, <1>2, <2>4
      <3> QED
        BY <2>1, <3>1 DEF LoadTurn
    <2> QED
      BY <1>1, <1>2, <2>2, <2>3, <2>4
  <1> QED
    BY <1>3, <1>4

\* A load task that starts or ends.
LEMMA LoadReport ==
  ASSUME SessionInv, SendingInv, NEW l \in Keys, LoadStep(l)
  PROVE  SendingInv' /\ \A k \in Keys : LoadTurn(k) <= LoadTurn(k)'
  <1>t. /\ load \in [Keys -> {"none", "queued", "started", "ending"}]
        /\ report \in [Reporters -> Updates \cup {NoUpdate}]
    BY DEF SessionInv, SessionTypeOK
  <1>m. NoUpdate.key = Receiver /\ Receiver \notin Keys
    BY MessageTypes
  <1>2. Receiver \in Reporters /\ Keys \subseteq Reporters
    BY DEF Reporters
  <1>3. PICK st \in LoadStatus :
          \/ /\ load[l] = "queued" /\ load' = [load EXCEPT ![l] = "started"]
             /\ st = "InProgress" /\ report' = [report EXCEPT ![l] = Update(l, st)]
          \/ /\ load[l] = "started" /\ load' = [load EXCEPT ![l] = "ending"]
             /\ report[l] = NoUpdate
             /\ \/ st \in {"Completed", "Failed"} /\ report' = [report EXCEPT ![l] = Update(l, st)]
                \/ report' = report
    BY DEF LoadStep, LoadStarts, LoadEnds, StartsReport, LoadStatus
  <1>4. /\ Update(l, st).key = l /\ Update(l, st).status = st /\ Update(l, st) # NoUpdate
    BY <1>m, MessageTypes
  <1>5. /\ \A k \in Keys : k # l => load'[k] = load[k] /\ report'[k] = report[k]
        /\ report'[Receiver] = report[Receiver]
        /\ report[Receiver].key # l
    <2>1. report[Receiver].key # l
      BY <1>3 DEF SendingInv
    <2> QED
      BY <1>t, <1>m, <1>2, <1>3, <2>1
  <1>6. \/ /\ load[l] = "queued" /\ load'[l] = "started"
           /\ st = "InProgress" /\ report'[l] = Update(l, st)
        \/ /\ load[l] = "started" /\ load'[l] = "ending" /\ report[l] = NoUpdate
           /\ \/ st \in {"Completed", "Failed"} /\ report'[l] = Update(l, st)
              \/ report'[l] = NoUpdate
    BY <1>t, <1>2, <1>3
  <1>7. SendingInv'
    BY <1>4, <1>5, <1>6 DEF SendingInv
  <1>8. ASSUME NEW k \in Keys PROVE LoadTurn(k) <= LoadTurn(k)'
    <2>1. CASE k = l
      BY <1>4, <1>5, <1>6, <2>1 DEF LoadTurn
    <2>2. CASE k # l
      BY <1>5, <2>2 DEF LoadTurn
    <2> QED
      BY <2>1, <2>2
  <1> QED
    BY <1>7, <1>8

\* The Receive Task takes a message: what it does to the load of an assignment.
LEMMA InboundReport ==
  ASSUME SessionInv, InboxInv, SendingInv, HandleInbound
  PROVE  SendingInv' /\ \A k \in Keys : LoadTurn(k) <= LoadTurn(k)'
  <1>t. /\ load \in [Keys -> {"none", "queued", "started", "ending"}]
        /\ report \in [Reporters -> Updates \cup {NoUpdate}]
        /\ inbox \in Seq(Inbound)
    BY DEF SessionInv, SessionTypeOK
  <1>m. NoUpdate.key = Receiver /\ Receiver \notin Keys
    BY MessageTypes
  <1>2. Receiver \in Reporters /\ Keys \subseteq Reporters
    BY DEF Reporters
  <1>3. CASE load' = load /\ report' = report
    BY <1>3 DEF SendingInv, LoadTurn
  <1>4. ASSUME ~(load' = load /\ report' = report)
        PROVE  SendingInv' /\ \A k \in Keys : LoadTurn(k) <= LoadTurn(k)'
    <2>1. PICK l \in Keys :
            /\ load[l] = "none"
            /\ \/ /\ load' = [load EXCEPT ![l] = "ending"]
                  /\ report' = [report EXCEPT ![Receiver] = Update(l, "Failed")]
               \/ /\ load' = [load EXCEPT ![l] = "queued"]
                  /\ report' = report
      <3>1. inbox # <<>> /\ Head(inbox).type = "assign" /\ HandleAssignment(Head(inbox).key)
        BY <1>4 DEF HandleInbound
      <3>2. Head(inbox) = inbox[1] /\ 1 \in DOMAIN inbox
        BY <1>t, <3>1
      <3>3. Head(inbox).key \in Keys /\ load[Head(inbox).key] = "none"
        BY <1>t, <3>1, <3>2, InboundTypes DEF InboxInv
      <3> QED
        BY <1>4, <3>1, <3>3 DEF HandleAssignment, StartsReport
    <2>2. report[l] = NoUpdate /\ report[Receiver].key # l
      BY <2>1 DEF SendingInv
    <2>3. Update(l, "Failed").key = l /\ Update(l, "Failed").status = "Failed"
      BY MessageTypes DEF LoadStatus
    <2>4. /\ \A k \in Keys : k # l => load'[k] = load[k]
          /\ \A k \in Keys : report'[k] = report[k]
          /\ \/ load'[l] = "ending" /\ report'[Receiver] = Update(l, "Failed")
             \/ load'[l] = "queued" /\ report'[Receiver] = report[Receiver]
      BY <1>t, <1>m, <1>2, <2>1
    <2>5. SendingInv'
      BY <2>1, <2>2, <2>3, <2>4 DEF SendingInv
    <2>6. ASSUME NEW k \in Keys PROVE LoadTurn(k) <= LoadTurn(k)'
      <3>1. CASE k = l
        BY <2>1, <2>2, <2>3, <2>4, <3>1 DEF LoadTurn
      <3>2. CASE k # l
        BY <2>3, <2>4, <3>2 DEF LoadTurn
      <3> QED
        BY <3>1, <3>2
    <2> QED
      BY <2>5, <2>6
  <1> QED
    BY <1>3, <1>4


\* No step takes back a turn of the loads.
LEMMA SendingStep ==
  ASSUME SessionInv, InboxInv, SendingInv, [Next]_vars
  PROVE  SendingInv' /\ \A k \in Keys : LoadTurn(k) <= LoadTurn(k)'
  <1> USE DEF startVars, watchVars, taskVars, reportVars, streamVars
  <1>1. CASE UNCHANGED <<load, report>>
    BY <1>1 DEF SendingInv, LoadTurn
  <1>2. ASSUME NEW r \in Reporters, ReportStep(r)
        PROVE  (ReportDone(r) \/ report' = report) /\ load' = load
    BY <1>2 DEF ReportStep, SkipReport, TrySend, Enqueued, TrySendFull, TrySendClosed
  <1>3. UNCHANGED <<load, report>> \/ HandleInbound \/ (\E k \in Keys : LoadStep(k))
          \/ (\E r \in Reporters : ReportStep(r))
    <2>1. CASE MainStep \/ Interrupt
      BY <2>1 DEF MainStep, Interrupt, Connect, OpenStream, SendRegister, FirstMessage,
                  HandshakeFails, Reconcile, GoActive, InitSender, StartFlight, StatusChanged
    <2>2. CASE ReceiveStep
      BY <2>2 DEF ReceiveStep, ReceiveCancelled, ResponseEnds, ReceivePublishes, InboundHandled
    <2>3. CASE SendStep
      BY <2>3 DEF SendStep, SendCancelled, Flush, Flushed, TakeUpdate, TakeHeartbeat,
                  WriteProto, WriteFails, SendPublishes
    <2>4. CASE StreamStep
      BY <2>4 DEF StreamStep, CpSends, CpReads, RequestDies, ResponseDies
    <2>5. CASE UNCHANGED vars
      BY <2>5 DEF vars
    <2> QED
      BY <2>1, <2>2, <2>3, <2>4, <2>5 DEF Next
  <1> QED
    BY <1>1, <1>2, <1>3, DoneReport, LoadReport, InboundReport

\* Nor does main.
LEMMA NextTurnStep ==
  ASSUME SessionInv, InboxInv, SendingInv, [Next]_vars, NEW k \in Keys
  PROVE  NextTurn(k) \in 1..4 /\ NextTurn(k)' \in 1..4 /\ NextTurn(k) <= NextTurn(k)'
  <1> USE DEF startVars
  <1>1. main' \in Greeting \/ k \in todo' => main \in Greeting \/ k \in todo
    <2>1. CASE MainStep \/ Interrupt
      BY <2>1 DEF MainStep, Interrupt, Connect, OpenStream, SendRegister, FirstMessage,
                  HandshakeFails, Reconcile, GoActive, InitSender, StartFlight, StatusChanged,
                  Greeting
    <2>2. CASE ReceiveStep
      BY <2>2 DEF ReceiveStep, ReceiveCancelled, ResponseEnds, ReceivePublishes, HandleInbound,
                  InboundHandled
    <2>3. CASE SendStep
      BY <2>3 DEF SendStep, SendCancelled, Flush, Flushed, TakeUpdate, TakeHeartbeat,
                  WriteProto, WriteFails, SendPublishes
    <2>4. CASE StreamStep
      BY <2>4 DEF StreamStep, CpSends, CpReads, RequestDies, ResponseDies
    <2>5. CASE \E r \in Reporters : ReportStep(r)
      BY <2>5 DEF ReportStep, SkipReport, TrySend, TrySendFull, TrySendClosed
    <2>6. CASE \E l \in Keys : LoadStep(l)
      BY <2>6 DEF LoadStep, LoadStarts, LoadEnds
    <2>7. CASE UNCHANGED vars
      BY <2>7 DEF vars
    <2> QED
      BY <2>1, <2>2, <2>3, <2>4, <2>5, <2>6, <2>7 DEF Next
  <1>2. LoadTurn(k) <= LoadTurn(k)'
    BY SendingStep
  <1>3. LoadTurn(k) \in 2..4 /\ LoadTurn(k)' \in 2..4
    BY DEF LoadTurn
  <1> QED
    BY <1>1, <1>2, <1>3 DEF NextTurn

\* A report that is sent is of the turn its epoch is in, which is then over.
LEMMA SentTurn ==
  ASSUME SessionInv, SendingInv, NEW r \in Reporters, TrySend(r), NEW k \in Keys,
         report[r].key = k
  PROVE  /\ NextTurn(k) \in 2..3 /\ NextTurn(k)' = NextTurn(k) + 1
         /\ Turn(k, report[r].status, NextTurn(k))
  <1> USE DEF startVars, watchVars, taskVars, streamVars
  <1>t. /\ load \in [Keys -> {"none", "queued", "started", "ending"}]
        /\ report \in [Reporters -> Updates \cup {NoUpdate}]
    BY DEF SessionInv, SessionTypeOK
  <1>m. NoUpdate.key = Receiver /\ Receiver \notin Keys
    BY MessageTypes
  <1>2. Receiver \in Reporters /\ Keys \subseteq Reporters
    BY DEF Reporters
  <1>3. main \notin Greeting /\ todo = {} /\ UNCHANGED <<main, todo, load>>
    BY DEF TrySend, SessionInv, Greeting
  <1>4. NextTurn(k) = LoadTurn(k) /\ NextTurn(k)' = LoadTurn(k)'
    BY <1>3 DEF NextTurn
  <1>5. \A x \in Reporters : report'[x] = IF x = r THEN NoUpdate ELSE report[x]
    BY <1>t DEF TrySend, Enqueued, ReportDone
  <1>6. report[r] # NoUpdate /\ (r = Receiver \/ r \in Keys)
    BY DEF TrySend, Reporting, Reporters
  <1>7. CASE r = Receiver
    <2>1. load[k] = "ending" /\ report[k] = NoUpdate /\ report[r].status = "Failed"
      BY <1>7 DEF SendingInv
    <2>2. report'[Receiver].key # k /\ report'[k] = NoUpdate
      BY <1>m, <1>2, <1>5, <1>7, <2>1
    <2> QED
      <3>1. LoadTurn(k) = 3
        BY <1>7, <2>1 DEF LoadTurn
      <3>2. LoadTurn(k)' = 4
        BY <1>3, <2>1, <2>2 DEF LoadTurn
      <3>3. Turn(k, report[r].status, 3)
        BY <2>1 DEF Turn
      <3> QED
        BY <1>4, <3>1, <3>2, <3>3
  <1>8. CASE r \in Keys
    <2>1. /\ r = k
          /\ \/ load[k] = "started" /\ report[r].status = "InProgress"
             \/ load[k] = "ending" /\ report[r].status \in {"Completed", "Failed"}
      BY <1>6, <1>8 DEF SendingInv
    <2>2. report[Receiver].key # k
      BY <1>6, <2>1 DEF SendingInv
    <2>3. report'[Receiver] = report[Receiver] /\ report'[k] = NoUpdate
      BY <1>m, <1>2, <1>5, <2>1
    <2> QED
      BY <1>3, <1>4, <1>6, <2>1, <2>2, <2>3 DEF LoadTurn, Turn
  <1> QED
    BY <1>6, <1>7, <1>8


\* How the turns of one epoch are shown to be divided after a step.
LEMMA TurnsNext ==
  ASSUME NEW k, NEW a \in Nat, NEW b \in Nat, NEW c \in Nat, NEW d \in Nat,
         1 <= a, a <= b, b <= c, c <= d, d <= NextTurn(k)',
         InTurn(wire', k, 1, a), InTurn(grpc', k, a, b), InTurn(<<smsg'>>, k, b, c),
         InTurn(out', k, c, d)
  PROVE  \E w, x, y, z \in Nat : Turns(k, w, x, y, z)'
  <1>1. Turns(k, a, b, c, d)'
    BY DEF Turns, InTurn
  <1> QED
    BY <1>1

\* One report of one turn.
LEMMA TurnOne ==
  ASSUME NEW u, NEW k, NEW n \in Nat, u.key = k, Turn(k, u.status, n)
  PROVE  InTurn(<<u>>, k, n, n + 1)
  <1> DEFINE g == [i \in {1} |-> n]
  <1>1. {i \in DOMAIN <<u>> : <<u>>[i].key = k} = {1} /\ <<u>>[1] = u
    OBVIOUS
  <1>2. g \in [{i \in DOMAIN <<u>> : <<u>>[i].key = k} -> n..((n + 1) - 1)]
    BY <1>1
  <1>3. /\ \A i \in DOMAIN g : Turn(k, <<u>>[i].status, g[i])
        /\ \A i, j \in DOMAIN g : i < j => g[i] < g[j]
    BY <1>1
  <1> HIDE DEF g
  <1> QED
    BY <1>2, <1>3 DEF InTurn

\* The Send Task moves reports from the outgoing channel to the stream.
LEMMA TurnSend ==
  ASSUME SessionInv, SendStep, TurnInv, NEW k \in Keys, NextTurn(k) \in 1..4,
         NextTurn(k)' \in 1..4, NextTurn(k) <= NextTurn(k)'
  PROVE  \E w, x, y, z \in Nat : Turns(k, w, x, y, z)'
  <1> USE DEF watchVars, taskVars, reportVars, streamVars
  <1>t. out \in Seq(Updates) /\ grpc \in Seq(Outgoing) /\ smsg \in Updates \cup {Heartbeat, NoUpdate}
    BY DEF SessionInv, SessionTypeOK
  <1>m. /\ NoUpdate.key # k /\ Heartbeat.key # k
        /\ Updates \subseteq Outgoing /\ Heartbeat \in Outgoing
    BY MessageTypes
  <1>1. PICK a, b, c, d \in Nat : Turns(k, a, b, c, d)
    BY DEF TurnInv
  <1>2. /\ 1 <= a /\ a <= b /\ b <= c /\ c <= d /\ d <= NextTurn(k)'
        /\ InTurn(wire, k, 1, a) /\ InTurn(grpc, k, a, b) /\ InTurn(<<smsg>>, k, b, c)
        /\ InTurn(out, k, c, d)
    BY <1>1 DEF Turns
  <1>3. \A u, lo, hi : u.key # k => InTurn(<<u>>, k, lo, hi)
    <2> TAKE u, lo, hi
    <2> HAVE u.key # k
    <2>1. \A i \in DOMAIN <<u>> : <<u>>[i].key # k
      OBVIOUS
    <2> QED
      BY <2>1, TurnNone
  <1>4. CASE UNCHANGED <<wire, grpc, smsg, out>>
    BY <1>2, <1>4, TurnsNext
  <1>5. CASE Flush
    <2>1. /\ out # <<>> /\ out' = Tail(out) /\ wire' = wire /\ smsg' = NoUpdate
          /\ grpc' = grpc \/ grpc' = Append(grpc, Head(out))
      BY <1>5 DEF Flush, SessionInv
    <2>2. PICK r \in c..d : InTurn(<<Head(out)>>, k, c, r) /\ InTurn(Tail(out), k, r, d)
      BY <1>t, <1>2, <2>1, TurnHead
    <2>3. r \in Nat /\ b <= r /\ c <= r /\ r <= d
      BY <1>2
    <2>4. InTurn(<<smsg'>>, k, r, r)
      BY <1>m, <1>3, <2>1
    <2>5. InTurn(grpc', k, a, r)
      <3>1. CASE grpc' = grpc
        BY <1>2, <2>3, <3>1, TurnWiden
      <3>2. CASE grpc' = Append(grpc, Head(out))
        <4>1. InTurn(<<Head(out)>>, k, b, r)
          BY <1>2, <2>2, <2>3, TurnWiden
        <4>2. Head(out) \in Outgoing
          BY <1>t, <1>m, <2>1
        <4> QED
          BY <1>t, <1>2, <2>3, <3>2, <4>1, <4>2, TurnAppend
      <3> QED
        BY <2>1, <3>1, <3>2
    <2>6. a <= r /\ r <= r
      BY <1>2, <2>3
    <2> QED
      BY <1>2, <2>1, <2>2, <2>3, <2>4, <2>5, <2>6, TurnsNext
  <1>6. CASE TakeUpdate
    <2>1. /\ out # <<>> /\ out' = Tail(out) /\ smsg' = Head(out)
          /\ UNCHANGED <<wire, grpc>>
      BY <1>6 DEF TakeUpdate
    <2>2. PICK r \in c..d : InTurn(<<Head(out)>>, k, c, r) /\ InTurn(Tail(out), k, r, d)
      BY <1>t, <1>2, <2>1, TurnHead
    <2>3. r \in Nat /\ b <= r /\ r <= d
      BY <1>2
    <2>4. InTurn(<<smsg'>>, k, b, r)
      BY <1>2, <2>1, <2>2, <2>3, TurnWiden
    <2> QED
      BY <1>2, <2>1, <2>2, <2>3, <2>4, TurnsNext
  <1>7. CASE TakeHeartbeat
    <2>1. smsg' = Heartbeat /\ UNCHANGED <<wire, grpc, out>>
      BY <1>7 DEF TakeHeartbeat
    <2>2. InTurn(<<smsg'>>, k, b, c)
      BY <1>m, <1>3, <2>1
    <2> QED
      BY <1>2, <2>1, <2>2, TurnsNext
  <1>8. CASE WriteProto
    <2>1. smsg' = NoUpdate /\ grpc' = Append(grpc, smsg) /\ UNCHANGED <<wire, out>>
      BY <1>8 DEF WriteProto
    <2>2. smsg \in Outgoing
      BY <1>t, <1>m, <1>8 DEF WriteProto, SessionInv
    <2>3. InTurn(grpc', k, a, c)
      BY <1>t, <1>2, <2>1, <2>2, TurnAppend
    <2>4. InTurn(<<smsg'>>, k, c, c) /\ a <= c /\ c <= c
      BY <1>m, <1>2, <1>3, <2>1
    <2> QED
      BY <1>2, <2>1, <2>3, <2>4, TurnsNext
  <1>9. CASE WriteFails
    <2>1. smsg' = NoUpdate /\ UNCHANGED <<wire, grpc, out>>
      BY <1>9 DEF WriteFails
    <2>2. InTurn(<<smsg'>>, k, b, c)
      BY <1>m, <1>3, <2>1
    <2> QED
      BY <1>2, <2>1, <2>2, TurnsNext
  <1> QED
    BY <1>4, <1>5, <1>6, <1>7, <1>8, <1>9 DEF SendStep, SendCancelled, Flushed, SendPublishes


\* The control plane reads the stream, or its request half dies.
LEMMA TurnStream ==
  ASSUME SessionInv, CpReads \/ RequestDies, TurnInv, NEW k \in Keys, NextTurn(k) \in 1..4,
         NextTurn(k)' \in 1..4, NextTurn(k) <= NextTurn(k)'
  PROVE  \E w, x, y, z \in Nat : Turns(k, w, x, y, z)'
  <1> USE DEF taskVars, reportVars
  <1>t. wire \in Seq(Updates) /\ grpc \in Seq(Outgoing)
    BY DEF SessionInv, SessionTypeOK
  <1>1. PICK a, b, c, d \in Nat : Turns(k, a, b, c, d)
    BY DEF TurnInv
  <1>2. /\ 1 <= a /\ a <= b /\ b <= c /\ c <= d /\ d <= NextTurn(k)'
        /\ InTurn(wire, k, 1, a) /\ InTurn(grpc, k, a, b) /\ InTurn(<<smsg>>, k, b, c)
        /\ InTurn(out, k, c, d)
    BY <1>1 DEF Turns
  <1>3. CASE RequestDies
    <2>1. grpc' = <<>> /\ UNCHANGED <<wire, smsg, out>>
      BY <1>3 DEF RequestDies
    <2>2. InTurn(grpc', k, a, b)
      BY <2>1, TurnNone
    <2> QED
      BY <1>2, <2>1, <2>2, TurnsNext
  <1>4. CASE CpReads
    <2>1. /\ grpc # <<>> /\ grpc' = Tail(grpc) /\ UNCHANGED <<smsg, out>>
          /\ wire' = IF Head(grpc) \in Updates THEN Append(wire, Head(grpc)) ELSE wire
      BY <1>4 DEF CpReads
    <2>2. PICK r \in a..b : InTurn(<<Head(grpc)>>, k, a, r) /\ InTurn(Tail(grpc), k, r, b)
      BY <1>t, <1>2, <2>1, TurnHead
    <2>3. r \in Nat /\ 1 \in Nat /\ a <= r /\ 1 <= r /\ r <= b /\ 1 <= 1
      BY <1>2
    <2>4. InTurn(wire', k, 1, r)
      <3>1. CASE Head(grpc) \in Updates
        <4>1. wire' = Append(wire, Head(grpc))
          BY <2>1, <3>1
        <4>2. InTurn(Append(wire, Head(grpc)), k, 1, r)
          BY <1>t, <1>2, <2>2, <2>3, <3>1, TurnAppend
        <4> QED
          BY <4>1, <4>2
      <3>2. CASE Head(grpc) \notin Updates
        BY <1>2, <2>1, <2>3, <3>2, TurnWiden
      <3> QED
        BY <3>1, <3>2
    <2> QED
      BY <1>2, <2>1, <2>2, <2>3, <2>4, TurnsNext
  <1> QED
    BY <1>3, <1>4

\* The registration, and the reports of the reconciliation: nothing has been
\* reported of an epoch before it.
LEMMA TurnMain ==
  ASSUME SessionInv, SendRegister \/ (\E l \in Keys : Reconcile(l)), TurnInv, NEW k \in Keys,
         NextTurn(k) \in 1..4, NextTurn(k)' \in 1..4, NextTurn(k) <= NextTurn(k)'
  PROVE  \E w, x, y, z \in Nat : Turns(k, w, x, y, z)'
  <1> USE DEF taskVars, reportVars
  <1>t. grpc \in Seq(Outgoing)
    BY DEF SessionInv, SessionTypeOK
  <1>1. PICK a, b, c, d \in Nat : Turns(k, a, b, c, d)
    BY DEF TurnInv
  <1>2. /\ 1 <= a /\ a <= b /\ b <= c /\ c <= d /\ d <= NextTurn(k) /\ d <= NextTurn(k)'
        /\ InTurn(wire, k, 1, a) /\ InTurn(grpc, k, a, b) /\ InTurn(<<smsg>>, k, b, c)
        /\ InTurn(out, k, c, d)
    BY <1>1 DEF Turns
  <1>3. UNCHANGED <<wire, smsg, out>>
    BY DEF SendRegister, Reconcile
  <1>4. CASE grpc' = grpc
    BY <1>2, <1>3, <1>4, TurnsNext
  <1>5. ASSUME NEW u \in Outgoing, u.key # k, grpc' = Append(grpc, u)
        PROVE  \E w, x, y, z \in Nat : Turns(k, w, x, y, z)'
    <2>1. \A i \in DOMAIN <<u>> : <<u>>[i].key # k
      BY <1>5
    <2>2. InTurn(<<u>>, k, b, b) /\ b <= b
      BY <2>1, TurnNone
    <2>3. InTurn(grpc', k, a, b)
      BY <1>t, <1>2, <1>5, <2>2, TurnAppend
    <2> QED
      BY <1>2, <1>3, <2>3, TurnsNext
  <1>6. CASE SendRegister
    <2>1. Register \in Outgoing /\ Register.key # k
      BY MessageTypes
    <2> QED
      BY <1>4, <1>5, <1>6, <2>1 DEF SendRegister
  <1>7. ASSUME NEW l \in Keys, Reconcile(l)
        PROVE  \E w, x, y, z \in Nat : Turns(k, w, x, y, z)'
    <2> DEFINE u == Update(l, "Completed")
    <2>1. u \in Outgoing /\ u.key = l /\ u.status = "Completed"
      BY MessageTypes DEF LoadStatus
    <2>2. grpc' = grpc \/ grpc' = Append(grpc, u)
      BY <1>7 DEF Reconcile
    <2> HIDE DEF u
    <2>3. CASE k = l /\ grpc' = Append(grpc, u)
      <3>1. l \in todo /\ l \in Loaded /\ main = "reconcile" /\ main' = main /\ todo' = todo \ {l}
        BY <1>7 DEF Reconcile, SessionInv, startVars
      <3>2. NextTurn(k) = 1 /\ 2 <= NextTurn(k)'
        <4>1. NextTurn(k) = 1
          BY <2>3, <3>1 DEF NextTurn
        <4>2. main' \notin Greeting' /\ k \notin todo'
          BY <2>3, <3>1 DEF Greeting
        <4>3. LoadTurn(k)' \in 2..4
          BY DEF LoadTurn
        <4>4. NextTurn(k)' = LoadTurn(k)'
          BY <4>2, Zenon DEF NextTurn
        <4> QED
          BY <4>1, <4>3, <4>4
      <3>3. a = 1 /\ b = 1 /\ c = 1 /\ d = 1
        BY <1>2, <3>2
      <3>4. InTurn(<<u>>, k, 1, 1 + 1)
        BY <2>1, <2>3, <3>1, TurnOne DEF Turn
      <3>5. InTurn(<<u>>, k, 1, 2)
        BY <3>4
      <3>6. InTurn(grpc', k, 1, 2)
        BY <1>t, <1>2, <2>1, <2>3, <3>3, <3>5, TurnAppend
      <3>7. InTurn(<<smsg'>>, k, 2, 2) /\ InTurn(out', k, 2, 2)
        <4>1. /\ \A i \in DOMAIN <<smsg>> : <<smsg>>[i].key # k
              /\ \A i \in DOMAIN out : out[i].key # k
          BY <1>2, <3>3, TurnVoid
        <4> QED
          BY <1>3, <4>1, TurnNone
      <3>8. InTurn(wire', k, 1, 1)
        BY <1>2, <1>3, <3>3
      <3> QED
        BY <3>2, <3>6, <3>7, <3>8, TurnsNext
    <2> QED
      BY <1>4, <1>5, <2>1, <2>2, <2>3
  <1> QED
    BY <1>6, <1>7

\* A reporter that finds room in the outgoing channel.
LEMMA TurnReport ==
  ASSUME SessionInv, SendingInv, NEW r \in Reporters, TrySend(r), TurnInv, NEW k \in Keys,
         NextTurn(k) \in 1..4, NextTurn(k)' \in 1..4, NextTurn(k) <= NextTurn(k)'
  PROVE  \E w, x, y, z \in Nat : Turns(k, w, x, y, z)'
  <1> USE DEF taskVars, streamVars
  <1>t. out \in Seq(Updates) /\ report \in [Reporters -> Updates \cup {NoUpdate}]
    BY DEF SessionInv, SessionTypeOK
  <1>1. PICK a, b, c, d \in Nat : Turns(k, a, b, c, d)
    BY DEF TurnInv
  <1>2. /\ 1 <= a /\ a <= b /\ b <= c /\ c <= d /\ d <= NextTurn(k) /\ d <= NextTurn(k)'
        /\ InTurn(wire, k, 1, a) /\ InTurn(grpc, k, a, b) /\ InTurn(<<smsg>>, k, b, c)
        /\ InTurn(out, k, c, d)
    BY <1>1 DEF Turns
  <1>3. /\ UNCHANGED <<wire, grpc, smsg>> /\ out' = Append(out, report[r])
        /\ report[r] \in Updates
    BY <1>t DEF TrySend, Enqueued, Reporting
  <1>4. CASE report[r].key # k
    <2>1. \A i \in DOMAIN <<report[r]>> : <<report[r]>>[i].key # k
      BY <1>4
    <2>2. InTurn(<<report[r]>>, k, d, d)
      BY <2>1, TurnNone, Zenon
    <2>d. d <= d
      OBVIOUS
    <2>3. InTurn(out', k, c, d)
      BY <1>t, <1>2, <1>3, <2>2, <2>d, TurnAppend
    <2> QED
      BY <1>2, <1>3, <2>3, TurnsNext
  <1>5. CASE report[r].key = k
    <2>1. /\ NextTurn(k)' = NextTurn(k) + 1
          /\ Turn(k, report[r].status, NextTurn(k))
      BY <1>5, SentTurn
    <2> DEFINE n == NextTurn(k)
    <2>2. n \in Nat /\ n + 1 \in Nat /\ d <= n /\ n <= n + 1 /\ c <= n + 1 /\ d <= n + 1
      BY <1>2
    <2>3. n + 1 <= NextTurn(k)'
      BY <2>1, <2>2
    <2>4. InTurn(<<report[r]>>, k, n, n + 1)
      BY <1>5, <2>1, TurnOne
    <2> HIDE DEF n
    <2>5. InTurn(<<report[r]>>, k, d, n + 1)
      BY <2>2, <2>4, TurnWiden
    <2>6. InTurn(out', k, c, n + 1)
      BY <1>t, <1>2, <1>3, <2>2, <2>5, TurnAppend
    <2>7. PICK m \in Nat : m = n + 1
      BY <2>2
    <2>8. c <= m /\ m <= NextTurn(k)' /\ InTurn(out', k, c, m)
      BY <2>2, <2>3, <2>6, <2>7
    <2> QED
      BY <1>2, <1>3, <2>8, TurnsNext
  <1> QED
    BY <1>4, <1>5


\* Every step keeps the turns of every epoch divided along the path.
LEMMA TurnStep ==
  ASSUME SessionInv, InboxInv, SendingInv, TurnInv, [Next]_vars
  PROVE  TurnInv'
  <1> SUFFICES ASSUME NEW k \in Keys
               PROVE  \E w, x, y, z \in Nat : Turns(k, w, x, y, z)'
    BY DEF TurnInv
  <1> USE DEF startVars, watchVars, taskVars, reportVars, streamVars
  <1>1. NextTurn(k) \in 1..4 /\ NextTurn(k)' \in 1..4 /\ NextTurn(k) <= NextTurn(k)'
    BY NextTurnStep
  <1>2. CASE UNCHANGED <<wire, grpc, smsg, out>>
    <2>1. PICK a, b, c, d \in Nat : Turns(k, a, b, c, d)
      BY DEF TurnInv
    <2>2. /\ 1 <= a /\ a <= b /\ b <= c /\ c <= d /\ d <= NextTurn(k)'
          /\ InTurn(wire', k, 1, a) /\ InTurn(grpc', k, a, b) /\ InTurn(<<smsg'>>, k, b, c)
          /\ InTurn(out', k, c, d)
      BY <1>1, <1>2, <2>1 DEF Turns
    <2> QED
      BY <2>2, TurnsNext
  <1>3. UNCHANGED <<wire, grpc, smsg, out>> \/ SendStep \/ CpReads \/ RequestDies
          \/ SendRegister \/ (\E l \in Keys : Reconcile(l)) \/ (\E r \in Reporters : TrySend(r))
    <2>1. CASE MainStep \/ Interrupt
      BY <2>1 DEF MainStep, Interrupt, Connect, OpenStream, FirstMessage,
                  HandshakeFails, GoActive, SpawnTasks, InitSender, StartFlight, StatusChanged
    <2>2. CASE ReceiveStep
      BY <2>2 DEF ReceiveStep, ReceiveCancelled, ResponseEnds, ReceivePublishes, HandleInbound,
                  InboundHandled
    <2>3. CASE StreamStep
      BY <2>3 DEF StreamStep, CpSends, ResponseDies
    <2>4. CASE \E r \in Reporters : ReportStep(r)
      BY <2>4 DEF ReportStep, SkipReport, TrySendFull, TrySendClosed
    <2>5. CASE \E l \in Keys : LoadStep(l)
      BY <2>5 DEF LoadStep, LoadStarts, LoadEnds
    <2>6. CASE UNCHANGED vars
      BY <2>6 DEF vars
    <2> QED
      BY <2>1, <2>2, <2>3, <2>4, <2>5, <2>6 DEF Next
  <1> QED
    BY <1>1, <1>2, <1>3, TurnSend, TurnStream, TurnMain, TurnReport

\* What orders the reports holds at the start.
LEMMA TurnInit == Init => InboxInv /\ SendingInv /\ TurnInv
  <1> SUFFICES ASSUME Init PROVE InboxInv /\ SendingInv /\ TurnInv
    OBVIOUS
  <1>m. NoUpdate.key = Receiver /\ Receiver \notin Keys
    BY MessageTypes
  <1>1. InboxInv
    BY DEF Init, InboxInv
  <1>2. SendingInv
    BY <1>m DEF Init, SendingInv, Reporters
  <1>3. ASSUME NEW k \in Keys PROVE Turns(k, 1, 1, 1, 1)
    <2>1. \A q : (\A i \in DOMAIN q : q[i].key # k) => InTurn(q, k, 1, 1)
      BY TurnNone
    <2>2. /\ \A i \in DOMAIN wire : wire[i].key # k
          /\ \A i \in DOMAIN grpc : grpc[i].key # k
          /\ \A i \in DOMAIN out : out[i].key # k
      BY DEF Init
    <2>3. \A i \in DOMAIN <<smsg>> : <<smsg>>[i].key # k
      BY <1>m DEF Init
    <2>4. NextTurn(k) = 1
      BY DEF Init, NextTurn, Greeting
    <2> QED
      BY <2>1, <2>2, <2>3, <2>4 DEF Turns
  <1>4. TurnInv
    BY <1>3 DEF TurnInv
  <1> QED
    BY <1>1, <1>2, <1>4

\* Whatever the interleaving of the reporters, the two tasks, the control plane
\* and the failures of the stream, the statuses of an epoch are in order and
\* not repeated along the whole path, for any capacity and number of retries.
THEOREM ReportsStayInOrder == Spec => []ReportsInOrder
  <1> DEFINE Inv == SessionInv /\ EndInv /\ InboxInv /\ SendingInv /\ TurnInv
  <1>1. Init => Inv
    BY SessionInit, EndInit, TurnInit
  <1>2. Inv /\ [Next]_vars => SessionInv' /\ InboxInv' /\ SendingInv' /\ TurnInv'
    BY SessionStep, InboxStep, SendingStep, TurnStep
  <1>3. SessionInv /\ TurnInv => ReportsInOrder
    BY PathInTurn DEF SessionInv
  <1> QED
    BY <1>1, <1>2, <1>3, EndInvariant, PTL DEF Spec

=============================================================================
