------------------------------ MODULE CpSession ------------------------------
(***************************************************************************)
(* ControlPlaneSession of worker-cp inside the process worker-cli starts:    *)
(* the handshake, the Send Task and the Receive Task that share a            *)
(* cancellation token and a status watch channel, the load tasks that report *)
(* through the bounded outgoing channel, and main, which wires the channel   *)
(* to the dispatcher after the session is up and ends the process when the   *)
(* session reports Disconnected.                                             *)
(*                                                                         *)
(* The dispatcher is reduced to the reports it makes (EpochDispatcher models *)
(* the rest): an assignment is ignored, refused with FAILED inside the       *)
(* Receive Task, or spawns a load task that reports IN_PROGRESS and then     *)
(* COMPLETED, FAILED or, when it was evicted, nothing.                       *)
(***************************************************************************)
EXTENDS Naturals, SequencesExt

CONSTANTS
  Keys,        \* the epochs the control plane assigns, each at most once
  Receiver,    \* the Receive Task, as a reporter of statuses
  Loaded,      \* list_loaded_epochs() of the dispatcher when the session starts
  Capacity,    \* outgoing_channel_capacity
  RetryCount,  \* STATUS_RETRY_COUNT
  MaxInbound   \* bound on the messages the control plane sends

ASSUME SessionAssumption ==
  /\ Receiver \notin Keys
  /\ Loaded \subseteq Keys
  /\ Capacity \in Nat \ {0}
  /\ RetryCount \in Nat \ {0}
  /\ MaxInbound \in Nat

VARIABLES
  main,     \* where main is: inside start, wiring, in its loop, or exited
  todo,     \* epochs the reconciliation has still to report
  status,   \* the value of the status watch channel
  unseen,   \* main's watch receiver has not seen the latest value
  sender,   \* the dispatcher's OnceLock holds the outgoing sender
  cancel,   \* the cancellation token is fired
  spc,      \* the Send Task
  smsg,     \* the message it is writing
  rpc,      \* the Receive Task
  load,     \* the load task of each key
  report,   \* the status each reporter is trying to send
  attempt,  \* attempts of report_status that found the channel full
  out,      \* the outgoing channel
  grpc,     \* the channel tonic reads the request stream from
  reqUp,    \* the request half of the stream is alive
  respUp,   \* the response half of the stream is alive
  inbox,    \* messages of the control plane not yet read
  inbound,  \* how many messages it has sent
  wire      \* the statuses the control plane has received

startVars == <<main, todo, sender>>
watchVars == <<status, unseen>>
taskVars == <<cancel, spc, smsg, rpc>>
reportVars == <<load, report, attempt, out>>
streamVars == <<grpc, reqUp, respUp, inbox, inbound, wire>>
vars == <<startVars, watchVars, taskVars, reportVars, streamVars>>

Reporters == Keys \cup {Receiver}
LoadStatus == {"InProgress", "Completed", "Failed"}
Updates == [key : Keys, status : LoadStatus]
Update(k, st) == [key |-> k, status |-> st]
NoUpdate == [key |-> Receiver, status |-> "none"]
Heartbeat == [key |-> Receiver, status |-> "heartbeat"]
Register == [key |-> Receiver, status |-> "register"]
Outgoing == Updates \cup {Heartbeat, Register}
\* "other" stands for the acknowledgement, an eviction, a drain command, a
\* malformed assignment and the ignored payloads: none leads to a report.
Inbound == [type : {"assign"}, key : Keys]
           \cup [type : {"reject", "other"}, key : {Receiver}]

SessionTypeOK ==
  /\ main \in {"connect", "open", "register", "awaitAck", "reconcile", "spawn",
               "initSender", "flight", "loop", "exited"}
  /\ todo \subseteq Keys
  /\ status \in {"Connecting", "Registering", "Active", "Disconnected"}
  /\ unseen \in BOOLEAN
  /\ sender \in BOOLEAN
  /\ cancel \in BOOLEAN
  /\ spc \in {"none", "select", "write", "closing", "draining", "done"}
  /\ smsg \in Updates \cup {Heartbeat, NoUpdate}
  /\ rpc \in {"none", "select", "handle", "closing", "done"}
  /\ load \in [Keys -> {"none", "queued", "started", "ending"}]
  /\ report \in [Reporters -> Updates \cup {NoUpdate}]
  /\ attempt \in [Reporters -> 0..(RetryCount - 1)]
  /\ out \in Seq(Updates) /\ Len(out) <= Capacity
  /\ grpc \in Seq(Outgoing) /\ Len(grpc) <= Capacity
  /\ reqUp \in BOOLEAN /\ respUp \in BOOLEAN
  /\ inbox \in Seq(Inbound)
  /\ inbound \in 0..MaxInbound
  /\ wire \in Seq(Updates)

Init ==
  /\ main = "connect"
  /\ todo = {}
  /\ status = "Connecting"
  /\ unseen = FALSE
  /\ sender = FALSE
  /\ cancel = FALSE
  /\ spc = "none"
  /\ smsg = NoUpdate
  /\ rpc = "none"
  /\ load = [k \in Keys |-> "none"]
  /\ report = [r \in Reporters |-> NoUpdate]
  /\ attempt = [r \in Reporters |-> 0]
  /\ out = <<>>
  /\ grpc = <<>>
  /\ reqUp = TRUE
  /\ respUp = TRUE
  /\ inbox = <<>>
  /\ inbound = 0
  /\ wire = <<>>

Running == main # "exited"

Publish(st) == status' = st /\ unseen' = TRUE

-----------------------------------------------------------------------------
(***************************************************************************)
(* ControlPlaneSession::start, called by main: any error ends the process.  *)
(***************************************************************************)

\* build_channel_with_backoff, then coordinate_worker: each may give up.
Connect ==
  /\ main = "connect"
  /\ main' \in {"open", "exited"}
  /\ UNCHANGED <<todo, sender, watchVars, taskVars, reportVars, streamVars>>

OpenStream ==
  /\ main = "open"
  /\ main' \in {"register", "exited"}
  /\ UNCHANGED <<todo, sender, watchVars, taskVars, reportVars, streamVars>>

SendRegister ==
  /\ main = "register"
  /\ Publish("Registering")
  /\ IF reqUp THEN main' = "awaitAck" /\ grpc' = Append(grpc, Register)
              ELSE main' = "exited" /\ UNCHANGED grpc
  /\ UNCHANGED <<todo, sender, taskVars, reportVars, reqUp, respUp, inbox, inbound, wire>>

\* The first message is taken as the acknowledgement whatever it is, unless it
\* is a rejection.
FirstMessage ==
  /\ main = "awaitAck"
  /\ inbox # <<>>
  /\ inbox' = Tail(inbox)
  /\ IF Head(inbox).type = "reject" THEN main' = "exited" /\ UNCHANGED todo
                                    ELSE main' = "reconcile" /\ todo' = Loaded
  /\ UNCHANGED <<sender, watchVars, taskVars, reportVars, grpc, reqUp, respUp, inbound, wire>>

\* The timeout elapses, or the stream ends before any message.
HandshakeFails ==
  /\ main = "awaitAck"
  /\ main' = "exited"
  /\ UNCHANGED <<todo, sender, watchVars, taskVars, reportVars, streamVars>>

\* grpc_out_tx.send(..).await: waits for room, fails when the stream is dead.
Reconcile(k) ==
  /\ main = "reconcile"
  /\ k \in todo
  /\ reqUp => Len(grpc) < Capacity
  /\ grpc' = IF reqUp THEN Append(grpc, Update(k, "Completed")) ELSE grpc
  /\ todo' = todo \ {k}
  /\ UNCHANGED <<main, sender, watchVars, taskVars, reportVars, reqUp, respUp, inbox,
                 inbound, wire>>

SpawnTasks == spc' = "select" /\ rpc' = "select" /\ UNCHANGED <<cancel, smsg>>

GoActiveLate ==
  /\ \/ main = "reconcile" /\ todo = {} /\ main' = "spawn"
        /\ SpawnTasks /\ UNCHANGED watchVars
     \/ main = "spawn" /\ main' = "initSender"
        /\ Publish("Active") /\ UNCHANGED taskVars
  /\ UNCHANGED <<todo, sender, reportVars, streamVars>>
\* The status becomes Active before the two tasks exist.
GoActive ==
  /\ \/ main = "reconcile" /\ todo = {} /\ main' = "spawn"
        /\ Publish("Active") /\ UNCHANGED taskVars
     \/ main = "spawn" /\ main' = "initSender"
        /\ SpawnTasks /\ UNCHANGED watchVars
  /\ UNCHANGED <<todo, sender, reportVars, streamVars>>

-----------------------------------------------------------------------------
(***************************************************************************)
(* main, once start has returned.                                          *)
(***************************************************************************)

InitSender ==
  /\ main = "initSender"
  /\ sender' = TRUE
  /\ main' = "flight"
  /\ UNCHANGED <<todo, watchVars, taskVars, reportVars, streamVars>>

SubscribeMarksSeen == unseen' = FALSE
\* session.status() clones the receiver made with the channel, which has seen
\* none of the values published since.
StatusReceiver == UNCHANGED unseen

\* The Flight server is started, or its TLS files cannot be read.
StartFlight ==
  /\ main = "flight"
  /\ \/ main' = "loop" /\ StatusReceiver
     \/ main' = "exited" /\ UNCHANGED unseen
  /\ UNCHANGED <<todo, sender, status, taskVars, reportVars, streamVars>>

\* status_rx.changed(): a new value, or every sender of it is dropped.
StatusChanged ==
  /\ main = "loop"
  /\ unseen
  /\ unseen' = FALSE
  /\ main' = IF status = "Disconnected" THEN "exited" ELSE "loop"
  /\ UNCHANGED <<todo, sender, status, taskVars, reportVars, streamVars>>

Interrupt ==
  /\ main = "loop"
  /\ main' = "exited"
  /\ UNCHANGED <<todo, sender, watchVars, taskVars, reportVars, streamVars>>

-----------------------------------------------------------------------------
(***************************************************************************)
(* The Receive Task.                                                       *)
(***************************************************************************)

ReceiveCancelled ==
  /\ Running
  /\ rpc = "select"
  /\ cancel
  /\ rpc' = "done"
  /\ UNCHANGED <<startVars, watchVars, cancel, spc, smsg, reportVars, streamVars>>

\* The response stream fails or ends: the token is fired, then the status set.
ResponseEnds ==
  /\ Running
  /\ rpc = "select"
  /\ ~cancel
  /\ inbox = <<>>
  /\ ~respUp
  /\ cancel' = TRUE
  /\ rpc' = "closing"
  /\ UNCHANGED <<startVars, watchVars, spc, smsg, reportVars, streamVars>>

ReceivePublishes ==
  /\ Running
  /\ rpc = "closing"
  /\ Publish("Disconnected")
  /\ rpc' = "done"
  /\ UNCHANGED <<startVars, cancel, spc, smsg, reportVars, streamVars>>

StartsReport(r, u) == report' = [report EXCEPT ![r] = u]

\* What handle_inbound makes of an assignment the dispatcher takes: ignored
\* (the epoch is being evicted), refused inside the Receive Task (draining, or
\* an undecodable schema), or given to a new load task.
HandleAssignment(k) ==
  \/ UNCHANGED <<load, report>>
  \/ /\ load' = [load EXCEPT ![k] = "ending"]
     /\ StartsReport(Receiver, Update(k, "Failed"))
  \/ /\ load' = [load EXCEPT ![k] = "queued"]
     /\ UNCHANGED report

\* An inbound message.  An eviction, like a refusal, holds the Receive Task;
\* a malformed assignment and the other payloads are skipped.
HandleInbound ==
  /\ Running
  /\ rpc = "select"
  /\ ~cancel
  /\ inbox # <<>>
  /\ LET msg == Head(inbox) IN
       IF msg.type = "assign" THEN HandleAssignment(msg.key)
                              ELSE UNCHANGED <<load, report>>
  /\ inbox' = Tail(inbox)
  /\ rpc' = "handle"
  /\ UNCHANGED <<startVars, watchVars, cancel, spc, smsg, attempt, out, grpc, reqUp,
                 respUp, inbound, wire>>

InboundHandled ==
  /\ Running
  /\ rpc = "handle"
  /\ report[Receiver] = NoUpdate
  /\ rpc' = "select"
  /\ UNCHANGED <<startVars, watchVars, cancel, spc, smsg, reportVars, streamVars>>

-----------------------------------------------------------------------------
(***************************************************************************)
(* The Send Task.                                                          *)
(***************************************************************************)

SendCancelled ==
  /\ Running
  /\ spc = "select"
  /\ cancel
  /\ spc' = "draining"
  /\ UNCHANGED <<startVars, watchVars, cancel, smsg, rpc, reportVars, streamVars>>

\* The best-effort flush: a try_send that drops what does not fit.
Flush ==
  /\ Running
  /\ spc = "draining"
  /\ out # <<>>
  /\ out' = Tail(out)
  /\ grpc' = IF reqUp /\ Len(grpc) < Capacity THEN Append(grpc, Head(out)) ELSE grpc
  /\ UNCHANGED <<startVars, watchVars, taskVars, load, report, attempt, reqUp, respUp,
                 inbox, inbound, wire>>

Flushed ==
  /\ Running
  /\ spc = "draining"
  /\ out = <<>>
  /\ spc' = "done"
  /\ UNCHANGED <<startVars, watchVars, cancel, smsg, rpc, reportVars, streamVars>>

TakeUpdate ==
  /\ Running
  /\ spc = "select"
  /\ ~cancel
  /\ out # <<>>
  /\ smsg' = Head(out)
  /\ out' = Tail(out)
  /\ spc' = "write"
  /\ UNCHANGED <<startVars, watchVars, cancel, rpc, load, report, attempt, streamVars>>

\* The heartbeat is the last branch of the biased select.
TakeHeartbeat ==
  /\ Running
  /\ spc = "select"
  /\ ~cancel
  /\ out = <<>>
  /\ smsg' = Heartbeat
  /\ spc' = "write"
  /\ UNCHANGED <<startVars, watchVars, cancel, rpc, reportVars, streamVars>>

WriteByTrySend ==
  /\ Running
  /\ spc = "write"
  /\ reqUp
  /\ grpc' = IF Len(grpc) < Capacity THEN Append(grpc, smsg) ELSE grpc
  /\ spc' = "select"
  /\ smsg' = NoUpdate
  /\ UNCHANGED <<startVars, watchVars, cancel, rpc, reportVars, reqUp, respUp, inbox,
                 inbound, wire>>
\* write_proto!: waits for room, without watching the token meanwhile.
WriteProto ==
  /\ Running
  /\ spc = "write"
  /\ reqUp
  /\ Len(grpc) < Capacity
  /\ grpc' = Append(grpc, smsg)
  /\ spc' = "select"
  /\ smsg' = NoUpdate
  /\ UNCHANGED <<startVars, watchVars, cancel, rpc, reportVars, reqUp, respUp, inbox,
                 inbound, wire>>

WriteFailsQuietly ==
  /\ Running
  /\ spc = "write"
  /\ ~reqUp
  /\ cancel' = TRUE
  /\ spc' = "done"
  /\ smsg' = NoUpdate
  /\ UNCHANGED <<startVars, watchVars, rpc, reportVars, streamVars>>
WriteFails ==
  /\ Running
  /\ spc = "write"
  /\ ~reqUp
  /\ cancel' = TRUE
  /\ spc' = "closing"
  /\ smsg' = NoUpdate
  /\ UNCHANGED <<startVars, watchVars, rpc, reportVars, streamVars>>

SendPublishes ==
  /\ Running
  /\ spc = "closing"
  /\ Publish("Disconnected")
  /\ spc' = "done"
  /\ UNCHANGED <<startVars, cancel, smsg, rpc, reportVars, streamVars>>

-----------------------------------------------------------------------------
(***************************************************************************)
(* The load tasks, and report_status.                                      *)
(***************************************************************************)

\* The load task gets its permit and reports IN_PROGRESS.
LoadStarts(k) ==
  /\ Running
  /\ load[k] = "queued"
  /\ load' = [load EXCEPT ![k] = "started"]
  /\ StartsReport(k, Update(k, "InProgress"))
  /\ UNCHANGED <<startVars, watchVars, taskVars, attempt, out, streamVars>>

\* The load is answered; an evicted one reports nothing.
LoadEnds(k) ==
  /\ Running
  /\ load[k] = "started"
  /\ report[k] = NoUpdate
  /\ load' = [load EXCEPT ![k] = "ending"]
  /\ \/ \E st \in {"Completed", "Failed"} : StartsReport(k, Update(k, st))
     \/ UNCHANGED report
  /\ UNCHANGED <<startVars, watchVars, taskVars, attempt, out, streamVars>>

ReportDone(r) ==
  /\ report' = [report EXCEPT ![r] = NoUpdate]
  /\ attempt' = [attempt EXCEPT ![r] = 0]

Reporting(r) == Running /\ report[r] # NoUpdate

\* outgoing_tx.get() is None: nothing is reported.
SkipReport(r) ==
  /\ Reporting(r)
  /\ ~sender
  /\ ReportDone(r)
  /\ UNCHANGED <<startVars, watchVars, taskVars, load, out, streamVars>>

RetriesLeft(r) == attempt[r] + 1 < RetryCount

EnqueuedNotReturning(r) ==
  /\ out' = Append(out, report[r])
  /\ IF RetriesLeft(r)
       THEN attempt' = [attempt EXCEPT ![r] = @ + 1] /\ UNCHANGED report
       ELSE ReportDone(r)
Enqueued(r) ==
  /\ out' = Append(out, report[r])
  /\ ReportDone(r)

TrySend(r) ==
  /\ Reporting(r)
  /\ sender
  /\ spc # "done"
  /\ Len(out) < Capacity
  /\ Enqueued(r)
  /\ UNCHANGED <<startVars, watchVars, taskVars, load, streamVars>>

\* The channel is full: wait and retry, or give up.
TrySendFull(r) ==
  /\ Reporting(r)
  /\ sender
  /\ spc # "done"
  /\ Len(out) = Capacity
  /\ IF RetriesLeft(r)
       THEN attempt' = [attempt EXCEPT ![r] = @ + 1] /\ UNCHANGED report
       ELSE ReportDone(r)
  /\ UNCHANGED <<startVars, watchVars, taskVars, load, out, streamVars>>

\* The Send Task has returned and dropped outgoing_rx.
TrySendClosed(r) ==
  /\ Reporting(r)
  /\ sender
  /\ spc = "done"
  /\ ReportDone(r)
  /\ UNCHANGED <<startVars, watchVars, taskVars, load, out, streamVars>>

-----------------------------------------------------------------------------
(***************************************************************************)
(* The stream and the control plane behind it.                             *)
(***************************************************************************)

StreamOpen == Running /\ main \notin {"connect", "open"}

CpSends(msg) ==
  /\ StreamOpen
  /\ respUp
  /\ inbound < MaxInbound
  /\ msg.type = "assign" => load[msg.key] = "none" /\ msg \notin ToSet(inbox)
  /\ inbox' = Append(inbox, msg)
  /\ inbound' = inbound + 1
  /\ UNCHANGED <<startVars, watchVars, taskVars, reportVars, grpc, reqUp, respUp, wire>>

CpReads ==
  /\ StreamOpen
  /\ reqUp
  /\ grpc # <<>>
  /\ grpc' = Tail(grpc)
  /\ wire' = IF Head(grpc) \in Updates THEN Append(wire, Head(grpc)) ELSE wire
  /\ UNCHANGED <<startVars, watchVars, taskVars, reportVars, reqUp, respUp, inbox, inbound>>

\* The request half dies with what was still to be read from it.
RequestDies ==
  /\ StreamOpen
  /\ reqUp
  /\ reqUp' = FALSE
  /\ grpc' = <<>>
  /\ UNCHANGED <<startVars, watchVars, taskVars, reportVars, respUp, inbox, inbound, wire>>

\* The server closes the response half, or an error loses what was in flight.
ResponseDies ==
  /\ StreamOpen
  /\ respUp
  /\ respUp' = FALSE
  /\ inbox' \in {inbox, <<>>}
  /\ UNCHANGED <<startVars, watchVars, taskVars, reportVars, grpc, reqUp, inbound, wire>>

-----------------------------------------------------------------------------

MainStep ==
  \/ Connect \/ OpenStream \/ SendRegister \/ FirstMessage \/ HandshakeFails
  \/ \E k \in Keys : Reconcile(k)
  \/ GoActive \/ InitSender \/ StartFlight \/ StatusChanged

ReceiveStep ==
  \/ ReceiveCancelled \/ ResponseEnds \/ ReceivePublishes
  \/ HandleInbound \/ InboundHandled

SendStep ==
  \/ SendCancelled \/ Flush \/ Flushed \/ TakeUpdate \/ TakeHeartbeat
  \/ WriteProto \/ WriteFails \/ SendPublishes

ReportStep(r) == SkipReport(r) \/ TrySend(r) \/ TrySendFull(r) \/ TrySendClosed(r)
LoadStep(k) == LoadStarts(k) \/ LoadEnds(k)

StreamStep ==
  \/ \E msg \in Inbound : CpSends(msg)
  \/ CpReads \/ RequestDies \/ ResponseDies

Next ==
  \/ MainStep \/ Interrupt \/ ReceiveStep \/ SendStep \/ StreamStep
  \/ \E r \in Reporters : ReportStep(r)
  \/ \E k \in Keys : LoadStep(k)

(***************************************************************************)
(* The runtime polls every task that is ready, a reporter's sleep ends, the *)
(* heartbeat ticks, and the control plane keeps reading a live stream.  It   *)
(* need not send anything, loads need not end, and no half need die.         *)
(***************************************************************************)
Fairness ==
  /\ WF_vars(MainStep)
  /\ WF_vars(ReceiveStep)
  /\ WF_vars(SendStep)
  /\ WF_vars(CpReads)
  /\ \A r \in Reporters : WF_vars(ReportStep(r))

Spec == Init /\ [][Next]_vars /\ Fairness

-----------------------------------------------------------------------------
(***************************************************************************)
(* Properties.                                                             *)
(***************************************************************************)

\* A stream of which either half is dead ends the process, so that the
\* supervisor restarts it (main.rs): whatever main, the handshake, the two
\* tasks and the reporters were doing.
DeadStreamEndsProcess == (~reqUp \/ ~respUp) ~> (main = "exited")

\* Disconnected is the last value the status channel ever holds, although two
\* tasks and start publish on it.
DisconnectedIsFinal == [][status = "Disconnected" => status' = "Disconnected"]_vars

\* The two tasks never both end without Disconnected on the channel (the
\* comment of run_receive_task): main would take the closed channel for a
\* clean shutdown and exit with code 0.
NeverSilentlyGone == (spc = "done" /\ rpc = "done") => status = "Disconnected"

\* A COMPLETED the outgoing channel accepted reaches the control plane, unless
\* the session or the process ends first: full channels delay it, they do not
\* lose it.
CompletedIsDelivered ==
  \A k \in Keys :
    Update(k, "Completed") \in ToSet(out)
      ~> (Update(k, "Completed") \in ToSet(wire) \/ cancel \/ ~reqUp \/ ~Running)

\* Everything on its way to the control plane, the oldest first: received, in
\* the stream, being written, queued.
Path == wire \o grpc \o <<smsg>> \o out

\* The turns in which an epoch may be reported: by the reconciliation, when its
\* load starts, when its load ends.
Turn(k, st, n) == \/ n = 1 /\ st = "Completed" /\ k \in Loaded
                  \/ n = 2 /\ st = "InProgress"
                  \/ n = 3 /\ st \in {"Completed", "Failed"}

\* The statuses of k in q are reports of the turns lo, ..., hi - 1, each at most
\* once and in that order.
InTurn(q, k, lo, hi) ==
  \E g \in [{i \in DOMAIN q : q[i].key = k} -> lo..(hi - 1)] :
    /\ \A i \in DOMAIN g : Turn(k, q[i].status, g[i])
    /\ \A i, j \in DOMAIN g : i < j => g[i] < g[j]

\* Along the whole path to the control plane the statuses of an epoch are those
\* of one load, in order and each at most once, after the report of the
\* reconciliation: retries do not duplicate and no channel reorders.
ReportsInOrder == \A k \in Keys : InTurn(Path, k, 1, 4)

=============================================================================
