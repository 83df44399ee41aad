------------------------------ MODULE Pipeline ------------------------------
(***************************************************************************)
(* The streaming execution of a plan (coordinator.rs execute_pipelined and *)
(* stage.rs submit_stage_streaming).                                       *)
(*                                                                         *)
(* Every stage is two tasks: one drains the stage's inputs, runs its SQL   *)
(* and puts the batches into a stream of its own; the other forwards that  *)
(* stream over the bounded channel of the edge to the stage's reader.  The *)
(* coordinator awaits the forwarders in plan order, drops its sender of    *)
(* the root channel and takes what the collector gathered; a failed stage  *)
(* or the query's timeout makes it leave while the tasks go on.  Channels  *)
(* close when their last sender is gone and refuse a send when their       *)
(* receiver is; an error never crosses an edge, it only closes it.  A plan *)
(* is a tree: a stage has one reader, a later stage or the client.         *)
(***************************************************************************)
EXTENDS Naturals, Sequences, SequencesExt

CONSTANTS
    N,              \* stages, numbered in plan order; the last is the root
    ReaderOf,       \* [1..N -> 1..N+1]: who reads a stage, N + 1 being the client
    Capacity,       \* batches an edge holds (compute_buffer_capacity)
    StreamCapacity, \* batches a stage's own stream holds
    MaxBatches      \* batches a stage's SQL returns, at most

Stages == 1..N
Client == N + 1
InputsOf(s) == {p \in Stages : ReaderOf[p] = s}

ASSUME PlanIsATree ==
    /\ N \in Nat \ {0} /\ MaxBatches \in Nat
    /\ ReaderOf \in [Stages -> 1..Client]
    /\ \A s \in Stages : ReaderOf[s] > s /\ (ReaderOf[s] = Client <=> s = N)

VARIABLES
    task,       \* a stage's background task: "collect", "send" or "done"
    left,       \* the inputs that task has not drained yet, in the order of its hash map
    todo,       \* batches it still has to put into its stream
    made,       \* batches the stage's SQL returned
    stream,     \* the stage's own stream
    fwd,        \* its forwarder: "recv", "send", "ok" or "err"
    chan,       \* batches in the channel from a stage to its reader
    got,        \* batches of a stage its reader has received
    collector,  \* the client's collecting task: "recv" or "done"
    awaiting,   \* the stage whose forwarder the coordinator awaits; N + 1: all ended
    outcome     \* of execute_pipelined: "none", "ok", "failed" or "timeout"

pipeVars == <<task, left, todo, made, stream, fwd, chan, got, collector, awaiting, outcome>>

PipelineInit ==
    /\ task = [s \in Stages |-> "collect"]
    /\ left \in [Stages -> UNION {SetToSeqs(InputsOf(s)) : s \in Stages}]
    /\ \A s \in Stages : left[s] \in SetToSeqs(InputsOf(s))
    /\ todo = [s \in Stages |-> 0]
    /\ made = [s \in Stages |-> 0]
    /\ stream = [s \in Stages |-> <<>>]
    /\ fwd = [s \in Stages |-> "recv"]
    /\ chan = [s \in Stages |-> 0]
    /\ got = [s \in Stages |-> 0]
    /\ collector = "recv" /\ awaiting = 1 /\ outcome = "none"

----------------------------------------------------------------------------
(* Mutant: the channel map keeps a sender of every edge. *)
SenderKept(p) == FALSE

(* A channel has no sender left.  The coordinator keeps one of the root's  *)
(* until every stage has ended or it leaves.                               *)
Closed(p) ==
    /\ fwd[p] \in {"ok", "err"}
    /\ ReaderOf[p] = Client => outcome # "none" \/ awaiting > N

ReceiverGone(p) ==
    IF ReaderOf[p] = Client THEN collector = "done" ELSE p \notin Range(left[ReaderOf[p]])

(* The background task takes its inputs one after the other, each to its   *)
(* end.                                                                    *)
Draining(s, p) == task[s] = "collect" /\ left[s] # <<>> /\ p = Head(left[s])

Receive(s, p) ==
    /\ Draining(s, p) /\ chan[p] > 0
    /\ chan' = [chan EXCEPT ![p] = @ - 1]
    /\ got' = [got EXCEPT ![p] = @ + 1]
    /\ UNCHANGED <<task, left, todo, made, stream, fwd, collector, awaiting, outcome>>

InputEnds(s, p) ==
    /\ Draining(s, p) /\ chan[p] = 0 /\ Closed(p)
    /\ left' = [left EXCEPT ![s] = Tail(@)]
    /\ UNCHANGED <<task, todo, made, stream, fwd, chan, got, collector, awaiting, outcome>>

(* execute_stage_batches: an input without batches is not registered, so   *)
(* the SQL that names it fails; otherwise it returns at least one batch or *)
(* fails for reasons of its own (a scan of a table the fresh in-memory     *)
(* database does not have).                                                *)
RunSql(s) ==
    /\ task[s] = "collect" /\ left[s] = <<>>
    /\ \E n \in 1..MaxBatches :
         /\ \A p \in InputsOf(s) : got[p] > 0
         /\ made' = [made EXCEPT ![s] = n]
         /\ todo' = [todo EXCEPT ![s] = n]
         /\ task' = [task EXCEPT ![s] = "send"]
    /\ UNCHANGED <<left, stream, fwd, chan, got, collector, awaiting, outcome>>

SqlFails(s) ==
    /\ task[s] = "collect" /\ left[s] = <<>>
    /\ stream' = [stream EXCEPT ![s] = Append(@, "err")]
    /\ task' = [task EXCEPT ![s] = "done"]
    /\ UNCHANGED <<left, todo, made, fwd, chan, got, collector, awaiting, outcome>>

Emit(s) ==
    /\ task[s] = "send"
    /\ \/ /\ todo[s] > 0 /\ fwd[s] \notin {"ok", "err"} /\ Len(stream[s]) < StreamCapacity
          /\ stream' = [stream EXCEPT ![s] = Append(@, "batch")]
          /\ todo' = [todo EXCEPT ![s] = @ - 1]
          /\ UNCHANGED task
       \/ /\ todo[s] = 0 \/ fwd[s] \in {"ok", "err"}
          /\ task' = [task EXCEPT ![s] = "done"]
          /\ UNCHANGED <<stream, todo>>
    /\ UNCHANGED <<left, made, fwd, chan, got, collector, awaiting, outcome>>

(* The forwarder: the next item of the stage's stream, and its send. *)
Take(s) ==
    /\ fwd[s] = "recv"
    /\ \/ /\ stream[s] # <<>>
          /\ fwd' = [fwd EXCEPT ![s] = IF Head(stream[s]) = "err" THEN "err" ELSE "send"]
          /\ stream' = [stream EXCEPT ![s] = Tail(@)]
       \/ /\ stream[s] = <<>> /\ task[s] = "done"
          /\ fwd' = [fwd EXCEPT ![s] = "ok"]
          /\ UNCHANGED stream
    /\ UNCHANGED <<task, left, todo, made, chan, got, collector, awaiting, outcome>>

Forward(s) ==
    /\ fwd[s] = "send"
    /\ \/ /\ ReceiverGone(s)
          /\ fwd' = [fwd EXCEPT ![s] = "err"]
          /\ UNCHANGED chan
       \/ /\ ~ReceiverGone(s) /\ chan[s] < Capacity
          /\ fwd' = [fwd EXCEPT ![s] = "recv"]
          /\ chan' = [chan EXCEPT ![s] = @ + 1]
    /\ UNCHANGED <<task, left, todo, made, stream, got, collector, awaiting, outcome>>

(* The collecting task. *)
Collect ==
    /\ collector = "recv"
    /\ \/ /\ chan[N] > 0
          /\ chan' = [chan EXCEPT ![N] = @ - 1]
          /\ got' = [got EXCEPT ![N] = @ + 1]
          /\ UNCHANGED collector
       \/ /\ chan[N] = 0 /\ Closed(N)
          /\ collector' = "done"
          /\ UNCHANGED <<chan, got>>
    /\ UNCHANGED <<task, left, todo, made, stream, fwd, awaiting, outcome>>

(* Mutant: a forwarder that ended with an error is only logged. *)
AwaitAny ==
    /\ outcome = "none" /\ awaiting <= N /\ fwd[awaiting] \in {"ok", "err"}
    /\ awaiting' = awaiting + 1
    /\ UNCHANGED <<task, left, todo, made, stream, fwd, chan, got, collector, outcome>>

(* The coordinator. *)
AwaitStage ==
    /\ outcome = "none" /\ awaiting <= N /\ fwd[awaiting] \in {"ok", "err"}
    /\ IF fwd[awaiting] = "ok" THEN awaiting' = awaiting + 1 /\ UNCHANGED outcome
       ELSE outcome' = "failed" /\ UNCHANGED awaiting
    /\ UNCHANGED <<task, left, todo, made, stream, fwd, chan, got, collector>>

Return ==
    /\ outcome = "none" /\ awaiting > N /\ collector = "done"
    /\ outcome' = "ok"
    /\ UNCHANGED <<task, left, todo, made, stream, fwd, chan, got, collector, awaiting>>

(* execute_query's timeout drops the future; the spawned tasks are not its. *)
QueryTimeout ==
    /\ outcome = "none" /\ outcome' = "timeout"
    /\ UNCHANGED <<task, left, todo, made, stream, fwd, chan, got, collector, awaiting>>

StageStep(s) ==
    \/ \E p \in InputsOf(s) : Receive(s, p) \/ InputEnds(s, p)
    \/ RunSql(s) \/ SqlFails(s) \/ Emit(s) \/ Take(s) \/ Forward(s)

AllEnded ==
    /\ collector = "done" /\ outcome # "none"
    /\ \A s \in Stages : task[s] = "done" /\ fwd[s] \in {"ok", "err"}

PipelineNext == (\E s \in Stages : StageStep(s)) \/ Collect \/ AwaitStage \/ Return \/ QueryTimeout

(* Tokio runs every task that can move; the timeout need not come. *)
PipelineFairness ==
    /\ \A s \in Stages : WF_pipeVars(StageStep(s))
    /\ WF_pipeVars(Collect) /\ WF_pipeVars(AwaitStage) /\ WF_pipeVars(Return)

PipelineSpec == PipelineInit /\ [][PipelineNext]_pipeVars /\ PipelineFairness

----------------------------------------------------------------------------
(* A pipelined execution that reports success lost nothing: the SQL of     *)
(* every stage ran on all the batches its inputs ever had, and the client  *)
(* has all of the root's, although a failing stage shows its reader no     *)
(* error, only a channel that ends early (execute_pipelined).              *)
SuccessIsWhole ==
    outcome = "ok" => \A s \in Stages : made[s] > 0 /\ got[s] = made[s]

(* Every task of the pipeline ends, whatever fails and whenever the        *)
(* coordinator leaves: none stays blocked on a full channel nobody reads   *)
(* or an empty one nobody closes, and the coordinator always returns.      *)
PipelineWindsDown == <>[]AllEnded
=============================================================================
