-------------------------- MODULE Pipeline_proofs ---------------------------
(***************************************************************************)
(* SuccessIsWhole for a tree of any number of stages, any capacities and   *)
(* any number of batches.                                                  *)
(*                                                                         *)
(* The inductive invariant accounts for every batch: as long as a stage    *)
(* has not failed, what its SQL returned is with the task, in the stage's  *)
(* stream, in the forwarder's hand, in the channel or with the reader      *)
(* (Accounted).  A reader leaves an input only when its forwarder has      *)
(* ended and its channel is empty (Drained), and the coordinator passes    *)
(* only forwarders that ended well (Awaited): what is left at the end is   *)
(* made = got.                                                             *)
(*                                                                         *)
(* The module also has that the pipeline is never stuck, and what is true  *)
(* of the plans it is given: their levels and their way over the wire.     *)
(***************************************************************************)
EXTENDS Pipeline, LdpWire, FiniteSetTheorems, WellFoundedInduction, TLAPS

Ended(s) == fwd[s] \in {"ok", "err"}
ErrOnly == <<"err">>
Failing(s) == fwd[s] = "err" \/ stream[s] = ErrOnly
InHand(s) == IF fwd[s] = "send" THEN 1 ELSE 0

Counts ==
    /\ todo \in [Stages -> Nat] /\ made \in [Stages -> Nat]
    /\ chan \in [Stages -> Nat] /\ got \in [Stages -> Nat]

PTypes ==
    /\ Counts
    /\ task \in [Stages -> {"collect", "send", "done"}]
    /\ left \in [Stages -> Seq(Stages)]
    /\ stream \in [Stages -> Seq({"batch"}) \cup {ErrOnly}]
    /\ fwd \in [Stages -> {"recv", "send", "ok", "err"}]
    /\ collector \in {"recv", "done"} /\ awaiting \in 1..Client
    /\ outcome \in {"none", "ok", "failed", "timeout"}

Accounted(s) ==
    /\ task[s] = "collect" => /\ todo[s] = 0 /\ made[s] = 0 /\ got[s] = 0 /\ chan[s] = 0
                              /\ stream[s] = <<>> /\ fwd[s] = "recv"
    /\ task[s] # "collect" => left[s] = <<>>
    /\ task[s] # "collect" /\ ~Failing(s)
         => /\ made[s] > 0
            /\ made[s] = got[s] + chan[s] + InHand(s) + Len(stream[s]) + todo[s]
    /\ stream[s] = ErrOnly => task[s] = "done" /\ fwd[s] # "ok"
    /\ task[s] = "done" => todo[s] = 0 \/ Failing(s)
    /\ fwd[s] = "ok" => task[s] = "done" /\ stream[s] = <<>>

Drained(s) == ReceiverGone(s) => Ended(s) /\ chan[s] = 0

Awaited ==
    /\ \A s \in Stages : s < awaiting => fwd[s] = "ok"
    /\ outcome = "ok" => awaiting = Client /\ collector = "done"

PInv == PTypes /\ (\A s \in Stages : Accounted(s) /\ Drained(s)) /\ Awaited

----------------------------------------------------------------------------
(* The hash map of a stage's inputs holds each of them. *)
LEMMA OrderHoldsInputs ==
    ASSUME NEW s \in Stages, NEW f \in SetToSeqs(InputsOf(s))
    PROVE  f \in Seq(Stages) /\ Range(f) = InputsOf(s)
<1>1. IsFiniteSet(InputsOf(s)) /\ Cardinality(InputsOf(s)) \in Nat
  <2>1. IsFiniteSet(Stages)
    BY PlanIsATree, FS_Interval DEF Stages
  <2>2. InputsOf(s) \subseteq Stages
    BY DEF InputsOf
  <2> QED
    BY <2>1, <2>2, FS_Subset, FS_CardinalityType
<1> DEFINE D == 1..Cardinality(InputsOf(s))
<1>2. IsFiniteSet(D) /\ Cardinality(D) = Cardinality(InputsOf(s))
  BY <1>1, FS_Interval
<1>3. f \in [D -> InputsOf(s)] /\ \A i, j \in D : i # j => f[i] # f[j]
  BY DEF SetToSeqs
<1>4. f \in Injection(D, InputsOf(s))
  BY <1>3 DEF Injection, IsInjective
<1>5. f \in Surjection(D, InputsOf(s))
  BY <1>1, <1>2, <1>4, FS_Injection
<1>6. Range(f) = InputsOf(s)
  BY <1>3, <1>5 DEF Surjection, Range
<1>7. f \in Seq(Stages)
  BY <1>1, <1>3 DEF InputsOf
<1> QED
  BY <1>6, <1>7

(* Streams of batches, *)
LEMMA BatchStreams ==
    ASSUME NEW q \in Seq({"batch"})
    PROVE  /\ q # ErrOnly /\ Len(q) \in Nat
           /\ Append(q, "batch") \in Seq({"batch"}) /\ Len(Append(q, "batch")) = Len(q) + 1
           /\ q # <<>> => /\ Head(q) = "batch" /\ Tail(q) \in Seq({"batch"})
                          /\ Len(q) > 0 /\ Len(Tail(q)) = Len(q) - 1
BY DEF ErrOnly

(* and streams that end in an error. *)
LEMMA ErrStreams ==
    /\ <<>> \in Seq({"batch"}) /\ Len(<<>>) = 0 /\ <<>> # ErrOnly
    /\ Append(<<>>, "err") = ErrOnly /\ Head(ErrOnly) = "err" /\ Tail(ErrOnly) = <<>>
BY DEF ErrOnly

(* The rest of a list of inputs, *)
LEMMA TailFacts ==
    ASSUME NEW q \in Seq(Stages), q # <<>>
    PROVE  /\ Tail(q) \in Seq(Stages) /\ Len(Tail(q)) = Len(q) - 1 /\ Len(q) \in Nat
           /\ DOMAIN Tail(q) = 1..Len(Tail(q))
           /\ \A j \in 1..Len(Tail(q)) : Tail(q)[j] = q[j + 1]
OBVIOUS

(* and its elements. *)
LEMMA HeadAndTail ==
    ASSUME NEW q \in Seq(Stages), q # <<>>
    PROVE  Tail(q) \in Seq(Stages) /\ Range(q) \subseteq {Head(q)} \cup Range(Tail(q))
<1>1. ASSUME NEW i \in 1..Len(q), i # 1 PROVE q[i] \in Range(Tail(q))
  <2>1. i - 1 \in 1..Len(Tail(q)) /\ Tail(q)[i - 1] = q[i] /\ DOMAIN Tail(q) = 1..Len(Tail(q))
    BY <1>1, TailFacts
  <2> QED
    BY <2>1, Zenon DEF Range
<1>2. q[1] = Head(q) /\ DOMAIN q = 1..Len(q)
  OBVIOUS
<1> QED
  BY <1>1, <1>2, TailFacts DEF Range

(* Every stage but the last is read by a later one, the last by the client. *)
LEMMA TreeFacts ==
    /\ N \in Stages /\ Client \notin Stages /\ Stages \subseteq Nat /\ Client \in Nat
    /\ \A s \in Stages : s < Client
    /\ \A s \in Stages : ReaderOf[s] = Client \/ ReaderOf[s] \in Stages
    /\ \A s \in Stages : ReaderOf[s] = Client <=> s = N
BY PlanIsATree DEF Stages, Client

(* PInv holds at the start. *)
LEMMA PInvInit == PipelineInit => PInv
<1> SUFFICES ASSUME PipelineInit PROVE PInv
  OBVIOUS
<1>1. left \in [Stages -> Seq(Stages)] /\ \A s \in Stages : Range(left[s]) = InputsOf(s)
  <2>1. \A s \in Stages : left[s] \in Seq(Stages) /\ Range(left[s]) = InputsOf(s)
    BY OrderHoldsInputs DEF PipelineInit
  <2>2. left \in [Stages -> UNION {SetToSeqs(InputsOf(s)) : s \in Stages}]
    BY DEF PipelineInit
  <2> QED
    BY <2>1, <2>2
<1>2. PTypes
  BY <1>1, PlanIsATree DEF PipelineInit, PTypes, Counts, Client, Stages, ErrOnly
<1>3. ASSUME NEW s \in Stages PROVE Accounted(s)
  BY DEF PipelineInit, Accounted, ErrOnly
<1>4. ASSUME NEW s \in Stages PROVE Drained(s)
  BY <1>1, TreeFacts DEF PipelineInit, Drained, ReceiverGone, InputsOf
<1>5. Awaited
  BY DEF PipelineInit, Awaited, Stages
<1> QED
  BY <1>2, <1>3, <1>4, <1>5 DEF PInv

(* PInv is inductive. *)
LEMMA PInvStep == PInv /\ [PipelineNext]_pipeVars => PInv'
<1>1. ASSUME PInv, UNCHANGED pipeVars PROVE PInv'
  BY <1>1
     DEF pipeVars, PInv, PTypes, Counts, Accounted, Drained, Awaited, Failing, InHand, Ended, ReceiverGone
<1>2. ASSUME PInv, NEW s \in Stages, NEW p \in InputsOf(s), Receive(s, p) PROVE PInv'
  <2>0. PTypes /\ Awaited /\ \A r \in Stages : Accounted(r) /\ Drained(r)
    BY <1>2 DEF PInv
  <2>a. p \in Stages /\ ReaderOf[p] = s /\ chan[p] > 0
    BY <1>2 DEF Receive, InputsOf
  <2>b. chan[p] - 1 \in Nat /\ got[p] + 1 \in Nat
    <3>1. chan[p] \in Nat /\ got[p] \in Nat
      BY <2>0, <2>a DEF PTypes, Counts
    <3> QED
      BY <2>a, <3>1
  <2>1. PTypes'
    <3>1. Counts'
      BY <1>2, <2>0, <2>a, <2>b DEF PTypes, Counts, Receive
    <3> QED
      BY <1>2, <2>0, <3>1 DEF PTypes, Receive
  <2>2. ASSUME NEW r \in Stages PROVE Accounted(r)'
    <3>1. Accounted(r)
      BY <2>0
    <3>2. CASE r = p
      <4>1. stream[r] # ErrOnly => stream[r] \in Seq({"batch"}) /\ Len(stream[r]) \in Nat
        BY <2>0, BatchStreams DEF PTypes
      <4>2. /\ chan'[r] = chan[r] - 1 /\ got'[r] = got[r] + 1
            /\ UNCHANGED <<task, left, todo, made, stream, fwd>>
        BY <1>2, <2>0, <3>2 DEF Receive, PTypes, Counts
      <4>3. todo[r] \in Nat /\ made[r] \in Nat /\ chan[r] \in Nat /\ got[r] \in Nat /\ chan[r] > 0
        BY <2>0, <2>a, <3>2 DEF PTypes, Counts
      <4> QED
        BY <3>1, <4>1, <4>2, <4>3 DEF PTypes, Counts, Accounted, Failing, InHand
    <3>3. CASE r # p
      BY <1>2, <2>0, <2>a, <3>1, <3>3 DEF PTypes, Counts, Accounted, Failing, InHand, Receive
    <3> QED
      BY <3>2, <3>3
  <2>3. ASSUME NEW r \in Stages PROVE Drained(r)'
    <3>1. Drained(r)
      BY <2>0
    <3> QED
      <4>1. /\ ReceiverGone(r)' <=> ReceiverGone(r)
            /\ Ended(r)' <=> Ended(r)
        BY <1>2 DEF ReceiverGone, Ended, Receive
      <4>2. r # p => chan'[r] = chan[r]
        BY <1>2, <2>0, <2>a DEF Receive, PTypes, Counts
      <4>3. ~(Drained(r) /\ r = p /\ ReceiverGone(r))
        BY <2>a DEF Drained
      <4> QED
        BY <3>1, <4>1, <4>2, <4>3 DEF Drained
  <2>4. Awaited'
    BY <1>2, <2>0, TreeFacts DEF PTypes, Awaited, Receive, Draining, InputsOf
  <2> QED
    BY <2>1, <2>2, <2>3, <2>4 DEF PInv
<1>3. ASSUME PInv, NEW s \in Stages, NEW p \in InputsOf(s), InputEnds(s, p) PROVE PInv'
  <2>0. PTypes /\ Awaited /\ \A r \in Stages : Accounted(r) /\ Drained(r)
    BY <1>3 DEF PInv
  <2>a. /\ p \in Stages /\ ReaderOf[p] = s /\ chan[p] = 0 /\ Ended(p)
        /\ left[s] \in Seq(Stages) /\ left[s] # <<>> /\ p = Head(left[s])
    BY <1>3, <2>0 DEF InputEnds, Draining, Closed, Ended, InputsOf, PTypes
  <2>1. PTypes'
    BY <1>3, <2>0, <2>a, HeadAndTail, Zenon DEF PTypes, Counts, InputEnds
  <2>2. ASSUME NEW r \in Stages PROVE Accounted(r)'
    <3>1. Accounted(r)
      BY <2>0
    <3> QED
      BY <1>3, <2>0, <3>1
         DEF PTypes, Counts, Accounted, Failing, InHand, InputEnds, Draining, InputsOf
  <2>3. ASSUME NEW r \in Stages PROVE Drained(r)'
    <3>1. Drained(r)
      BY <2>0
    <3>2. CASE r = p
      BY <1>3, <2>a, <3>2 DEF Drained, Ended, InputEnds
    <3>3. CASE r # p
      <4>1. ReceiverGone(r)' => ReceiverGone(r)
        BY <1>3, <2>0, <2>a, <3>3, HeadAndTail, TreeFacts, Zenon
           DEF PTypes, Counts, ReceiverGone, InputEnds
      <4> QED
        BY <1>3, <3>1, <4>1 DEF Drained, Ended, InputEnds
    <3> QED
      BY <3>2, <3>3
  <2>4. Awaited'
    BY <1>3, <2>0, TreeFacts DEF PTypes, Awaited, InputEnds, Draining, InputsOf
  <2> QED
    BY <2>1, <2>2, <2>3, <2>4 DEF PInv
<1>4. ASSUME PInv, NEW s \in Stages, RunSql(s) PROVE PInv'
  <2>0. PTypes /\ Awaited /\ \A r \in Stages : Accounted(r) /\ Drained(r)
    BY <1>4 DEF PInv
  <2>1. PTypes'
    <3>1. PICK n \in 1..MaxBatches : /\ made' = [made EXCEPT ![s] = n]
                                     /\ todo' = [todo EXCEPT ![s] = n]
                                      /\ task' = [task EXCEPT ![s] = "send"]
      BY <1>4, Zenon DEF RunSql
    <3>2. n \in Nat
      BY PlanIsATree
    <3> QED
      BY <1>4, <2>0, <3>1, <3>2 DEF PTypes, Counts, RunSql
  <2>2. ASSUME NEW r \in Stages PROVE Accounted(r)'
    <3>1. Accounted(r)
      BY <2>0
    <3> QED
      BY <1>4, <2>0, <3>1 DEF PTypes, Counts, Accounted, Failing, InHand, RunSql
  <2>3. ASSUME NEW r \in Stages PROVE Drained(r)'
    <3>1. Drained(r)
      BY <2>0
    <3> QED
      BY <1>4, <2>0, <3>1, TreeFacts DEF PTypes, Counts, Drained, Ended, ReceiverGone, RunSql
  <2>4. Awaited'
    BY <1>4, <2>0, TreeFacts DEF PTypes, Awaited, RunSql
  <2> QED
    BY <2>1, <2>2, <2>3, <2>4 DEF PInv
<1>5. ASSUME PInv, NEW s \in Stages, SqlFails(s) PROVE PInv'
  <2>0. PTypes /\ Awaited /\ \A r \in Stages : Accounted(r) /\ Drained(r)
    BY <1>5 DEF PInv
  <2>a. /\ stream' = [stream EXCEPT ![s] = ErrOnly] /\ fwd[s] = "recv"
        /\ left[s] = <<>> /\ todo[s] = 0
    BY <1>5, <2>0, ErrStreams, Zenon DEF SqlFails, Accounted
  <2>1. PTypes'
    BY <1>5, <2>0, <2>a DEF PTypes, Counts, SqlFails
  <2>2. ASSUME NEW r \in Stages PROVE Accounted(r)'
    <3>1. Accounted(r)
      BY <2>0
    <3> QED
      BY <1>5, <2>0, <2>a, <3>1 DEF PTypes, Counts, Accounted, Failing, InHand, SqlFails
  <2>3. ASSUME NEW r \in Stages PROVE Drained(r)'
    <3>1. Drained(r)
      BY <2>0
    <3> QED
      BY <1>5, <2>0, <3>1, TreeFacts DEF PTypes, Counts, Drained, Ended, ReceiverGone, SqlFails
  <2>4. Awaited'
    BY <1>5, <2>0, TreeFacts DEF PTypes, Awaited, SqlFails
  <2> QED
    BY <2>1, <2>2, <2>3, <2>4 DEF PInv
<1>6. ASSUME PInv, NEW s \in Stages, Emit(s) PROVE PInv'
  <2>0. PTypes /\ Awaited /\ \A r \in Stages : Accounted(r) /\ Drained(r)
    BY <1>6 DEF PInv
  <2>a. task[s] = "send" /\ stream[s] \in Seq({"batch"}) /\ fwd[s] # "ok"
    BY <1>6, <2>0 DEF Emit, PTypes, Accounted
  <2>b. /\ Append(stream[s], "batch") \in Seq({"batch"}) /\ Append(stream[s], "batch") # ErrOnly
        /\ Len(Append(stream[s], "batch")) = Len(stream[s]) + 1 /\ Len(stream[s]) \in Nat
    BY <2>a, BatchStreams, Zenon
  <2>c. todo[s] > 0 => todo[s] - 1 \in Nat
    BY <2>0 DEF PTypes, Counts
  <2>1. PTypes'
    <3>1. Counts'
      BY <1>6, <2>0, <2>c DEF PTypes, Counts, Emit
    <3>2. stream' \in [Stages -> Seq({"batch"}) \cup {ErrOnly}]
      BY <1>6, <2>0, <2>b, Zenon DEF PTypes, Emit
    <3>3. task' \in [Stages -> {"collect", "send", "done"}]
      BY <1>6, <2>0, Zenon DEF PTypes, Emit
    <3> QED
      BY <1>6, <2>0, <3>1, <3>2, <3>3 DEF PTypes, Emit
  <2>2. ASSUME NEW r \in Stages PROVE Accounted(r)'
    <3>1. Accounted(r)
      BY <2>0
    <3>2. CASE r = s
      <4>1. /\ todo[r] \in Nat /\ made[r] \in Nat /\ chan[r] \in Nat /\ got[r] \in Nat
            /\ stream[r] # ErrOnly
        BY <2>0, <2>a, <3>2, BatchStreams DEF PTypes, Counts
      <4>2. CASE /\ todo'[r] = todo[r] - 1 /\ stream'[r] = Append(stream[r], "batch") /\ todo[r] > 0
                 /\ UNCHANGED <<task, left, made, fwd, chan, got>>
        <5>1. ~Failing(r)' <=> ~Failing(r)
          BY <2>b, <3>2, <4>1, <4>2 DEF Failing
        <5>2. Len(stream'[r]) = Len(stream[r]) + 1 /\ stream'[r] # ErrOnly /\ Len(stream[r]) \in Nat
          BY <2>b, <3>2, <4>2
        <5>3. ~Failing(r) => /\ made[r] > 0
                             /\ made[r] = got[r] + chan[r] + InHand(r) + Len(stream[r]) + todo[r]
          BY <2>a, <3>1, <3>2 DEF Accounted
        <5>4. InHand(r) \in Nat /\ InHand(r)' = InHand(r)
          BY <4>2 DEF InHand
        <5>5. ~Failing(r) =>
                  made[r] = got[r] + chan[r] + InHand(r) + (Len(stream[r]) + 1) + (todo[r] - 1)
          <6> SUFFICES ASSUME ~Failing(r)
                       PROVE  made[r] = got[r] + chan[r] + InHand(r)
                                          + (Len(stream[r]) + 1) + (todo[r] - 1)
            OBVIOUS
          <6>1. made[r] = got[r] + chan[r] + InHand(r) + Len(stream[r]) + todo[r]
            BY <5>3
          <6>2. made[r] \in Nat /\ got[r] \in Nat /\ chan[r] \in Nat /\ todo[r] \in Nat
            BY <4>1
          <6> DEFINE l == Len(stream[r])
          <6> DEFINE h == InHand(r)
          <6>3. made[r] = got[r] + chan[r] + h + l + todo[r] /\ l \in Nat /\ h \in Nat
            BY <5>2, <5>4, <6>1
          <6> HIDE DEF l, h
          <6>4. made[r] = got[r] + chan[r] + h + (l + 1) + (todo[r] - 1)
            BY <6>2, <6>3
          <6> QED
            BY <6>4 DEF l, h
        <5>6. made'[r] = made[r] /\ got'[r] = got[r] /\ chan'[r] = chan[r]
          BY <4>2
        <5> QED
          BY <2>a, <3>1, <3>2, <4>2, <5>1, <5>2, <5>3, <5>4, <5>5, <5>6 DEF Accounted
      <4>3. CASE /\ task'[r] = "done" /\ (todo[r] = 0 \/ fwd[r] = "err")
                 /\ UNCHANGED <<left, made, fwd, chan, got, stream, todo>>
        BY <2>a, <2>b, <3>1, <3>2, <4>1, <4>3 DEF Accounted, Failing, InHand
      <4> QED
        BY <1>6, <2>0, <2>a, <3>2, <4>2, <4>3 DEF PTypes, Counts, Emit
    <3>3. CASE r # s
      BY <1>6, <2>0, <3>1, <3>3 DEF PTypes, Counts, Accounted, Failing, InHand, Emit
    <3> QED
      BY <3>2, <3>3
  <2>3. ASSUME NEW r \in Stages PROVE Drained(r)'
    <3>1. Drained(r)
      BY <2>0
    <3> QED
      BY <1>6, <2>0, <3>1, TreeFacts DEF PTypes, Counts, Drained, Ended, ReceiverGone, Emit
  <2>4. Awaited'
    BY <1>6, <2>0, TreeFacts DEF PTypes, Awaited, Emit
  <2> QED
    BY <2>1, <2>2, <2>3, <2>4 DEF PInv
<1>7. ASSUME PInv, NEW s \in Stages, Take(s) PROVE PInv'
  <2>0. PTypes /\ Awaited /\ \A r \in Stages : Accounted(r) /\ Drained(r)
    BY <1>7 DEF PInv
  <2>a. fwd[s] = "recv" /\ stream[s] \in Seq({"batch"}) \cup {ErrOnly}
    BY <1>7, <2>0 DEF Take, PTypes
  <2>b. CASE stream[s] = ErrOnly
    <3>1. /\ fwd' = [fwd EXCEPT ![s] = "err"] /\ stream' = [stream EXCEPT ![s] = <<>>]
          /\ UNCHANGED <<task, left, todo, made, chan, got, collector, awaiting, outcome>>
      BY <1>7, <2>b, ErrStreams DEF Take
    <3>2. PTypes'
      BY <2>0, <3>1, ErrStreams DEF PTypes, Counts
    <3>3. ASSUME NEW r \in Stages PROVE Accounted(r)'
      <4>1. Accounted(r)
        BY <2>0
      <4> QED
        BY <2>0, <2>b, <3>1, <4>1, ErrStreams DEF PTypes, Counts, Accounted, Failing, InHand
    <3>4. ASSUME NEW r \in Stages PROVE Drained(r)'
      <4>1. Drained(r)
        BY <2>0
      <4> QED
        BY <2>0, <3>1, <4>1, TreeFacts DEF PTypes, Counts, Drained, Ended, ReceiverGone
    <3>5. Awaited'
      BY <2>0, <2>a, <3>1, TreeFacts DEF PTypes, Awaited
    <3> QED
      BY <3>2, <3>3, <3>4, <3>5 DEF PInv
  <2>c. CASE stream[s] = <<>>
    <3>1. /\ fwd' = [fwd EXCEPT ![s] = "ok"] /\ task[s] = "done"
          /\ UNCHANGED <<task, left, todo, made, stream, chan, got, collector, awaiting, outcome>>
      BY <1>7, <2>c DEF Take
    <3>2. PTypes'
      BY <2>0, <3>1 DEF PTypes, Counts
    <3>3. ASSUME NEW r \in Stages PROVE Accounted(r)'
      <4>1. Accounted(r)
        BY <2>0
      <4> QED
        BY <2>0, <2>a, <2>c, <3>1, <4>1, ErrStreams DEF PTypes, Counts, Accounted, Failing, InHand
    <3>4. ASSUME NEW r \in Stages PROVE Drained(r)'
      <4>1. Drained(r)
        BY <2>0
      <4> QED
        BY <2>0, <3>1, <4>1, TreeFacts DEF PTypes, Counts, Drained, Ended, ReceiverGone
    <3>5. Awaited'
      BY <2>0, <2>a, <3>1, TreeFacts DEF PTypes, Awaited
    <3> QED
      BY <3>2, <3>3, <3>4, <3>5 DEF PInv
  <2>d. CASE stream[s] \in Seq({"batch"}) /\ stream[s] # <<>>
    <3>0. /\ Head(stream[s]) = "batch" /\ Tail(stream[s]) \in Seq({"batch"})
          /\ Tail(stream[s]) # ErrOnly /\ stream[s] # ErrOnly
          /\ Len(Tail(stream[s])) = Len(stream[s]) - 1 /\ Len(stream[s]) \in Nat
      BY <2>d, BatchStreams
    <3>1. /\ fwd' = [fwd EXCEPT ![s] = "send"] /\ stream' = [stream EXCEPT ![s] = Tail(stream[s])]
          /\ UNCHANGED <<task, left, todo, made, chan, got, collector, awaiting, outcome>>
      BY <1>7, <2>d, <3>0 DEF Take
    <3>2. PTypes'
      BY <2>0, <3>0, <3>1 DEF PTypes, Counts
    <3>3. ASSUME NEW r \in Stages PROVE Accounted(r)'
      <4>1. Accounted(r)
        BY <2>0
      <4>2. CASE r = s
        <5>1. /\ todo[r] \in Nat /\ made[r] \in Nat /\ chan[r] \in Nat /\ got[r] \in Nat
              /\ fwd'[r] = "send" /\ stream'[r] = Tail(stream[r])
          BY <2>0, <3>1, <4>2 DEF PTypes, Counts
        <5>2. ~Failing(r) /\ ~Failing(r)'
          BY <2>a, <3>0, <4>2, <5>1 DEF Failing
        <5>3. /\ Len(stream'[r]) = Len(stream[r]) - 1 /\ Len(stream[r]) \in Nat
              /\ InHand(r) = 0 /\ InHand(r)' = 1
          BY <2>a, <3>0, <4>2, <5>1 DEF InHand
        <5>4. task[r] # "collect"
          BY <2>d, <4>1, <4>2 DEF Accounted
        <5>5. made[r] > 0 /\ made[r] = got[r] + chan[r] + InHand(r) + Len(stream[r]) + todo[r]
          BY <4>1, <5>2, <5>4 DEF Accounted
        <5>6. made[r] = got[r] + chan[r] + InHand(r)' + Len(stream'[r]) + todo[r]
          BY <5>1, <5>3, <5>5
        <5> QED
          BY <3>0, <3>1, <4>1, <4>2, <5>1, <5>2, <5>4, <5>5, <5>6 DEF Accounted
      <4>3. CASE r # s
        BY <2>0, <3>1, <4>1, <4>3 DEF PTypes, Counts, Accounted, Failing, InHand
      <4> QED
        BY <4>2, <4>3
    <3>4. ASSUME NEW r \in Stages PROVE Drained(r)'
      <4>1. Drained(r)
        BY <2>0
      <4> QED
        BY <2>0, <2>a, <3>1, <4>1, TreeFacts DEF PTypes, Counts, Drained, Ended, ReceiverGone
    <3>5. Awaited'
      BY <2>0, <2>a, <3>1, TreeFacts DEF PTypes, Awaited
    <3> QED
      BY <3>2, <3>3, <3>4, <3>5 DEF PInv
  <2> QED
    BY <2>a, <2>b, <2>c, <2>d
<1>8. ASSUME PInv, NEW s \in Stages, Forward(s) PROVE PInv'
  <2>0. PTypes /\ Awaited /\ \A r \in Stages : Accounted(r) /\ Drained(r)
    BY <1>8 DEF PInv
  <2>1. PTypes'
    <3>1. chan[s] + 1 \in Nat
      BY <2>0 DEF PTypes, Counts
    <3>2. Counts'
      BY <1>8, <2>0, <3>1, Zenon DEF PTypes, Counts, Forward
    <3>3. fwd' \in [Stages -> {"recv", "send", "ok", "err"}]
      BY <1>8, <2>0, Zenon DEF PTypes, Forward
    <3> QED
      BY <1>8, <2>0, <3>2, <3>3 DEF PTypes, Forward
  <2>2. ASSUME NEW r \in Stages PROVE Accounted(r)'
    <3>1. Accounted(r) /\ fwd[s] = "send"
      BY <1>8, <2>0 DEF Forward
    <3>2. CASE r = s
      <4>1. stream[s] # ErrOnly => stream[s] \in Seq({"batch"}) /\ Len(stream[s]) \in Nat
        BY <2>0, BatchStreams DEF PTypes
      <4> QED
        BY <1>8, <2>0, <3>1, <3>2, <4>1 DEF PTypes, Counts, Accounted, Failing, InHand, Forward
    <3>3. CASE r # s
      BY <1>8, <2>0, <3>1, <3>3 DEF PTypes, Counts, Accounted, Failing, InHand, Forward
    <3> QED
      BY <3>2, <3>3
  <2>3. ASSUME NEW r \in Stages PROVE Drained(r)'
    <3>1. Drained(r)
      BY <2>0
    <3> QED
      BY <1>8, <2>0, <3>1, TreeFacts DEF PTypes, Counts, Drained, Ended, ReceiverGone, Forward
  <2>4. Awaited'
    BY <1>8, <2>0, TreeFacts DEF PTypes, Awaited, Forward
  <2> QED
    BY <2>1, <2>2, <2>3, <2>4 DEF PInv
<1>9. ASSUME PInv, Collect PROVE PInv'
  <2>0. PTypes /\ Awaited /\ \A r \in Stages : Accounted(r) /\ Drained(r)
    BY <1>9 DEF PInv
  <2>1. PTypes'
    <3>1. (chan[N] > 0 => chan[N] - 1 \in Nat) /\ got[N] + 1 \in Nat
      BY <2>0, TreeFacts DEF PTypes, Counts
    <3>2. Counts'
      <4>1. CASE UNCHANGED <<chan, got>>
        BY <1>9, <2>0, <4>1 DEF PTypes, Counts, Collect
      <4>2. CASE /\ chan[N] > 0 /\ chan' = [chan EXCEPT ![N] = chan[N] - 1]
                 /\ got' = [got EXCEPT ![N] = got[N] + 1]
        BY <1>9, <2>0, <3>1, <4>2, TreeFacts DEF PTypes, Counts, Collect
      <4> QED
        BY <1>9, <4>1, <4>2 DEF Collect
    <3> QED
      BY <1>9, <2>0, <3>2 DEF PTypes, Collect
  <2>2. ASSUME NEW r \in Stages PROVE Accounted(r)'
    <3>1. Accounted(r)
      BY <2>0
    <3>2. CASE r = N
      <4>1. stream[r] # ErrOnly => stream[r] \in Seq({"batch"}) /\ Len(stream[r]) \in Nat
        BY <2>0, BatchStreams DEF PTypes
      <4> QED
        BY <1>9, <2>0, <3>1, <3>2, <4>1 DEF PTypes, Counts, Accounted, Failing, InHand, Collect
    <3>3. CASE r # N
      BY <1>9, <2>0, <3>1, <3>3 DEF PTypes, Counts, Accounted, Failing, InHand, Collect
    <3> QED
      BY <3>2, <3>3
  <2>3. ASSUME NEW r \in Stages PROVE Drained(r)'
    <3>1. Drained(r)
      BY <2>0
    <3>2. CASE r = N
      BY <1>9, <2>0, <3>1, <3>2, TreeFacts
         DEF PTypes, Counts, Drained, Ended, ReceiverGone, Collect, Closed
    <3>3. CASE r # N
      BY <1>9, <2>0, <3>1, <3>3, TreeFacts DEF PTypes, Counts, Drained, Ended, ReceiverGone, Collect
    <3> QED
      BY <3>2, <3>3
  <2>4. Awaited'
    BY <1>9, <2>0, TreeFacts DEF PTypes, Awaited, Collect
  <2> QED
    BY <2>1, <2>2, <2>3, <2>4 DEF PInv
<1>10. ASSUME PInv, AwaitStage PROVE PInv'
  <2>0. PTypes /\ Awaited /\ \A r \in Stages : Accounted(r) /\ Drained(r)
    BY <1>10 DEF PInv
  <2>1. PTypes'
    <3>1. awaiting <= N => awaiting + 1 \in 1..Client
      BY <2>0, PlanIsATree DEF PTypes, Client
    <3> QED
      BY <1>10, <2>0, <3>1 DEF PTypes, Counts, AwaitStage
  <2>2. ASSUME NEW r \in Stages PROVE Accounted(r)'
    <3>1. Accounted(r)
      BY <2>0
    <3> QED
      BY <1>10, <2>0, <3>1 DEF PTypes, Counts, Accounted, Failing, InHand, AwaitStage
  <2>3. ASSUME NEW r \in Stages PROVE Drained(r)'
    <3>1. Drained(r)
      BY <2>0
    <3> QED
      BY <1>10, <2>0, <3>1, TreeFacts DEF PTypes, Counts, Drained, Ended, ReceiverGone, AwaitStage
  <2>4. Awaited'
    BY <1>10, <2>0, PlanIsATree, TreeFacts DEF PTypes, Awaited, AwaitStage, Client
  <2> QED
    BY <2>1, <2>2, <2>3, <2>4 DEF PInv
<1>11. ASSUME PInv, Return PROVE PInv'
  <2>0. PTypes /\ Awaited /\ \A r \in Stages : Accounted(r) /\ Drained(r)
    BY <1>11 DEF PInv
  <2>1. PTypes'
    BY <1>11, <2>0 DEF PTypes, Counts, Return
  <2>2. ASSUME NEW r \in Stages PROVE Accounted(r)'
    <3>1. Accounted(r)
      BY <2>0
    <3> QED
      BY <1>11, <2>0, <3>1 DEF PTypes, Counts, Accounted, Failing, InHand, Return
  <2>3. ASSUME NEW r \in Stages PROVE Drained(r)'
    <3>1. Drained(r)
      BY <2>0
    <3> QED
      BY <1>11, <2>0, <3>1, TreeFacts DEF PTypes, Counts, Drained, Ended, ReceiverGone, Return
  <2>4. Awaited'
    BY <1>11, <2>0, PlanIsATree, TreeFacts DEF PTypes, Awaited, Return, Client
  <2> QED
    BY <2>1, <2>2, <2>3, <2>4 DEF PInv
<1>12. ASSUME PInv, QueryTimeout PROVE PInv'
  <2>0. PTypes /\ Awaited /\ \A r \in Stages : Accounted(r) /\ Drained(r)
    BY <1>12 DEF PInv
  <2>1. PTypes'
    BY <1>12, <2>0 DEF PTypes, Counts, QueryTimeout
  <2>2. ASSUME NEW r \in Stages PROVE Accounted(r)'
    <3>1. Accounted(r)
      BY <2>0
    <3> QED
      BY <1>12, <2>0, <3>1 DEF PTypes, Counts, Accounted, Failing, InHand, QueryTimeout
  <2>3. ASSUME NEW r \in Stages PROVE Drained(r)'
    <3>1. Drained(r)
      BY <2>0
    <3> QED
      BY <1>12, <2>0, <3>1, TreeFacts DEF PTypes, Counts, Drained, Ended, ReceiverGone, QueryTimeout
  <2>4. Awaited'
    BY <1>12, <2>0, TreeFacts DEF PTypes, Awaited, QueryTimeout
  <2> QED
    BY <2>1, <2>2, <2>3, <2>4 DEF PInv
<1> QED
  BY <1>1, <1>2, <1>3, <1>4, <1>5, <1>6, <1>7, <1>8, <1>9, <1>10, <1>11, <1>12
     DEF PipelineNext, StageStep

(* A pipelined execution that reports success lost no batch                *)
(* (execute_pipelined), for a tree of any number of stages, any capacities *)
(* and any results.                                                        *)
THEOREM PipelinedSuccessIsWhole == PipelineSpec => []SuccessIsWhole
<1>1. PInv => SuccessIsWhole
  <2> SUFFICES ASSUME PInv, outcome = "ok", NEW s \in Stages
               PROVE  made[s] > 0 /\ got[s] = made[s]
    BY DEF SuccessIsWhole
  <2>1. \A r \in Stages : fwd[r] = "ok" /\ task[r] = "done" /\ stream[r] = <<>> /\ left[r] = <<>>
    BY TreeFacts, Zenon DEF PInv, Awaited, Accounted
  <2>2. collector = "done" /\ Range(<<>>) = {}
    BY DEF PInv, Awaited, Range
  <2>3. ReceiverGone(s)
    BY <2>1, <2>2, TreeFacts, Zenon DEF ReceiverGone
  <2>4. chan[s] = 0
    BY <2>3 DEF PInv, Drained
  <2>5. /\ ~Failing(s) /\ InHand(s) = 0 /\ Len(stream[s]) = 0
        /\ got[s] \in Nat /\ made[s] \in Nat /\ todo[s] \in Nat
    BY <2>1, ErrStreams DEF Failing, InHand, PInv, PTypes, Counts
  <2>6. /\ made[s] > 0 /\ todo[s] = 0
        /\ made[s] = got[s] + chan[s] + InHand(s) + Len(stream[s]) + todo[s]
    BY <2>1, <2>5 DEF PInv, Accounted
  <2> QED
    BY <2>4, <2>5, <2>6
<1> QED
  BY PInvInit, PInvStep, <1>1, PTL DEF PipelineSpec

----------------------------------------------------------------------------
(***************************************************************************)
(* The pipeline is never stuck, for any tree of stages and any capacities: *)
(* as long as a task is left, one of them can move, although stages drain  *)
(* their inputs in any order, each to its end, while the others fill up    *)
(* and block.                                                              *)
(*                                                                         *)
(* What is needed beyond PInv is that a stage drains its own inputs only   *)
(* (LeftAreInputs).  A stage is unblocked when its forwarder has not ended *)
(* and a batch would find a place.  Of the unblocked stages the least can  *)
(* move: if it waits for an input, that one's channel is empty, so it is   *)
(* unblocked itself, and comes earlier in the plan (UnblockedMoves).  Of   *)
(* the stages that have not ended the last is unblocked, or the collector  *)
(* can take a batch of it (LastMoves).                                     *)
(***************************************************************************)
LeftAreInputs == \A s \in Stages : Range(left[s]) \subseteq InputsOf(s)

StageCanMove(s) ==
    \/ \E p \in InputsOf(s) : Draining(s, p) /\ (chan[p] > 0 \/ Closed(p))
    \/ task[s] = "collect" /\ left[s] = <<>>
    \/ task[s] = "send" /\ (todo[s] = 0 \/ Ended(s) \/ Len(stream[s]) < StreamCapacity)
    \/ fwd[s] = "recv" /\ (stream[s] # <<>> \/ task[s] = "done")
    \/ fwd[s] = "send" /\ (ReceiverGone(s) \/ chan[s] < Capacity)
CollectorCanMove == collector = "recv" /\ (chan[N] > 0 \/ Closed(N))
CoordinatorCanMove ==
    /\ outcome = "none"
    /\ IF awaiting <= N THEN Ended(awaiting) ELSE collector = "done"
SomeTaskMoves == (\E s \in Stages : StageCanMove(s)) \/ CollectorCanMove \/ CoordinatorCanMove

Unblocked == {s \in Stages : ~Ended(s) /\ (ReceiverGone(s) \/ chan[s] < Capacity)}
Unfinished == {s \in Stages : task[s] # "done" \/ ~Ended(s)}

(* Draining an input to its end leaves the others. *)
LEMMA LeftStep ==
    ASSUME PInv, LeftAreInputs, [PipelineNext]_pipeVars
    PROVE  LeftAreInputs'
<1>1. CASE UNCHANGED left
  BY <1>1 DEF LeftAreInputs
<1>2. ASSUME NEW s \in Stages, NEW p \in InputsOf(s), InputEnds(s, p) PROVE LeftAreInputs'
  <2>1. left[s] \in Seq(Stages) /\ left[s] # <<>> /\ left' = [left EXCEPT ![s] = Tail(@)]
    BY <1>2 DEF InputEnds, Draining, PInv, PTypes
  <2>2. Range(Tail(left[s])) \subseteq Range(left[s])
    <3> SUFFICES ASSUME NEW j \in DOMAIN Tail(left[s])
                 PROVE  \E i \in DOMAIN left[s] : left[s][i] = Tail(left[s])[j]
      BY DEF Range
    <3>1. j + 1 \in DOMAIN left[s] /\ Tail(left[s])[j] = left[s][j + 1]
      BY <2>1, TailFacts
    <3>. QED BY <3>1
  <2>3. left \in [Stages -> Seq(Stages)]
    BY DEF PInv, PTypes
  <2>. QED BY <2>1, <2>2, <2>3 DEF LeftAreInputs
<1>3. CASE UNCHANGED pipeVars
  BY <1>1, <1>3 DEF pipeVars
<1>4. CASE Collect \/ AwaitStage \/ Return \/ QueryTimeout
  BY <1>1, <1>4 DEF Collect, AwaitStage, Return, QueryTimeout
<1>5. ASSUME NEW s \in Stages, StageStep(s) PROVE LeftAreInputs'
  BY <1>1, <1>2, <1>5 DEF StageStep, Receive, RunSql, SqlFails, Emit, Take, Forward
<1>. QED BY <1>3, <1>4, <1>5 DEF PipelineNext

(* A set of natural numbers that is not empty has a least one, *)
LEMMA SmallestOf ==
    ASSUME NEW S \in SUBSET Nat, S # {}
    PROVE  \E n \in S : \A m \in S : n <= m
<1> DEFINE R == OpToRel(<, Nat)
<1>1. IsWellFoundedOn(R, Nat)
  BY NatLessThanWellFounded
<1>2. \A m, n \in Nat : m < n => <<m, n>> \in R
  BY DEF OpToRel
<1> HIDE DEF R
<1>3. PICK n \in S : \A m \in S : ~(<<m, n>> \in R)
  BY <1>1, WFMin
<1>4. ASSUME NEW m \in S PROVE n <= m
  <2>1. ~(m < n)
    BY <1>2, <1>3
  <2>. QED BY <2>1
<1>. QED BY <1>4

(* and a set of stages that is not empty has a last one. *)
LEMMA LastOf ==
    ASSUME NEW S \in SUBSET Stages, S # {}
    PROVE  \E s \in S : \A r \in S : r <= s
<1> DEFINE D == {N - s : s \in S}
<1>1. D \in SUBSET Nat /\ D # {}
  BY PlanIsATree DEF Stages
<1> HIDE DEF D
<1>2. PICK d \in D : \A c \in D : d <= c
  BY <1>1, SmallestOf
<1>3. PICK s \in S : d = N - s
  BY <1>2 DEF D
<1>4. ASSUME NEW r \in S PROVE r <= s
  <2>1. N - s <= N - r
    BY <1>2, <1>3 DEF D
  <2>. QED BY <2>1, PlanIsATree DEF Stages
<1>. QED BY <1>4

(* An unblocked stage can move, or waits for an earlier unblocked one. *)
LEMMA UnblockedWaits ==
    ASSUME PInv, LeftAreInputs, Capacity \in Nat \ {0}, StreamCapacity \in Nat \ {0},
           NEW s \in Unblocked, ~StageCanMove(s)
    PROVE  \E p \in Unblocked : p < s
<1>1. /\ s \in Stages /\ ~Ended(s) /\ (ReceiverGone(s) \/ chan[s] < Capacity)
      /\ fwd[s] \in {"recv", "send", "ok", "err"} /\ task[s] \in {"collect", "send", "done"}
  BY DEF Unblocked, PInv, PTypes
<1>2. fwd[s] = "recv"
  BY <1>1 DEF StageCanMove, Ended
<1>3. stream[s] = <<>> /\ task[s] # "done"
  BY <1>2 DEF StageCanMove
<1>4. task[s] = "collect"
  BY <1>1, <1>3 DEF StageCanMove
<1>5. left[s] # <<>> /\ left[s] \in Seq(Stages)
  BY <1>1, <1>4 DEF StageCanMove, PInv, PTypes
<1> DEFINE p == Head(left[s])
<1>6. p \in InputsOf(s)
  <2>1. 1 \in DOMAIN left[s] /\ p = left[s][1]
    BY <1>5
  <2>2. p \in Range(left[s])
    BY <2>1, Zenon DEF Range
  <2>. QED BY <1>1, <2>2 DEF LeftAreInputs
<1> HIDE DEF p
<1>7. Draining(s, p)
  BY <1>4, <1>5 DEF Draining, p
<1>8. p \in Stages /\ ReaderOf[p] = s /\ p < s
  BY <1>1, <1>6, PlanIsATree DEF InputsOf
<1>9. ~(chan[p] > 0) /\ ~Closed(p)
  BY <1>6, <1>7 DEF StageCanMove
<1>10. ~Ended(p)
  BY <1>1, <1>8, <1>9, TreeFacts DEF Closed, Ended
<1>11. chan[p] < Capacity
  BY <1>8, <1>9 DEF PInv, PTypes, Counts
<1>. QED BY <1>8, <1>10, <1>11 DEF Unblocked

(* The first unblocked stage therefore can move. *)
LEMMA UnblockedMoves ==
    ASSUME PInv, LeftAreInputs, Capacity \in Nat \ {0}, StreamCapacity \in Nat \ {0},
           Unblocked # {}
    PROVE  \E s \in Stages : StageCanMove(s)
<1>1. Unblocked \in SUBSET Nat
  BY TreeFacts DEF Unblocked
<1>2. PICK s \in Unblocked : \A r \in Unblocked : s <= r
  BY <1>1, SmallestOf
<1>3. ~\E p \in Unblocked : p < s
  BY <1>1, <1>2
<1>4. StageCanMove(s)
  BY <1>3, UnblockedWaits
<1>. QED BY <1>4 DEF Unblocked

(* The last stage that has not ended can move, is unblocked or has batches *)
(* for the collector.                                                      *)
LEMMA LastMoves ==
    ASSUME PInv, Capacity \in Nat \ {0}, Unfinished # {}
    PROVE  Unblocked # {} \/ CollectorCanMove \/ \E s \in Stages : StageCanMove(s)
<1>1. PICK s \in Unfinished : \A r \in Unfinished : r <= s
  BY LastOf DEF Unfinished
<1>2. /\ s \in Stages /\ task[s] \in {"collect", "send", "done"}
      /\ task[s] # "done" \/ ~Ended(s)
      /\ task[s] = "collect" => fwd[s] = "recv"
      /\ collector \in {"recv", "done"} /\ chan[s] \in Nat
  BY DEF Unfinished, PInv, PTypes, Counts, Accounted
<1>3. CASE Ended(s)
  BY <1>2, <1>3 DEF StageCanMove, Ended
<1>4. CASE ~Ended(s) /\ ReaderOf[s] = Client
  <2>1. s = N
    BY <1>2, <1>4, TreeFacts
  <2>2. CASE collector = "done"
    BY <1>2, <1>4, <2>2 DEF Unblocked, ReceiverGone
  <2>3. CASE collector = "recv" /\ chan[s] < Capacity
    BY <1>2, <1>4, <2>3 DEF Unblocked
  <2>4. CASE collector = "recv" /\ ~(chan[s] < Capacity)
    <3>1. chan[N] > 0
      BY <1>2, <2>1, <2>4
    <3>. QED BY <2>4, <3>1 DEF CollectorCanMove
  <2>. QED BY <1>2, <2>2, <2>3, <2>4
<1>5. CASE ~Ended(s) /\ ReaderOf[s] # Client
  <2> DEFINE r == ReaderOf[s]
  <2>1. r \in Stages /\ r > s
    BY <1>2, <1>5, TreeFacts, PlanIsATree
  <2> HIDE DEF r
  <2>2. r \notin Unfinished
    <3>1. s \in Nat /\ r \in Nat
      BY <1>2, <2>1, TreeFacts
    <3>2. ~(r <= s)
      BY <2>1, <3>1
    <3>. QED BY <1>1, <3>2
  <2>3. left[r] = <<>>
    BY <2>1, <2>2 DEF Unfinished, PInv, Accounted
  <2>4. ReceiverGone(s)
    <3>1. Range(<<>>) = {}
      BY DEF Range
    <3>. QED BY <1>5, <2>3, <3>1 DEF ReceiverGone, r
  <2>. QED BY <1>2, <1>5, <2>4 DEF Unblocked
<1>. QED BY <1>3, <1>4, <1>5

(* As long as a task of the pipeline is left, one can move: no stage,      *)
(* forwarder, collector or coordinator waits for another in a circle       *)
(* (execute_pipelined, submit_stage_streaming).  The timeout is not among  *)
(* the moves: the pipeline does not rest on it.                            *)
THEOREM PipelineNeverStuck ==
    ASSUME Capacity \in Nat \ {0}, StreamCapacity \in Nat \ {0}
    PROVE  PipelineSpec => [](AllEnded \/ SomeTaskMoves)
<1>1. PInv /\ LeftAreInputs => AllEnded \/ SomeTaskMoves
  <2> SUFFICES ASSUME PInv, LeftAreInputs, ~AllEnded PROVE SomeTaskMoves
    OBVIOUS
  <2>1. CASE Unfinished # {}
    BY <2>1, LastMoves, UnblockedMoves DEF SomeTaskMoves
  <2>2. CASE Unfinished = {}
    <3>1. \A s \in Stages : task[s] = "done" /\ Ended(s)
      BY <2>2 DEF Unfinished
    <3>2. /\ outcome \in {"none", "ok", "failed", "timeout"} /\ awaiting \in 1..Client
          /\ collector \in {"recv", "done"}
      BY DEF PInv, PTypes
    <3>3. ~(collector = "done" /\ outcome # "none")
      BY <3>1 DEF AllEnded, Ended
    <3>4. CASE outcome = "none" /\ awaiting <= N
      <4>1. awaiting \in Stages
        BY <3>2, <3>4, PlanIsATree DEF Stages, Client
      <4>. QED BY <3>1, <3>4, <4>1 DEF SomeTaskMoves, CoordinatorCanMove
    <3>5. CASE outcome = "none" /\ ~(awaiting <= N) /\ collector = "done"
      BY <3>5 DEF SomeTaskMoves, CoordinatorCanMove
    <3>6. CASE collector = "recv" /\ (outcome # "none" \/ ~(awaiting <= N))
      <4>1. awaiting > N \/ outcome # "none"
        BY <3>2, <3>6, PlanIsATree DEF Client
      <4>2. Closed(N)
        BY <3>1, <4>1, TreeFacts DEF Closed, Ended
      <4>. QED BY <3>6, <4>2 DEF SomeTaskMoves, CollectorCanMove
    <3>. QED BY <3>2, <3>3, <3>4, <3>5, <3>6
  <2>. QED BY <2>1, <2>2
<1>2. PipelineInit => LeftAreInputs
  BY OrderHoldsInputs DEF PipelineInit, LeftAreInputs
<1>3. PInv /\ LeftAreInputs /\ [PipelineNext]_pipeVars => LeftAreInputs'
  BY LeftStep
<1>. QED BY PInvInit, PInvStep, <1>1, <1>2, <1>3, PTL DEF PipelineSpec

----------------------------------------------------------------------------
(***************************************************************************)
(* A plan cut into stages: its execution levels and its way over the wire. *)
(***************************************************************************)
(* The plans the cutter makes: the last stage is the root, an edge goes    *)
(* from a stage to a later one.  Payloads (statements, columns, workers,   *)
(* exchange names) are of any kind.                                        *)
Exchanges(Workers, Columns) ==
    {Gather(w) : w \in Workers} \cup {Broadcast(ws) : ws \in Seq(Workers)}
    \cup {HashPartition(keys, n) : keys \in Seq(Columns), n \in Nat}
Outputs(Columns) ==
    {out \in [parts : Nat, keys : Seq(Columns)] : out.parts = 0 => out.keys = <<>>}
StageRecords(Trees, Ctes, Workers, Columns, Ids) ==
    {s \in [plan : Trees, ctes : Ctes, workers : Seq(Workers), inputs : SUBSET Ids,
            local : BOOLEAN, out : Outputs(Columns)] : IsFiniteSet(s.inputs)}
Edges(Owners, Workers, Columns, Ids) ==
    [id : Ids, from : Nat, to : Nat, owner : Owners, kind : Exchanges(Workers, Columns)]
LdpPlans(Trees, Ctes, Owners, Workers, Columns, Ids) ==
    {p \in [coordinator : Workers, stages : Seq(StageRecords(Trees, Ctes, Workers, Columns, Ids)),
            edges : Seq(Edges(Owners, Workers, Columns, Ids)), root : Nat] :
        /\ p.root = Len(p.stages)
        /\ \A i \in DOMAIN p.edges :
             /\ p.edges[i].from \in DOMAIN p.stages /\ p.edges[i].to \in DOMAIN p.stages
             /\ p.edges[i].from < p.edges[i].to}

(* The levels of a plan's execution: each is what is ready once the        *)
(* earlier ones have run, and after the last nothing more is.              *)
Earlier(levels, i) == UNION {levels[j] : j \in 1..(i - 1)}
AreLevels(p, levels, n) ==
    /\ \A i \in 1..n : levels[i] = ReadyStages(p, Earlier(levels, i)) /\ levels[i] # {}
    /\ ReadyStages(p, Earlier(levels, n + 1)) = {}

(* While a stage has not run some stage is ready: the first of those that  *)
(* have not, since its sources come earlier in the plan.                   *)
LEMMA SomeStageIsReady ==
    ASSUME NEW Trees, NEW Ctes, NEW Owners, NEW Workers, NEW Columns, NEW Ids,
           NEW p \in LdpPlans(Trees, Ctes, Owners, Workers, Columns, Ids),
           NEW D \in SUBSET DOMAIN p.stages, D # DOMAIN p.stages
    PROVE  ReadyStages(p, D) # {}
<1>1. DOMAIN p.stages \in SUBSET Nat
  <2>1. p.stages \in Seq(StageRecords(Trees, Ctes, Workers, Columns, Ids))
    BY DEF LdpPlans
  <2>. QED BY <2>1
<1>2. PICK s \in DOMAIN p.stages \ D : \A t \in DOMAIN p.stages \ D : s <= t
  BY <1>1, SmallestOf
<1>3. ASSUME NEW i \in DOMAIN p.edges, p.edges[i].to = s PROVE p.edges[i].from \in D
  <2>1. p.edges[i].from \in DOMAIN p.stages /\ p.edges[i].from < s
    BY <1>3 DEF LdpPlans
  <2>. QED BY <1>1, <1>2, <2>1
<1>. QED BY <1>2, <1>3 DEF ReadyStages

(* compute_execution_levels puts every stage of a plan into exactly one    *)
(* level, every source of a stage into an earlier one, and so never        *)
(* reports a cycle, whatever the number of stages and edges.               *)
THEOREM LevelsAreComplete ==
    ASSUME NEW Trees, NEW Ctes, NEW Owners, NEW Workers, NEW Columns, NEW Ids,
           NEW p \in LdpPlans(Trees, Ctes, Owners, Workers, Columns, Ids),
           NEW n \in Nat, NEW levels, AreLevels(p, levels, n)
    PROVE  /\ UNION {levels[j] : j \in 1..n} = DOMAIN p.stages
           /\ \A i, j \in 1..n : i # j => levels[i] \cap levels[j] = {}
           /\ \A e \in DOMAIN p.edges : \A i \in 1..n :
                p.edges[e].to \in levels[i] =>
                    \E j \in 1..(i - 1) : p.edges[e].from \in levels[j]
<1> DEFINE all == Earlier(levels, n + 1)
<1>1. all = UNION {levels[j] : j \in 1..n}
  BY DEF Earlier
<1>2. \A i \in 1..n : levels[i] = ReadyStages(p, Earlier(levels, i))
  BY DEF AreLevels
<1>3. all \subseteq DOMAIN p.stages
  BY <1>1, <1>2 DEF ReadyStages
<1>4. all = DOMAIN p.stages
  <2>1. ReadyStages(p, all) = {}
    BY DEF AreLevels
  <2> HIDE DEF all
  <2>. QED BY <1>3, <2>1, SomeStageIsReady
<1>5. ASSUME NEW i \in 1..n, NEW j \in 1..n, i < j PROVE levels[i] \cap levels[j] = {}
  <2>1. levels[i] \subseteq Earlier(levels, j)
    BY <1>5 DEF Earlier
  <2>2. levels[j] \cap Earlier(levels, j) = {}
    BY <1>2 DEF ReadyStages
  <2>. QED BY <2>1, <2>2
<1>6. ASSUME NEW i \in 1..n, NEW j \in 1..n, i # j PROVE levels[i] \cap levels[j] = {}
  <2>1. CASE i < j
    BY <1>5, <2>1
  <2>2. CASE j < i
    <3>1. levels[j] \cap levels[i] = {}
      BY <1>5, <2>2
    <3>. QED BY <3>1
  <2>. QED BY <1>6, <2>1, <2>2
<1>7. ASSUME NEW e \in DOMAIN p.edges, NEW i \in 1..n, p.edges[e].to \in levels[i]
      PROVE  \E j \in 1..(i - 1) : p.edges[e].from \in levels[j]
  <2>1. p.edges[e].from \in Earlier(levels, i)
    BY <1>2, <1>7 DEF ReadyStages
  <2>. QED BY <2>1 DEF Earlier
<1>. QED BY <1>1, <1>4, <1>6, <1>7

(* The list made of a finite set holds all of it. *)
LEMMA ListHoldsAll ==
    ASSUME NEW S, IsFiniteSet(S)
    PROVE  /\ Cardinality(S) \in Nat
           /\ {SetToSeq(S)[i] : i \in 1..Cardinality(S)} = S
<1> DEFINE n == Cardinality(S)
<1>1. n \in Nat /\ ExistsBijection(1..n, S)
  BY FS_CardinalityType
<1>2. PICK f : f \in Bijection(1..n, S)
  BY <1>1 DEF ExistsBijection
<1>3. f \in [1..n -> S] /\ IsInjective(f)
  <2>1. f \in Injection(1..n, S)
    BY <1>2 DEF Bijection
  <2>. QED BY <2>1 DEF Injection, IsInjective
<1> DEFINE q == SetToSeq(S)
<1>4. q \in [1..n -> S] /\ IsInjective(q)
  BY <1>3 DEF SetToSeq
<1>5. q \in Injection(1..n, S)
  BY <1>4 DEF Injection, IsInjective
<1>6. Cardinality(1..n) = n
  BY <1>1, FS_Interval
<1>7. q \in Surjection(1..n, S)
  <2> HIDE DEF q
  <2>. QED BY <1>5, <1>6, FS_Injection
<1>. QED BY <1>1, <1>4, <1>7 DEF Surjection

(* An exchange survives the wire. *)
LEMMA ExchangeSurvives ==
    ASSUME NEW Workers, NEW Columns, NEW x \in Exchanges(Workers, Columns)
    PROVE  ExchangeFromProto(ExchangeToProto(x)) = x
BY DEF Exchanges, Gather, Broadcast, HashPartition, Exchange, ExchangeToProto,
       ExchangeFromProto, OneOf

(* So does a stage: its inputs are a set again on arrival, the local       *)
(* catalog among them if it was, and a stream is told from partitions.     *)
LEMMA StageSurvives ==
    ASSUME NEW Trees, NEW Ctes, NEW Workers, NEW Columns, NEW Ids,
           NEW s \in StageRecords(Trees, Ctes, Workers, Columns, Ids)
    PROVE  StageFromProto(StageToProto(s)) = s
<1> DEFINE n == Cardinality(s.inputs)
           q == [i \in 1..n |-> [tag |-> "exchange", v |-> SetToSeq(s.inputs)[i]]]
           head == IF s.local THEN <<[tag |-> "local", v |-> 0]>> ELSE <<>>
           m == StageInputsToProto(s)
<1>1. s \in [plan : Trees, ctes : Ctes, workers : Seq(Workers), inputs : SUBSET Ids,
             local : BOOLEAN, out : Outputs(Columns)] /\ IsFiniteSet(s.inputs)
  BY DEF StageRecords
<1>2. n \in Nat /\ {SetToSeq(s.inputs)[i] : i \in 1..n} = s.inputs
  BY <1>1, ListHoldsAll
<1>3. m = head \o q
  BY DEF StageInputsToProto, OneOf
<1> DEFINE k == Len(head)
<1>4. /\ k \in Nat /\ DOMAIN m = 1..(k + n)
      /\ \A i \in 1..k : m[i] = head[i]
      /\ \A i \in 1..n : m[k + i] = q[i]
  <2> DEFINE M == {[tag |-> "local", v |-> 0]} \cup Range(q)
  <2>1. head \in Seq(M) /\ q \in Seq(M)
    <3> HIDE DEF M
    <3>1. [tag |-> "local", v |-> 0] \in M /\ \A i \in 1..n : q[i] \in M
      BY DEF M, Range
    <3>2. head \in Seq(M)
      <4> HIDE DEF q
      <4>. QED BY <3>1
    <3>. QED BY <1>2, <3>1, <3>2
  <2> HIDE DEF head, q, M
  <2>2. Len(q) = n
    BY <1>2 DEF q
  <2>. QED BY <1>2, <1>3, <2>1, <2>2
<1>5. \A i \in 1..k : m[i].tag = "local"
  <2>1. \A i \in 1..k : head[i].tag = "local"
    OBVIOUS
  <2> HIDE DEF head, k, m
  <2>. QED BY <1>4, <2>1
<1>6. \A i \in 1..n : m[k + i].tag = "exchange" /\ m[k + i].v = SetToSeq(s.inputs)[i]
  <2>1. \A i \in 1..n : q[i].tag = "exchange" /\ q[i].v = SetToSeq(s.inputs)[i]
    OBVIOUS
  <2> HIDE DEF q, k, m
  <2>. QED BY <1>4, <2>1
<1>7. \A i \in DOMAIN m : i \in 1..k \/ \E j \in 1..n : i = k + j
  <2> HIDE DEF m, k, n
  <2>1. ASSUME NEW i \in 1..(k + n), i \notin 1..k PROVE \E j \in 1..n : i = k + j
    <3>1. i - k \in 1..n /\ i = k + (i - k)
      BY <1>2, <1>4, <2>1
    <3>. QED BY <3>1
  <2>. QED BY <1>4, <2>1
<1>8. \A i \in 1..n : k + i \in DOMAIN m
  BY <1>2, <1>4
<1>9. {m[i].v : i \in {j \in DOMAIN m : m[j].tag = "exchange"}} = s.inputs
  <2> HIDE DEF m, k, n, head, q
  <2>. QED BY <1>2, <1>5, <1>6, <1>7, <1>8
<1>10. (\E i \in DOMAIN m : m[i].tag = "local") = s.local
  <2>1. s.local <=> 1 \in 1..k
    BY <1>1
  <2>2. 1..k \subseteq DOMAIN m
    BY <1>2, <1>4
  <2> HIDE DEF m, k, n, head, q
  <2>3. (\E i \in DOMAIN m : m[i].tag = "local") <=> s.local
    <3>1. ASSUME NEW i \in DOMAIN m, m[i].tag = "local" PROVE i \in 1..k
      BY <1>6, <1>7, <3>1
    <3>2. (\E i \in 1..k : TRUE) => 1 \in 1..k
      BY <1>4
    <3>. QED BY <1>5, <2>1, <2>2, <3>1, <3>2
  <2>. QED BY <1>1, <2>3
<1>11. StageOutputFromProto(StageOutputToProto(s.out)) = s.out
  BY <1>1 DEF Outputs, StageOutputFromProto, StageOutputToProto, OneOf
<1> HIDE DEF m
<1>. QED BY <1>1, <1>9, <1>10, <1>11 DEF StageFromProto, StageToProto, m

(* The plan that arrives over the wire is the plan sent, for every plan    *)
(* the cutter can make: no stage, edge, input, output or partition owner   *)
(* is lost or changed, and the root, which has no field, is found again.   *)
THEOREM PlansSurviveTheWire ==
    ASSUME NEW Trees, NEW Ctes, NEW Owners, NEW Workers, NEW Columns, NEW Ids,
           NEW p \in LdpPlans(Trees, Ctes, Owners, Workers, Columns, Ids)
    PROVE  PlanFromProto(PlanToProto(p)) = p
<1> DEFINE stages == [i \in DOMAIN p.stages |-> StageToProto(p.stages[i])]
           edges == [i \in DOMAIN p.edges |-> EdgeToProto(p.edges[i])]
<1>1. /\ p \in [coordinator : Workers, stages : Seq(StageRecords(Trees, Ctes, Workers, Columns, Ids)),
                edges : Seq(Edges(Owners, Workers, Columns, Ids)), root : Nat]
      /\ p.root = Len(p.stages)
  BY DEF LdpPlans
<1>2. p.stages = [i \in DOMAIN p.stages |-> p.stages[i]] /\ p.edges = [i \in DOMAIN p.edges |-> p.edges[i]]
  BY <1>1
<1>3. \A i \in DOMAIN p.stages : StageFromProto(stages[i]) = p.stages[i]
  BY <1>1, StageSurvives
<1>4. ASSUME NEW i \in DOMAIN p.edges PROVE EdgeFromProto(edges[i]) = p.edges[i]
  <2>1. p.edges[i] \in Edges(Owners, Workers, Columns, Ids)
    BY <1>1
  <2>2. ExchangeFromProto(ExchangeToProto(p.edges[i].kind)) = p.edges[i].kind
    BY <2>1, ExchangeSurvives DEF Edges
  <2>. QED BY <2>1, <2>2 DEF EdgeFromProto, EdgeToProto, Edges
<1>5. Len(stages) = Len(p.stages)
  BY <1>1
<1>6. [i \in DOMAIN stages |-> StageFromProto(stages[i])] = p.stages
  BY <1>2, <1>3
<1>7. [i \in DOMAIN edges |-> EdgeFromProto(edges[i])] = p.edges
  BY <1>2, <1>4
<1>8. PlanFromProto(PlanToProto(p)) =
        [coordinator |-> p.coordinator, stages |-> p.stages, edges |-> p.edges, root |-> p.root]
  <2>1. PlanToProto(p) = [coordinator |-> p.coordinator, stages |-> stages, edges |-> edges]
    BY DEF PlanToProto
  <2> HIDE DEF stages, edges
  <2> DEFINE w == PlanToProto(p)
  <2>2. w.coordinator = p.coordinator /\ w.stages = stages /\ w.edges = edges
    BY <2>1
  <2> HIDE DEF w
  <2>3. PlanFromProto(w) = [coordinator |-> w.coordinator,
                           stages |-> [i \in DOMAIN w.stages |-> StageFromProto(w.stages[i])],
                           edges |-> [i \in DOMAIN w.edges |-> EdgeFromProto(w.edges[i])],
                           root |-> Len(w.stages)]
    BY Zenon DEF PlanFromProto
  <2>4. PlanFromProto(w) = [coordinator |-> p.coordinator, stages |-> p.stages,
                           edges |-> p.edges, root |-> p.root]
    BY <1>1, <1>5, <1>6, <1>7, <2>2, <2>3, Zenon
  <2>. QED BY <2>4, Zenon DEF w
<1>. QED BY <1>1, <1>8

=============================================================================
