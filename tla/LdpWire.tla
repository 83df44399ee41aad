------------------------------- MODULE LdpWire -------------------------------
(***************************************************************************)
(* The protocol form of a plan (ldp/proto_convert.rs).  A message field    *)
(* that is a oneof or a sub-message is a sequence of at most one value, so *)
(* that an absent one can be told apart; decoding answers Missing for a    *)
(* plan some part of which is absent.                                      *)
(***************************************************************************)
EXTENDS LdpPlan

Missing == [missing |-> TRUE]
OneOf(tag, v) == <<[tag |-> tag, v |-> v]>>

ExchangeToProto(x) ==
    CASE x.kind = "gather" -> OneOf("gather", x.targets[1])
      [] x.kind = "broadcast" -> OneOf("broadcast", x.targets)
      [] x.kind = "hash" -> OneOf("hash", [keys |-> x.keys, parts |-> x.parts])

ExchangeFromProto(m) ==
    CASE m = <<>> -> Missing
      [] m[1].tag = "gather" -> Gather(m[1].v)
      [] m[1].tag = "broadcast" -> Broadcast(m[1].v)
      [] m[1].tag = "hash" -> HashPartition(m[1].v.keys, m[1].v.parts)

(* A stage's inputs are a list: the local catalog, and each exchange. *)
StageInputsToProto(s) ==
    (IF s.local THEN OneOf("local", 0) ELSE <<>>) \o
    [i \in 1..Cardinality(s.inputs) |-> OneOf("exchange", SetToSeq(s.inputs)[i])[1]]

StageOutputToProto(out) ==
    IF out.parts = 0 THEN OneOf("stream", 0) ELSE OneOf("partitioned", out)

(* An absent output is a stream. *)
StageOutputFromProto(m) ==
    IF m = <<>> \/ m[1].tag = "stream" THEN [parts |-> 0, keys |-> <<>>] ELSE m[1].v

StageToProto(s) ==
    [sql |-> [plan |-> s.plan, ctes |-> s.ctes], targets |-> s.workers,
     inputs |-> StageInputsToProto(s), output |-> StageOutputToProto(s.out)]

StageFromProto(m) ==
    [plan |-> m.sql.plan, ctes |-> m.sql.ctes, workers |-> m.targets,
     inputs |-> {m.inputs[i].v : i \in {j \in DOMAIN m.inputs : m.inputs[j].tag = "exchange"}},
     local |-> \E i \in DOMAIN m.inputs : m.inputs[i].tag = "local",
     out |-> StageOutputFromProto(m.output)]

EdgeToProto(e) ==
    [id |-> e.id, from |-> e.from, to |-> e.to, owner |-> e.owner, kind |-> ExchangeToProto(e.kind)]
EdgeFromProto(m) ==
    [id |-> m.id, from |-> m.from, to |-> m.to, owner |-> m.owner, kind |-> ExchangeFromProto(m.kind)]

(* The root stage has no field of its own. *)
PlanToProto(p) ==
    [coordinator |-> p.coordinator,
     stages |-> [i \in DOMAIN p.stages |-> StageToProto(p.stages[i])],
     edges |-> [i \in DOMAIN p.edges |-> EdgeToProto(p.edges[i])]]

PlanFromProto(m) ==
    [coordinator |-> m.coordinator,
     stages |-> [i \in DOMAIN m.stages |-> StageFromProto(m.stages[i])],
     edges |-> [i \in DOMAIN m.edges |-> EdgeFromProto(m.edges[i])],
     root |-> Len(m.stages)]

(* The exchange inputs of a SubmitStage request: an input without batches  *)
(* travels as an empty stream and arrives as an input without batches.     *)
SerializeInput(batches) == IF batches = <<>> THEN <<>> ELSE OneOf("stream", batches)
DeserializeExchangeInput(m) == IF m = <<>> THEN <<>> ELSE m[1].v
=============================================================================
