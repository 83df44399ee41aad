----------------------------- MODULE LdpDataflow -----------------------------
(***************************************************************************)
(* What a planned query returns when its stages run.                       *)
(*                                                                         *)
(* Stages run level by level, each on every one of its workers against     *)
(* that worker's own tables and the exchange inputs resolved for that      *)
(* worker; the answer is the concatenation of the root stage's outputs.    *)
(* The mode is "local" (the in-process executor), "distributed" (stage     *)
(* outputs fetched over Flight) or "pipelined" (the streaming executor,    *)
(* which falls back to "local").  One query is in flight: the concurrency  *)
(* of stages, retries and cancellation are the subject of Coordinator.     *)
(***************************************************************************)
EXTENDS StageExchange, LdpPlanner, LdpWire

CONSTANTS
    Cases,      \* [id, place, policy]: a statement, where its tables are, a policy
    QueryOf(_), \* the statement of an id
    MetaOf(_),  \* what the planner's metadata says of the tables so placed
    DataOf(_),  \* the rows each worker then holds of them
    AllRows,    \* the tables, whole
    Order       \* the workers in the order of their names

VARIABLES
    case,       \* the statement, the placement and the policy in force
    step,       \* "plan", "run" or "done"
    plan,       \* the LdpPlan, or Rejected
    mode,       \* "local" or "distributed"
    next,       \* the level of stages to run
    outs,       \* for each stage run so far, the batches each worker stored
    answer      \* the final relation; not ok when the query failed

vars == <<case, step, plan, mode, next, outs, answer>>

Workers == Range(Order)

----------------------------------------------------------------------------
(* The input one worker of a stage gets: through the in-process exchange,  *)
(* over Flight inside the SubmitStage request, or, in the streaming        *)
(* pipeline, whatever the channel of the edge delivered.                   *)
InputFor(e, w) ==
    LET ws == plan.stages[e.from].workers
        sources == [i \in DOMAIN ws |-> outs[e.from][ws[i]]]
        sent == SerializeInput(DistributedInput(e, sources, w))
    IN  Registered(CASE mode = "local" -> ExchangeForWorker(e, sources, w)
                     [] mode = "distributed" -> DeserializeExchangeInput(sent)
                     [] mode = "pipelined" -> ExecuteGather(<<sources[1]>>))

----------------------------------------------------------------------------
(* A common table expression without a FROM clause is one constant row. *)
CteRow(c) == Rel({<<"", c.name>>}, <<[d \in {<<"", c.name>>} |-> 1]>>)

(* The tables a stage sees on worker w: the local catalog if its plan      *)
(* scans at all, and its WITH prefix.  A pipelined stage runs in a fresh   *)
(* database instead.                                                       *)
TablesAt(s, w) ==
    LET data == DataOf(case.place)[w]
        here == IF s.local /\ mode # "pipelined" THEN DOMAIN data ELSE {}
        names == {s.ctes[i].name : i \in DOMAIN s.ctes}
    IN  [t \in here \cup names |->
            IF t \in here THEN data[t]
            ELSE CteRow(s.ctes[CHOOSE i \in DOMAIN s.ctes : s.ctes[i].name = t])]

SubmitStage(s, id, w) ==
    LET inputs == {i \in DOMAIN plan.edges : plan.edges[i].to = id}
        edge(x) == plan.edges[CHOOSE i \in inputs : plan.edges[i].id = x]
        env == [tables |-> TablesAt(s, w),
                inputs |-> [x \in s.inputs |-> InputFor(edge(x), w)]]
    IN  StoreOutput(GenerateSql(s.plan, env),
                    IF mode = "local" THEN s.out ELSE [s.out EXCEPT !.parts = 0])

(* The workers that run stage s: all it targets, or, in the pipeline, the  *)
(* one task that stands for them.                                          *)
RunsOn(s) == IF mode = "pipelined" THEN <<s.workers[1]>> ELSE s.workers

(* compute_execution_levels: the stages all of whose sources are in        *)
(* earlier levels, level by level, until none is left or a cycle is.       *)
RECURSIVE LevelsFrom(_, _)
LevelsFrom(p, done) ==
    LET ready == ReadyStages(p, done)
    IN  IF ready = {} THEN <<>> ELSE <<ready>> \o LevelsFrom(p, done \cup ready)
ComputeExecutionLevels(p) == LevelsFrom(p, {})

----------------------------------------------------------------------------
(* What the query means: the statement evaluated over all rows at once. *)

RECURSIVE MeaningOf(_, _, _)
RECURSIVE MeaningOfBody(_, _, _)
RECURSIVE MeaningOfFrom(_, _, _)
MeaningOfFrom(f, ctes, all) ==
    CASE f.kind = "table" ->
           LET named == SelectSeq(ctes, LAMBDA c : c.name = f.name) IN
           Requalified(IF named = <<>> THEN all[f.name]
                       ELSE IF QueryHasFrom(Last(named).q) THEN MeaningOf(Last(named).q, ctes, all)
                       ELSE CteRow(Last(named)), f.alias)
      [] f.kind = "derived" -> Requalified(MeaningOf(f.q, ctes, all), f.alias)
      [] f.kind = "join" -> JoinRel(MeaningOfFrom(f.left, ctes, all),
                                    MeaningOfFrom(f.right, ctes, all), f.type, f.on)
MeaningOfBody(b, ctes, all) ==
    CASE b.kind = "select" ->
           LET filtered(r) == IF b.where = <<>> THEN r ELSE FilterRel(r, b.where)
               unique(r) == IF b.distinct THEN Rel(r.cols, Distinct(r.rows)) ELSE r
               joined(rels) == FoldLeft(LAMBDA l, r : JoinRel(l, r, "cross", <<>>), rels[1], Tail(rels))
               from == [i \in DOMAIN b.from |-> MeaningOfFrom(b.from[i], ctes, all)]
           IN  unique(SelectRel(filtered(joined(from)), b.items, b.group, b.having))
      [] b.kind = "query" -> MeaningOf(b.q, ctes, all)
      [] b.kind = "setop" -> SetOpRel(MeaningOfBody(b.left, ctes, all),
                                      MeaningOfBody(b.right, ctes, all), b)
MeaningOf(q, ctes, all) ==
    LET sorted(r) == IF q.order = <<>> THEN r ELSE SortRel(r, q.order)
        limited(r) == IF q.limit = NoLimit THEN r ELSE LimitRel(r, q.limit)
    IN  limited(sorted(MeaningOfBody(q.body, ctes \o q.with, all)))

BagOf(s) == [x \in Range(s) |-> Cardinality({i \in DOMAIN s : s[i] = x})]

----------------------------------------------------------------------------
Init ==
    /\ case \in Cases
    /\ mode \in {"local", "distributed", "pipelined"}
    /\ step = "plan" /\ plan = Rejected /\ next = 1 /\ outs = <<>> /\ answer = Bad

PlanQuery ==
    /\ step = "plan"
    /\ plan' = PlanLdp(QueryOf(case.id), case.policy, MetaOf(case.place), Order)
    /\ step' = IF plan' = Rejected THEN "done" ELSE "run"
    /\ UNCHANGED <<case, mode, next, outs, answer>>

Failed(got) == \E w \in DOMAIN got : \E i \in DOMAIN got[w] : ~got[w][i].ok

(* One level of stages, each on all of its workers; the first failure ends *)
(* the query.                                                              *)
RunLevel ==
    /\ step = "run"
    /\ \E level \in {ComputeExecutionLevels(plan)[next]} :
       \E got \in {[s \in level |-> [w \in Range(RunsOn(plan.stages[s])) |->
                                        SubmitStage(plan.stages[s], s, w)]]} :
       LET failed == \E s \in level : Failed(got[s])
           final == RunsOn(plan.stages[plan.root])
       IN  /\ ~(failed /\ mode = "pipelined")
           /\ outs' = outs @@ got
           /\ next' = next + 1
           /\ step' = IF failed \/ plan.root \in level THEN "done" ELSE "run"
           /\ answer' = IF failed \/ plan.root \notin level THEN Bad
                        ELSE Registered(FlattenSeq([i \in DOMAIN final |-> got[plan.root][final[i]]]))
    /\ UNCHANGED <<case, plan, mode>>

(* execute_plan: whatever goes wrong in the pipeline, the plan is run      *)
(* again from its first stage, stage by stage.                             *)
FallBack ==
    /\ step = "run" /\ mode = "pipelined"
    /\ \E s \in ComputeExecutionLevels(plan)[next] :
         Failed([w \in Range(RunsOn(plan.stages[s])) |-> SubmitStage(plan.stages[s], s, w)])
    /\ mode' = "local" /\ next' = 1 /\ outs' = <<>>
    /\ UNCHANGED <<case, step, plan, answer>>

Finished == step = "done" /\ UNCHANGED vars

Next == PlanQuery \/ RunLevel \/ FallBack \/ Finished

Spec == Init /\ [][Next]_vars

----------------------------------------------------------------------------
(* Properties. *)

Meaning == MeaningOf(QueryOf(case.id), <<>>, AllRows)

SameRelation(r, s) == r.cols = s.cols /\ BagOf(r.rows) = BagOf(s.rows)
RightAnswer == SameRelation(answer, Meaning)

(* A broadcast fetched over Flight takes the rows of one source worker. *)
PartialBroadcast ==
    /\ mode = "distributed"
    /\ \E i \in DOMAIN plan.edges : /\ plan.edges[i].kind.kind = "broadcast"
                                    /\ Len(plan.stages[plan.edges[i].from].workers) > 1

(* In the cases that are run, a query that is answered is answered with    *)
(* the rows its statement means: planning, cutting, regenerating the stage *)
(* SQL and moving the rows (plan_ldp, execute_local, execute_distributed,  *)
(* execute_pipelined) lose, repeat or split nothing of them.  The cases    *)
(* are combinations of query, placement and policy that the planner        *)
(* handles, not all there are; and a broadcast of several sources over     *)
(* Flight is left out: it loses rows.                                      *)
AnswersAreExact == step = "done" /\ answer.ok => PartialBroadcast \/ RightAnswer

HoldersOf(t) == {w \in Workers : t \in DOMAIN DataOf(case.place)[w]}

(* A planned query whose tables are all on the same workers, the           *)
(* coordinator among them, never fails when it is executed in process:     *)
(* every table and column that the stage SQL the cutter wrote names is     *)
(* there on every worker the stage was given.                              *)
ColocatedQueriesSucceed ==
    /\ step = "done" /\ mode = "local" /\ plan # Rejected
    /\ \A t \in DOMAIN case.place : case.policy.coordinator \in HoldersOf(t)
    /\ \A t, u \in DOMAIN case.place : HoldersOf(t) = HoldersOf(u)
    => answer.ok

(* The plan is wired: every exchange a stage's SQL reads is fed by exactly *)
(* one edge, from a stage that comes earlier in the plan and runs in an    *)
(* earlier level; every stage but the root has exactly one reader (module  *)
(* Pipeline rests on this); the owners of the partitions of two shuffles   *)
(* into one stage agree, so that equal keys meet, and are workers that     *)
(* stage runs on; no column the statement refers to is left out of every   *)
(* stage; the topological order lists every stage once, sources first; and *)
(* the plan that arrives over the wire is the plan sent.                   *)
PlanIsWired ==
    plan # Rejected =>
        LET levels == ComputeExecutionLevels(plan)
            levelOf(s) == CHOOSE n \in DOMAIN levels : s \in levels[n]
            order == TopologicalOrder(plan)
            at(s) == CHOOSE n \in DOMAIN order : order[n] = s
            names(p) == {c[2] : c \in CollectReferencedColumns(p)}
            edges == Range(plan.edges)
        IN  /\ UNION Range(levels) = DOMAIN plan.stages
            /\ \A s \in DOMAIN plan.stages :
                 /\ \A x \in plan.stages[s].inputs :
                      Cardinality({e \in edges : e.id = x /\ e.to = s}) = 1
                 /\ {e.id : e \in {f \in edges : f.to = s}} = plan.stages[s].inputs
                 /\ Cardinality({e \in edges : e.from = s}) = IF s = plan.root THEN 0 ELSE 1
            /\ Len(order) = Len(plan.stages) /\ Range(order) = DOMAIN plan.stages
            /\ \A e \in edges : /\ levelOf(e.from) < levelOf(e.to)
                               /\ at(e.from) < at(e.to) /\ e.from < e.to
            /\ names(BuildLogicalPlan(QueryOf(case.id))) \subseteq
                 UNION {names(plan.stages[s].plan) : s \in DOMAIN plan.stages}
            /\ \A e, f \in edges :
                 e.to = f.to /\ e.kind.kind = "hash" /\ f.kind.kind = "hash"
                 => e.owner = f.owner /\ Range(e.owner) \subseteq Range(plan.stages[e.to].workers)
            /\ PlanFromProto(PlanToProto(plan)) = plan
============================================================================
