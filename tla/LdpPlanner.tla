----------------------------- MODULE LdpPlanner -----------------------------
(***************************************************************************)
(* The distributed planner (ldp/planner): every operator states how its    *)
(* inputs must be distributed (requirements.rs), the annotator walks the   *)
(* plan bottom-up and inserts the exchanges that are missing (annotate.rs, *)
(* exchange.rs, policy.rs), and the cutter turns each exchange into a      *)
(* stage boundary, gives every stage its workers and every hash partition  *)
(* its owner (cut.rs).  Sizes are the planner's estimates; a distribution  *)
(* is [kind, keys, workers].                                               *)
(***************************************************************************)
EXTENDS SqlPlan, LdpPlan

Dist(kind, keys, workers) == [kind |-> kind, keys |-> keys, workers |-> workers]
Singleton(w) == Dist("singleton", <<>>, <<w>>)

(* RequiredDistribution::is_satisfied_by.  One worker's data is not taken  *)
(* to be hash partitioned; replicated data is.                             *)
Satisfies(actual, req) ==
    CASE req.kind = "any" -> TRUE
      [] req.kind = "singleton" -> actual.kind = "singleton"
      [] req.kind = "hash" -> \/ actual.kind = "hash" /\ KeysMatch(actual.keys, req.keys)
                              \/ actual.kind = "replicated"

AnyDist == [kind |-> "any", keys |-> <<>>]
One == [kind |-> "singleton", keys |-> <<>>]
HashOn(keys) == [kind |-> "hash", keys |-> keys]

Requirements(p) ==
    CASE p.op \in {"Scan", "ExchangeRead"} -> <<>>
      [] p.op \in {"Filter", "Project", "SubqueryScan"} -> <<AnyDist>>
      [] p.op \in {"Sort", "Limit"} -> <<One>>
      [] p.op \in {"Aggregate", "Window"} -> IF p.a.keys = <<>> THEN <<One>> ELSE <<HashOn(p.a.keys)>>
      [] p.op = "Join" -> IF p.a.lk = <<>> THEN <<AnyDist, One>> ELSE <<HashOn(p.a.lk), HashOn(p.a.rk)>>
      [] p.op = "SetOp" -> IF p.a.set = "union" /\ p.a.all THEN <<AnyDist, AnyDist>> ELSE <<One, One>>

----------------------------------------------------------------------------
(* Statistics of a scan.  A table is described by its epochs in index      *)
(* order, or by what the control plane registered for the whole table.     *)

FirstOccurrences(s) ==
    FoldLeft(LAMBDA acc, x : IF x \in Range(acc) THEN acc ELSE Append(acc, x), <<>>, s)

TableScanStats(meta, table) ==
    LET t == IF table \in DOMAIN meta THEN meta[table] ELSE [epochs |-> <<>>, registered |-> <<>>]
        ws == FirstOccurrences([i \in DOMAIN t.epochs |-> t.epochs[i].worker])
    IN  IF t.registered # <<>> THEN t.registered[1]
        ELSE [rows |-> SumOf([i \in DOMAIN t.epochs |-> t.epochs[i].rows]),
              bytes |-> SumOf([i \in DOMAIN t.epochs |-> t.epochs[i].bytes]),
              src |-> IF t.epochs = <<>> THEN "unknown"
                      ELSE IF \A i \in DOMAIN t.epochs : t.epochs[i].exact THEN "exact" ELSE "estimated",
              dist |-> IF Len(ws) = 1 THEN Singleton(ws[1]) ELSE Dist("epoch", <<>>, ws)]

CombineStatsSources(a, b) ==
    IF a = "exact" /\ b = "exact" THEN "exact"
    ELSE IF "unknown" \in {a, b} THEN "unknown" ELSE "estimated"

ISqrt(n) == CHOOSE r \in 0..n : r * r <= n /\ (r + 1) * (r + 1) > n

EstimateGroupCardinality(rows, keys) ==
    IF keys = 0 THEN 1 ELSE ISqrt(keys * ISqrt(rows) * ISqrt(rows))

----------------------------------------------------------------------------
(* Exchange decisions: "none", "reject" or the exchange to insert. *)

None == Exchange("none", <<>>, 0, <<>>)
Reject == Exchange("reject", <<>>, 0, <<>>)

WithSafetyFactor(n, ann, policy) == IF ann.src = "exact" THEN n ELSE n * policy.safety

CanOptimizeToBroadcast(bytes, ann, join, policy) ==
    join /\ ann.src = "exact" /\ bytes <= policy.broadcastMax

(* The safety factor of an uncertain estimate is applied by the caller and *)
(* once more by can_gather_with_safety.                                    *)
DetermineGatherExchange(rows, bytes, ann, policy) ==
    IF /\ WithSafetyFactor(rows, ann, policy) <= policy.gatherRowsMax
       /\ WithSafetyFactor(bytes, ann, policy) <= policy.gatherBytesMax
    THEN Gather(policy.coordinator) ELSE Reject

DetermineExchange(ann, req, policy) ==
    LET rows == WithSafetyFactor(ann.rows, ann, policy)
        bytes == WithSafetyFactor(ann.bytes, ann, policy)
    IN  CASE Satisfies(ann.dist, req) -> None
          [] req.kind = "singleton" -> DetermineGatherExchange(rows, bytes, ann, policy)
          [] OTHER -> IF bytes > policy.shuffleMax THEN Reject
                      ELSE HashPartition(req.keys, policy.partitions)

(* determine_join_exchanges: leave a replicated right side and             *)
(* co-partitioned sides where they are, broadcast the smaller side that    *)
(* may be broadcast, else shuffle what is not yet in place.                *)
DetermineJoinExchanges(l, r, lk, rk, policy) ==
    LET lb == WithSafetyFactor(l.bytes, l, policy)
        rb == WithSafetyFactor(r.bytes, r, policy)
        lOk == Satisfies(l.dist, HashOn(lk))
        rOk == Satisfies(r.dist, HashOn(rk))
        lCast == CanOptimizeToBroadcast(lb, l, TRUE, policy)
        rCast == CanOptimizeToBroadcast(rb, r, TRUE, policy)
        unless(ok, x) == IF ok THEN None ELSE x
        colocated == /\ l.dist.kind = "hash" /\ r.dist.kind = "hash"
                     /\ KeysMatch(l.dist.keys, lk) /\ KeysMatch(r.dist.keys, rk)
                     /\ l.dist.workers = r.dist.workers
    IN  CASE r.dist.kind = "replicated" \/ colocated \/ (lOk /\ rOk) -> <<None, None>>
          [] OTHER ->
               IF lCast /\ (~rCast \/ lb <= rb)
               THEN <<unless(lOk, Broadcast(r.dist.workers)), None>>
               ELSE IF rCast THEN <<None, unless(rOk, Broadcast(l.dist.workers))>>
               ELSE IF lb + rb > policy.shuffleMax THEN <<Reject, Reject>>
               ELSE <<unless(lOk, HashPartition(lk, policy.partitions)),
                      unless(rOk, HashPartition(rk, policy.partitions))>>

(* handle_join_exchanges: without keys the right side is gathered. *)
HandleJoinExchanges(p, l, r, policy) ==
    IF p.a.lk = <<>>
    THEN <<None, IF r.dist.kind = "singleton" THEN None ELSE DetermineExchange(r, One, policy)>>
    ELSE DetermineJoinExchanges(l, r, p.a.lk, p.a.rk, policy)

----------------------------------------------------------------------------
(* The annotator. *)

PostExchangeDistribution(x, pre, policy) ==
    CASE x.kind = "gather" -> Singleton(x.targets[1])
      [] x.kind = "broadcast" -> Dist("replicated", <<>>, x.targets)
      [] x.kind = "hash" ->
           Dist("hash", x.keys, IF pre.workers # <<>> THEN pre.workers
                                ELSE [i \in 1..x.parts |-> policy.coordinator])

Ann(dist, rows, bytes, src) == [dist |-> dist, rows |-> rows, bytes |-> bytes, src |-> src]

(* compute_output_distribution, an operator at a time. *)
PerRow(n, bytes) == IF n > 0 THEN bytes \div n ELSE 100

ScanOutput(p, meta) ==
    LET s == TableScanStats(meta, p.a.table) IN Ann(s.dist, s.rows, s.bytes, s.src)

AggregateOutput(p, c, policy) ==
    LET n == EstimateGroupCardinality(c.rows, Len(p.a.keys))
        d == IF c.dist.kind \in {"singleton", "hash"} THEN c.dist ELSE Singleton(policy.coordinator)
    IN  IF p.a.keys = <<>> THEN Ann(d, 1, 100, c.src)
        ELSE Ann(d, n, n * PerRow(c.rows, c.bytes), c.src)

(* A join follows its left input unless that one is replicated. *)
JoinOutput(l, r) ==
    LET n == l.rows \div 10 IN
    Ann(IF l.dist.kind = "replicated" THEN r.dist ELSE l.dist, n,
        n * PerRow(l.rows, l.bytes + r.bytes), CombineStatsSources(l.src, r.src))

(* A set operation follows its first input. *)
SetOpOutput(l, r) ==
    Ann(l.dist, l.rows + r.rows, l.bytes + r.bytes, CombineStatsSources(l.src, r.src))

WindowOutput(p, c) ==
    Ann(IF p.a.keys # <<>> /\ c.dist.kind = "replicated"
        THEN Dist("hash", p.a.keys, c.dist.workers) ELSE c.dist, c.rows, c.bytes, c.src)

(* A sort or a limit is placed on the coordinator wherever its single      *)
(* input is.                                                               *)
OutputDistribution(p, kids, policy, meta) ==
    LET c == kids[1]
        here == Singleton(policy.coordinator)
    IN  CASE p.op = "Scan" -> ScanOutput(p, meta)
          [] p.op = "ExchangeRead" -> Ann(here, 0, 0, "unknown")
          [] p.op = "Filter" -> Ann(c.dist, c.rows \div 2, c.bytes \div 2, c.src)
          [] p.op \in {"Project", "SubqueryScan"} -> Ann(c.dist, c.rows, c.bytes, c.src)
          [] p.op \in {"Sort", "Limit"} -> Ann(here, c.rows, c.bytes, c.src)
          [] p.op = "Aggregate" -> AggregateOutput(p, c, policy)
          [] p.op = "Join" -> JoinOutput(c, kids[2])
          [] p.op = "SetOp" -> SetOpOutput(c, kids[2])
          [] p.op = "Window" -> WindowOutput(p, c)

Rejected == [op |-> "Rejected"]

(* annotate_recursive: children first; an annotated node is the plan node  *)
(* with its distribution and estimates, the exchange between it and its    *)
(* parent, and the distribution it had before that exchange.               *)
RECURSIVE Annotate(_, _, _)
Annotate(p, policy, meta) ==
    LET exchanges(kids) ==
            IF p.op = "Join" THEN HandleJoinExchanges(p, kids[1], kids[2], policy)
            ELSE [i \in DOMAIN kids |-> DetermineExchange(kids[i], Requirements(p)[i], policy)]
        moved(k, x) == IF x = None THEN k
                       ELSE [k EXCEPT !.ex = x, !.pre = k.dist,
                                      !.dist = PostExchangeDistribution(x, k.dist, policy)]
        node(kids, out) == [op |-> p.op, a |-> p.a, kids |-> kids, dist |-> out.dist, rows |-> out.rows,
                            bytes |-> out.bytes, src |-> out.src, ex |-> None, pre |-> out.dist]
        over(kids) == node(kids, OutputDistribution(p, kids, policy, meta))
        placed(kids, xs) == IF \E i \in DOMAIN xs : xs[i] = Reject THEN Rejected
                            ELSE over([i \in DOMAIN kids |-> moved(kids[i], xs[i])])
        enforced(kids) == IF \E i \in DOMAIN kids : kids[i] = Rejected THEN Rejected
                          ELSE placed(kids, exchanges(kids))
    IN  IF p.op = "Unsupported" THEN Rejected
        ELSE enforced([i \in DOMAIN p.kids |-> Annotate(p.kids[i], policy, meta)])

----------------------------------------------------------------------------
(* The cutter. *)

(* An ORDER BY column the exchange does not carry yet is appended to the   *)
(* select list that feeds it.  A node that has no select list is replaced  *)
(* by a projection; its children stay what they were.                      *)
OutputNames(items) == {items[i].as : i \in DOMAIN items} \cup
                      {items[i].ex.ref[2] : i \in {j \in DOMAIN items : items[j].as = ""}}

RECURSIVE MentionedIn(_, _)
MentionedIn(c, x) == x.ref = c \/ c \in Range(x.part) \/ \E i \in DOMAIN x.args : MentionedIn(c, x.args[i])

Item(ex, as) == [ex |-> ex, as |-> as]
AddMissing(items, cols) ==
    FoldLeft(LAMBDA acc, c : IF c[2] \in OutputNames(acc) THEN acc
                             ELSE Append(acc, Item(Col(c), c[2])), items, cols)

(* Mutant: the columns a later ORDER BY needs are not carried. *)
NoColumnsAdded(n, cols) == n

AddColumnsToPlan(n, cols) ==
    CASE cols = <<>> -> n
      [] n.op \in {"Project", "Window"} -> [n EXCEPT !.a.items = AddMissing(@, cols)]
      [] n.op = "Aggregate" ->
           [n EXCEPT !.a.items = FoldLeft(LAMBDA acc, c :
               IF \E i \in DOMAIN acc : MentionedIn(c, acc[i].ex) THEN acc
               ELSE Append(acc, Item(Col(c), "")), @, cols)]
      [] n.op \in {"Filter", "Sort", "Limit", "SubqueryScan"} -> n
      [] n.op = "Join" ->
           [n EXCEPT !.op = "Project", !.a = [items |->
               <<Item(Star, "*")>> \o [i \in DOMAIN cols |-> Item(Col(cols[i]), cols[i][2])]]]
      [] OTHER -> [n EXCEPT !.op = "Project", !.a = [items |->
                      [i \in DOMAIN cols |-> Item(Col(cols[i]), "")]]]

HasSelectList(n) == n.op \in {"Project", "Aggregate", "Window"}

RECURSIVE HasExchangeInDescendants(_)
HasExchangeInDescendants(n) ==
    n.ex # None \/ \E i \in DOMAIN n.kids : HasExchangeInDescendants(n.kids[i])

(* The topmost select lists of the stage the node belongs to. *)
RECURSIVE AddOrderByColumnsInSubtree(_, _)
AddOrderByColumnsInSubtree(n, cols) ==
    IF HasSelectList(n) THEN AddColumnsToPlan(n, cols)
    ELSE [n EXCEPT !.kids = [i \in DOMAIN @ |->
             IF @[i].ex # None THEN @[i] ELSE AddOrderByColumnsInSubtree(@[i], cols)]]

RECURSIVE AddOrderByColumnsToExchangeChildren(_, _)
AddOrderByColumnsToExchangeChildren(n, cols) ==
    LET m == IF HasSelectList(n) THEN AddColumnsToPlan(n, cols) ELSE n IN
    [m EXCEPT !.kids = [i \in DOMAIN @ |->
        IF @[i].ex # None THEN AddOrderByColumnsInSubtree(@[i], cols)
        ELSE AddOrderByColumnsToExchangeChildren(@[i], cols)]]

(* The ORDER BY columns of a stage whose root is a sort, or a limit of one. *)
SortOrderByColumns(n) ==
    CASE n.op = "Sort" -> n.a.order
      [] n.op = "Limit" -> IF n.kids[1].op = "Sort" THEN n.kids[1].a.order ELSE <<>>
      [] OTHER -> <<>>

RECURSIVE ExtractInnerProjectionItems(_)
ExtractInnerProjectionItems(n) ==
    CASE n.op \in {"Project", "Window"} -> n.a.items
      [] n.op \in {"Limit", "Sort"} -> ExtractInnerProjectionItems(n.kids[1])
      [] OTHER -> <<>>

(* The stage's own output is projected back to the original select list    *)
(* when each of its items has a name.                                      *)
RestoreColumns(n, plan) ==
    LET items == ExtractInnerProjectionItems(n)
        named == \A i \in DOMAIN items : items[i].as # "" \/ items[i].ex.e = "col"
        name(i) == IF items[i].as # "" THEN items[i].as ELSE items[i].ex.ref[2]
    IN  IF SortOrderByColumns(n) # <<>> /\ items # <<>> /\ named
        THEN Node("Project", [items |-> [i \in DOMAIN items |-> Item(Col(<<"", name(i)>>), "")]],
                  <<plan>>)
        ELSE plan

ReconstructPlanWithChildren(n, kids) ==
    Node(n.op, n.a, IF n.op \in {"Join", "SetOp"} THEN SubSeq(kids, 1, 2)
                    ELSE IF kids = <<>> THEN <<>> ELSE <<kids[1]>>)

(* An exchange read keeps the alias of the relation it replaces. *)
ExchangeRead(child, id) ==
    LET read == Node("ExchangeRead", [id |-> id], <<>>) IN
    IF child.op \in {"Scan", "SubqueryScan"}
    THEN Node("SubqueryScan", [alias |-> child.a.alias], <<read>>) ELSE read

RECURSIVE CollectExchangeReads(_)
CollectExchangeReads(p) ==
    (IF p.op = "ExchangeRead" THEN {p.a.id} ELSE {}) \cup
    UNION {CollectExchangeReads(p.kids[i]) : i \in DOMAIN p.kids}

HasLocalScan(p) == AnyNode(p, {"Scan"})

RECURSIVE CollectScanNames(_)
CollectScanNames(p) ==
    (IF p.op = "Scan" THEN {p.a.table} ELSE
     IF p.op = "SubqueryScan" /\ HasLocalScan(p) THEN {p.a.alias} ELSE {}) \cup
    UNION {CollectScanNames(p.kids[i]) : i \in DOMAIN p.kids}

FilterCtesForStage(p, ctes) ==
    IF \E i \in DOMAIN ctes : ctes[i].name \in CollectScanNames(p) THEN ctes ELSE <<>>

DetermineStageOutput(n) ==
    IF n.ex.kind = "hash" THEN [parts |-> n.ex.parts, keys |-> n.ex.keys]
    ELSE [parts |-> 0, keys |-> <<>>]

(* cut_recursive and extract_stage_plan thread the cut so far: the stages, *)
(* their workers' distribution, the edges, the next ids.  acc collects the *)
(* plans of the children already cut and the edges to the stage being cut. *)
RECURSIVE CutRecursive(_, _, _)
RECURSIVE ExtractStagePlan(_, _, _)

CutChild(acc, child, order, ctes) ==
    LET after(r) == [cut |-> [r EXCEPT !.nextExchange = @ + 1],
                     plans |-> Append(acc.plans, ExchangeRead(child, r.nextExchange)),
                     edges |-> Append(acc.edges, [id |-> r.nextExchange, from |-> Len(r.stages),
                                                  kind |-> child.ex])]
        within(r) == [cut |-> r.cut, plans |-> Append(acc.plans, r.plans[1]),
                      edges |-> acc.edges \o r.edges]
    IN  IF child.ex # None
        THEN after(CutRecursive(AddColumnsToPlan(child, order), acc.cut, ctes))
        ELSE within(ExtractStagePlan(
                      IF order # <<>> /\ HasExchangeInDescendants(child)
                      THEN AddOrderByColumnsToExchangeChildren(child, order) ELSE child,
                      acc.cut, ctes))

CutChildren(n, order, cut, ctes) ==
    FoldLeft(LAMBDA acc, child : CutChild(acc, child, order, ctes),
             [cut |-> cut, plans |-> <<>>, edges |-> <<>>], n.kids)

ExtractStagePlan(n, cut, ctes) ==
    LET r == CutChildren(n, <<>>, cut, ctes) IN
    [r EXCEPT !.plans = <<ReconstructPlanWithChildren(n, @)>>]

(* A stage is numbered after all the stages it reads from, and the edges   *)
(* into it are created only then.                                          *)
CutRecursive(n, cut, ctes) ==
    LET stage(plan) == [plan |-> plan, ctes |-> FilterCtesForStage(plan, ctes),
                        inputs |-> CollectExchangeReads(plan), local |-> HasLocalScan(plan),
                        out |-> DetermineStageOutput(n), workers |-> n.pre.workers]
        into(e, id) == [id |-> e.id, from |-> e.from, to |-> id, kind |-> e.kind, owner |-> <<>>]
        with(r) == [r.cut EXCEPT
                      !.stages = Append(@, stage(RestoreColumns(n, ReconstructPlanWithChildren(n, r.plans)))),
                      !.edges = @ \o [i \in DOMAIN r.edges |-> into(r.edges[i], Len(r.cut.stages) + 1)]]
    IN  with(CutChildren(n, SortOrderByColumns(n), cut, ctes))

(* Mutant: the producers of an edge own its partitions. *)
ProducersOwn(plan, order) ==
    LET ws(s) == IF s.workers = <<>> THEN <<plan.coordinator>> ELSE s.workers
        stages == [i \in DOMAIN plan.stages |-> [plan.stages[i] EXCEPT !.workers = ws(plan.stages[i])]]
        own(e) == LET from == stages[e.from].workers IN
                  [p \in 1..e.kind.parts |-> from[((p - 1) % Len(from)) + 1]]
    IN  [plan EXCEPT !.stages = stages,
                     !.edges = [i \in DOMAIN plan.edges |->
                                   [plan.edges[i] EXCEPT !.owner = own(plan.edges[i])]]]

(* assign_stage_workers: each worker once, in order; partitions round      *)
(* robin over the workers of the stage that reads them.                    *)
AssignStageWorkers(plan, order) ==
    LET ws(s) == IF s.workers = <<>> THEN <<plan.coordinator>>
                 ELSE SelectSeq(order, LAMBDA w : w \in Range(s.workers))
        stages == [i \in DOMAIN plan.stages |-> [plan.stages[i] EXCEPT !.workers = ws(plan.stages[i])]]
        own(e) == LET to == stages[e.to].workers IN
                  [p \in 1..e.kind.parts |-> to[((p - 1) % Len(to)) + 1]]
    IN  [plan EXCEPT !.stages = stages,
                     !.edges = [i \in DOMAIN plan.edges |->
                                   [plan.edges[i] EXCEPT !.owner = own(plan.edges[i])]]]

CutIntoStages(root, policy, ctes, order) ==
    LET assigned(cut) == AssignStageWorkers([coordinator |-> policy.coordinator, stages |-> cut.stages,
                                             edges |-> cut.edges, root |-> Len(cut.stages)], order)
        rootWhole(plan) == [plan EXCEPT !.stages[plan.root].out = [parts |-> 0, keys |-> <<>>]]
    IN  rootWhole(assigned(CutRecursive(root, [stages |-> <<>>, edges |-> <<>>, nextExchange |-> 0],
                                        ctes)))

(* LdpPlan::topological_order: a queue of the stages all of whose sources  *)
(* have left it.                                                           *)
UpstreamStages(p, s) == SelectSeq(p.edges, LAMBDA e : e.to = s)
DownstreamStages(p, s) == SelectSeq(p.edges, LAMBDA e : e.from = s)

RECURSIVE OrderFrom(_, _, _, _)
OrderFrom(p, queue, degree, order) ==
    IF queue = <<>> THEN order
    ELSE LET s == Head(queue)
             visit(acc, e) ==
                 LET d == IF acc.degree[e.to] > 0 THEN acc.degree[e.to] - 1 ELSE 0 IN
                 [degree |-> [acc.degree EXCEPT ![e.to] = d],
                  queue |-> IF d = 0 /\ e.to \notin Range(order) \cup {s}
                            THEN Append(acc.queue, e.to) ELSE acc.queue]
             after == FoldLeft(visit, [degree |-> degree, queue |-> Tail(queue)],
                               DownstreamStages(p, s))
         IN  IF s \in Range(order) THEN OrderFrom(p, Tail(queue), degree, order)
             ELSE OrderFrom(p, after.queue, after.degree, Append(order, s))

TopologicalOrder(p) ==
    LET degree == [s \in DOMAIN p.stages |-> Len(UpstreamStages(p, s))]
        all == [s \in DOMAIN p.stages |-> s]
    IN  OrderFrom(p, SelectSeq(all, LAMBDA s : degree[s] = 0), degree, <<>>)

(* plan_ldp *)
PlanLdp(q, policy, meta, order) ==
    LET cut(root) == IF root = Rejected THEN Rejected ELSE CutIntoStages(root, policy, q.with, order)
    IN  cut(Annotate(BuildLogicalPlan(q), policy, meta))
============================================================================
