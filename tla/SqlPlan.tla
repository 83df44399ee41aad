------------------------------ MODULE SqlPlan ------------------------------
(***************************************************************************)
(* The logical plan of a query and how it is built from the parsed         *)
(* statement (sql/plan_builder.rs, sql/logical_plan.rs).                   *)
(*                                                                         *)
(* A column is a pair <<qualifier, name>>, the qualifier "" when there is  *)
(* none.  A predicate is <<column, value>> and keeps the rows whose column *)
(* differs from the value; HAVING keeps the groups of more rows than its   *)
(* number.                                                                 *)
(***************************************************************************)
EXTENDS Integers, Sequences, SequencesExt

SumOf(s) == FoldLeft(LAMBDA x, y : x + y, 0, s)

NULL == -1

(* ColumnRef::matches: by name, and by table when both are qualified. *)
Matches(c, d) == c[2] = d[2] /\ (c[1] = "" \/ d[1] = "" \/ c[1] = d[1])

KeysMatch(p, q) ==
    Len(p) = Len(q) /\ \A i \in DOMAIN p : Matches(p[i], q[i])

Dequalified(c) == <<"", c[2]>>

(* LogicalPlan: an operator, its own arguments and its children. *)
Node(op, a, kids) == [op |-> op, a |-> a, kids |-> kids]

RECURSIVE AnyNode(_, _)
AnyNode(p, ops) == p.op \in ops \/ \E i \in DOMAIN p.kids : AnyNode(p.kids[i], ops)

----------------------------------------------------------------------------
(* Expressions of the parsed statement: a column, a function call (an      *)
(* aggregate or not, plain, OVER a written specification or OVER a named   *)
(* window), an operator (binary, unary, parenthesised or CASE), a cast.    *)

Col(c) == [e |-> "col", ref |-> c, agg |-> FALSE, over |-> "none", part |-> <<>>, args |-> <<>>]
Call(agg, over, part, args) ==
    [e |-> "fn", ref |-> <<"", "">>, agg |-> agg, over |-> over, part |-> part, args |-> args]
OpOn(x) == [Call(FALSE, "none", <<>>, <<x>>) EXCEPT !.e = "op"]
CastOf(x) == [Call(FALSE, "none", <<>>, <<x>>) EXCEPT !.e = "cast"]
Star == [Col(<<"", "*">>) EXCEPT !.e = "star"]

RECURSIVE ExprHasAggregate(_)
ExprHasAggregate(x) ==
    \/ x.e = "fn" /\ x.over = "none" /\ x.agg
    \/ x.e = "op" /\ \E i \in DOMAIN x.args : ExprHasAggregate(x.args[i])

RECURSIVE ExprHasWindow(_)
ExprHasWindow(x) ==
    \/ x.e = "fn" /\ x.over # "none"
    \/ x.e = "op" /\ \E i \in DOMAIN x.args : ExprHasWindow(x.args[i])

(* for_each_window_spec: the written PARTITION BY lists, named windows not. *)
RECURSIVE WindowSpecs(_)
WindowSpecs(x) ==
    (IF x.e = "fn" /\ x.over = "spec" THEN <<x.part>> ELSE <<>>) \o
    (IF x.e \in {"fn", "op"}
     THEN FlattenSeq([i \in DOMAIN x.args |-> WindowSpecs(x.args[i])]) ELSE <<>>)

IntersectColumnRefs(a, b) ==
    SelectSeq(a, LAMBDA c : \E i \in DOMAIN b : Matches(c, b[i]))

ExtractWindowPartitionKeys(items) ==
    LET specs == FlattenSeq([i \in DOMAIN items |-> WindowSpecs(items[i].ex)]) IN
    IF specs = <<>> THEN <<>> ELSE FoldLeft(IntersectColumnRefs, specs[1], Tail(specs))

(* expr_to_column_ref keeps only plain columns: an expression of the       *)
(* GROUP BY contributes no key.                                            *)
ExtractGroupKeys(group) ==
    LET cols == SelectSeq(group, LAMBDA x : x.e = "col") IN
    [i \in DOMAIN cols |-> cols[i].ref]

----------------------------------------------------------------------------
(* The builder.  Query: [with, body, order, limit]; a body is a SELECT,    *)
(* a set operation or a parenthesised query; a FROM item is a table, a     *)
(* derived table or a join.                                                *)

NoLimit == -1
Unsupported == Node("Unsupported", [why |-> "feature"], <<>>)

RECURSIVE CollectTableNames(_)
CollectTableNames(p) ==
    CASE p.op = "Scan" -> {p.a.table, p.a.alias}
      [] p.op = "SubqueryScan" -> {p.a.alias}
      [] OTHER -> UNION {CollectTableNames(p.kids[i]) : i \in DOMAIN p.kids}

(* The equalities of an ON clause, each turned so that its first column is *)
(* of the left input; one with an unattributable side gives no key.        *)
ExtractEquiKeys(on, left, right) ==
    LET turned == [i \in DOMAIN on |->
                     IF on[i][1][1] \in left /\ on[i][2][1] \in right THEN on[i]
                     ELSE IF on[i][1][1] \in right /\ on[i][2][1] \in left
                          THEN <<on[i][2], on[i][1]>> ELSE <<>>]
        pairs == SelectSeq(turned, LAMBDA p : p # <<>>)
    IN  [l |-> [i \in DOMAIN pairs |-> pairs[i][1]], r |-> [i \in DOMAIN pairs |-> pairs[i][2]]]

JoinNode(l, r, type, on) ==
    LET keys == ExtractEquiKeys(on, CollectTableNames(l), CollectTableNames(r)) IN
    Node("Join", [type |-> type, on |-> on, lk |-> keys.l, rk |-> keys.r], <<l, r>>)

QueryHasFrom(q) ==
    LET has(b) == b.kind = "select" /\ b.from # <<>> IN
    IF q.body.kind = "setop" THEN has(q.body.left) \/ has(q.body.right) ELSE has(q.body)

RECURSIVE BuildQuery(_, _)
RECURSIVE BuildSetExpr(_, _)
RECURSIVE BuildTableFactor(_, _)

(* A common table expression with a FROM clause is inlined as a subquery;  *)
(* one without is left as a scan of its name.                              *)
BuildTableFactor(f, ctes) ==
    CASE f.kind = "table" ->
           LET named == SelectSeq(ctes, LAMBDA c : c.name = f.name /\ QueryHasFrom(c.q)) IN
           IF named # <<>>
           THEN Node("SubqueryScan", [alias |-> f.alias], <<BuildQuery(Last(named).q, ctes)>>)
           ELSE Node("Scan", [table |-> f.name, alias |-> f.alias], <<>>)
      [] f.kind = "derived" ->
           IF f.alias = "" THEN Unsupported
           ELSE Node("SubqueryScan", [alias |-> f.alias], <<BuildQuery(f.q, ctes)>>)
      [] f.kind = "join" ->
           JoinNode(BuildTableFactor(f.left, ctes), BuildTableFactor(f.right, ctes), f.type, f.on)

(* Several FROM items are cross joins. *)
BuildFromClause(from, ctes) ==
    IF from = <<>> THEN Unsupported
    ELSE FoldLeft(LAMBDA p, f : JoinNode(p, BuildTableFactor(f, ctes), "cross", <<>>),
                  BuildTableFactor(from[1], ctes), Tail(from))

(* build_select.  Of the clauses of a SELECT the plan keeps FROM, WHERE,   *)
(* GROUP BY, HAVING and the select list; DISTINCT has no place in it.      *)
BuildSelect(s, ctes) ==
    LET has(P(_)) == \E i \in DOMAIN s.items : P(s.items[i].ex)
        filtered(p) == IF s.where = <<>> THEN p ELSE Node("Filter", [pred |-> s.where], <<p>>)
        selected(p) ==
            IF s.group # <<>> \/ has(ExprHasAggregate)
            THEN Node("Aggregate", [items |-> s.items, group |-> s.group, having |-> s.having,
                                    keys |-> ExtractGroupKeys(s.group)], <<p>>)
            ELSE IF has(ExprHasWindow)
                 THEN Node("Window", [items |-> s.items,
                                      keys |-> ExtractWindowPartitionKeys(s.items)], <<p>>)
                 ELSE Node("Project", [items |-> s.items], <<p>>)
    IN  selected(filtered(BuildFromClause(s.from, ctes)))

BuildSetExpr(b, ctes) ==
    CASE b.kind = "select" -> BuildSelect(b, ctes)
      [] b.kind = "query" -> BuildQuery(b.q, ctes)
      [] b.kind = "setop" -> Node("SetOp", [set |-> b.set, all |-> b.all],
                                  <<BuildSetExpr(b.left, ctes), BuildSetExpr(b.right, ctes)>>)
      [] OTHER -> Unsupported

BuildQuery(q, outer) ==
    LET sorted(p) == IF q.order = <<>> THEN p ELSE Node("Sort", [order |-> q.order], <<p>>)
        limited(p) == IF q.limit = NoLimit THEN p ELSE Node("Limit", [n |-> q.limit], <<p>>)
    IN  limited(sorted(BuildSetExpr(q.body, outer \o q.with)))

BuildLogicalPlan(q) == BuildQuery(q, <<>>)

----------------------------------------------------------------------------
(* The columns a plan refers to; those of an OVER clause are not looked at. *)

RECURSIVE CollectColumnsFromExpr(_)
CollectColumnsFromExpr(x) ==
    IF x.e = "col" THEN {x.ref} ELSE UNION {CollectColumnsFromExpr(x.args[i]) : i \in DOMAIN x.args}

RECURSIVE CollectReferencedColumns(_)
CollectReferencedColumns(p) ==
    LET ofItems == UNION {CollectColumnsFromExpr(p.a.items[i].ex) : i \in DOMAIN p.a.items} IN
    (CASE p.op = "Filter" -> {p.a.pred[1]}
       [] p.op \in {"Project", "Window"} -> ofItems
       [] p.op = "Aggregate" -> Range(p.a.keys) \cup ofItems
       [] p.op = "Sort" -> Range(p.a.order)
       [] p.op = "Join" -> Range(p.a.lk) \cup Range(p.a.rk) \cup UNION {Range(p.a.on[i]) : i \in DOMAIN p.a.on}
       [] OTHER -> {}) \cup
    UNION {CollectReferencedColumns(p.kids[i]) : i \in DOMAIN p.kids}
============================================================================
