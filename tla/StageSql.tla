------------------------------ MODULE StageSql ------------------------------
(***************************************************************************)
(* What a stage's SQL text returns.  sql/stage_sql_gen.rs prints a plan    *)
(* fragment back to text, dropping table qualifiers where the fragment     *)
(* reads exchange data and adding no parentheses around the operands of a  *)
(* set operation; the embedded database then parses and runs that text.    *)
(* The first half below is the database (external), the second half the    *)
(* generator: which clause of the plan the text still carries, and how.    *)
(*                                                                         *)
(* A relation carries its columns, its rows as functions of the columns,   *)
(* and for each row the wider row an ORDER BY of the same SELECT may still *)
(* refer to; ok is FALSE for what the database refuses (an unknown column, *)
(* table or clause order).  Every aggregate is COUNT, every window         *)
(* function COUNT over the partition: enough to see a row that is lost,    *)
(* repeated or grouped twice.                                              *)
(***************************************************************************)
EXTENDS SqlPlan, FiniteSets

Rel(cols, rows) == [ok |-> TRUE, cols |-> cols, rows |-> rows, scols |-> cols, scope |-> rows]
Bad == [Rel({}, <<>>) EXCEPT !.ok = FALSE]

Candidates(cols, c) == {d \in cols : d[2] = c[2] /\ c[1] \in {"", d[1]}}
Resolves(cols, c) == Cardinality(Candidates(cols, c)) = 1
Resolve(cols, c) == CHOOSE d \in Candidates(cols, c) : TRUE

Requalified(rel, q) ==
    LET old(c) == CHOOSE d \in rel.cols : d[2] = c[2]
        new == {<<q, d[2]>> : d \in rel.cols}
        row(r) == [c \in new |-> r[old(c)]]
    IN  IF rel.ok THEN Rel(new, [i \in DOMAIN rel.rows |-> row(rel.rows[i])]) ELSE Bad

(* SELECT *: the columns lose their qualifier, an ORDER BY may use it. *)
StarOf(rel) ==
    [Requalified(rel, "") EXCEPT !.scols = rel.cols, !.scope = rel.rows]

FilterRel(rel, pred) ==
    IF rel.ok /\ Resolves(rel.cols, pred[1])
    THEN Rel(rel.cols, SelectSeq(rel.rows, LAMBDA r : r[Resolve(rel.cols, pred[1])] # pred[2]))
    ELSE Bad

JoinRel(l, r, type, on) ==
    LET cols == l.cols \cup r.cols
        both(x, y) == [c \in cols |-> IF c \in l.cols THEN x[c] ELSE y[c]]
        nulls(s) == [c \in s |-> NULL]
        hit(x, y) == \A i \in DOMAIN on :
            LET z == both(x, y) IN
            /\ z[Resolve(cols, on[i][1])] = z[Resolve(cols, on[i][2])]
            /\ z[Resolve(cols, on[i][1])] # NULL
        match(x) == LET ys == SelectSeq(r.rows, LAMBDA y : hit(x, y))
                    IN  IF ys = <<>> /\ type \in {"left", "full"} THEN <<nulls(r.cols)>> ELSE ys
        pairs(x) == LET ys == match(x) IN [j \in DOMAIN ys |-> both(x, ys[j])]
        alone == IF type \notin {"right", "full"} THEN <<>>
                 ELSE SelectSeq(r.rows, LAMBDA y : \A i \in DOMAIN l.rows : ~hit(l.rows[i], y))
    IN  IF /\ l.ok /\ r.ok /\ l.cols \cap r.cols = {}
           /\ \A i \in DOMAIN on : \A j \in 1..2 : Resolves(cols, on[i][j])
        THEN Rel(cols, FlattenSeq([i \in DOMAIN l.rows |-> pairs(l.rows[i])]) \o
                       [j \in DOMAIN alone |-> both(nulls(l.cols), alone[j])])
        ELSE Bad

RECURSIVE RefsOf(_)
RefsOf(x) == (IF x.e = "col" THEN {x.ref} ELSE {}) \cup Range(x.part) \cup
             UNION {RefsOf(x.args[i]) : i \in DOMAIN x.args}

(* The database sees an aggregate wherever it stands in an expression. *)
RECURSIVE Aggregates(_)
Aggregates(x) == x.over = "none" /\ (x.agg \/ \E i \in DOMAIN x.args : Aggregates(x.args[i]))

(* The value of x for row r of its group g, windows ranging over all. *)
RECURSIVE ValueOf(_, _, _, _, _)
ValueOf(x, cols, r, g, all) ==
    CASE x.e = "col" -> r[Resolve(cols, x.ref)]
      [] x.over # "none" -> Len(SelectSeq(all, LAMBDA s :
             \A i \in DOMAIN x.part : s[Resolve(cols, x.part[i])] = r[Resolve(cols, x.part[i])]))
      [] x.over = "none" /\ x.agg -> Len(g)
      [] OTHER -> ValueOf(x.args[1], cols, r, g, all)

NameOf(item) == IF item.as # "" THEN item.as ELSE item.ex.ref[2]

SelectRel(rel, items, group, having) ==
    LET grouped == group # <<>> \/ \E i \in DOMAIN items : Aggregates(items[i].ex)
        exprs == {items[i].ex : i \in DOMAIN items} \cup Range(group)
        named == {i \in DOMAIN items : items[i].ex.e # "star"}
        cols == {<<"", NameOf(items[i])>> : i \in named} \cup
                (IF named = DOMAIN items THEN {} ELSE {Dequalified(c) : c \in rel.cols})
        out(r, g) == [c \in cols |->
            IF \E i \in named : NameOf(items[i]) = c[2]
            THEN ValueOf(items[CHOOSE i \in named : NameOf(items[i]) = c[2]].ex,
                         rel.cols, r, g, rel.rows)
            ELSE r[Resolve(rel.cols, c)]]
        keyOf(r) == [i \in DOMAIN group |-> ValueOf(group[i], rel.cols, r, <<>>, <<>>)]
        groups == IF group = <<>> THEN <<rel.rows>>
                  ELSE LET ks == SetToSeq({keyOf(rel.rows[i]) : i \in DOMAIN rel.rows})
                       IN  [k \in DOMAIN ks |-> SelectSeq(rel.rows, LAMBDA r : keyOf(r) = ks[k])]
        kept == SelectSeq(groups, LAMBDA g : Len(g) > having)
        first(g) == IF g = <<>> THEN [c \in rel.cols |-> NULL] ELSE g[1]
        rows == IF grouped THEN [k \in DOMAIN kept |-> out(first(kept[k]), kept[k])]
                ELSE [i \in DOMAIN rel.rows |-> out(rel.rows[i], <<>>)]
        under == IF grouped THEN [k \in DOMAIN kept |-> first(kept[k])] ELSE rel.rows
    IN  IF rel.ok /\ \A x \in exprs : \A c \in RefsOf(x) : Resolves(rel.cols, c)
        THEN [Rel(cols, rows) EXCEPT !.scols = rel.cols, !.scope = under]
        ELSE Bad

(* ORDER BY sees the output names first, then the columns under the SELECT. *)
SortRel(rel, order) ==
    LET ord(i, p) == IF <<"", order[i][2]>> \in rel.cols /\ order[i][1] = ""
                     THEN rel.rows[p][<<"", order[i][2]>>]
                     ELSE rel.scope[p][Resolve(rel.scols, order[i])]
        ks(p) == [i \in DOMAIN order |-> ord(i, p)]
        less(p, q) == \E i \in DOMAIN order :
            ks(p)[i] < ks(q)[i] /\ \A j \in 1..(i - 1) : ks(p)[j] = ks(q)[j]
        perm == SortSeq([p \in DOMAIN rel.rows |-> p], less)
    IN  IF rel.ok /\ \A i \in DOMAIN order :
                       \/ order[i][1] = "" /\ <<"", order[i][2]>> \in rel.cols
                       \/ Resolves(rel.scols, order[i])
        THEN [rel EXCEPT !.rows = [p \in DOMAIN perm |-> rel.rows[perm[p]]],
                         !.scope = [p \in DOMAIN perm |-> rel.scope[perm[p]]]]
        ELSE Bad

LimitRel(rel, n) ==
    IF rel.ok THEN Rel(rel.cols, SubSeq(rel.rows, 1, IF n < Len(rel.rows) THEN n ELSE Len(rel.rows)))
    ELSE Bad

Distinct(s) == SetToSeq(Range(s))

SetOpRel(l, r, a) ==
    IF ~l.ok \/ ~r.ok \/ l.cols # r.cols THEN Bad
    ELSE Rel(l.cols,
             CASE a.set = "union" /\ a.all -> l.rows \o r.rows
               [] a.set = "union" /\ ~a.all -> Distinct(l.rows \o r.rows)
               [] OTHER -> Distinct(SelectSeq(l.rows, LAMBDA x : x \notin Range(r.rows))))

----------------------------------------------------------------------------
(* The generator. *)

RECURSIVE IsExchangeBackedPlan(_)
IsExchangeBackedPlan(p) ==
    \/ p.op = "ExchangeRead"
    \/ p.op \notin {"Join", "SetOp", "Scan", "ExchangeRead"} /\ IsExchangeBackedPlan(p.kids[1])

(* A fragment that reads an exchange under no alias of its own. *)
RECURSIVE PlanContainsBareExchange(_)
PlanContainsBareExchange(p) ==
    \/ p.op = "ExchangeRead"
    \/ p.op # "SubqueryScan" /\ \E i \in DOMAIN p.kids : PlanContainsBareExchange(p.kids[i])

(* The columns of an OVER clause keep their qualifier. *)
RECURSIVE DequalifyExpr(_)
DequalifyExpr(x) ==
    [x EXCEPT !.ref = Dequalified(@), !.args = [i \in DOMAIN @ |-> DequalifyExpr(@[i])]]

DequalifyIf(cond, exprs) ==
    IF cond THEN [i \in DOMAIN exprs |-> DequalifyExpr(exprs[i])] ELSE exprs

ItemsDequalifiedIf(cond, items) ==
    IF cond THEN [i \in DOMAIN items |-> [items[i] EXCEPT !.ex = DequalifyExpr(@)]] ELSE items

OrderText(p) ==
    IF IsExchangeBackedPlan(p.kids[1])
    THEN [i \in DOMAIN p.a.order |-> Dequalified(p.a.order[i])] ELSE p.a.order

(* The text of a set operation has no parentheses: the ORDER BY and LIMIT  *)
(* of its right operand are read as its own, and it groups to the left.    *)
RECURSIVE Reparsed(_)
Reparsed(p) ==
    IF p.op # "SetOp" THEN p
    ELSE LET l == Reparsed(p.kids[1])
             r == Reparsed(p.kids[2])
             inner == Reparsed([p EXCEPT !.kids = <<l, r.kids[1]>>])
         IN  CASE r.op = "Sort" -> Node("Sort", [order |-> OrderText(r)], <<inner>>)
               [] r.op = "Limit" -> Node("Limit", r.a, <<inner>>)
               [] r.op = "SetOp" -> [r EXCEPT !.kids = <<inner, r.kids[2]>>]
               [] OTHER -> [p EXCEPT !.kids = <<l, r>>]

RECURSIVE GenerateSql(_, _)
RECURSIVE GenerateFromFragment(_, _)

GenerateFromFragment(p, env) ==
    LET bare == \E i \in DOMAIN p.kids : PlanContainsBareExchange(p.kids[i])
        deq(c) == IF bare THEN Dequalified(c) ELSE c
    IN  CASE p.op = "Scan" -> IF p.a.table \in DOMAIN env.tables
                              THEN Requalified(env.tables[p.a.table], p.a.alias) ELSE Bad
          [] p.op = "ExchangeRead" -> IF p.a.id \in DOMAIN env.inputs
                                      THEN env.inputs[p.a.id] ELSE Bad
          [] p.op = "Join" ->
               JoinRel(GenerateFromFragment(p.kids[1], env), GenerateFromFragment(p.kids[2], env),
                       p.a.type,
                       [i \in DOMAIN p.a.on |-> <<deq(p.a.on[i][1]), deq(p.a.on[i][2])>>])
          [] p.op = "Filter" -> FilterRel(GenerateFromFragment(p.kids[1], env),
                                          <<deq(p.a.pred[1]), p.a.pred[2]>>)
          [] p.op = "SubqueryScan" -> Requalified(GenerateSql(p.kids[1], env), p.a.alias)
          [] OTHER -> Requalified(GenerateSql(p, env), "__subquery")

GenerateSql(p, env) ==
    LET in == GenerateFromFragment(p.kids[1], env)
        bare == PlanContainsBareExchange(p.kids[1])
        backed == IsExchangeBackedPlan(p.kids[1])
        clause(under) == p.kids[1].op \in under    \* the text already has that clause
    IN  CASE p.op = "Limit" -> IF clause({"Limit"}) THEN Bad
                               ELSE LimitRel(GenerateSql(p.kids[1], env), p.a.n)
          [] p.op = "Sort" -> IF clause({"Sort", "Limit"}) THEN Bad
                              ELSE SortRel(GenerateSql(p.kids[1], env), OrderText(p))
          [] p.op = "Aggregate" -> SelectRel(in, ItemsDequalifiedIf(backed, p.a.items),
                                             DequalifyIf(backed, p.a.group), p.a.having)
          [] p.op = "Project" -> SelectRel(in, ItemsDequalifiedIf(bare, p.a.items), <<>>, -1)
          [] p.op = "Window" -> SelectRel(in, p.a.items, <<>>, -1)
          [] p.op = "SetOp" ->
               LET q == Reparsed(p) IN
               IF q.op # "SetOp" THEN GenerateSql(q, env)
               ELSE IF q.kids[1].op \in {"Sort", "Limit"} THEN Bad
               ELSE SetOpRel(GenerateSql(q.kids[1], env), GenerateSql(q.kids[2], env), q.a)
          [] p.op = "SubqueryScan" -> GenerateSql(p.kids[1], env)
          [] OTHER -> StarOf(GenerateFromFragment(p, env))
============================================================================
