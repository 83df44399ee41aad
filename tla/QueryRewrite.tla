---------------------------- MODULE QueryRewrite ----------------------------
(***************************************************************************)
(* A query on logical datasets: admission control (sql/admission.rs), then *)
(* the transformation into calls of the scan macros with the date range    *)
(* the WHERE clause allows (sql/discovery.rs, sql/boolean_analyzer.rs,     *)
(* sql/transformer.rs), then its execution.  Queries from Flight clients   *)
(* are transformed without admission; the coordinator admits first.        *)
(*                                                                         *)
(* A statement is its syntax tree: of a SELECT the tables, the ON and      *)
(* WHERE expressions and the subqueries of its list.  Its rows are records *)
(* of columns; the time column holds an instant.                           *)
(***************************************************************************)
EXTENDS DateRanges, Sequences, FiniteSets, SequencesExt

CONSTANTS
    Statements,     \* [q, params, entry]: the statement, its parameters' values, its way in
    TimeColumn,     \* registered dataset -> time_column_name
    Content         \* dataset -> set of rows

VARIABLES
    asked,      \* the statement
    stage,      \* "admit", "transform", "execute", "answered", "failed" or "rejected"
    rewritten,  \* the transformed statement
    answered    \* its rows

rewriteVars == <<asked, stage, rewritten, answered>>

RegisteredDatasets == DOMAIN TimeColumn
NoExpr == [op |-> "none"]
EffectiveName(f) == IF f.alias = "" THEN f.name ELSE f.alias
Flatten(f(_), s) == FoldLeft(LAMBDA acc, x : acc \o f(x), <<>>, s)

(* The subqueries of an expression; inCase: those of CASE too. *)
RECURSIVE Subqueries(_, _)
Subqueries(e, inCase) ==
    CASE e.op = "exists" -> <<e.q>>
      [] e.op \in {"and", "or"} -> Subqueries(e.l, inCase) \o Subqueries(e.r, inCase)
      [] e.op \in {"not", "nested"} -> Subqueries(e.e, inCase)
      [] e.op = "case" -> IF inCase THEN Subqueries(e.e, inCase) ELSE <<>>
      [] OTHER -> <<>>

----------------------------------------------------------------------------
(* Admission. *)
RECURSIVE HasRecursiveCte(_)
HasRecursiveCte(q) ==
    LET RECURSIVE body(_), factor(_)
        any(s) == \E i \in DOMAIN s : factor(s[i])
        factor(f) == CASE f.kind = "derived" -> HasRecursiveCte(f.q)
                       [] f.kind = "nested" -> any(f.from)
                       [] OTHER -> FALSE
        body(b) == CASE b.kind = "select" ->
                          LET subs == Subqueries(b.where, FALSE)
                          IN  any(b.from) \/ \E i \in DOMAIN subs : HasRecursiveCte(subs[i])
                     [] b.kind = "query" -> HasRecursiveCte(b.q)
                     [] b.kind = "setop" -> body(b.l) \/ body(b.r)
    IN  q.rec \/ (\E i \in DOMAIN q.with : HasRecursiveCte(q.with[i].q)) \/ body(q.body)

(* The tables of FROM clauses, not those of subqueries in expressions. *)
RECURSIVE QualifiedTableRefs(_)
QualifiedTableRefs(q) ==
    LET RECURSIVE body(_), factor(_)
        factor(f) == CASE f.kind = "table" -> <<f>>
                       [] f.kind = "derived" -> QualifiedTableRefs(f.q)
                       [] f.kind = "nested" -> Flatten(factor, f.from)
        body(b) == CASE b.kind = "select" -> Flatten(factor, b.from)
                     [] b.kind = "query" -> QualifiedTableRefs(b.q)
                     [] b.kind = "setop" -> body(b.l) \o body(b.r)
    IN  Flatten(LAMBDA c : QualifiedTableRefs(c.q), q.with) \o body(q.body)

(* Their WHERE and ON expressions. *)
RECURSIVE CollectPredicates(_)
CollectPredicates(q) ==
    LET RECURSIVE body(_), factor(_)
        factor(f) == (CASE f.kind = "derived" -> CollectPredicates(f.q)
                        [] f.kind = "nested" -> Flatten(factor, f.from)
                        [] OTHER -> <<>>) \o <<f.on>>
        body(b) == CASE b.kind = "select" -> <<b.where>> \o Flatten(factor, b.from)
                     [] b.kind = "query" -> CollectPredicates(b.q)
                     [] b.kind = "setop" -> body(b.l) \o body(b.r)
    IN  Flatten(LAMBDA c : CollectPredicates(c.q), q.with) \o body(q.body)

RECURSIVE ExprReferencesColumn(_, _, _)
ExprReferencesColumn(e, col, qualifiers) ==
    LET references(sub) == ExprReferencesColumn(sub, col, qualifiers) IN
    ReferencesIn(e, references(e.l), references(e.r), references(e.e), col, qualifiers)

(* Mutant: only the name of the table qualifies its columns. *)
NameOnly(d, refs) == {d}

(* The names a dataset goes by in the query. *)
Qualifiers(d, refs) == {d} \cup {EffectiveName(refs[i]) : i \in {j \in DOMAIN refs : refs[j].name = d}}

HasTimePredicate(d, q) ==
    LET preds == CollectPredicates(q) IN
    \E i \in DOMAIN preds :
        ExprReferencesColumn(preds[i], TimeColumn[d], Qualifiers(d, QualifiedTableRefs(q)))

Admitted(q) ==
    /\ ~HasRecursiveCte(q)
    /\ \A i \in DOMAIN QualifiedTableRefs(q) :
         QualifiedTableRefs(q)[i].name \in RegisteredDatasets =>
             HasTimePredicate(QualifiedTableRefs(q)[i].name, q)

----------------------------------------------------------------------------
(* The tables TableDiscovery finds, in its order. *)
RECURSIVE Discover(_)
Discover(q) ==
    LET RECURSIVE body(_), factor(_)
        inExpr(e) == Flatten(Discover, Subqueries(e, TRUE))
        factor(f) == (CASE f.kind = "table" -> IF f.name \in RegisteredDatasets THEN <<f>> ELSE <<>>
                        [] f.kind = "derived" -> Discover(f.q)
                        [] f.kind = "nested" -> Flatten(factor, f.from)
                        [] OTHER -> <<>>) \o inExpr(f.on)
        body(b) == CASE b.kind = "select" ->
                          Flatten(factor, b.from) \o inExpr(b.where) \o Flatten(inExpr, b.items)
                     [] b.kind = "query" -> Discover(b.q)
                     [] b.kind = "setop" -> body(b.l) \o body(b.r)
    IN  Flatten(LAMBDA c : Discover(c.q), q.with) \o body(q.body)

RECURSIVE AnalyzeForTable(_, _, _)
AnalyzeForTable(e, name, col) ==
    LET analyze(sub) == AnalyzeForTable(sub, name, col) IN
    AnalyzeExpr(e, analyze(e.l), analyze(e.r), analyze(e.e), name, col)

(* Only the WHERE of a top-level SELECT is looked at. *)
WhereClause(q) == IF q.body.kind = "select" THEN q.body.where ELSE NoExpr

(* The range of each dataset: a later reference overwrites an earlier one. *)
ExtractIntervals(q) ==
    LET tables == Discover(q)
        last(d) == CHOOSE i \in DOMAIN tables :
                     tables[i].name = d /\ \A j \in DOMAIN tables : tables[j].name = d => j <= i
    IN  [d \in {tables[i].name : i \in DOMAIN tables} |->
            IF WhereClause(q) = NoExpr THEN Universe
            ELSE AnalyzeForTable(WhereClause(q), EffectiveName(tables[last(d)]), TimeColumn[d])]

(* rewrite_query: every table of that name, wherever it stands. *)
RECURSIVE RewriteQuery(_, _), RewriteExpr(_, _)
RewriteExpr(e, ranges) ==
    CASE e.op = "exists" -> [e EXCEPT !.q = RewriteQuery(e.q, ranges)]
      [] e.op \in {"and", "or"} -> [e EXCEPT !.l = RewriteExpr(e.l, ranges),
                                             !.r = RewriteExpr(e.r, ranges)]
      [] e.op \in {"not", "nested"} -> [e EXCEPT !.e = RewriteExpr(e.e, ranges)]
      [] OTHER -> e
RewriteQuery(q, ranges) ==
    LET RECURSIVE body(_), factor(_)
        factors(s) == [i \in DOMAIN s |-> [factor(s[i]) EXCEPT !.on = RewriteExpr(@, ranges)]]
        factor(f) ==
            CASE f.kind = "table" ->
                   IF f.name \notin DOMAIN ranges THEN f
                   ELSE [kind |-> "macro", name |-> f.name, alias |-> f.alias, on |-> f.on,
                         args |-> FormatDateArgs(ranges[f.name])]
              [] f.kind = "derived" -> [f EXCEPT !.q = RewriteQuery(f.q, ranges)]
              [] f.kind = "nested" -> [f EXCEPT !.from = factors(f.from)]
        body(b) ==
            CASE b.kind = "select" ->
                   [b EXCEPT !.from = factors(b.from), !.where = RewriteExpr(b.where, ranges),
                             !.items = [i \in DOMAIN b.items |-> RewriteExpr(b.items[i], ranges)]]
              [] b.kind = "query" -> [b EXCEPT !.q = RewriteQuery(b.q, ranges)]
              [] b.kind = "setop" -> [b EXCEPT !.l = body(b.l), !.r = body(b.r)]
    IN  [q EXCEPT !.with = [i \in DOMAIN q.with |->
                              [q.with[i] EXCEPT !.q = RewriteQuery(q.with[i].q, ranges)]],
                  !.body = body(q.body)]

Transform(q) == RewriteQuery(q, ExtractIntervals(q))

----------------------------------------------------------------------------
(* What statements mean.  A row of a SELECT is one of its first table, with*)
(* the values of its list; ctes: the rows of the common table expressions  *)
(* in sight.                                                               *)
(* The tables joined, without the parentheses around them. *)
RECURSIVE Joined(_)
Joined(from) == Flatten(LAMBDA f : IF f.kind = "nested" THEN Joined(f.from) ELSE <<f>>, from)
RECURSIVE JoinConditions(_)
JoinConditions(from) ==
    UNION {{from[i].on} \cup IF from[i].kind = "nested" THEN JoinConditions(from[i].from) ELSE {}
              : i \in DOMAIN from}

RECURSIVE RowsOf(_, _, _), Holds(_, _, _, _)
Holds(e, env, ctes, params) ==
    LET value(ref) == LET n == CHOOSE n \in DOMAIN env : ref[2] \in DOMAIN env[n] /\ ref[1] \in {"", n}
                      IN  env[n][ref[2]]
        holds(x) == Holds(x, env, ctes, params)
    IN  CASE e.op = "none" -> TRUE
          [] e.op = "and" -> holds(e.l) /\ holds(e.r)
          [] e.op = "or" -> holds(e.l) \/ holds(e.r)
          [] e.op = "not" -> ~holds(e.e)
          [] e.op \in {"nested", "case"} -> holds(e.e)
          [] e.op = "exists" -> RowsOf(e.q, ctes, params) # {}
          [] e.op \in {"cmp", "between"} -> ComparisonHolds(e, value(e.ref), params)
          [] e.op = "in" -> \E b \in e.bounds : value(e.ref) = InstantOf(b, params)
          [] e.op = "same" -> value(e.ref) = value(e.other)
RowsOf(q, ctes, params) ==
    LET RECURSIVE scope(_), body(_)
        scope(i) == IF i = 0 THEN ctes
                    ELSE LET before == scope(i - 1) IN
                         [n \in DOMAIN before \cup {q.with[i].name} |->
                             IF n = q.with[i].name THEN {r[1] : r \in RowsOf(q.with[i].q, before, params)}
                             ELSE before[n]]
        here == scope(Len(q.with))
        rows(f) ==
            CASE f.kind = "table" -> IF f.name \in DOMAIN here THEN here[f.name] ELSE Content[f.name]
              [] f.kind = "macro" ->
                   {r \in Content[f.name] : InScan(r[TimeColumn[f.name]], f.args, params)}
              [] f.kind = "derived" -> {r[1] : r \in RowsOf(f.q, here, params)}
        body(b) ==
            CASE b.kind = "query" -> RowsOf(b.q, here, params)
              [] b.kind = "setop" -> body(b.l) \cup body(b.r)
              [] b.kind = "select" ->
                   LET tables == Joined(b.from)
                       name(i) == IF tables[i].kind = "derived" THEN tables[i].alias
                                  ELSE EffectiveName(tables[i])
                       all == UNION {rows(tables[i]) : i \in DOMAIN tables}
                       envs == {v \in [{name(i) : i \in DOMAIN tables} -> all] :
                                  \A i \in DOMAIN tables : v[name(i)] \in rows(tables[i])}
                       holds(v, e) == Holds(e, v, here, params)
                   IN  {<<v[name(1)], [i \in DOMAIN b.items |-> holds(v, b.items[i])]>> :
                          v \in {w \in envs : \A e \in {b.where} \cup JoinConditions(b.from) :
                                                 holds(w, e)}}
    IN  body(q.body)

NoCtes == [n \in {} |-> {}]

----------------------------------------------------------------------------
RewriteInit ==
    /\ asked \in Statements
    /\ stage = IF asked.entry = "ldp" THEN "admit" ELSE "transform"
    /\ rewritten = asked.q /\ answered = {}

Admit ==
    /\ stage = "admit"
    /\ stage' = IF Admitted(asked.q) THEN "transform" ELSE "rejected"
    /\ UNCHANGED <<asked, rewritten, answered>>

TransformQuery ==
    /\ stage = "transform" /\ stage' = "execute"
    /\ rewritten' = Transform(asked.q)
    /\ UNCHANGED <<asked, answered>>

(* A dataset left in place, in a CASE, is no table of the database. *)
ExecuteRewritten ==
    /\ stage = "execute"
    /\ IF Discover(rewritten) # <<>>
       THEN stage' = "failed" /\ UNCHANGED answered
       ELSE stage' = "answered" /\ answered' = RowsOf(rewritten, NoCtes, asked.params)
    /\ UNCHANGED <<asked, rewritten>>

RewriteNext == Admit \/ TransformQuery \/ ExecuteRewritten

RewriteSpec == RewriteInit /\ [][RewriteNext]_rewriteVars

----------------------------------------------------------------------------
(* The rewritten query has exactly the rows of the original: whatever way  *)
(* AND, OR, parentheses, negation, reversed comparisons and the predicates *)
(* of other tables are put together, the date range given to the scan      *)
(* macro leaves out no row the WHERE clause lets pass ("To guarantee query *)
(* results are exactly the same before and after conversion").             *)
PrunedAnswersAreExact ==
    stage = "answered" => answered = RowsOf(asked.q, NoCtes, asked.params)

(* A query every one of whose scans gets a bound is never turned away for  *)
(* want of a time-range predicate: admission and the analysis, which read  *)
(* the statement each in their own way, agree (check_query_time_ranges).   *)
BoundedQueriesAreAdmitted ==
    stage = "rejected" =>
        \/ HasRecursiveCte(asked.q)
        \/ \E d \in DOMAIN ExtractIntervals(asked.q) : IsUniverse(ExtractIntervals(asked.q)[d])
=============================================================================
