----------------------------- MODULE DateRanges -----------------------------
(***************************************************************************)
(* The interval algebra with which a query's WHERE clause becomes the date *)
(* range of a scan (sql/interval.rs, and the conversions around it in      *)
(* sql/boolean_analyzer.rs, sql/types.rs and sql/transformer.rs).          *)
(*                                                                         *)
(* A date is a number of days; a bound is a date literal, a parameter of a *)
(* prepared statement, known by its place only, or absent.                 *)
(***************************************************************************)
EXTENDS Integers

CONSTANTS
    FirstDay,       \* WIDE_SCAN_START, 1970-01-01
    LastDay,        \* WIDE_SCAN_END, 9999-12-31
    InstantsPerDay  \* 1 for a DATE time column, more for a TIMESTAMP

ASSUME DaysInOrder == FirstDay \in Int /\ LastDay \in Int /\ FirstDay < LastDay
ASSUME DaysHaveInstants == InstantsPerDay \in Nat \ {0}

Literal(d) == [kind |-> "lit", at |-> d]
Parameter(p) == [kind |-> "par", at |-> p]
NoBound == [kind |-> "none", at |-> 0]
Bounds == [kind : {"lit", "par"}, at : Int] \cup {NoBound}

(* Ord for DateBound: literals by date, before all parameters. *)
BoundLeq(a, b) ==
    \/ a.kind = "lit" /\ b.kind = "par"
    \/ a.kind = b.kind /\ a.at <= b.at
LaterBound(a, b) == IF BoundLeq(a, b) THEN b ELSE a
EarlierBound(a, b) == IF BoundLeq(a, b) THEN a ELSE b

(* A half-open interval. *)
FromBounds(s, e) == [start |-> s, end |-> e]
Intervals == [start : Bounds, end : Bounds]
EmptyInterval == FromBounds(Literal(LastDay), Literal(FirstDay))
Universe == FromBounds(NoBound, NoBound)

IsEmpty(i) == i.start.kind = "lit" /\ i.end.kind = "lit" /\ i.start.at >= i.end.at
IsUniverse(i) == i.start = NoBound /\ i.end = NoBound

(* The day after a literal; nothing can be added to a parameter. *)
AddOneDay(b) == IF b.kind = "lit" THEN Literal(b.at + 1) ELSE b

(* [date, date + 1) *)
Point(b) == FromBounds(b, AddOneDay(b))

(* For AND. *)
IntervalIntersect(i, j) ==
    IF IsEmpty(i) \/ IsEmpty(j) THEN EmptyInterval
    ELSE FromBounds(
        IF i.start = NoBound THEN j.start ELSE IF j.start = NoBound THEN i.start
        ELSE LaterBound(i.start, j.start),
        IF i.end = NoBound THEN j.end ELSE IF j.end = NoBound THEN i.end
        ELSE EarlierBound(i.end, j.end))

(* Mutant: a side without a bound is ignored, as in an intersection. *)
UnionOfTheBounded(i, j) ==
    FromBounds(
        IF i.start = NoBound THEN j.start ELSE IF j.start = NoBound THEN i.start
        ELSE EarlierBound(i.start, j.start),
        IF i.end = NoBound THEN j.end ELSE IF j.end = NoBound THEN i.end
        ELSE LaterBound(i.end, j.end))

(* For OR: the smallest interval around both. *)
IntervalUnion(i, j) ==
    IF IsEmpty(i) THEN j
    ELSE IF IsEmpty(j) THEN i
    ELSE IF IsUniverse(i) \/ IsUniverse(j) THEN Universe
    ELSE FromBounds(
        IF NoBound \in {i.start, j.start} THEN NoBound ELSE EarlierBound(i.start, j.start),
        IF NoBound \in {i.end, j.end} THEN NoBound ELSE LaterBound(i.end, j.end))

(* format_date_args of DateRange::from(interval), whose end is exclusive:  *)
(* the arguments of the scan macro.                                        *)
FormatDateArgs(i) ==
    [start |-> IF i.start = NoBound THEN Literal(FirstDay) ELSE i.start,
     end |-> IF i.end = NoBound THEN Literal(LastDay) ELSE i.end]

(* What a bound is when the parameters have values, and the days of an     *)
(* interval then.                                                          *)
BoundValue(b, params) == IF b.kind = "par" THEN params[b.at] ELSE b.at
InInterval(d, i, params) ==
    /\ i.start = NoBound \/ BoundValue(i.start, params) <= d
    /\ i.end = NoBound \/ d < BoundValue(i.end, params)

(* The rows the scan macro lets through, by the instant of their time      *)
(* column: the body of scan_<dataset>(start_date, end_date).               *)
DayOf(instant) == instant \div InstantsPerDay
InScan(instant, args, params) ==
    /\ BoundValue(args.start, params) <= DayOf(instant)
    /\ DayOf(instant) < BoundValue(args.end, params)

----------------------------------------------------------------------------
(* The analysis of one node of a WHERE clause: a comparison with the       *)
(* column on the left (reversed ones are turned round), BETWEEN, AND, OR   *)
(* and parentheses, all else allowing every date.  analyze is the analysis *)
(* of the nodes below.                                                     *)
IsTimeColumnRef(ref, name, col) == ref[2] = col /\ ref[1] \in {"", name}

(* A literal in the form of a date and a placeholder can be extracted. *)
Extractable(b) == b.kind \in {"lit", "par"}

OfComparison(rel, b) ==
    CASE rel = ">=" -> FromBounds(b, NoBound)
      [] rel = ">" -> FromBounds(AddOneDay(b), NoBound)
      [] rel = "<" -> FromBounds(NoBound, b)
      [] rel = "<=" -> FromBounds(NoBound, AddOneDay(b))
      [] rel = "=" -> Point(b)
      [] OTHER -> Universe
Reversed(rel) == CASE rel = "<=" -> ">=" [] rel = "<" -> ">" [] rel = ">" -> "<"
                   [] rel = ">=" -> "<=" [] OTHER -> rel
ColumnOnTheLeft(e) == IF e.rev THEN Reversed(e.rel) ELSE e.rel

(* One node of the analysis of a WHERE clause, l, r and inner being the    *)
(* ranges of the nodes below it that it has.                               *)
AnalyzeExpr(e, l, r, inner, name, col) ==
    CASE e.op = "and" -> IntervalIntersect(l, r)
      [] e.op = "or" -> IntervalUnion(l, r)
      [] e.op = "nested" -> inner
      [] e.op = "between" ->
           IF IsTimeColumnRef(e.ref, name, col) /\ Extractable(e.lo) /\ Extractable(e.hi)
           THEN FromBounds(e.lo, AddOneDay(e.hi)) ELSE Universe
      [] e.op = "cmp" ->
           IF IsTimeColumnRef(e.ref, name, col) /\ Extractable(e.bound)
           THEN OfComparison(ColumnOnTheLeft(e), e.bound) ELSE Universe
      [] OTHER -> Universe

(* One node of the search for a time predicate, l, r and inner being what  *)
(* it finds in the nodes below: a reference anywhere in a comparison       *)
(* counts, whatever it compares with.                                      *)
ReferencesIn(e, l, r, inner, col, qualifiers) ==
    LET matches(ref) == ref[2] = col /\ ref[1] \in qualifiers \cup {""} IN
    CASE e.op \in {"cmp", "between", "in"} -> matches(e.ref)
      [] e.op = "same" -> matches(e.ref) \/ matches(e.other)
      [] e.op \in {"and", "or"} -> l \/ r
      [] e.op = "nested" -> inner
      [] OTHER -> FALSE

(* Whether a comparison holds when the column has value v. *)
InstantOf(b, params) == InstantsPerDay * BoundValue(b, params)
Compare(rel, a, b) == CASE rel = "<" -> a < b [] rel = "<=" -> a <= b [] rel = ">" -> a > b
                        [] rel = ">=" -> a >= b [] rel = "=" -> a = b [] rel = "<>" -> a # b
ComparisonHolds(e, v, params) ==
    CASE e.op = "between" -> InstantOf(e.lo, params) <= v /\ v <= InstantOf(e.hi, params)
      [] e.op = "cmp" -> IF e.rev THEN Compare(e.rel, InstantOf(e.bound, params), v)
                         ELSE Compare(e.rel, v, InstantOf(e.bound, params))
=============================================================================
