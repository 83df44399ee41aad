--------------------------- MODULE Queries_proofs ---------------------------
(***************************************************************************)
(* Parts of the way of a query and of a load's data that must not lose any *)
(* of it: the analysis that turns a WHERE clause into the dates of a scan, *)
(* the metadata that says which epochs a time range has, the stream of a   *)
(* query's result and the stream of a load's source.                       *)
(***************************************************************************)
EXTENDS DateRanges, PlacementMetadata, QueryStream, SourceStream, FiniteSetTheorems,
        WellFoundedInduction, TLAPS

----------------------------------------------------------------------------
(***************************************************************************)
(* The interval algebra never loses a day, for all dates and all values of *)
(* the parameters.                                                         *)
(***************************************************************************)
(* Intervals with no parameter in them. *)
Fixed(i) == i.start.kind # "par" /\ i.end.kind # "par"

(* Of two bounds the later is one of them, and so is the earlier. *)
LEMMA LaterIsOne ==
    ASSUME NEW a \in Bounds, NEW b \in Bounds
    PROVE  LaterBound(a, b) \in {a, b} /\ EarlierBound(a, b) \in {a, b}
BY DEF LaterBound, EarlierBound

(* AND keeps every day that both sides allow, parameters included: a bound *)
(* of the intersection is a bound of one side (Interval::intersect).       *)
THEOREM IntersectionKeeps ==
    ASSUME NEW i \in Intervals, NEW j \in Intervals, NEW params \in [Int -> Int], NEW d \in Int,
           InInterval(d, i, params), InInterval(d, j, params)
    PROVE  InInterval(d, IntervalIntersect(i, j), params)
<1>1. ~IsEmpty(i) /\ ~IsEmpty(j)
  BY DEF IsEmpty, InInterval, BoundValue, Intervals, Bounds, NoBound
<1> DEFINE r == IntervalIntersect(i, j)
<1>2. r.start \in {i.start, j.start}
  <2>1. i.start \in Bounds /\ j.start \in Bounds
    BY DEF Intervals
  <2>. QED BY <1>1, <2>1, LaterIsOne DEF IntervalIntersect, FromBounds
<1>3. r.end \in {i.end, j.end}
  <2>1. i.end \in Bounds /\ j.end \in Bounds
    BY DEF Intervals
  <2>. QED BY <1>1, <2>1, LaterIsOne DEF IntervalIntersect, FromBounds
<1> HIDE DEF r
<1>. QED BY <1>2, <1>3 DEF InInterval, r

(* OR keeps every day that either side allows, as long as no parameter is  *)
(* involved (Interval::union).                                             *)
THEOREM UnionCovers ==
    ASSUME NEW i \in Intervals, NEW j \in Intervals, NEW params \in [Int -> Int], NEW d \in Int,
           Fixed(i), Fixed(j), InInterval(d, i, params) \/ InInterval(d, j, params)
    PROVE  InInterval(d, IntervalUnion(i, j), params)
<1>1. CASE IsEmpty(i)
  <2>1. ~InInterval(d, i, params)
    BY <1>1 DEF IsEmpty, InInterval, BoundValue, Intervals, Bounds, NoBound
  <2>. QED BY <1>1, <2>1 DEF IntervalUnion
<1>2. CASE ~IsEmpty(i) /\ IsEmpty(j)
  <2>1. ~InInterval(d, j, params)
    BY <1>2 DEF IsEmpty, InInterval, BoundValue, Intervals, Bounds, NoBound
  <2>. QED BY <1>2, <2>1 DEF IntervalUnion
<1>3. CASE ~IsEmpty(i) /\ ~IsEmpty(j) /\ (IsUniverse(i) \/ IsUniverse(j))
  BY <1>3 DEF IntervalUnion, InInterval, Universe, FromBounds
<1>4. CASE ~IsEmpty(i) /\ ~IsEmpty(j) /\ ~IsUniverse(i) /\ ~IsUniverse(j)
  <2> DEFINE r == IntervalUnion(i, j)
  <2>1. r = FromBounds(
            IF NoBound \in {i.start, j.start} THEN NoBound ELSE EarlierBound(i.start, j.start),
            IF NoBound \in {i.end, j.end} THEN NoBound ELSE LaterBound(i.end, j.end))
    BY <1>4 DEF IntervalUnion
  <2>2. /\ i.start \in Bounds /\ j.start \in Bounds /\ i.end \in Bounds /\ j.end \in Bounds
        /\ i.start.kind # "par" /\ j.start.kind # "par" /\ i.end.kind # "par" /\ j.end.kind # "par"
    BY DEF Intervals, Fixed
  <2>3. r.start = NoBound \/ BoundValue(r.start, params) <= d
    BY <2>1, <2>2 DEF FromBounds, InInterval, BoundValue, EarlierBound, BoundLeq, Bounds, NoBound
  <2>4. r.end = NoBound \/ d < BoundValue(r.end, params)
    BY <2>1, <2>2 DEF FromBounds, InInterval, BoundValue, LaterBound, BoundLeq, Bounds, NoBound
  <2> HIDE DEF r
  <2>5. InInterval(d, r, params)
    BY <2>3, <2>4 DEF InInterval
  <2>. QED BY <2>5 DEF r
<1>. QED BY <1>1, <1>2, <1>3, <1>4

(* A day on which a comparison with the next day as its exclusive end      *)
(* holds is inside: <= and = of a literal lose nothing (Interval::point,   *)
(* add_one_day).                                                           *)
THEOREM PointHoldsItsDay ==
    ASSUME NEW d \in Int, NEW params \in [Int -> Int]
    PROVE  /\ InInterval(d, Point(Literal(d)), params)
           /\ \A e \in Int : InInterval(e, Point(Literal(d)), params) => e = d
BY DEF InInterval, Point, FromBounds, AddOneDay, Literal, BoundValue, NoBound

----------------------------------------------------------------------------
(***************************************************************************)
(* The pruning of scans, for WHERE clauses of any size and shape.          *)
(*                                                                         *)
(* A WHERE clause is a syntax tree: a member of any set of expressions     *)
(* with the ones below each of its nodes, height being a measure that goes *)
(* down.  What the recursion over it computes is given by its equations: A *)
(* is the analysis for one table (analyze_for_table), H the truth of every *)
(* expression for one row, whose time column has the instant v.  Nothing   *)
(* is said of the truth of the expressions that the analysis does not look *)
(* into: negations, subqueries, the columns of other tables.               *)
(***************************************************************************)
Below(e) ==
    CASE e.op \in {"and", "or"} -> {e.l, e.r} [] e.op = "nested" -> {e.e} [] OTHER -> {}

SyntaxTrees(Exprs, height) ==
    /\ height \in [Exprs -> Nat]
    /\ \A e \in Exprs : \A x \in Below(e) : x \in Exprs /\ height[x] < height[e]

Relations == {"<", "<=", ">", ">=", "=", "<>"}
WellFormed(Exprs) ==
    \A e \in Exprs :
        /\ e.op = "cmp" => /\ e.rel \in Relations /\ e.rev \in BOOLEAN
                           /\ Extractable(e.bound) => e.bound \in Bounds
        /\ e.op = "between" => /\ Extractable(e.lo) => e.lo \in Bounds
                               /\ Extractable(e.hi) => e.hi \in Bounds

IsAnalysis(A, Exprs, name, col) ==
    \A e \in Exprs : A[e] = AnalyzeExpr(e, A[e.l], A[e.r], A[e.e], name, col)

IsMeaning(H, Exprs, name, col, v, params) ==
    \A e \in Exprs :
        /\ e.op = "and" => (H[e] <=> H[e.l] /\ H[e.r])
        /\ e.op = "or" => (H[e] <=> H[e.l] \/ H[e.r])
        /\ e.op = "nested" => (H[e] <=> H[e.e])
        /\ e.op \in {"cmp", "between"} /\ IsTimeColumnRef(e.ref, name, col)
              => (H[e] <=> ComparisonHolds(e, v, params))

(* What the analysis is made for.  The day after a parameter is unknown,   *)
(* so none may be an inclusive upper bound; parameters cannot be compared, *)
(* so none may be left on either side of an OR; and the rows of a date     *)
(* that are later than its first instant are cut off by a > unless dates   *)
(* have one instant.                                                       *)
WithinReach(A, Exprs, name, col) ==
    \A e \in Exprs :
        /\ e.op = "or" => Fixed(A[e.l]) /\ Fixed(A[e.r])
        /\ e.op = "between" /\ IsTimeColumnRef(e.ref, name, col) => e.hi.kind # "par"
        /\ e.op = "cmp" /\ IsTimeColumnRef(e.ref, name, col) =>
              /\ ColumnOnTheLeft(e) \in {"<=", "="} => e.bound.kind # "par"
              /\ ColumnOnTheLeft(e) = ">" => e.bound.kind = "par" \/ InstantsPerDay = 1

(* A set of natural numbers that is not empty has a least one. *)
LEMMA SmallestOf ==
    ASSUME NEW S \in SUBSET Nat, S # {}
    PROVE  \E n \in S : \A m \in S : n <= m
<1> DEFINE R == OpToRel(<, Nat)
<1>1. IsWellFoundedOn(R, Nat)
  BY NatLessThanWellFounded
<1>2. \A m, n \in Nat : m < n => <<m, n>> \in R
  BY DEF OpToRel
<1> HIDE DEF R
<1>3. PICK n \in S : \A m \in S : ~(<<m, n>> \in R)
  BY <1>1, WFMin
<1>4. ASSUME NEW m \in S PROVE n <= m
  <2>1. ~(m < n)
    BY <1>2, <1>3
  <2>. QED BY <2>1
<1>. QED BY <1>4

(* A set of expressions that is not empty has one of least height. *)
LEMMA LeastHeight ==
    ASSUME NEW Exprs, NEW height \in [Exprs -> Nat], NEW S \in SUBSET Exprs, S # {}
    PROVE  \E e \in S : \A x \in S : height[e] <= height[x]
<1> DEFINE hs == {height[e] : e \in S}
<1>1. hs \in SUBSET Nat /\ hs # {}
  OBVIOUS
<1> HIDE DEF hs
<1>2. PICK n \in hs : \A m \in hs : n <= m
  BY <1>1, SmallestOf
<1>. QED BY <1>2 DEF hs

(* A product with the number of instants grows with its other factor. *)
LEMMA TimesGrows ==
    ASSUME NEW a \in Int, NEW b \in Int, InstantsPerDay * a < InstantsPerDay * b
    PROVE  a < b
<1> SUFFICES ASSUME b <= a PROVE InstantsPerDay * b <= InstantsPerDay * a
  BY DaysHaveInstants
<1> DEFINE k == a - b
<1>1. k \in Nat /\ a = b + k
  OBVIOUS
<1> HIDE DEF k
<1>2. InstantsPerDay * k \in Nat /\ InstantsPerDay * b \in Int
  BY <1>1, DaysHaveInstants
<1>3. InstantsPerDay * a = InstantsPerDay * b + InstantsPerDay * k
  BY <1>1, DaysHaveInstants
<1>. QED BY <1>2, <1>3

(* How an instant compared with the first one of a date is related to the  *)
(* date it is on (the CAST to DATE of the scan macro).                     *)
LEMMA DayOfInstant ==
    ASSUME NEW v \in Int, NEW b \in Int
    PROVE  /\ DayOf(v) \in Int
           /\ InstantsPerDay * b <= v => b <= DayOf(v)
           /\ v < InstantsPerDay * b => DayOf(v) < b
           /\ v <= InstantsPerDay * b => DayOf(v) < b + 1
           /\ InstantsPerDay * b < v /\ InstantsPerDay = 1 => b + 1 <= DayOf(v)
<1> DEFINE n == InstantsPerDay
           d == DayOf(v)
<1>1. d \in Int /\ n * d <= v /\ v < n * (d + 1)
  BY DaysHaveInstants DEF DayOf
<1>2. n \in Nat \ {0}
  BY DaysHaveInstants
<1>3. n * d \in Int /\ n * (d + 1) \in Int /\ n * b \in Int /\ n * (b + 1) \in Int
  BY <1>1, <1>2
<1>4. n * (b + 1) = n * b + n
  BY <1>2
<1>5. ASSUME n * b <= v PROVE b <= d
  <2>1. n * b < n * (d + 1)
    BY <1>1, <1>3, <1>5
  <2>2. b < d + 1
    BY <1>1, <2>1, TimesGrows
  <2>. QED BY <1>1, <2>2
<1>6. ASSUME v < n * b PROVE d < b
  <2>1. n * d < n * b
    BY <1>1, <1>3, <1>6
  <2>. QED BY <1>1, <2>1, TimesGrows
<1>7. ASSUME v <= n * b PROVE d < b + 1
  <2>1. n * d < n * (b + 1)
    BY <1>1, <1>2, <1>3, <1>4, <1>7
  <2>. QED BY <1>1, <2>1, TimesGrows
<1>8. ASSUME n * b < v, n = 1 PROVE b + 1 <= d
  BY <1>1, <1>8
<1>. QED BY <1>1, <1>5, <1>6, <1>7, <1>8

(* A comparison with the bound on either side, when it holds, holds with   *)
(* the column on the left (the reversed comparisons).                      *)
LEMMA TurnedRound ==
    ASSUME NEW e, e.op = "cmp", e.rel \in Relations, e.rev \in BOOLEAN, NEW v \in Int,
           NEW params, InstantOf(e.bound, params) \in Int, ComparisonHolds(e, v, params)
    PROVE  Compare(ColumnOnTheLeft(e), v, InstantOf(e.bound, params))
<1> DEFINE a == InstantOf(e.bound, params)
<1>1. IF e.rev THEN Compare(e.rel, a, v) ELSE Compare(e.rel, v, a)
  BY DEF ComparisonHolds
<1> HIDE DEF a
<1>2. a \in Int
  BY DEF a
<1>3. CASE ~e.rev
  BY <1>1, <1>3 DEF ColumnOnTheLeft, a
<1>4. CASE e.rev
  <2>1. Compare(e.rel, a, v)
    BY <1>1, <1>4
  <2>2. Compare(Reversed(e.rel), v, a)
    BY <1>2, <2>1 DEF Compare, Reversed, Relations
  <2>. QED BY <1>4, <2>2 DEF ColumnOnTheLeft, a
<1>. QED BY <1>3, <1>4

(* The range of a comparison has the date of every row for which it holds. *)
LEMMA ComparisonInRange ==
    ASSUME NEW rel \in Relations, NEW b \in Bounds, Extractable(b),
           NEW v \in Int, NEW params \in [Int -> Int],
           rel \in {"<=", "="} => b.kind # "par",
           rel = ">" => b.kind = "par" \/ InstantsPerDay = 1
    PROVE  /\ OfComparison(rel, b) \in Intervals
           /\ Compare(rel, v, InstantOf(b, params))
                => InInterval(DayOf(v), OfComparison(rel, b), params)
<1> DEFINE x == BoundValue(b, params)
           d == DayOf(v)
<1>1. b \in [kind : {"lit", "par"}, at : Int] /\ b # NoBound
  BY DEF Extractable, Bounds, NoBound
<1>2. x \in Int
  BY <1>1 DEF BoundValue
<1>3. /\ AddOneDay(b) \in Bounds /\ AddOneDay(b) # NoBound
      /\ BoundValue(AddOneDay(b), params) = IF b.kind = "lit" THEN x + 1 ELSE x
  BY <1>1 DEF AddOneDay, Literal, Bounds, NoBound, BoundValue
<1>4. OfComparison(rel, b) \in Intervals
  BY <1>3 DEF OfComparison, FromBounds, Universe, Point, Intervals, Bounds
<1>5. /\ d \in Int
      /\ InstantsPerDay * x <= v => x <= d
      /\ v < InstantsPerDay * x => d < x
      /\ v <= InstantsPerDay * x => d < x + 1
      /\ InstantsPerDay * x < v /\ InstantsPerDay = 1 => x + 1 <= d
  BY <1>2, DayOfInstant
<1> DEFINE p == InstantsPerDay * x
<1>6. p \in Int /\ p = InstantOf(b, params)
  BY <1>2, DaysHaveInstants DEF InstantOf
<1>7. ASSUME Compare(rel, v, p) PROVE InInterval(d, OfComparison(rel, b), params)
  <2> HIDE DEF p, d, x
  <2> USE DEF InInterval, FromBounds
  <2>1. CASE rel = ">="
    <3>1. x <= d
      BY <1>5, <1>6, <1>7, <2>1 DEF Compare, p
    <3>2. OfComparison(rel, b) = FromBounds(b, NoBound)
      BY <2>1 DEF OfComparison
    <3>. QED BY <3>1, <3>2 DEF x
  <2>2. CASE rel = ">"
    <3>1. p < v
      BY <1>6, <1>7, <2>2 DEF Compare
    <3>2. BoundValue(AddOneDay(b), params) <= d
      <4>1. CASE b.kind = "par"
        BY <1>2, <1>3, <1>5, <1>6, <3>1, <4>1 DEF p
      <4>2. CASE b.kind # "par"
        BY <1>1, <1>2, <1>3, <1>5, <2>2, <3>1, <4>2 DEF p
      <4>. QED BY <4>1, <4>2
    <3>3. OfComparison(rel, b) = FromBounds(AddOneDay(b), NoBound)
      BY <2>2 DEF OfComparison
    <3>. QED BY <3>2, <3>3
  <2>3. CASE rel = "<"
    <3>1. d < x
      BY <1>5, <1>6, <1>7, <2>3 DEF Compare, p
    <3>2. OfComparison(rel, b) = FromBounds(NoBound, b)
      BY <2>3 DEF OfComparison
    <3>. QED BY <3>1, <3>2 DEF x
  <2>4. CASE rel = "<="
    <3>1. d < x + 1
      BY <1>5, <1>6, <1>7, <2>4 DEF Compare, p
    <3>2. d < BoundValue(AddOneDay(b), params)
      BY <1>1, <1>3, <2>4, <3>1
    <3>3. OfComparison(rel, b) = FromBounds(NoBound, AddOneDay(b))
      BY <2>4 DEF OfComparison
    <3>. QED BY <3>2, <3>3
  <2>5. CASE rel = "="
    <3>1. x <= d /\ d < x + 1
      BY <1>5, <1>6, <1>7, <2>5 DEF Compare, p
    <3>2. d < BoundValue(AddOneDay(b), params)
      BY <1>1, <1>3, <2>5, <3>1
    <3>3. OfComparison(rel, b) = FromBounds(b, AddOneDay(b))
      BY <2>5 DEF OfComparison, Point
    <3>. QED BY <3>1, <3>2, <3>3 DEF x
  <2>6. CASE rel = "<>"
    BY <2>6 DEF OfComparison, Universe
  <2>. QED BY <2>1, <2>2, <2>3, <2>4, <2>5, <2>6 DEF Relations
<1>. QED BY <1>4, <1>6, <1>7

(* The same of a BETWEEN whose upper bound is a literal. *)
LEMMA BetweenInRange ==
    ASSUME NEW lo \in Bounds, NEW hi \in Bounds, Extractable(lo), Extractable(hi),
           hi.kind # "par", NEW v \in Int, NEW params \in [Int -> Int]
    PROVE  /\ FromBounds(lo, AddOneDay(hi)) \in Intervals
           /\ InstantOf(lo, params) <= v /\ v <= InstantOf(hi, params)
                => InInterval(DayOf(v), FromBounds(lo, AddOneDay(hi)), params)
<1>1. /\ FromBounds(lo, NoBound) \in Intervals
      /\ InstantOf(lo, params) <= v => InInterval(DayOf(v), FromBounds(lo, NoBound), params)
  <2>1. OfComparison(">=", lo) = FromBounds(lo, NoBound)
    BY DEF OfComparison
  <2>2. Compare(">=", v, InstantOf(lo, params)) <=> v >= InstantOf(lo, params)
    BY DEF Compare
  <2>3. v >= InstantOf(lo, params) <=> InstantOf(lo, params) <= v
    OBVIOUS
  <2>. QED BY <2>1, <2>2, <2>3, ComparisonInRange DEF Relations
<1>2. /\ FromBounds(NoBound, AddOneDay(hi)) \in Intervals
      /\ v <= InstantOf(hi, params) => InInterval(DayOf(v), FromBounds(NoBound, AddOneDay(hi)), params)
  <2>1. OfComparison("<=", hi) = FromBounds(NoBound, AddOneDay(hi))
    BY DEF OfComparison
  <2>2. Compare("<=", v, InstantOf(hi, params)) <=> v <= InstantOf(hi, params)
    BY DEF Compare
  <2>. QED BY <2>1, <2>2, ComparisonInRange DEF Relations
<1>. QED BY <1>1, <1>2 DEF InInterval, FromBounds, Intervals

(* AND and OR of intervals are intervals. *)
LEMMA AlgebraIsClosed ==
    ASSUME NEW i \in Intervals, NEW j \in Intervals
    PROVE  IntervalIntersect(i, j) \in Intervals /\ IntervalUnion(i, j) \in Intervals
<1>1. i.start \in Bounds /\ i.end \in Bounds /\ j.start \in Bounds /\ j.end \in Bounds
  BY DEF Intervals
<1>2. NoBound \in Bounds /\ \A d \in Int : Literal(d) \in Bounds
  BY DEF Bounds, Literal
<1>3. \A a, b \in Bounds : LaterBound(a, b) \in Bounds /\ EarlierBound(a, b) \in Bounds
  BY DEF LaterBound, EarlierBound
<1>4. \A a, b \in Bounds : FromBounds(a, b) \in Intervals
  BY DEF FromBounds, Intervals
<1>5. EmptyInterval \in Intervals /\ Universe \in Intervals
  BY <1>2, <1>4, DaysInOrder DEF EmptyInterval, Universe
<1>. QED BY <1>1, <1>2, <1>3, <1>4, <1>5 DEF IntervalIntersect, IntervalUnion

(* One node: if the ranges below keep every row, so does its own. *)
LEMMA NodeKeepsRows ==
    ASSUME NEW Exprs, WellFormed(Exprs), NEW name, NEW col, NEW A, NEW H \in [Exprs -> BOOLEAN],
           NEW v \in Int, NEW params \in [Int -> Int],
           IsAnalysis(A, Exprs, name, col), IsMeaning(H, Exprs, name, col, v, params),
           WithinReach(A, Exprs, name, col), NEW e \in Exprs,
           \A x \in Below(e) : /\ x \in Exprs /\ A[x] \in Intervals
                               /\ H[x] => InInterval(DayOf(v), A[x], params)
    PROVE  A[e] \in Intervals /\ (H[e] => InInterval(DayOf(v), A[e], params))
<1>0. DayOf(v) \in Int
  BY DayOfInstant
<1>1. CASE e.op = "and"
  <2>1. e.l \in Below(e) /\ e.r \in Below(e)
    BY <1>1 DEF Below
  <2>2. A[e] = IntervalIntersect(A[e.l], A[e.r])
    BY <1>1 DEF IsAnalysis, AnalyzeExpr
  <2>3. H[e] <=> H[e.l] /\ H[e.r]
    BY <1>1 DEF IsMeaning
  <2>. QED BY <1>0, <2>1, <2>2, <2>3, AlgebraIsClosed, IntersectionKeeps
<1>2. CASE e.op = "or"
  <2>1. e.l \in Below(e) /\ e.r \in Below(e)
    BY <1>2 DEF Below
  <2>2. A[e] = IntervalUnion(A[e.l], A[e.r])
    BY <1>2 DEF IsAnalysis, AnalyzeExpr
  <2>3. H[e] <=> H[e.l] \/ H[e.r]
    BY <1>2 DEF IsMeaning
  <2>4. Fixed(A[e.l]) /\ Fixed(A[e.r])
    BY <1>2 DEF WithinReach
  <2>. QED BY <1>0, <2>1, <2>2, <2>3, <2>4, AlgebraIsClosed, UnionCovers
<1>3. CASE e.op = "nested"
  <2>1. e.e \in Below(e)
    BY <1>3 DEF Below
  <2>2. A[e] = A[e.e]
    BY <1>3 DEF IsAnalysis, AnalyzeExpr
  <2>3. H[e] <=> H[e.e]
    BY <1>3 DEF IsMeaning
  <2>. QED BY <2>1, <2>2, <2>3
<1>4. ASSUME A[e] = Universe PROVE A[e] \in Intervals /\ InInterval(DayOf(v), A[e], params)
  BY <1>4 DEF Universe, FromBounds, Intervals, Bounds, InInterval
<1>5. CASE e.op = "between"
  <2>1. CASE IsTimeColumnRef(e.ref, name, col) /\ Extractable(e.lo) /\ Extractable(e.hi)
    <3>1. A[e] = FromBounds(e.lo, AddOneDay(e.hi))
      BY <1>5, <2>1 DEF IsAnalysis, AnalyzeExpr
    <3>2. e.lo \in Bounds /\ e.hi \in Bounds /\ e.hi.kind # "par"
      BY <1>5, <2>1 DEF WellFormed, WithinReach
    <3>3. H[e] <=> InstantOf(e.lo, params) <= v /\ v <= InstantOf(e.hi, params)
      BY <1>5, <2>1 DEF IsMeaning, ComparisonHolds
    <3>. QED BY <2>1, <3>1, <3>2, <3>3, BetweenInRange
  <2>2. CASE ~(IsTimeColumnRef(e.ref, name, col) /\ Extractable(e.lo) /\ Extractable(e.hi))
    <3>1. A[e] = Universe
      BY <1>5, <2>2 DEF IsAnalysis, AnalyzeExpr
    <3>. QED BY <3>1, <1>4
  <2>. QED BY <2>1, <2>2
<1>6. CASE e.op = "cmp"
  <2>1. CASE IsTimeColumnRef(e.ref, name, col) /\ Extractable(e.bound)
    <3> DEFINE rel == ColumnOnTheLeft(e)
    <3>1. A[e] = OfComparison(rel, e.bound)
      BY <1>6, <2>1 DEF IsAnalysis, AnalyzeExpr
    <3>2. e.bound \in Bounds /\ e.rel \in Relations /\ e.rev \in BOOLEAN
      BY <1>6, <2>1 DEF WellFormed
    <3>3. rel \in Relations
      BY <3>2 DEF ColumnOnTheLeft, Reversed, Relations
    <3>4. /\ rel \in {"<=", "="} => e.bound.kind # "par"
          /\ rel = ">" => e.bound.kind = "par" \/ InstantsPerDay = 1
      BY <1>6, <2>1 DEF WithinReach
    <3>5. InstantOf(e.bound, params) \in Int
      <4>1. BoundValue(e.bound, params) \in Int
        BY <2>1, <3>2 DEF Extractable, Bounds, NoBound, BoundValue
      <4>. QED BY <4>1, DaysHaveInstants DEF InstantOf
    <3>6. H[e] <=> ComparisonHolds(e, v, params)
      BY <1>6, <2>1 DEF IsMeaning
    <3>7. H[e] => Compare(rel, v, InstantOf(e.bound, params))
      BY <1>6, <3>2, <3>5, <3>6, TurnedRound
    <3> HIDE DEF rel
    <3>. QED BY <2>1, <3>1, <3>2, <3>3, <3>4, <3>7, ComparisonInRange
  <2>2. CASE ~(IsTimeColumnRef(e.ref, name, col) /\ Extractable(e.bound))
    <3>1. A[e] = Universe
      BY <1>6, <2>2 DEF IsAnalysis, AnalyzeExpr
    <3>. QED BY <3>1, <1>4
  <2>. QED BY <2>1, <2>2
<1>7. CASE e.op \notin {"and", "or", "nested", "between", "cmp"}
  <2>1. A[e] = Universe
    BY <1>7 DEF IsAnalysis, AnalyzeExpr
  <2>. QED BY <2>1, <1>4
<1>. QED BY <1>1, <1>2, <1>3, <1>5, <1>6, <1>7

(* The range the analysis gives a WHERE clause, however AND, OR,           *)
(* parentheses and comparisons either way round are put together, has the  *)
(* date of every row for which the clause holds (analyze_for_table).       *)
THEOREM RangesKeepRows ==
    ASSUME NEW Exprs, NEW height, SyntaxTrees(Exprs, height), WellFormed(Exprs),
           NEW name, NEW col, NEW A, NEW H \in [Exprs -> BOOLEAN],
           NEW v \in Int, NEW params \in [Int -> Int],
           IsAnalysis(A, Exprs, name, col), IsMeaning(H, Exprs, name, col, v, params),
           WithinReach(A, Exprs, name, col)
    PROVE  \A e \in Exprs :
               A[e] \in Intervals /\ (H[e] => InInterval(DayOf(v), A[e], params))
<1> DEFINE kept(e) == A[e] \in Intervals /\ (H[e] => InInterval(DayOf(v), A[e], params))
           lost == {e \in Exprs : ~kept(e)}
<1>1. ASSUME lost # {} PROVE FALSE
  <2>1. height \in [Exprs -> Nat] /\ lost \in SUBSET Exprs
    BY DEF SyntaxTrees
  <2>2. PICK e \in lost : \A x \in lost : height[e] <= height[x]
    <3> HIDE DEF lost
    <3>. QED BY <1>1, <2>1, LeastHeight
  <2>3. e \in Exprs /\ ~kept(e)
    OBVIOUS
  <2>4. ASSUME NEW x \in Below(e) PROVE x \in Exprs /\ kept(x)
    <3>1. x \in Exprs /\ height[x] < height[e]
      BY <2>3 DEF SyntaxTrees
    <3>2. height[x] \in Nat /\ height[e] \in Nat
      BY <2>1, <2>3, <3>1
    <3>3. x \notin lost
      <4> HIDE DEF lost
      <4>. QED BY <2>2, <3>1, <3>2
    <3>. QED BY <3>1, <3>3
  <2>5. kept(e)
    BY <2>3, <2>4, NodeKeepsRows
  <2>. QED BY <2>3, <2>5
<1>. QED BY <1>1

(* Whatever the rows are, and whatever tables are joined into them, those  *)
(* that pass the WHERE clause are the same when the table is scanned with  *)
(* the dates of its range only, if they are between the widest dates       *)
(* (DateRange::from, format_date_args, the scan macro): "query results are *)
(* exactly the same before and after conversion".                          *)
THEOREM PrunedScansAreExact ==
    ASSUME NEW Exprs, NEW height, SyntaxTrees(Exprs, height), WellFormed(Exprs),
           NEW name, NEW col, NEW A, IsAnalysis(A, Exprs, name, col),
           WithinReach(A, Exprs, name, col), NEW params \in [Int -> Int],
           NEW Rows, NEW time \in [Rows -> Int], NEW holds \in [Rows -> [Exprs -> BOOLEAN]],
           \A r \in Rows : IsMeaning(holds[r], Exprs, name, col, time[r], params),
           \A r \in Rows : DayOf(time[r]) \in FirstDay .. (LastDay - 1),
           NEW where \in Exprs
    PROVE  {r \in Rows : InScan(time[r], FormatDateArgs(A[where]), params) /\ holds[r][where]}
             = {r \in Rows : holds[r][where]}
<1> SUFFICES ASSUME NEW r \in Rows, holds[r][where]
             PROVE  InScan(time[r], FormatDateArgs(A[where]), params)
  OBVIOUS
<1> DEFINE v == time[r]
           i == A[where]
<1>1. i \in Intervals /\ InInterval(DayOf(v), i, params)
  <2> DEFINE H == holds[r]
  <2>1. H \in [Exprs -> BOOLEAN] /\ IsMeaning(H, Exprs, name, col, v, params) /\ v \in Int
    OBVIOUS
  <2>2. H[where]
    OBVIOUS
  <2> HIDE DEF H, v
  <2>. QED BY <2>1, <2>2, RangesKeepRows
<1>2. DayOf(v) \in FirstDay .. (LastDay - 1)
  OBVIOUS
<1> HIDE DEF v, i
<1>3. i.start \in Bounds /\ i.end \in Bounds
  BY <1>1 DEF Intervals
<1>4. BoundValue(FormatDateArgs(i).start, params) <= DayOf(v)
  BY <1>1, <1>2, <1>3, DaysInOrder DEF FormatDateArgs, InInterval, BoundValue, Literal
<1>5. DayOf(v) < BoundValue(FormatDateArgs(i).end, params)
  BY <1>1, <1>2, <1>3, DaysInOrder DEF FormatDateArgs, InInterval, BoundValue, Literal
<1>. QED BY <1>4, <1>5 DEF InScan, i, v

(* Admission and the analysis agree on every WHERE clause: one from which  *)
(* a range is taken refers to the time column, for a table that goes by    *)
(* one of the names admission knows (expr_references_column).              *)
THEOREM RangesAreReferred ==
    ASSUME NEW Exprs, NEW height, SyntaxTrees(Exprs, height),
           NEW name, NEW col, NEW qualifiers, name \in qualifiers,
           NEW A, IsAnalysis(A, Exprs, name, col), NEW R \in [Exprs -> BOOLEAN],
           \A e \in Exprs : R[e] <=> ReferencesIn(e, R[e.l], R[e.r], R[e.e], col, qualifiers)
    PROVE  \A e \in Exprs : ~IsUniverse(A[e]) => R[e]
<1> DEFINE missed == {e \in Exprs : ~R[e] /\ A[e] # Universe}
<1>1. IntervalIntersect(Universe, Universe) = Universe /\ IntervalUnion(Universe, Universe) = Universe
  BY DEF IntervalIntersect, IntervalUnion, Universe, FromBounds, IsEmpty, IsUniverse, NoBound
<1>2. ASSUME missed # {} PROVE FALSE
  <2>1. height \in [Exprs -> Nat] /\ missed \in SUBSET Exprs
    BY DEF SyntaxTrees
  <2>2. PICK e \in missed : \A x \in missed : height[e] <= height[x]
    <3> HIDE DEF missed
    <3>. QED BY <1>2, <2>1, LeastHeight
  <2>3. e \in Exprs /\ ~R[e] /\ A[e] # Universe
    OBVIOUS
  <2>4. ASSUME NEW x \in Below(e), ~R[x] PROVE A[x] = Universe
    <3>1. x \in Exprs /\ height[x] < height[e]
      BY <2>3 DEF SyntaxTrees
    <3>2. height[x] \in Nat /\ height[e] \in Nat
      BY <2>1, <2>3, <3>1
    <3>3. x \notin missed
      <4> HIDE DEF missed
      <4>. QED BY <2>2, <3>1, <3>2
    <3>. QED BY <2>4, <3>1, <3>3
  <2>5. CASE e.op \in {"and", "or"}
    <3>1. ~R[e.l] /\ ~R[e.r]
      BY <2>3, <2>5 DEF ReferencesIn
    <3>2. A[e.l] = Universe /\ A[e.r] = Universe
      BY <2>4, <2>5, <3>1 DEF Below
    <3>3. A[e] = Universe
      BY <1>1, <2>3, <2>5, <3>2 DEF IsAnalysis, AnalyzeExpr
    <3>. QED BY <2>3, <3>3
  <2>6. CASE e.op = "nested"
    <3>1. ~R[e.e]
      BY <2>3, <2>6 DEF ReferencesIn
    <3>2. A[e.e] = Universe
      BY <2>4, <2>6, <3>1 DEF Below
    <3>3. A[e] = Universe
      BY <2>3, <2>6, <3>2 DEF IsAnalysis, AnalyzeExpr
    <3>. QED BY <2>3, <3>3
  <2>7. CASE e.op \in {"cmp", "between"}
    <3>1. ~IsTimeColumnRef(e.ref, name, col)
      <4>1. ReferencesIn(e, R[e.l], R[e.r], R[e.e], col, qualifiers)
              <=> e.ref[2] = col /\ e.ref[1] \in qualifiers \cup {""}
        BY <2>7 DEF ReferencesIn
      <4>2. ~(e.ref[2] = col /\ e.ref[1] \in qualifiers \cup {""})
        BY <2>3, <4>1, Zenon
      <4>. QED BY <4>2 DEF IsTimeColumnRef
    <3>2. A[e] = Universe
      BY <2>3, <2>7, <3>1 DEF IsAnalysis, AnalyzeExpr
    <3>. QED BY <2>3, <3>2
  <2>8. CASE e.op \notin {"and", "or", "nested", "cmp", "between"}
    <3>1. A[e] = Universe
      BY <2>3, <2>8 DEF IsAnalysis, AnalyzeExpr
    <3>. QED BY <2>3, <3>1
  <2>. QED BY <2>5, <2>6, <2>7, <2>8
<1>3. IsUniverse(Universe)
  BY DEF IsUniverse, Universe, FromBounds
<1>. QED BY <1>2, <1>3

----------------------------------------------------------------------------
(***************************************************************************)
(* StableEpochsAreFound for any number of epochs and of refreshes.         *)
(*                                                                         *)
(* A refresh that is under way has in its snapshot every epoch that stayed *)
(* (SnapshotInv), so what it publishes has each of them at one place of    *)
(* its dataset's list, with its own time range or the widest (PlacedOnce). *)
(***************************************************************************)
Calls == [at : {"no", "list", "stats", "over"}, snap : SUBSET AllEpochs, toList : SUBSET Datasets,
          views : SUBSET AllEpochs, toStat : SUBSET AllEpochs, stayed : SUBSET AllEpochs]

PlacedOnce(index, k) ==
    LET list == index[DatasetOf(k)] IN
    \E i \in DOMAIN list :
        /\ list[i].epoch = k /\ list[i].range \in {TimeRange[k], <<0, MaxTime>>}
        /\ \A j \in DOMAIN list : list[j].epoch = k => j = i

SnapshotInv ==
    /\ held \in SUBSET AllEpochs
    /\ refresh \in [Refreshes -> Calls]
    /\ \A r \in Refreshes : refresh[r].stayed \subseteq refresh[r].snap
    /\ published.stayed \in SUBSET AllEpochs
    /\ \A k \in published.stayed : PlacedOnce(published.index, k)

(* The record of a refresh at rest, and of one that is over, has its type. *)
LEMMA NoRefreshIsCall == NoRefresh \in Calls /\ [NoRefresh EXCEPT !.at = "over"] \in Calls
BY DEF NoRefresh, Calls

(* SnapshotInv holds at the start. *)
LEMMA SnapshotStart == MetadataInit => SnapshotInv
<1> SUFFICES ASSUME MetadataInit PROVE SnapshotInv
  OBVIOUS
<1>1. held \in SUBSET AllEpochs /\ refresh \in [Refreshes -> Calls]
  BY NoRefreshIsCall DEF MetadataInit
<1>2. \A r \in Refreshes : refresh[r].stayed \subseteq refresh[r].snap
  BY DEF MetadataInit, NoRefresh
<1>3. published.stayed = {}
  BY DEF MetadataInit, NothingKnown
<1>. QED BY <1>1, <1>2, <1>3 DEF SnapshotInv

(* Whatever order the sort leaves, an epoch of the snapshot is at one      *)
(* place of its dataset's list (register_epoch, sort_epochs_by_time).      *)
LEMMA RegisteredOnce ==
    ASSUME NEW ks \in SUBSET AllEpochs, NEW views \in SUBSET AllEpochs,
           NEW index \in RegisterEpochs(ks, views), NEW k \in ks
    PROVE  PlacedOnce(index, k)
<1> DEFINE d == DatasetOf(k)
           ps == {Placement(e, RangeKnown(e, views)) : e \in {e \in ks : DatasetOf(e) = d}}
           list == index[d]
<1>1. d \in Datasets
  BY DEF Datasets
<1>2. list \in SortEpochsByTime(ps)
  BY <1>1 DEF RegisterEpochs
<1>3. list \in Bijection(1..Cardinality(ps), ps)
  BY <1>2 DEF SortEpochsByTime
<1> DEFINE p == Placement(k, RangeKnown(k, views))
<1>4. p \in ps
  OBVIOUS
<1>5. \A q \in ps : q.epoch = k => q = p
  BY DEF Placement
<1>6. p.epoch = k /\ p.range \in {TimeRange[k], <<0, MaxTime>>}
  BY DEF Placement, RangeKnown
<1> HIDE DEF p, ps, d
<1>7. PICK i \in 1..Cardinality(ps) : list[i] = p
  BY <1>3, <1>4 DEF Bijection, Surjection
<1>8. DOMAIN list = 1..Cardinality(ps) /\ \A j \in DOMAIN list : list[j] \in ps
  BY <1>3 DEF Bijection, Injection
<1>9. \A j \in DOMAIN list : list[j].epoch = k => j = i
  <2> SUFFICES ASSUME NEW j \in DOMAIN list, list[j].epoch = k PROVE j = i
    OBVIOUS
  <2>1. list[j] = list[i]
    BY <1>5, <1>7, <1>8
  <2>. QED BY <1>3, <1>7, <1>8, <2>1 DEF Bijection, Injection, IsInjective
<1>10. i \in DOMAIN list /\ list[i].epoch = k /\ list[i].range \in {TimeRange[k], <<0, MaxTime>>}
  BY <1>6, <1>7, <1>8
<1>. QED BY <1>9, <1>10 DEF PlacedOnce, d

(* SnapshotInv is inductive. *)
LEMMA SnapshotStep == SnapshotInv /\ [MetadataNext]_metaVars => SnapshotInv'
<1> SUFFICES ASSUME SnapshotInv, [MetadataNext]_metaVars PROVE SnapshotInv'
  OBVIOUS
<1> USE DEF SnapshotInv
<1>1. CASE UNCHANGED metaVars
  BY <1>1 DEF metaVars, PlacedOnce
<1>2. ASSUME NEW k \in AllEpochs, CommitEpoch(k) PROVE SnapshotInv'
  BY <1>2 DEF CommitEpoch
<1>3. ASSUME NEW k \in AllEpochs, DropEpoch(k) PROVE SnapshotInv'
  <2>1. /\ held' = held \ {k}
        /\ refresh' = [r \in Refreshes |-> [refresh[r] EXCEPT !.stayed = @ \ {k}]]
        /\ published' = [published EXCEPT !.stayed = @ \ {k}]
    BY <1>3 DEF DropEpoch
  <2>2. ASSUME NEW r \in Refreshes
        PROVE  refresh'[r] \in Calls /\ refresh'[r].stayed \subseteq refresh'[r].snap
    <3>1. refresh[r] \in Calls /\ refresh[r].stayed \subseteq refresh[r].snap
      OBVIOUS
    <3>. QED BY <2>1, <3>1 DEF Calls
  <2>3. published'.stayed \subseteq published.stayed /\ published'.index = published.index
    BY <2>1
  <2>. QED BY <2>1, <2>2, <2>3
<1>4. ASSUME NEW r \in Refreshes,
             \/ MemoryStats(r) \/ Listed(r) \/ RefreshFails(r)
             \/ \E d \in Datasets : ListEpochs(r, d)
             \/ \E k \in AllEpochs : GetEpochStats(r, k)
      PROVE  SnapshotInv'
  <2>1. UNCHANGED <<held, published>>
    BY <1>4 DEF MemoryStats, Listed, RefreshFails, ListEpochs, GetEpochStats
  <2>2. PICK call \in Calls : /\ refresh' = [refresh EXCEPT ![r] = call]
                              /\ call.stayed \subseteq call.snap
    <3>0. refresh[r] \in Calls /\ refresh[r].stayed \subseteq refresh[r].snap
      OBVIOUS
    <3>1. CASE MemoryStats(r)
      <4> DEFINE call == [at |-> "list", snap |-> held, toList |-> {DatasetOf(k) : k \in held},
                          views |-> {}, toStat |-> held, stayed |-> held]
      <4>1. call \in Calls
        BY DEF Calls, Datasets
      <4>. QED BY <3>1, <4>1 DEF MemoryStats
    <3>2. CASE Listed(r)
      <4> DEFINE call == [refresh[r] EXCEPT !.at = "stats"]
      <4>1. call \in Calls /\ call.stayed \subseteq call.snap
        BY <3>0 DEF Calls
      <4>. QED BY <3>2, <4>1 DEF Listed
    <3>3. CASE RefreshFails(r)
      BY <3>3, NoRefreshIsCall DEF RefreshFails, NoRefresh
    <3>4. ASSUME NEW d \in Datasets, ListEpochs(r, d)
          PROVE  \E call \in Calls : /\ refresh' = [refresh EXCEPT ![r] = call]
                                     /\ call.stayed \subseteq call.snap
      <4>1. PICK found \in {{}, {k \in held : DatasetOf(k) = d}} :
              refresh' = [refresh EXCEPT ![r].toList = @ \ {d}, ![r].views = @ \cup found]
        BY <3>4 DEF ListEpochs
      <4> DEFINE call == [refresh[r] EXCEPT !.toList = @ \ {d}, !.views = @ \cup found]
      <4>2. call \in Calls /\ call.stayed \subseteq call.snap
        BY <3>0 DEF Calls
      <4>3. refresh' = [refresh EXCEPT ![r] = call]
        BY <4>1
      <4>. QED BY <4>2, <4>3
    <3>5. ASSUME NEW k \in AllEpochs, GetEpochStats(r, k)
          PROVE  \E call \in Calls : /\ refresh' = [refresh EXCEPT ![r] = call]
                                     /\ call.stayed \subseteq call.snap
      <4> DEFINE call == [refresh[r] EXCEPT !.toStat = @ \ {k}]
      <4>1. call \in Calls /\ call.stayed \subseteq call.snap
        BY <3>0 DEF Calls
      <4>. QED BY <3>5, <4>1 DEF GetEpochStats
    <3>. QED BY <1>4, <3>1, <3>2, <3>3, <3>4, <3>5
  <2>. QED BY <2>1, <2>2
<1>5. ASSUME NEW r \in Refreshes, Publish(r) PROVE SnapshotInv'
  <2>1. PICK index \in RegisterEpochs(refresh[r].snap, refresh[r].views) :
          published' = [index |-> index, stayed |-> refresh[r].stayed]
    BY <1>5 DEF Publish
  <2>2. /\ held' = held
        /\ refresh' = [refresh EXCEPT ![r] = [NoRefresh EXCEPT !.at = "over"]]
    BY <1>5 DEF Publish
  <2>3. /\ refresh[r].snap \in SUBSET AllEpochs /\ refresh[r].views \in SUBSET AllEpochs
        /\ refresh[r].stayed \subseteq refresh[r].snap
    BY DEF Calls
  <2>4. \A k \in published'.stayed : PlacedOnce(published'.index, k)
    BY <2>1, <2>3, RegisteredOnce
  <2>5. /\ refresh' \in [Refreshes -> Calls]
        /\ \A s \in Refreshes : refresh'[s].stayed \subseteq refresh'[s].snap
    BY <2>2, NoRefreshIsCall DEF NoRefresh
  <2>6. published'.stayed \in SUBSET AllEpochs
    BY <2>1, <2>3
  <2>. QED BY <2>2, <2>4, <2>5, <2>6
<1>. QED BY <1>1, <1>2, <1>3, <1>4, <1>5 DEF MetadataNext

(* StableEpochsAreFound: whatever is committed, dropped or cannot be       *)
(* listed while a refresh runs, and however refreshes overlap, an epoch    *)
(* that stayed is in every answer it belongs to, once (refresh,            *)
(* epochs_for).                                                            *)
THEOREM StableEpochsStayFound == MetadataSpec => []StableEpochsAreFound
<1>1. SnapshotInv => StableEpochsAreFound
  <2> SUFFICES ASSUME SnapshotInv, NEW k \in published.stayed,
                      NEW start \in 0..MaxTime, NEW end \in 0..MaxTime,
                      OverlapsTimeRange(Placement(k, TimeRange[k]), start, end)
               PROVE  Cardinality({i \in EpochsFor(published.index, DatasetOf(k), start, end) :
                                     published.index[DatasetOf(k)][i].epoch = k}) = 1
    BY DEF StableEpochsAreFound
  <2> DEFINE list == published.index[DatasetOf(k)]
             found == {i \in EpochsFor(published.index, DatasetOf(k), start, end) :
                         list[i].epoch = k}
  <2>1. PICK i \in DOMAIN list :
          /\ list[i].epoch = k /\ list[i].range \in {TimeRange[k], <<0, MaxTime>>}
          /\ \A j \in DOMAIN list : list[j].epoch = k => j = i
    BY DEF SnapshotInv, PlacedOnce
  <2>2. k \in DOMAIN TimeRange
    BY DEF SnapshotInv, AllEpochs
  <2>3. /\ TimeRange[k][1] \in 0..MaxTime /\ TimeRange[k][2] \in 0..MaxTime /\ MaxTime \in Nat
        /\ TimeRange[k][1] < end /\ TimeRange[k][2] > start
    BY <2>2, TimesAssumption DEF OverlapsTimeRange, Placement
  <2>4. OverlapsTimeRange(list[i], start, end)
    <3>1. CASE list[i].range = TimeRange[k]
      BY <2>3, <3>1 DEF OverlapsTimeRange
    <3>2. CASE list[i].range = <<0, MaxTime>>
      <4>1. 0 < end /\ MaxTime > start
        BY <2>3
      <4>. QED BY <3>2, <4>1 DEF OverlapsTimeRange
    <3>. QED BY <2>1, <3>1, <3>2
  <2>5. found = {i}
    BY <2>1, <2>4 DEF EpochsFor
  <2>6. Cardinality({i}) = 1
    BY FS_Singleton
  <2>. QED BY <2>5, <2>6
<1>. QED BY <1>1, SnapshotStart, SnapshotStep, PTL DEF MetadataSpec

----------------------------------------------------------------------------
(***************************************************************************)
(* CleanEndIsWhole for any number of queries, permits and connections, any *)
(* channel and any result.                                                 *)
(*                                                                         *)
(* What has to be added to the property: an error that a task reported is  *)
(* still in the channel of a client that goes on reading.  The end of the  *)
(* stream, which finds the channel empty, then implies that neither task   *)
(* had one to report.                                                      *)
(***************************************************************************)
Items == {"batch", "err"}
HasErr(s) == \E i \in 1..Len(s) : s[i] = "err"

(* An error in a channel stays there when something is sent, *)
LEMMA AppendKeepsErr ==
    ASSUME NEW s \in Seq(Items), NEW x \in Items, HasErr(s) \/ x = "err"
    PROVE  HasErr(Append(s, x))
<1>1. CASE x = "err"
  <2>1. Len(s) + 1 \in 1..Len(Append(s, x)) /\ Append(s, x)[Len(s) + 1] = x
    OBVIOUS
  <2> QED
    BY <1>1, <2>1 DEF HasErr
<1>2. CASE HasErr(s)
  <2>1. PICK i \in 1..Len(s) : s[i] = "err"
    BY <1>2 DEF HasErr
  <2>2. i \in 1..Len(Append(s, x)) /\ Append(s, x)[i] = s[i]
    OBVIOUS
  <2> QED
    BY <2>1, <2>2 DEF HasErr
<1> QED
  BY <1>1, <1>2

(* and when something before it is received. *)
LEMMA TailKeepsErr ==
    ASSUME NEW s \in Seq(Items), s # <<>>, HasErr(s), Head(s) # "err"
    PROVE  Tail(s) \in Seq(Items) /\ HasErr(Tail(s))
<1>1. PICK i \in 1..Len(s) : s[i] = "err"
  BY DEF HasErr
<1>2. i # 1 /\ i - 1 \in 1..Len(Tail(s)) /\ Tail(s)[i - 1] = s[i]
  BY <1>1
<1> QED
  BY <1>1, <1>2 DEF HasErr

QTypes ==
    /\ blocking \in [Queries -> {"none", "get", "sql", "send", "ok", "err"}]
    /\ supervisor \in [Queries -> {"none", "watch", "fired", "tell", "told", "done"}]
    /\ client \in [Queries -> {"reading", "gone", "failed", "ended"}]
    /\ gaveUp \in [Queries -> BOOLEAN]
    /\ results \in [Queries -> Seq(Items)]
    /\ total \in [Queries -> Nat]
    /\ sent \in [Queries -> Nat]

ErrorsAreShown ==
    \A q \in Queries :
        client[q] = "reading" /\ (blocking[q] = "err" \/ supervisor[q] = "told")
            => HasErr(results[q])

EndsAreClean ==
    \A q \in Queries :
        /\ supervisor[q] = "done" => blocking[q] = "ok"
        /\ blocking[q] = "ok" => gaveUp[q] = TRUE \/ sent[q] = total[q]
        /\ client[q] = "ended" => blocking[q] = "ok" /\ supervisor[q] = "done"

QInv == QTypes /\ ErrorsAreShown /\ EndsAreClean

(* QInv holds at the start. *)
LEMMA QInvInit == QueryInit => QInv
BY DEF QueryInit, QInv, QTypes, ErrorsAreShown, EndsAreClean

(* QInv is inductive. *)
LEMMA QInvStep == QInv /\ [QueryNext]_queryVars => QInv'
<1> USE DEF QInv, QTypes
<1>1. ASSUME QInv, UNCHANGED queryVars PROVE QInv'
  BY <1>1 DEF queryVars, ErrorsAreShown, EndsAreClean
<1>2. ASSUME QInv, NEW q \in Queries, QueryStep(q) PROVE QInv'
  <2>1. CASE ExecuteQuery(q)
    BY <1>2, <2>1 DEF ExecuteQuery, QueryEnded, ErrorsAreShown, EndsAreClean
  <2>2. CASE GetConnection(q)
    BY <1>2, <2>2 DEF GetConnection, QueryEnded, ErrorsAreShown, EndsAreClean
  <2>3. CASE NoConnection(q)
    <3>1. client[q] = "reading" => HasErr(results'[q])
      BY <1>2, <2>3, AppendKeepsErr DEF NoConnection, End, Items
    <3>2. results' \in [Queries -> Seq(Items)] /\ \A p \in Queries \ {q} : results'[p] = results[p]
      BY <1>2, <2>3 DEF NoConnection, End, Items
    <3> QED
      BY <1>2, <2>3, <3>1, <3>2 DEF NoConnection, End, QueryEnded, ErrorsAreShown, EndsAreClean
  <2>4. CASE QueryFails(q)
    <3>1. client[q] = "reading" => HasErr(results'[q])
      BY <1>2, <2>4, AppendKeepsErr DEF QueryFails, End, Items
    <3>2. results' \in [Queries -> Seq(Items)] /\ \A p \in Queries \ {q} : results'[p] = results[p]
      BY <1>2, <2>4 DEF QueryFails, End, Items
    <3> QED
      BY <1>2, <2>4, <3>1, <3>2 DEF QueryFails, End, QueryEnded, ErrorsAreShown, EndsAreClean
  <2>5. CASE QuerySucceeds(q)
    BY <1>2, <2>5 DEF QuerySucceeds, QueryEnded, ErrorsAreShown, EndsAreClean
  <2>6. CASE SendBatch(q)
    <3>1. HasErr(results[q]) => HasErr(results'[q])
      BY <1>2, <2>6, AppendKeepsErr DEF SendBatch, Items
    <3>2. results' \in [Queries -> Seq(Items)] /\ \A p \in Queries \ {q} : results'[p] = results[p]
      BY <1>2, <2>6 DEF SendBatch, Items
    <3> QED
      BY <1>2, <2>6, <3>1, <3>2 DEF SendBatch, QueryEnded, ErrorsAreShown, EndsAreClean
  <2>7. CASE StopSending(q)
    BY <1>2, <2>7 DEF StopSending, End, QueryEnded, ErrorsAreShown, EndsAreClean
  <2>8. CASE AllSent(q)
    BY <1>2, <2>8 DEF AllSent, End, QueryEnded, ErrorsAreShown, EndsAreClean
  <2>9. CASE TaskEnds(q)
    BY <1>2, <2>9 DEF TaskEnds, QueryEnded, ErrorsAreShown, EndsAreClean
  <2>10. CASE TimeoutFires(q)
    BY <1>2, <2>10 DEF TimeoutFires, QueryEnded, ErrorsAreShown, EndsAreClean
  <2>11. CASE Interrupt(q)
    BY <1>2, <2>11 DEF Interrupt, QueryEnded, ErrorsAreShown, EndsAreClean
  <2>12. CASE Tell(q)
    <3>1. client[q] = "reading" => HasErr(results'[q])
      BY <1>2, <2>12, AppendKeepsErr DEF Tell, Items
    <3>2. results' \in [Queries -> Seq(Items)] /\ \A p \in Queries \ {q} : results'[p] = results[p]
      BY <1>2, <2>12 DEF Tell, Items
    <3> QED
      BY <1>2, <2>12, <3>1, <3>2 DEF Tell, QueryEnded, ErrorsAreShown, EndsAreClean
  <2>13. CASE Read(q)
    <3>1. HasErr(results[q]) /\ Head(results[q]) # "err" => HasErr(results'[q])
      BY <1>2, <2>13, TailKeepsErr DEF Read
    <3>2. results' \in [Queries -> Seq(Items)] /\ \A p \in Queries \ {q} : results'[p] = results[p]
      BY <1>2, <2>13 DEF Read, Items
    <3> QED
      BY <1>2, <2>13, <3>1, <3>2 DEF Read, QueryEnded, ErrorsAreShown, EndsAreClean
  <2>14. CASE StreamEnds(q)
    <3>1. ~HasErr(results[q])
      BY <2>14 DEF StreamEnds, HasErr
    <3>2. blocking[q] = "ok" /\ supervisor[q] = "done"
      BY <1>2, <2>14, <3>1 DEF StreamEnds, QueryEnded, ErrorsAreShown
    <3>3. ErrorsAreShown' /\ EndsAreClean'
      BY <1>2, <2>14, <3>2 DEF StreamEnds, ErrorsAreShown, EndsAreClean
    <3> QED
      BY <1>2, <2>14, <3>3 DEF StreamEnds
  <2>15. CASE Leave(q)
    BY <1>2, <2>15 DEF Leave, QueryEnded, ErrorsAreShown, EndsAreClean
  <2> QED
    BY <1>2, <2>1, <2>2, <2>3, <2>4, <2>5, <2>6, <2>7, <2>8, <2>9, <2>10,
       <2>11, <2>12, <2>13, <2>14, <2>15 DEF QueryStep, BlockingStep
<1> QED
  BY <1>1, <1>2 DEF QueryNext

(* A stream that ends without an error is the whole result of a query that *)
(* ran in time (execute_query), for any queries, permits, connections and  *)
(* capacity of the channel.                                                *)
THEOREM CleanEnds == QuerySpec => []CleanEndIsWhole
<1>1. QInv => CleanEndIsWhole
  BY DEF QInv, QTypes, EndsAreClean, CleanEndIsWhole
<1> QED
  BY QInvInit, QInvStep, <1>1, PTL DEF QuerySpec

----------------------------------------------------------------------------
(***************************************************************************)
(* LoadsAreWhole for any number of loads, any batch size and any sources.  *)
(*                                                                         *)
(* What has to be added to the property: a task that ended well, for a     *)
(* load that still holds its stream, has fetched every row and left none   *)
(* in its builders, and a load reads to the end only after its task has    *)
(* ended.  The rows are accounted for by Batched, which says where in the  *)
(* source each batch of the channel begins.                                *)
(***************************************************************************)
(* An empty channel holds no rows. *)
LEMMA NothingBatched ==
    ASSUME NEW from \in Nat
    PROVE  /\ Batched(<<>>, from, from)
           /\ \A to \in Nat : Batched(<<>>, from, to) => from = to
<1>1. Len(<<>>) = 0
  OBVIOUS
<1> DEFINE cut == [i \in 0..0 |-> from]
<1>2. cut \in [0..0 -> 0..from] /\ cut[0] = from
  OBVIOUS
<1> HIDE DEF cut
<1>3. Batched(<<>>, from, from)
  <2> DEFINE e == <<>>
  <2>1. Len(e) = 0 /\ cut \in [0..Len(e) -> 0..from] /\ cut[0] = from /\ cut[Len(e)] = from
    BY <1>1, <1>2
  <2>2. \A i \in 1..Len(e) : cut[i] = cut[i - 1] + e[i]
    BY <2>1
  <2> HIDE DEF e
  <2>3. Batched(e, from, from)
    BY <2>1, <2>2 DEF Batched
  <2>. QED BY <2>3 DEF e
<1>4. ASSUME NEW to \in Nat, Batched(<<>>, from, to) PROVE from = to
  <2>1. PICK c \in [0..Len(<<>>) -> 0..to] : c[0] = from /\ c[Len(<<>>)] = to
    BY <1>4 DEF Batched
  <2>. QED BY <1>1, <2>1
<1>. QED BY <1>3, <1>4

(* What is sent comes after what is there. *)
LEMMA BatchedAppend ==
    ASSUME NEW q \in Seq(Nat), NEW from \in Nat, NEW to \in Nat, NEW n \in Nat, Batched(q, from, to)
    PROVE  Batched(Append(q, n), from, to + n)
<1> DEFINE p == Append(q, n)
<1>1. PICK cut \in [0..Len(q) -> 0..to] :
        /\ cut[0] = from /\ cut[Len(q)] = to
        /\ \A i \in 1..Len(q) : cut[i] = cut[i - 1] + q[i]
  BY DEF Batched
<1>2. /\ Len(p) = Len(q) + 1 /\ Len(q) \in Nat /\ p[Len(q) + 1] = n
      /\ \A i \in 1..Len(q) : p[i] = q[i]
  OBVIOUS
<1> DEFINE c == [i \in 0..Len(p) |-> IF i \in 0..Len(q) THEN cut[i] ELSE to + n]
<1> HIDE DEF p
<1>3. c \in [0..Len(p) -> 0..(to + n)]
  BY <1>1, <1>2
<1>4. c[0] = from /\ c[Len(p)] = to + n
  BY <1>1, <1>2
<1>5. ASSUME NEW i \in 1..Len(p) PROVE c[i] = c[i - 1] + p[i]
  <2>1. CASE i \in 1..Len(q)
    BY <1>1, <1>2, <2>1
  <2>2. CASE i = Len(q) + 1
    BY <1>1, <1>2, <2>2
  <2>. QED BY <1>2, <2>1, <2>2
<1> HIDE DEF c
<1>6. Batched(p, from, to + n)
  BY <1>3, <1>4, <1>5 DEF Batched
<1>. QED BY <1>6 DEF p

(* What is read was the next. *)
LEMMA BatchedTail ==
    ASSUME NEW q \in Seq(Nat), NEW from \in Nat, NEW to \in Nat, q # <<>>, Batched(q, from, to)
    PROVE  /\ Head(q) \in Nat /\ Tail(q) \in Seq(Nat)
           /\ Batched(Tail(q), from + Head(q), to)
<1> DEFINE p == Tail(q)
<1>1. PICK cut \in [0..Len(q) -> 0..to] :
        /\ cut[0] = from /\ cut[Len(q)] = to
        /\ \A i \in 1..Len(q) : cut[i] = cut[i - 1] + q[i]
  BY DEF Batched
<1>2. /\ Len(p) = Len(q) - 1 /\ Len(q) \in Nat /\ Len(q) >= 1 /\ Head(q) = q[1] /\ q[1] \in Nat
      /\ \A i \in 1..Len(p) : p[i] = q[i + 1]
      /\ p \in Seq(Nat)
  OBVIOUS
<1> DEFINE c == [i \in 0..Len(p) |-> cut[i + 1]]
<1> HIDE DEF p
<1>3. c \in [0..Len(p) -> 0..to]
  BY <1>1, <1>2
<1>4. c[0] = from + Head(q) /\ c[Len(p)] = to
  <2>1. cut[1] = cut[0] + q[1]
    BY <1>1, <1>2
  <2>. QED BY <1>1, <1>2, <2>1
<1>5. ASSUME NEW i \in 1..Len(p) PROVE c[i] = c[i - 1] + p[i]
  <2>1. i + 1 \in 1..Len(q) /\ cut[i + 1] = cut[i] + q[i + 1]
    BY <1>1, <1>2
  <2>. QED BY <1>2, <2>1
<1> HIDE DEF c
<1>6. Batched(p, from + Head(q), to)
  BY <1>3, <1>4, <1>5 DEF Batched
<1>. QED BY <1>2, <1>6 DEF p

(* A reader is never ahead of what was sent. *)
LEMMA BatchedBound ==
    ASSUME NEW q \in Seq(Nat), NEW from, NEW to \in Nat, Batched(q, from, to)
    PROVE  from \in 0..to
<1>1. 0 \in 0..Len(q)
  OBVIOUS
<1>. QED BY <1>1 DEF Batched

SourceTypeOK ==
    /\ reads \in [Loads -> Running \cup {"none", "checked", "ok", "err", "refused"}]
    /\ loader \in [Loads -> {"reading", "ended", "gone"}]
    /\ rows \in [Loads -> Nat] /\ fetched \in [Loads -> Nat]
    /\ builder \in [Loads -> Nat] /\ received \in [Loads -> Nat]
    /\ queue \in [Loads -> Seq(Nat)]

RowsAccounted(l) ==
    \E to \in 0..fetched[l] :
        /\ Batched(queue[l], received[l], to)
        /\ IF loader[l] = "gone" THEN to + builder[l] <= fetched[l]
                                 ELSE to + builder[l] = fetched[l]

EndsWhole(l) ==
    /\ loader[l] = "ended" => reads[l] \in {"ok", "err"}
    /\ loader[l] = "ended" /\ reads[l] = "ok" => received[l] = rows[l]
    /\ reads[l] = "ok" /\ loader[l] # "gone" => fetched[l] = rows[l] /\ builder[l] = 0
    /\ reads[l] = "last" => fetched[l] = rows[l]

SourceInv ==
    /\ SourceTypeOK
    /\ \A l \in Loads : RowsAccounted(l) /\ EndsWhole(l)

(* SourceInv holds at the start. *)
LEMMA SourceStart == SourceInit => SourceInv
<1> SUFFICES ASSUME SourceInit PROVE SourceInv
  OBVIOUS
<1>1. SourceTypeOK
  <2>1. <<>> \in Seq(Nat)
    OBVIOUS
  <2>2. rows \in [Loads -> Nat]
    BY SourceAssumption DEF SourceInit
  <2>. QED BY <2>1, <2>2 DEF SourceInit, SourceTypeOK, Running
<1>2. ASSUME NEW l \in Loads PROVE RowsAccounted(l) /\ EndsWhole(l)
  <2>1. /\ queue[l] = <<>> /\ received[l] = 0 /\ fetched[l] = 0 /\ builder[l] = 0
        /\ loader[l] = "reading" /\ reads[l] = "none"
    BY DEF SourceInit
  <2>2. Batched(queue[l], received[l], 0)
    BY <2>1, NothingBatched
  <2>. QED BY <2>1, <2>2 DEF RowsAccounted, EndsWhole
<1>. QED BY <1>1, <1>2 DEF SourceInv

(* A step of one load says nothing of another. *)
SameLoad(l) ==
    /\ reads'[l] = reads[l] /\ loader'[l] = loader[l] /\ rows'[l] = rows[l]
    /\ fetched'[l] = fetched[l] /\ builder'[l] = builder[l]
    /\ received'[l] = received[l] /\ queue'[l] = queue[l]

(* A step that does not touch a load keeps its account. *)
LEMMA SameLoadStays ==
    ASSUME NEW l \in Loads, RowsAccounted(l), EndsWhole(l), SameLoad(l)
    PROVE  RowsAccounted(l)' /\ EndsWhole(l)'
<1>1. RowsAccounted(l)'
  BY DEF RowsAccounted, SameLoad
<1>. QED BY <1>1 DEF EndsWhole, SameLoad

(* The steps that move no rows: a query begins or is refused, or its task  *)
(* comes to the end of the result, or to an end before it.                 *)
LEMMA QueryKeepsRows ==
    ASSUME SourceInv, NEW l \in Loads,
           \/ AdbcQuery(l) \/ JdbcCheck(l) \/ JdbcQuery(l)
           \/ SourceEnds(l) \/ SourceFails(l) \/ SendRefused(l)
    PROVE  SourceInv'
<1>t. reads \in [Loads -> Running \cup {"none", "checked", "ok", "err", "refused"}]
  BY DEF SourceInv, SourceTypeOK
<1>1. PICK to \in {"checked", "run", "last", "ok", "err", "refused"} : reads' = [reads EXCEPT ![l] = to]
  BY DEF AdbcQuery, JdbcCheck, JdbcQuery, SourceEnds, SourceFails, SendRefused, ReadEnds
<1>2. /\ reads[l] \in {"none", "checked"} \cup Running
      /\ reads'[l] = "last" => fetched[l] = rows[l]
      /\ reads'[l] = "ok" => loader[l] = "gone" \/ (fetched[l] = rows[l] /\ builder[l] = 0)
  BY <1>t DEF AdbcQuery, JdbcCheck, JdbcQuery, SourceEnds, SourceFails, SendRefused, ReadEnds, Running
<1>3. UNCHANGED <<rows, fetched, builder, queue, received, loader>>
  BY DEF AdbcQuery, JdbcCheck, JdbcQuery, SourceEnds, SourceFails, SendRefused
<1>4. SourceTypeOK'
  BY <1>1, <1>3 DEF SourceInv, SourceTypeOK, Running
<1>5. ASSUME NEW k \in Loads PROVE RowsAccounted(k)' /\ EndsWhole(k)'
  <2>1. CASE k # l
    <3>1. SameLoad(k)
      BY <1>1, <1>3, <2>1 DEF SourceInv, SourceTypeOK, SameLoad
    <3>. QED BY <3>1, SameLoadStays DEF SourceInv
  <2>2. CASE k = l
    <3>1. RowsAccounted(l) /\ EndsWhole(l)
      BY DEF SourceInv
    <3>2. RowsAccounted(l)'
      BY <1>3, <3>1 DEF RowsAccounted
    <3>3. EndsWhole(l)'
      BY <1>2, <1>3, <3>1 DEF EndsWhole, Running
    <3>. QED BY <2>2, <3>2, <3>3
  <2>. QED BY <2>1, <2>2
<1>. QED BY <1>4, <1>5 DEF SourceInv

(* A number of rows that accounts for those of a load after a step. *)
LEMMA AccountedBy ==
    ASSUME NEW l \in Loads, NEW n \in 0..fetched'[l], Batched(queue'[l], received'[l], n),
           IF loader'[l] = "gone" THEN n + builder'[l] <= fetched'[l]
                                  ELSE n + builder'[l] = fetched'[l]
    PROVE  RowsAccounted(l)'
BY Zenon DEF RowsAccounted

(* The sums behind RowsAccounted: f rows are fetched, b of them are in the *)
(* builder, the batches end at row to, and n more rows are fetched.        *)
LEMMA RowSums ==
    ASSUME NEW f \in Nat, NEW b \in Nat, NEW to \in 0..f, NEW n \in Nat
    PROVE  /\ to \in Nat /\ f + n \in Nat /\ b + n \in Nat
           /\ to + 0 = f => to = f
           /\ to \in 0..(f + n)
           /\ to + b <= f => to + (b + n) <= f + n
           /\ to + b = f => /\ to + (b + n) = f + n
                            /\ to + b \in 0..f /\ (to + b) + 0 = f
OBVIOUS

(* The same when the channel is dropped with all after row n in it. *)
LEMMA BatchSums ==
    ASSUME NEW f \in Nat, NEW b \in Nat, NEW to \in Nat, to + b = f, NEW n \in 0..to
    PROVE  n \in 0..f /\ n + b <= f
OBVIOUS

(* The size of a batch that is left to fetch. *)
LEMMA FromOne == ASSUME NEW n \in Nat, NEW m \in Nat, NEW i \in 1..(n - m) PROVE i \in Nat
OBVIOUS

(* A batch or a row is fetched. *)
LEMMA FetchKeepsRows ==
    ASSUME SourceInv, NEW l \in Loads, FetchBatch(l) \/ FetchRow(l)
    PROVE  SourceInv'
<1>0. /\ fetched[l] \in Nat /\ builder[l] \in Nat /\ received[l] \in Nat /\ rows[l] \in Nat
      /\ queue[l] \in Seq(Nat) /\ RowsAccounted(l) /\ EndsWhole(l)
  BY DEF SourceInv, SourceTypeOK
<1>1. PICK to \in 0..fetched[l] :
        /\ Batched(queue[l], received[l], to)
        /\ IF loader[l] = "gone" THEN to + builder[l] <= fetched[l]
                                 ELSE to + builder[l] = fetched[l]
  BY <1>0, Zenon DEF RowsAccounted
<1>2. /\ reads[l] = "run" /\ UNCHANGED <<rows, received, loader, queue>>
      /\ \E at \in {"run", "send"} : reads' = [reads EXCEPT ![l] = at]
  BY DEF FetchBatch, FetchRow
<1>3. PICK n \in Nat : /\ fetched' = [fetched EXCEPT ![l] = @ + n]
                       /\ builder' = [builder EXCEPT ![l] = @ + n]
  <2>1. CASE FetchBatch(l)
    <3>1. PICK n \in 1..(rows[l] - fetched[l]) : /\ fetched' = [fetched EXCEPT ![l] = @ + n]
                                                /\ builder' = [builder EXCEPT ![l] = @ + n]
      BY <2>1, Zenon DEF FetchBatch
    <3>2. n \in Nat
      BY <1>0, <3>1, FromOne, Zenon
    <3>. QED BY <3>1, <3>2, Zenon
  <2>2. CASE FetchRow(l)
    BY <2>2 DEF FetchRow
  <2>. QED BY <2>1, <2>2
<1>4. /\ fetched'[l] = fetched[l] + n /\ builder'[l] = builder[l] + n
      /\ fetched'[l] \in Nat /\ builder'[l] \in Nat /\ reads'[l] \in {"run", "send"}
  BY <1>0, <1>2, <1>3 DEF SourceInv, SourceTypeOK
<1>5. RowsAccounted(l)'
  <2>s. /\ to \in 0..(fetched[l] + n)
        /\ to + builder[l] <= fetched[l] => to + (builder[l] + n) <= fetched[l] + n
        /\ to + builder[l] = fetched[l] => to + (builder[l] + n) = fetched[l] + n
    <3>1. fetched[l] \in Nat /\ builder[l] \in Nat
      BY <1>0
    <3>. QED BY <3>1, RowSums
  <2>1. to \in 0..fetched'[l] /\ Batched(queue'[l], received'[l], to)
    BY <1>1, <1>2, <1>4, <2>s, Zenon
  <2>2. CASE loader[l] = "gone"
    <3>1. loader'[l] = "gone" /\ to + builder'[l] <= fetched'[l]
      BY <1>1, <1>2, <1>4, <2>s, <2>2, Zenon
    <3>. QED BY <2>1, <3>1, AccountedBy, Zenon
  <2>3. CASE loader[l] # "gone"
    <3>1. loader'[l] # "gone" /\ to + builder'[l] = fetched'[l]
      BY <1>1, <1>2, <1>4, <2>s, <2>3, Zenon
    <3>. QED BY <2>1, <3>1, AccountedBy, Zenon
  <2>. QED BY <2>2, <2>3, Zenon
<1>6. EndsWhole(l)'
  BY <1>0, <1>2, <1>4 DEF EndsWhole
<1>7. SourceTypeOK' /\ \A k \in Loads \ {l} : SameLoad(k)
  BY <1>0, <1>2, <1>3, <1>4 DEF SourceInv, SourceTypeOK, SameLoad, Running
<1>8. \A k \in Loads : RowsAccounted(k)' /\ EndsWhole(k)'
  BY <1>5, <1>6, <1>7, SameLoadStays DEF SourceInv
<1>. QED BY <1>7, <1>8 DEF SourceInv

(* What is in the builders goes into the channel. *)
LEMMA SendKeepsRows ==
    ASSUME SourceInv, NEW l \in Loads, SendRows(l)
    PROVE  SourceInv'
<1>0. /\ fetched[l] \in Nat /\ builder[l] \in Nat /\ received[l] \in Nat /\ rows[l] \in Nat
      /\ queue[l] \in Seq(Nat) /\ RowsAccounted(l) /\ EndsWhole(l)
  BY DEF SourceInv, SourceTypeOK
<1>1. /\ queue' = [queue EXCEPT ![l] = Append(@, builder[l])]
      /\ builder' = [builder EXCEPT ![l] = 0] /\ loader[l] # "gone"
      /\ UNCHANGED <<rows, fetched, received, loader>>
  BY DEF SendRows
<1>2. /\ reads[l] \in {"send", "last"}
      /\ reads' = [reads EXCEPT ![l] = IF reads[l] = "last" THEN "ok" ELSE "run"]
  BY DEF SendRows, ReadEnds
<1>3. PICK to \in 0..fetched[l] :
        Batched(queue[l], received[l], to) /\ to + builder[l] = fetched[l]
  BY <1>0, <1>1, Zenon DEF RowsAccounted
<1>4. to \in Nat /\ to + builder[l] \in 0..fetched[l] /\ (to + builder[l]) + 0 = fetched[l]
  BY <1>0, <1>3, RowSums, Zenon
<1>5. Batched(Append(queue[l], builder[l]), received[l], to + builder[l])
  BY <1>0, <1>3, <1>4, BatchedAppend, Zenon
<1>6. /\ builder'[l] = 0 /\ queue'[l] = Append(queue[l], builder[l])
      /\ Append(queue[l], builder[l]) \in Seq(Nat)
      /\ reads'[l] = IF reads[l] = "last" THEN "ok" ELSE "run"
  BY <1>0, <1>1, <1>2 DEF SourceInv, SourceTypeOK
<1>7. RowsAccounted(l)'
  <2>1. to + builder[l] \in 0..fetched'[l] /\ (to + builder[l]) + builder'[l] = fetched'[l]
    BY <1>1, <1>4, <1>6, Zenon
  <2>2. Batched(queue'[l], received'[l], to + builder[l]) /\ loader'[l] # "gone"
    BY <1>1, <1>5, <1>6, Zenon
  <2>. QED BY <2>1, <2>2, AccountedBy, Zenon
<1>8. EndsWhole(l)'
  <2>1. reads[l] \notin {"ok", "err"} /\ reads'[l] # "last"
    BY <1>2, <1>6
  <2>2. loader'[l] # "ended"
    BY <1>0, <1>1, <2>1, Zenon DEF EndsWhole
  <2>3. reads'[l] = "ok" => reads[l] = "last"
    BY <1>6, Zenon
  <2>4. reads'[l] = "ok" => fetched'[l] = rows'[l] /\ builder'[l] = 0
    BY <1>0, <1>1, <1>6, <2>3, Zenon DEF EndsWhole
  <2>. QED BY <2>1, <2>2, <2>4, Zenon DEF EndsWhole
<1>9. SourceTypeOK' /\ \A k \in Loads \ {l} : SameLoad(k)
  BY <1>0, <1>1, <1>2, <1>6 DEF SourceInv, SourceTypeOK, SameLoad, Running
<1>10. \A k \in Loads : RowsAccounted(k)' /\ EndsWhole(k)'
  BY <1>7, <1>8, <1>9, SameLoadStays DEF SourceInv
<1>. QED BY <1>9, <1>10 DEF SourceInv

(* The load reads a batch, finds the end, or drops its stream. *)
LEMMA ReadKeepsRows ==
    ASSUME SourceInv, NEW l \in Loads, ReadBatch(l) \/ SourceStreamEnds(l) \/ DropStream(l)
    PROVE  SourceInv'
<1>0. /\ fetched[l] \in Nat /\ builder[l] \in Nat /\ received[l] \in Nat /\ rows[l] \in Nat
      /\ queue[l] \in Seq(Nat) /\ RowsAccounted(l) /\ EndsWhole(l)
  BY DEF SourceInv, SourceTypeOK
<1>1. loader[l] = "reading" /\ UNCHANGED <<reads, rows, fetched, builder>>
  BY DEF ReadBatch, SourceStreamEnds, DropStream
<1>2. PICK to \in 0..fetched[l] : Batched(queue[l], received[l], to) /\ to + builder[l] = fetched[l]
  BY <1>0, <1>1 DEF RowsAccounted
<1>n. to \in Nat
  BY <1>0, <1>2, RowSums, Zenon
<1>3. CASE ReadBatch(l)
  <2>1. /\ queue[l] # <<>> /\ received' = [received EXCEPT ![l] = @ + Head(queue[l])]
        /\ queue' = [queue EXCEPT ![l] = Tail(@)] /\ loader' = loader
    BY <1>3 DEF ReadBatch
  <2>2. /\ Head(queue[l]) \in Nat /\ Tail(queue[l]) \in Seq(Nat)
        /\ Batched(Tail(queue[l]), received[l] + Head(queue[l]), to)
    BY <1>0, <1>2, <1>n, <2>1, BatchedTail, Zenon
  <2>3. received'[l] = received[l] + Head(queue[l]) /\ queue'[l] = Tail(queue[l])
    BY <2>1 DEF SourceInv, SourceTypeOK
  <2>4. RowsAccounted(l)' /\ EndsWhole(l)'
    <3>1. to \in 0..fetched'[l] /\ to + builder'[l] = fetched'[l] /\ loader'[l] = "reading"
      BY <1>1, <1>2, <2>1, Zenon
    <3>2. Batched(queue'[l], received'[l], to)
      BY <2>2, <2>3, Zenon
    <3>3. RowsAccounted(l)'
      BY <3>1, <3>2, AccountedBy, Zenon
    <3>4. EndsWhole(l)'
      <4>1. loader'[l] # "ended" /\ loader[l] # "gone"
        BY <1>1, <3>1, Zenon
      <4>2. reads'[l] = "ok" => fetched'[l] = rows'[l] /\ builder'[l] = 0
        BY <1>0, <1>1, <4>1, Zenon DEF EndsWhole
      <4>3. reads'[l] = "last" => fetched'[l] = rows'[l]
        BY <1>0, <1>1, Zenon DEF EndsWhole
      <4>. QED BY <4>1, <4>2, <4>3, Zenon DEF EndsWhole
    <3>. QED BY <3>3, <3>4
  <2>5. SourceTypeOK' /\ \A k \in Loads \ {l} : SameLoad(k)
    BY <1>0, <1>1, <2>1, <2>2 DEF SourceInv, SourceTypeOK, SameLoad
  <2>. QED BY <2>4, <2>5, SameLoadStays DEF SourceInv
<1>4. CASE SourceStreamEnds(l)
  <2>1. /\ queue[l] = <<>> /\ reads[l] \in {"ok", "err"} /\ loader' = [loader EXCEPT ![l] = "ended"]
        /\ queue' = queue /\ received' = received
    BY <1>4 DEF SourceStreamEnds
  <2>2. received[l] = to
    <3>1. Batched(<<>>, received[l], to)
      BY <1>2, <2>1, Zenon
    <3>. QED BY <1>0, <1>n, <3>1, NothingBatched, Zenon
  <2>3. loader'[l] = "ended"
    BY <2>1 DEF SourceInv, SourceTypeOK
  <2>4. RowsAccounted(l)' /\ EndsWhole(l)'
    <3>1. to \in 0..fetched'[l] /\ to + builder'[l] = fetched'[l]
      BY <1>1, <1>2, Zenon
    <3>2. Batched(queue'[l], received'[l], to)
      BY <1>2, <2>1, Zenon
    <3>3. RowsAccounted(l)'
      BY <2>3, <3>1, <3>2, AccountedBy, Zenon
    <3>4. reads[l] = "ok" => received[l] = rows[l]
      <4>1. reads[l] = "ok" => fetched[l] = rows[l] /\ builder[l] = 0
        BY <1>0, <1>1 DEF EndsWhole
      <4>2. builder[l] = 0 => to = fetched[l]
        BY <1>0, <1>2, RowSums
      <4>. QED BY <2>2, <4>1, <4>2, Zenon
    <3>5. EndsWhole(l)'
      BY <1>0, <1>1, <2>1, <2>3, <3>4 DEF EndsWhole
    <3>. QED BY <3>3, <3>5
  <2>5. SourceTypeOK' /\ \A k \in Loads \ {l} : SameLoad(k)
    BY <1>1, <2>1 DEF SourceInv, SourceTypeOK, SameLoad
  <2>. QED BY <2>4, <2>5, SameLoadStays DEF SourceInv
<1>5. CASE DropStream(l)
  <2>1. /\ loader' = [loader EXCEPT ![l] = "gone"] /\ queue' = [queue EXCEPT ![l] = <<>>]
        /\ received' = received
    BY <1>5 DEF DropStream
  <2>2. received[l] \in 0..to /\ Batched(<<>>, received[l], received[l])
    BY <1>0, <1>2, <1>n, BatchedBound, NothingBatched, Zenon
  <2>3. loader'[l] = "gone" /\ queue'[l] = <<>> /\ <<>> \in Seq(Nat)
    BY <2>1 DEF SourceInv, SourceTypeOK
  <2>4. RowsAccounted(l)' /\ EndsWhole(l)'
    <3>1. received'[l] = received[l] /\ builder'[l] = builder[l] /\ fetched'[l] = fetched[l]
      BY <1>1, <2>1, Zenon
    <3>2. received[l] \in 0..fetched'[l] /\ received[l] + builder'[l] <= fetched'[l]
      BY <1>0, <1>2, <1>n, <2>2, <3>1, BatchSums, Zenon
    <3>3. Batched(queue'[l], received'[l], received[l])
      BY <2>2, <2>3, <3>1, Zenon
    <3>4. RowsAccounted(l)'
      BY <2>3, <3>1, <3>2, <3>3, AccountedBy, Zenon
    <3>5. EndsWhole(l)'
      BY <1>0, <1>1, <2>3 DEF EndsWhole
    <3>. QED BY <3>4, <3>5
  <2>5. SourceTypeOK' /\ \A k \in Loads \ {l} : SameLoad(k)
    BY <1>1, <2>1, <2>3 DEF SourceInv, SourceTypeOK, SameLoad
  <2>. QED BY <2>4, <2>5, SameLoadStays DEF SourceInv
<1>. QED BY <1>3, <1>4, <1>5

(* SourceInv is inductive. *)
LEMMA SourceStep == SourceInv /\ [SourceNext]_sourceVars => SourceInv'
<1> SUFFICES ASSUME SourceInv, [SourceNext]_sourceVars PROVE SourceInv'
  OBVIOUS
<1>1. CASE BeginShutdown \/ EndShutdown \/ UNCHANGED sourceVars
  <2>1. UNCHANGED <<reads, rows, fetched, builder, queue, received, loader>>
    BY <1>1 DEF BeginShutdown, EndShutdown, sourceVars
  <2>2. SourceTypeOK' /\ \A k \in Loads : SameLoad(k)
    BY <2>1 DEF SourceInv, SourceTypeOK, SameLoad
  <2>. QED BY <2>2, SameLoadStays DEF SourceInv
<1>2. ASSUME NEW l \in Loads, SourceTask(l) \/ SourceFails(l) \/ LoadReads(l) \/ DropStream(l)
      PROVE  SourceInv'
  BY <1>2, QueryKeepsRows, FetchKeepsRows, SendKeepsRows, ReadKeepsRows DEF SourceTask, LoadReads
<1>. QED BY <1>1, <1>2 DEF SourceNext

(* LoadsAreWhole: a load whose source did not fail gets each of its rows   *)
(* exactly once (run_query_async, run_query_blocking).                     *)
THEOREM LoadsGetTheirRows == SourceSpec => []LoadsAreWhole
<1>1. SourceInv => LoadsAreWhole
  BY DEF SourceInv, RowsAccounted, EndsWhole, LoadsAreWhole
<1>. QED BY <1>1, SourceStart, SourceStep, PTL DEF SourceSpec

----------------------------------------------------------------------------
(***************************************************************************)
(* The count of active JDBC queries and the permits of the Flight SQL      *)
(* client, for any number of loads.                                        *)
(***************************************************************************)
JdbcRunning == {l \in JdbcLoads : reads[l] \in Running}
AdbcRunning == {l \in AdbcLoads : reads[l] \in Running}
ReadStates == Running \cup {"none", "checked", "ok", "err", "refused"}

CountInv ==
    /\ reads \in [Loads -> ReadStates]
    /\ \A l \in Loads : reads[l] = "checked" => l \in JdbcLoads
    /\ active = Cardinality(JdbcRunning)
    /\ Cardinality(AdbcRunning) <= MaxConcurrency

(* A step that starts or ends no task leaves the counts as they are. *)
LEMMA CountStays ==
    ASSUME CountInv, UNCHANGED <<reads, active>>
    PROVE  CountInv'
BY DEF CountInv, JdbcRunning, AdbcRunning

(* So does one of a task that goes on. *)
LEMMA CountGoesOn ==
    ASSUME CountInv, NEW l \in Loads, reads[l] \in Running, NEW at \in Running,
           reads' = [reads EXCEPT ![l] = at], active' = active
    PROVE  CountInv'
<1>1. reads' \in [Loads -> ReadStates] /\ \A k \in Loads : reads'[k] \in Running <=> reads[k] \in Running
  BY DEF CountInv, ReadStates
<1>2. JdbcRunning' = JdbcRunning /\ AdbcRunning' = AdbcRunning
  BY <1>1 DEF JdbcRunning, AdbcRunning, Loads
<1>3. \A k \in Loads : reads'[k] = "checked" => reads[k] = "checked"
  BY DEF CountInv, Running
<1>. QED BY <1>1, <1>2, <1>3 DEF CountInv

(* A task that ends, however it ends, is taken off the count it was in. *)
LEMMA CountEnds ==
    ASSUME IsFiniteSet(JdbcLoads), IsFiniteSet(AdbcLoads), JdbcLoads \cap AdbcLoads = {},
           MaxConcurrency \in Nat, CountInv, NEW l \in Loads, reads[l] \in Running,
           NEW how \in {"ok", "err"}, ReadEnds(l, how)
    PROVE  CountInv'
<1>1. /\ reads \in [Loads -> ReadStates]
      /\ reads' = [reads EXCEPT ![l] = how]
      /\ active' = IF l \in JdbcLoads THEN active - 1 ELSE active
  BY DEF CountInv, ReadEnds
<1>2. /\ IsFiniteSet(JdbcRunning) /\ IsFiniteSet(AdbcRunning)
      /\ Cardinality(JdbcRunning) \in Nat /\ Cardinality(AdbcRunning) \in Nat
  <2>1. JdbcRunning \subseteq JdbcLoads /\ AdbcRunning \subseteq AdbcLoads
    BY DEF JdbcRunning, AdbcRunning
  <2>. QED BY <2>1, FS_Subset, FS_CardinalityType
<1>3. JdbcRunning' = JdbcRunning \ {l} /\ AdbcRunning' = AdbcRunning \ {l}
  BY <1>1 DEF JdbcRunning, AdbcRunning, Loads, Running
<1>4. active' = Cardinality(JdbcRunning \ {l})
  <2>1. CASE l \in JdbcLoads
    <3>1. l \in JdbcRunning
      BY <2>1 DEF JdbcRunning
    <3>2. Cardinality(JdbcRunning \ {l}) = Cardinality(JdbcRunning) - 1
      BY <1>2, <3>1, FS_RemoveElement
    <3>. QED BY <1>1, <2>1, <3>2 DEF CountInv
  <2>2. CASE l \notin JdbcLoads
    <3>1. JdbcRunning \ {l} = JdbcRunning
      BY <2>2 DEF JdbcRunning
    <3>. QED BY <1>1, <2>2, <3>1 DEF CountInv
  <2>. QED BY <2>1, <2>2
<1>5. Cardinality(AdbcRunning \ {l}) <= MaxConcurrency
  <2>1. /\ Cardinality(AdbcRunning \ {l}) <= Cardinality(AdbcRunning)
        /\ Cardinality(AdbcRunning \ {l}) \in Nat
    <3>1. AdbcRunning \ {l} \subseteq AdbcRunning
      OBVIOUS
    <3>. QED BY <1>2, <3>1, FS_Subset, FS_CardinalityType
  <2>. QED BY <1>2, <2>1 DEF CountInv
<1>. QED BY <1>1, <1>3, <1>4, <1>5 DEF CountInv, ReadStates

(* A task that starts is counted, and has a permit if it needs one. *)
LEMMA CountStarts ==
    ASSUME IsFiniteSet(JdbcLoads), IsFiniteSet(AdbcLoads), JdbcLoads \cap AdbcLoads = {},
           MaxConcurrency \in Nat, CountInv, NEW l \in Loads,
           AdbcQuery(l) \/ JdbcCheck(l) \/ JdbcQuery(l)
    PROVE  CountInv'
<1>1. reads \in [Loads -> ReadStates]
  BY DEF CountInv
<1>2. /\ IsFiniteSet(JdbcRunning) /\ IsFiniteSet(AdbcRunning)
      /\ Cardinality(JdbcRunning) \in Nat /\ Cardinality(AdbcRunning) \in Nat
  <2>1. JdbcRunning \subseteq JdbcLoads /\ AdbcRunning \subseteq AdbcLoads
    BY DEF JdbcRunning, AdbcRunning
  <2>. QED BY <2>1, FS_Subset, FS_CardinalityType
<1>3. CASE AdbcQuery(l)
  <2>1. /\ l \in AdbcLoads /\ l \notin JdbcLoads /\ reads[l] = "none"
        /\ Cardinality(AdbcRunning) < MaxConcurrency
        /\ reads' = [reads EXCEPT ![l] = "run"] /\ active' = active
    BY <1>3 DEF AdbcQuery, AdbcRunning
  <2>2. JdbcRunning' = JdbcRunning /\ AdbcRunning' = AdbcRunning \cup {l} /\ l \notin AdbcRunning
    BY <1>1, <2>1 DEF JdbcRunning, AdbcRunning, Loads, Running
  <2>3. Cardinality(AdbcRunning \cup {l}) = Cardinality(AdbcRunning) + 1
    BY <1>2, <2>2, FS_AddElement
  <2>. QED BY <1>1, <1>2, <2>1, <2>2, <2>3 DEF CountInv, ReadStates, Running
<1>4. CASE JdbcCheck(l)
  <2>1. /\ l \in JdbcLoads /\ reads[l] = "none" /\ active' = active
        /\ \E how \in {"refused", "checked"} : reads' = [reads EXCEPT ![l] = how]
    BY <1>4 DEF JdbcCheck
  <2>2. JdbcRunning' = JdbcRunning /\ AdbcRunning' = AdbcRunning
    BY <1>1, <2>1 DEF JdbcRunning, AdbcRunning, Loads, Running
  <2>. QED BY <1>1, <2>1, <2>2 DEF CountInv, ReadStates
<1>5. CASE JdbcQuery(l)
  <2>1. /\ reads[l] = "checked" /\ l \in JdbcLoads /\ l \notin AdbcLoads
        /\ reads' = [reads EXCEPT ![l] = "run"] /\ active' = active + 1
    BY <1>5 DEF JdbcQuery, CountInv
  <2>2. JdbcRunning' = JdbcRunning \cup {l} /\ AdbcRunning' = AdbcRunning /\ l \notin JdbcRunning
    BY <1>1, <2>1 DEF JdbcRunning, AdbcRunning, Loads, Running
  <2>3. Cardinality(JdbcRunning \cup {l}) = Cardinality(JdbcRunning) + 1
    BY <1>2, <2>2, FS_AddElement
  <2>. QED BY <1>1, <1>2, <2>1, <2>2, <2>3 DEF CountInv, ReadStates, Running
<1>. QED BY <1>3, <1>4, <1>5

(* The active count of the JDBC client is at every moment the number of    *)
(* its tasks that run, so it never goes below zero, however tasks end and  *)
(* whenever the client is closed (QueryCountGuard), and no more Flight SQL *)
(* queries run than there are permits.                                     *)
THEOREM QueriesAreCounted ==
    ASSUME IsFiniteSet(JdbcLoads), IsFiniteSet(AdbcLoads), JdbcLoads \cap AdbcLoads = {},
           MaxConcurrency \in Nat
    PROVE  SourceSpec => [](/\ active = Cardinality({l \in JdbcLoads : reads[l] \in Running})
                            /\ Cardinality({l \in AdbcLoads : reads[l] \in Running}) <= MaxConcurrency)
<1>1. SourceInit => CountInv
  <2> SUFFICES ASSUME SourceInit PROVE CountInv
    OBVIOUS
  <2>1. JdbcRunning = {} /\ AdbcRunning = {}
    BY DEF SourceInit, JdbcRunning, AdbcRunning, Loads, Running
  <2>2. Cardinality({}) = 0
    BY FS_EmptySet
  <2>. QED BY <2>1, <2>2 DEF SourceInit, CountInv, ReadStates
<1>2. CountInv /\ [SourceNext]_sourceVars => CountInv'
  <2> SUFFICES ASSUME CountInv, [SourceNext]_sourceVars PROVE CountInv'
    OBVIOUS
  <2>1. CASE BeginShutdown \/ EndShutdown \/ UNCHANGED sourceVars
    BY <2>1, CountStays DEF BeginShutdown, EndShutdown, sourceVars
  <2>2. ASSUME NEW l \in Loads, LoadReads(l) \/ DropStream(l) PROVE CountInv'
    BY <2>2, CountStays DEF LoadReads, ReadBatch, SourceStreamEnds, DropStream
  <2>3. ASSUME NEW l \in Loads, FetchBatch(l) \/ FetchRow(l) PROVE CountInv'
    <3>1. /\ reads[l] \in Running /\ active' = active
          /\ \E at \in Running : reads' = [reads EXCEPT ![l] = at]
      BY <2>3 DEF FetchBatch, FetchRow, Running
    <3>. QED BY <3>1, CountGoesOn
  <2>4. ASSUME NEW l \in Loads, SendRows(l) \/ SourceEnds(l) \/ SourceFails(l) \/ SendRefused(l)
        PROVE  CountInv'
    <3>1. /\ reads[l] \in Running
          /\ \/ \E how \in {"ok", "err"} : ReadEnds(l, how)
             \/ active' = active /\ \E at \in Running : reads' = [reads EXCEPT ![l] = at]
      BY <2>4 DEF SendRows, SourceEnds, SourceFails, SendRefused, Running
    <3>. QED BY <3>1, CountEnds, CountGoesOn
  <2>5. ASSUME NEW l \in Loads, AdbcQuery(l) \/ JdbcCheck(l) \/ JdbcQuery(l) PROVE CountInv'
    BY <2>5, CountStarts
  <2>. QED BY <2>1, <2>2, <2>3, <2>4, <2>5 DEF SourceNext, SourceTask
<1>3. CountInv => /\ active = Cardinality({l \in JdbcLoads : reads[l] \in Running})
                  /\ Cardinality({l \in AdbcLoads : reads[l] \in Running}) <= MaxConcurrency
  BY DEF CountInv, JdbcRunning, AdbcRunning
<1>. QED BY <1>1, <1>2, <1>3, PTL DEF SourceSpec

=============================================================================
