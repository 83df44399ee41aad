----------------------------- MODULE MCPlanning -----------------------------
(***************************************************************************)
(* Queries over three small tables (A, B, C), each table on the            *)
(* coordinator, on the other worker, split over both or replicated, under  *)
(* policies that make the planner broadcast, shuffle or reject.  MCCases   *)
(* are the combinations the planner handles.                               *)
(***************************************************************************)
EXTENDS LdpDataflow

MCOrder == <<"w1", "w2">>

Rows(k, n, vals) == [i \in DOMAIN vals |-> [c \in {<<"", k>>, <<"", n>>} |->
                        IF c[2] = k THEN vals[i][1] ELSE vals[i][2]]]
TableOf(k, n, vals) == Rel({<<"", k>>, <<"", n>>}, Rows(k, n, vals))

All == [A |-> TableOf("ak", "an", <<<<1, 1>>, <<1, 2>>, <<2, 3>>>>),
        B |-> TableOf("bk", "bn", <<<<1, 4>>, <<2, 5>>, <<2, 6>>, <<3, 7>>>>),
        C |-> TableOf("ck", "cn", <<<<1, 8>>, <<2, 9>>>>)]

(* Where a table is: its first row (an epoch of its own) on the first      *)
(* worker named, the others on the second; or everything on both.          *)
Places == {"w1w1", "w2w2", "w1w2", "w2w1", "rep"}
Held(p) == IF p = "w1w1" THEN <<"w1", "w1">> ELSE IF p = "w2w2" THEN <<"w2", "w2">>
           ELSE IF p = "w1w2" THEN <<"w1", "w2">> ELSE <<"w2", "w1">>

Epochs(t, p) ==
    LET n == Len(All[t].rows)
        ep(w, r) == [worker |-> w, rows |-> 10 * r, bytes |-> 100 * r, exact |-> TRUE]
    IN  IF p = "rep"
        THEN [epochs |-> <<>>, registered |-> <<Ann(Dist("replicated", <<>>, MCOrder), 10 * n, 100 * n, "exact")>>]
        ELSE [epochs |-> <<ep(Held(p)[1], 1), ep(Held(p)[2], n - 1)>>, registered |-> <<>>]

PartOf(t, p, w) ==
    LET rows == All[t].rows
        on(i) == p = "rep" \/ Held(p)[IF i = 1 THEN 1 ELSE 2] = w
        idx == SelectSeq([i \in DOMAIN rows |-> i], on)
    IN  Rel(All[t].cols, [i \in DOMAIN idx |-> rows[idx[i]]])

MCMetaOf(place) == [t \in DOMAIN place |-> Epochs(t, place[t])]

MCDataOf(place) ==
    [w \in Range(MCOrder) |->
        [t \in {t \in DOMAIN place : place[t] = "rep" \/ w \in Range(Held(place[t]))} |->
            PartOf(t, place[t], w)]]

Policy(c, bcast, gather) ==
    [coordinator |-> c, broadcastMax |-> bcast, shuffleMax |-> 10000, gatherRowsMax |-> gather,
     gatherBytesMax |-> 100000, partitions |-> 3, safety |-> 2]

Policies == {Policy("w1", 0, 1000), Policy("w1", 350, 1000), Policy("w1", 5000, 1000),
             Policy("w2", 350, 1000), Policy("w1", 350, 20)}

----------------------------------------------------------------------------
(* Queries. *)
T(t) == [kind |-> "table", name |-> t, alias |-> t]
Join(l, r, type, on) == [kind |-> "join", left |-> l, right |-> r, type |-> type, on |-> on]
Derived(q, as) == [kind |-> "derived", q |-> q, alias |-> as]

Sel(items, from) == [kind |-> "select", from |-> from, where |-> <<>>, group |-> <<>>,
                     having |-> -1, items |-> items, distinct |-> FALSE]
Where(s, c, v) == [s EXCEPT !.where = <<c, v>>]
GroupBy(s, xs) == [s EXCEPT !.group = xs]
Union(l, r, all) == [kind |-> "setop", set |-> "union", all |-> all, left |-> l, right |-> r]
Except(l, r) == [kind |-> "setop", set |-> "except", all |-> FALSE, left |-> l, right |-> r]
Q(body) == [with |-> <<>>, body |-> body, order |-> <<>>, limit |-> NoLimit]
OrderBy(q, cs) == [q EXCEPT !.order = cs]
Limit(q, n) == [q EXCEPT !.limit = n]
With(q, ctes) == [q EXCEPT !.with = ctes]

ak == <<"A", "ak">>
an == <<"A", "an">>
bk == <<"B", "bk">>
bn == <<"B", "bn">>
ck == <<"C", "ck">>
C1(c) == Item(Col(c), "")
As(x, n) == Item(x, n)
Count == Call(TRUE, "none", <<>>, <<>>)
Over(part) == Call(TRUE, "spec", part, <<>>)
AB == Join(T("A"), T("B"), "inner", <<<<ak, bk>>>>)
ABC == Join(AB, T("C"), "inner", <<<<ck, ak>>>>)
GroupedA == GroupBy(Sel(<<C1(ak), As(Count, "cnt")>>, <<T("A")>>), <<Col(ak)>>)
Grouped == Q(GroupBy(Sel(<<C1(<<"", "ak">>), As(Count, "cnt")>>, <<T("A")>>), <<Col(<<"", "ak">>)>>))
Keys(c, t) == Sel(<<As(Col(c), "k")>>, <<T(t)>>)
One1 == [name |-> "one", q |-> Q(Sel(<<>>, <<>>))]

PlannedQueries == [
    scan |-> Q(Where(Sel(<<C1(ak), C1(an)>>, <<T("A")>>), an, 2)),
    group |-> Q(Where(GroupedA, an, 2)),
    having |-> Q([GroupedA EXCEPT !.having = 1]),
    global |-> Q(Sel(<<As(OpOn(Count), "cnt")>>, <<T("A")>>)),
    groupExpr |-> Q(GroupBy(Sel(<<As(Count, "cnt")>>, <<T("A")>>), <<CastOf(Col(ak))>>)),
    join |-> Q(Sel(<<C1(an), C1(bn)>>, <<AB>>)),
    joinWhere |-> Q(Where(Sel(<<C1(an), C1(bn)>>, <<AB>>), bn, 5)),
    joinGroup |-> Q(GroupBy(Sel(<<C1(ak), As(Count, "cnt")>>, <<AB>>), <<Col(ak)>>)),
    joinOther |-> Q(GroupBy(Sel(<<C1(bn), As(Count, "cnt")>>, <<AB>>), <<Col(bn)>>)),
    join3 |-> Q(Sel(<<C1(an), C1(bn), C1(ck)>>, <<ABC>>)),
    left |-> Q(Sel(<<C1(an), C1(bn)>>, <<Join(T("A"), T("B"), "left", <<<<ak, bk>>>>)>>)),
    right |-> Q(Sel(<<C1(an), C1(bn)>>, <<Join(T("A"), T("B"), "right", <<<<ak, bk>>>>)>>)),
    full |-> Q(Sel(<<C1(an), C1(bn)>>, <<Join(T("A"), T("B"), "full", <<<<ak, bk>>>>)>>)),
    cross |-> Q(Sel(<<C1(an), C1(bn)>>, <<T("A"), T("B")>>)),
    subJoin |-> Q(Sel(<<C1(<<"s", "cnt">>), C1(bn)>>,
                      <<Join(Derived(Grouped, "s"), T("B"), "inner", <<<< <<"s", "ak">>, bk>>>>)>>)),
    window |-> Q(Sel(<<C1(an), As(Over(<<ak>>), "w")>>, <<T("A")>>)),
    windowAll |-> Q(Sel(<<C1(an), As(Over(<<>>), "w"), As(Over(<<ak>>), "v")>>, <<T("A")>>)),
    topN |-> Limit(OrderBy(Q(Sel(<<C1(ak)>>, <<T("A")>>)), <<an>>), 2),
    sorted |-> OrderBy(Q(Sel(<<C1(ak)>>, <<T("A")>>)), <<an>>),
    sortedGroup |-> OrderBy(Q(GroupedA), <<ak>>),
    topJoin |-> Limit(OrderBy(Q(Sel(<<C1(an), C1(bn)>>, <<AB>>)), <<bn, an>>), 2),
    unionAll |-> Q(Union(Keys(ak, "A"), Keys(bk, "B"), TRUE)),
    union |-> Q(Union(Keys(ak, "A"), Keys(bk, "B"), FALSE)),
    except |-> Q(Except(Keys(bk, "B"), Keys(ak, "A"))),
    topUnion |-> Limit(OrderBy(Q(Union(Keys(ak, "A"), Keys(bk, "B"), TRUE)), <<<<"", "k">>>>), 6),
    cteOne |-> With(Q(Sel(<<C1(an), C1(<<"one", "one">>)>>, <<T("A"), T("one")>>)), <<One1>>),
    cteAgg |-> With(Q(Sel(<<C1(<<"s", "cnt">>)>>, <<[T("s") EXCEPT !.name = "s"]>>)),
                    <<[name |-> "s", q |-> Grouped]>>),
    noFrom |-> Q(Sel(<<>>, <<>>))]

MCQueryOf(id) == PlannedQueries[id]

OnA == {"scan", "group", "having", "global", "groupExpr", "window", "windowAll", "topN",
        "sorted", "sortedGroup", "cteOne", "cteAgg", "noFrom"}
InnerJoins == {"join", "joinWhere", "joinGroup", "joinOther", "join3", "topJoin"}
Shuffled == {"left", "full", "subJoin"}

Tables(id) == IF id \in OnA THEN {"A"} ELSE IF id = "join3" THEN {"A", "B", "C"} ELSE {"A", "B"}
CasesFor(ids, places(_), policies) ==
    UNION {[id : {id}, place : {pl \in [Tables(id) -> Places] : places(pl)}, policy : policies] :
             id \in ids}

NoReplica(pl) == \A t \in DOMAIN pl : pl[t] # "rep"
OneReplica(pl) == Cardinality({t \in DOMAIN pl : pl[t] = "rep"}) <= 1
Together(pl) == NoReplica(pl) /\ Range(Held(pl["A"])) = Range(Held(pl["B"]))

MCCases ==
    CasesFor(OnA \cup {"right", "cross", "union", "except"}, NoReplica, Policies)
    \cup CasesFor(InnerJoins, OneReplica, Policies)
    \cup CasesFor(Shuffled, NoReplica, {Policy("w1", 0, 1000)})
    \cup CasesFor({"unionAll", "topUnion"}, Together, Policies)
============================================================================
