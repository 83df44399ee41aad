----------------------------- MODULE MCRewrite ------------------------------
(***************************************************************************)
(* Statements over two datasets with a row for each of six days, S by its  *)
(* time column t and U by u: every WHERE of two predicates, and some of    *)
(* three, in eight shapes of statement.  MCStatements are those the        *)
(* transformation is made for; MCSharedRange adds one it is not.           *)
(***************************************************************************)
EXTENDS QueryRewrite

MCTimeColumn == [S |-> "t", U |-> "u"]
MCContent ==
    [S |-> {[t |-> i, x |-> DayOf(i) % 2] : i \in InstantsPerDay..(7 * InstantsPerDay - 1)},
     U |-> {[u |-> InstantsPerDay * d, y |-> d] : d \in {2, 4, 6}},
     P |-> {[p |-> 1]}]

----------------------------------------------------------------------------
Cmp(q, c, rel, b) == [op |-> "cmp", ref |-> <<q, c>>, rel |-> rel, bound |-> b, rev |-> FALSE]
CmpRev(q, c, rel, b) == [Cmp(q, c, rel, b) EXCEPT !.rev = TRUE]
Between(q, c, a, b) == [op |-> "between", ref |-> <<q, c>>, lo |-> a, hi |-> b]
Both(op, a, b) == [op |-> op, l |-> a, r |-> b]
Unary(op, e) == [op |-> op, e |-> e]
Same(a, b) == [op |-> "same", ref |-> a, other |-> b]
Exists(q) == [op |-> "exists", q |-> q]
Computed(d) == [kind |-> "expr", at |-> d]

(* Predicates on S under the name s, one on another column. *)
Atoms(s) ==
    {Cmp(s, "t", ">=", Literal(3)), Cmp(s, "t", ">", Literal(2)), Cmp(s, "t", "<", Literal(3)),
     CmpRev(s, "t", "<", Literal(4)), CmpRev(s, "t", ">=", Literal(4)), Cmp(s, "t", "<=", Literal(4)),
     Cmp(s, "t", "=", Literal(5)), Between(s, "t", Literal(2), Literal(4)),
     Cmp(s, "t", "<>", Literal(3)), Cmp(s, "t", ">=", Computed(5)), Cmp(s, "x", "=", Literal(1)),
     [op |-> "in", ref |-> <<s, "t">>, bounds |-> {Literal(1), Literal(4)}],
     Between(s, "t", Literal(5), Literal(2))}
Few(s) == {Cmp(s, "t", ">=", Literal(3)), Cmp(s, "t", "<=", Literal(4)),
           Cmp(s, "t", "=", Literal(5)), Cmp(s, "x", "=", Literal(1))}

Wheres(s) ==
    {NoExpr} \cup Atoms(s) \cup {Unary("not", a) : a \in Atoms(s)}
    \cup {Both(op, a, b) : op \in {"and", "or"}, a \in Atoms(s), b \in Atoms(s)}
    \cup {Both("and", Unary("nested", Both("or", a, b)), Unary("not", c)) : a, b, c \in Few(s)}
    \cup {Both("or", Both("and", a, b), c) : a, b, c \in Few(s)}

(* Parameters: bounds that need no day added, joined by AND. *)
ParameterWheres ==
    {Both("and", Cmp("", "t", ">=", Parameter(1)), e) :
        e \in {Cmp("", "t", "<", Parameter(2)), Cmp("", "t", "<", Literal(5)),
               Cmp("", "t", ">=", Literal(4)), CmpRev("", "t", ">", Parameter(2))}}

----------------------------------------------------------------------------
Tab(n, a) == [kind |-> "table", name |-> n, alias |-> a, on |-> NoExpr]
Sub(q, a) == [kind |-> "derived", q |-> q, alias |-> a, on |-> NoExpr]
Parens(from) == [kind |-> "nested", from |-> from, on |-> NoExpr]
JoinOn(f, e) == [f EXCEPT !.on = e]
SelectQ(from, where, items) ==
    [with |-> <<>>, rec |-> FALSE,
     body |-> [kind |-> "select", from |-> from, where |-> where, items |-> items]]
Body(q) == q.body
Simple(n, where) == SelectQ(<<Tab(n, "")>>, where, <<>>)
WithCte(n, cte, q) == [q EXCEPT !.with = <<[name |-> n, q |-> cte]>>]
SetOp(a, b) == [with |-> <<>>, rec |-> FALSE, body |-> [kind |-> "setop", l |-> Body(a), r |-> Body(b)]]
Wrapped(q) == [with |-> <<>>, rec |-> FALSE, body |-> [kind |-> "query", q |-> q]]

SomeU == Simple("U", Cmp("", "u", ">=", Literal(4)))
Plain(where) == {SelectQ(<<Tab("S", "")>>, where, <<Exists(SomeU)>>),
                 SetOp(Simple("S", where), Simple("S", Cmp("", "t", "=", Literal(1)))),
                 Wrapped(Simple("S", where)),
                 SelectQ(<<Sub(Simple("S", Cmp("", "t", "<", Literal(5))), "d")>>, where, <<>>),
                 WithCte("c", Simple("S", Cmp("", "t", "<", Literal(5))), Simple("c", where))}
Aliased(where) ==
    {SelectQ(<<Tab("S", "s")>>, where, <<>>),
     SelectQ(<<Tab("S", "s"), JoinOn(Tab("U", "v"), Same(<<"s", "t">>, <<"v", "u">>))>>, where, <<>>),
     SelectQ(<<Parens(<<Tab("S", "s"), JoinOn(Tab("U", "v"), Cmp("v", "u", "<=", Literal(4)))>>)>>,
             where, <<>>)}
Others ==
    {SelectQ(<<Tab("S", "s"), Tab("U", "v")>>, Both(op, Cmp("s", "t", ">=", Literal(4)), e), <<>>) :
        op \in {"and", "or"}, e \in {Cmp("v", "u", "<", Literal(4)), Cmp("", "u", "=", Literal(4)),
                                     Exists(Simple("P", NoExpr))}}
    \cup {Simple("S", Unary("case", Exists(SomeU))), Simple("P", NoExpr),
          [WithCte("c", SomeU, Simple("S", Cmp("", "t", ">", Literal(2)))) EXCEPT !.rec = TRUE],
          Simple("S", Both("and", Cmp("", "t", ">", Literal(2)), Exists([SomeU EXCEPT !.rec = TRUE])))}

NoParams == <<0, 0>>
Asked(qs, params) == [q : qs, params : params, entry : {"ldp", "flight"}]
MCStatements ==
    Asked(UNION {Plain(w) : w \in Wheres("")} \cup UNION {Aliased(w) : w \in Wheres("s")} \cup Others,
          {NoParams})
    \cup Asked({Simple("S", w) : w \in ParameterWheres}, (1..6) \X (1..6))

(* Rows of the first days are asked for in the subquery, of later ones     *)
(* outside: WHERE t >= 3 AND EXISTS (SELECT ... FROM S z WHERE z.t < 3).   *)
MCSharedRange ==
    Asked({Simple("S", Both("and", Cmp("", "t", ">=", Literal(3)),
                 Exists(SelectQ(<<Tab("S", "z")>>, Cmp("z", "t", "<", Literal(3)), <<>>))))},
          {NoParams})
=============================================================================
