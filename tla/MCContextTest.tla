--------------------------- MODULE MCContextTest ---------------------------
(* Small instances of ContextTest for TLC. *)
EXTENDS ContextMeaning, TLC

\* A cohort by its readings; the line of two windows over such cohorts.
Word(rs)  == [readings |-> rs, enclosed |-> FALSE]
Border    == Word(<<{">>>"}>>)
Enc(w)    == [w EXCEPT !.enclosed = TRUE]
InWin(n, cs) == [i \in DOMAIN cs |-> [win |-> n, readings |-> cs[i].readings,
                                      enclosed |-> cs[i].enclosed, parent |-> NoParent,
                                      children |-> {}, rels |-> <<>>]]
LineOf(v, w) == InWin(1, <<Border>> \o v) \o InWin(2, <<Border>> \o w)

None == Word(<<{"n"}>>)
A    == Word(<<{"a"}>>)
B    == Word(<<{"b"}>>)
AB   == Word(<<{"a"}, {"b"}>>)
NA   == Word(<<{"n"}, {"a", "b"}>>)
NB   == Word(<<{"n"}, {"b"}>>)
Words == {None, A, B, AB, NA}

\* Tests.
T(off, scan, set) ==
    [off |-> off, scan |-> scan, abs |-> FALSE, span |-> "none", self |-> FALSE, nb |-> FALSE,
     careful |-> FALSE, quant |-> "none", not |-> FALSE, negate |-> FALSE, origin |-> "none",
     mark |-> "none", target |-> set, barrier |-> NoSet, cbarrier |-> NoSet,
     dep |-> "none", rel |-> "none", side |-> "none", most |-> "none"]
Not(t) == [t EXCEPT !.not = TRUE]
Negate(t) == [t EXCEPT !.negate = TRUE]
C(t) == [t EXCEPT !.careful = TRUE]
S(t) == [t EXCEPT !.self = TRUE]
Span(s, t) == [t EXCEPT !.span = s]
Bar(t) == [t EXCEPT !.barrier = "b"]
CBar(t) == [t EXCEPT !.cbarrier = "b"]
O(t) == [t EXCEPT !.origin = "O"]
Past(t) == [t EXCEPT !.origin = "o"]
X(t) == [t EXCEPT !.mark = "X"]
FromX(t) == [t EXCEPT !.mark = "x"]
Abs(t) == [t EXCEPT !.abs = TRUE]
Quant(q, t) == [t EXCEPT !.quant = q]

\* First tests of a chain.
Firsts ==
    {T(1, "none", "a"), T(-1, "*", "a"), T(1, "**", "a"), T(0, "*", "a"), T(0, "**", "b"),
     C(T(1, "*", "a")), C(T(-1, "**", "a")), Bar(T(1, "*", "a")), CBar(T(-1, "**", "a")),
     Bar(T(0, "*", "a")), S(T(1, "none", "a")), S(Bar(T(-1, "*", "a"))),
     O(T(-1, "*", "b")), X(T(1, "**", "a")), X(T(0, "*", "a")), Abs(T(1, "none", "a")),
     Abs(T(-1, "*", "b")),
     Negate(T(1, "*", "a")), Negate(CBar(T(0, "**", "a"))), Not(T(-1, "none", "b"))}
\* Tests that count from a border of a window.
FromBorder ==
    {Bar(Abs(T(-1, "*", "a"))), S(Abs(T(1, "*", "b"))), S(Bar(Abs(T(-1, "*", "a")))),
     Bar(Abs(T(2, "**", "b"))), Abs(T(0, "*", "a")), Bar(Abs(T(0, "**", "b"))),
     Span("<", Abs(T(-1, "*", "a"))), Span("<", Abs(Bar(T(-2, "**", "a")))),
     Span(">", Abs(T(1, "none", "a"))), Span(">", Abs(Bar(T(1, "*", "a")))),
     Span("W", Abs(Bar(T(-1, "*", "n"))))}
\* Tests the parser lets no test be linked to.
Alone == {Not(T(1, "*", "a")), Quant("NONE", T(1, "*", "a")), Quant("NONE", T(-1, "none", "b"))}
\* Tests that span windows.
Spanning ==
    {Span("W", T(1, "*", "a")), Span("<", T(-1, "**", "b")), Span("W", Bar(T(-1, "*", "a"))),
     Span(">", T(1, "none", "a")), Span("<", T(0, "*", "a")), Span("W", T(0, "**", "n")),
     Span(">", C(T(1, "*", "b")))}
\* Tests linked to.
Links ==
    {T(1, "none", "b"), T(-1, "*", "b"), T(1, "**", "b"), O(T(0, "*", "b")), Past(T(1, "*", "b")),
     FromX(T(1, "*", "b")), Not(T(1, "*", "a")), C(T(0, "none", "a")), Negate(T(1, "none", "b")),
     Not(T(0, "none", "b")), X(T(0, "**", "n"))}
Chains ==
    {<<t>> : t \in Firsts \cup FromBorder \cup Spanning \cup Alone}
    \cup {<<t, u>> : t \in Firsts, u \in Links}
    \cup {<<O(T(1, "*", "a")), T(-1, "**", "b"), u>> : u \in Links}

LineCases ==
    [lines |-> {LineOf(<<u, v, w, x>>, <<A>>) :
                   u \in {A, B}, v \in Words, w \in {Enc(A), NB, NA}, x \in {AB, B}},
     chains |-> Chains, targets |-> {3}]

-----------------------------------------------------------------------------
(* Trees: a line of four words in one window, or two in each of two windows. *)

\* The line with the parents and relations given; roots are the children of the
\* last window's >>>.
WithTree(l, parent, rels) ==
    LET border == Max({i \in DOMAIN l : l[i].readings = Border.readings})
    IN  [i \in DOMAIN l |->
           [l[i] EXCEPT !.parent = parent[i], !.rels = IF i \in DOMAIN rels THEN rels[i] ELSE <<>>,
                        !.children = {j \in DOMAIN l : parent[j] = IF i = border THEN 0 ELSE i}]]
Lost == 9  \* a parent that is not there
Loop == <<NoParent, 3, 4, 2, Lost>>
OneWindow ==
    {<<NoParent, 3, 4, 5, 0>>, <<NoParent, 3, 0, 3, 3>>, <<NoParent, 4, 2, 0, 4>>,
     <<NoParent, 0, 2, 0, 4>>, Loop, <<NoParent, 5, 2, 2, 0>>}
TwoWindows == {<<NoParent, 0, 2, NoParent, 3, 2>>, <<NoParent, 5, 6, NoParent, 0, 5>>}

D(d, set) == [T(0, "none", set) EXCEPT !.dep = d]
Up(scan, set) == [T(0, scan, set) EXCEPT !.dep = "p"]
Rel(r, set) == [D("rel", set) EXCEPT !.rel = r]
L(t) == [t EXCEPT !.side = "l"]
R(t) == [t EXCEPT !.side = "r"]
LL(t) == [t EXCEPT !.most = "ll"]
RR(t) == [t EXCEPT !.most = "rr"]

TreeFirsts ==
    {D("p", "a"), Up("*", "a"), Up("**", "b"), D("pp", "a"), D("c", "a"), D("c*", "b"), D("cc", "a"),
     D("s", "a"), S(D("p", "b")), S(Up("*", "a")), S(D("c", "a")), S(D("c*", "a")), S(D("s", "a")),
     S(D("cc", "b")), L(D("c", "a")), R(D("c*", "a")), R(D("cc", "a")), L(RR(D("cc", "a"))),
     LL(D("pp", "a")), R(D("s", "b")), RR(D("c", "a")), Bar(D("c*", "a")), CBar(D("c*", "a")),
     Bar(Up("*", "a")), S(Bar(D("c*", "a"))), C(D("c", "a")), X(D("c", "a")), O(Up("**", "a")),
     Rel("r", "a"), Rel(AnyRelation, "b"), L(Rel("r", "a")), RR(Rel(AnyRelation, "a")),
     S(R(Rel("r", "b"))), LL(R(Rel("r", "b"))), L(D("p", "a")), S(L(D("p", "a"))), C(D("cc", "a")),
     RR(D("cc", "b")), Negate(D("c*", "a")), Negate(Rel("r", "b"))}
TreeAlone ==
    {Quant("NONE", D("c", "a")), Quant("ALL", D("c", "a")), Quant("ALL", D("s", "a")),
     Quant("NONE", D("cc", "a")), Quant("NONE", D("p", "a")), Quant("NONE", Rel("r", "a")),
     Quant("ALL", Rel(AnyRelation, "b")), Not(D("p", "b"))}
TreeLinks ==
    {T(1, "none", "b"), D("p", "a"), D("c", "b"), D("c*", "b"), D("s", "b"), Rel("r", "b"), D("cc", "b"),
     Past(Up("*", "b")), FromX(T(-1, "none", "n"))}
TreeSingles == {<<t>> : t \in TreeFirsts \cup TreeAlone}
TreePairs ==
    {<<t, u>> : t \in {D("p", "a"), Up("*", "a"), X(D("c", "a")), D("c*", "a"), R(D("cc", "a")),
                       S(D("s", "a")), O(Up("**", "a")), Rel("r", "a"), D("pp", "a")}, u \in TreeLinks}
    \cup {<<T(1, "**", "a"), D("c*", "b")>>, <<T(0, "**", "b"), D("pp", "a")>>}
Wide == {Span("W", t) : t \in {D("p", "a"), Up("*", "a"), D("pp", "b"), D("c", "a"), D("c*", "a"),
                               D("cc", "b"), D("s", "a")}}
SomeRels == (2 :> [r |-> {4, 5}, q |-> {3}]) @@ (4 :> [r |-> {2, Lost}])
OneTree(us, vs, ws, xs, ps) ==
    {WithTree(InWin(1, <<Border, u, v, w, x>>), p, SomeRels) :
        u \in us, v \in vs, w \in ws, x \in xs, p \in ps}
TwoTrees ==
    {WithTree(LineOf(<<u, v>>, <<w, x>>), p, <<>>) :
        u \in {None, B}, v \in {A, NB}, w \in {A, AB}, x \in {B, A}, p \in TwoWindows}
TreeCases ==
    {[lines |-> OneTree({None, B}, {A, NB}, {A, AB}, {B, A}, OneWindow),
      chains |-> {c \in TreeSingles : ~ Sided(c[1])}, targets |-> {2, 4}],
     [lines |-> OneTree({None, B}, {A, NB}, {A, AB}, {B, A}, OneWindow \ {Loop}),
      chains |-> TreeSingles, targets |-> {2, 4}],
     [lines |-> OneTree({None, B}, {A}, {A, AB}, {B}, OneWindow),
      chains |-> {c \in TreePairs : ~ Sided(c[1])}, targets |-> {2}],
     [lines |-> OneTree({None, B}, {A}, {A, AB}, {B}, OneWindow \ {Loop}),
      chains |-> TreePairs, targets |-> {2}],
     [lines |-> TwoTrees,
      chains |-> {<<t>> : t \in Wide} \cup {<<t, D("c", "a")>> : t \in Wide}
                 \cup {<<D(d, "a")>> : d \in {"p", "pp", "c", "cc", "s"}},
      targets |-> {2}]}

MCCases == {LineCases} \cup TreeCases
=============================================================================
