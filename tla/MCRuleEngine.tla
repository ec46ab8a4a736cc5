---------------------------- MODULE MCRuleEngine ----------------------------
EXTENDS RuleEngine

None == [kind |-> "none", off |-> 0, tag |-> "", neg |-> FALSE]
At(o, t) == [kind |-> "at", off |-> o, tag |-> t, neg |-> FALSE]
NotAt(o, t) == [kind |-> "at", off |-> o, tag |-> t, neg |-> TRUE]
Var == [kind |-> "var", off |-> 0, tag |-> "", neg |-> FALSE]

Rule(y, t, test) ==
    [type |-> y, target |-> t, except |-> {}, test |-> test, new |-> "", old |-> "",
     to |-> 0, unsafe |-> FALSE, repeat |-> FALSE, section |-> 0]

AddRule(t, test, n) == [Rule("ADD", t, test) EXCEPT !.new = n]
Subst(o, n, test) == [Rule("SUBSTITUTE", o, test) EXCEPT !.old = o, !.new = n]
Minus(r, b) == [r EXCEPT !.except = {b}]
Unsafe(r) == [r EXCEPT !.unsafe = TRUE]
Repeat(r) == [r EXCEPT !.repeat = TRUE]
In(s, r) == [r EXCEPT !.section = s]
JumpTo(n, t, test) == [Rule("JUMP", t, test) EXCEPT !.to = n]

E == "<<<"
TheEndTag == "<<<"
TheTags == {"a", "b", "c", "d", E}

\* All grammars of n rules from a menu.
Grammar(n, menu) == [0..(n - 1) -> menu]

\* Windows of two cohorts with up to two readings over the tags a, b, c.
Ended(rs) == [i \in DOMAIN rs |-> rs[i] \cup {E}]
TwoCohorts ==
    {<<x, Ended(y)>> : x \in {<<{"a"}, {"b"}>>, <<{"b"}>>, <<{"c"}, {"b"}>>, <<{"a"}, {"a"}>>},
                       y \in {<<{"b"}, {"a", "c"}>>, <<{"b"}, {"c"}>>}}

\* Rules that settle: SELECT, REMOVE, IFF, ADD, SUBSTITUTE, DELIMIT, in two
\* sections, before and after them.
SettlingMenu ==
    {Rule("SELECT", "a", At(1, "b")), Rule("REMOVE", "a", NotAt(-1, "b")),
     In(1, Rule("REMOVE", "b", None)), Rule("IFF", "b", At(1, "a")),
     AddRule("b", None, "d"), In(1, Rule("SELECT", "c", At(-1, "c"))),
     Subst("b", "c", At(0, "a")), Subst("c", "b", None),
     Minus(Rule("REMOVE", "a", None), "d"), Repeat(Subst("c", "a", None)),
     Rule("DELIMIT", "c", None), In(-1, Unsafe(Rule("REMOVE", "a", None))),
     In(-2, AddRule("b", At(1, "a"), "a"))}

SettlingGrammars == Grammar(3, SettlingMenu)

\* Rules that undo each other, repeat themselves and cut the window; and jumps,
\* forwards and back, among rules that only ever remove.
LoopingMenu ==
    {Subst("a", "b", None), Subst("b", "a", None), Repeat(Subst("b", "c", None)),
     Repeat(Rule("REMCOHORT", "c", None)), In(1, Rule("SELECT", "b", None)),
     Rule("DELIMIT", "b", None)}
JumpingMenu ==
    {JumpTo(2, "b", None), JumpTo(1, "a", None), JumpTo(0, "c", At(-1, "a")),
     Rule("REMOVE", "b", At(1, "a")), Rule("SELECT", "a", None), Rule("REMCOHORT", "b", None),
     Rule("DELIMIT", "b", None), In(1, Rule("REMOVE", "a", None))}
LoopingGrammars == Grammar(3, LoopingMenu) \cup Grammar(3, JumpingMenu)

\* Protection against everything but IFF.
ProtectMenu ==
    {Rule("PROTECT", "a", None), In(1, Rule("UNPROTECT", "b", None)),
     Rule("PROTECT", "b", Var), Rule("SETVARIABLE", "a", At(1, "b")),
     Rule("REMVARIABLE", "b", None), Rule("REMOVE", "b", None),
     Rule("REMOVE", "a", None), Unsafe(Rule("REMOVE", "a", None)),
     Rule("SELECT", "b", None), AddRule("a", None, "c"), Subst("a", "b", None),
     Rule("DELIMIT", "a", None)}
ProtectGrammars == Grammar(3, ProtectMenu)
SettlingOrProtecting == SettlingGrammars \cup ProtectGrammars

\* Cohorts come and go.
CohortsMenu ==
    {Rule("REMCOHORT", "b", None), Rule("REMCOHORT", "a", At(-1, "c")),
     Rule("REMCOHORT", "<<<", At(-1, "a")), Rule("DELIMIT", "a", None), AddRule("<<<", None, "c"),
     Subst("b", "c", None), In(1, Rule("SELECT", "b", At(-1, "a"))),
     In(-1, Rule("REMOVE", "a", NotAt(1, "b")))}
CohortsGrammars == Grammar(3, CohortsMenu)
LoopingOrCohorts == LoopingGrammars \cup CohortsGrammars
ThreeCohorts == {<<x, y, Ended(z)>> : x \in {<<{"a"}>>, <<{"b"}, {"c"}>>},
                                      y \in {<<{"a"}>>, <<{"b"}>>, <<{"c"}>>},
                                      z \in {<<{"a"}, {"b"}>>, <<{"c"}>>, <<{"b"}>>}}
=============================================================================
