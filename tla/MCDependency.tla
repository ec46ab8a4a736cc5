---------------------------- MODULE MCDependency ----------------------------
(* Small instances of Dependency for TLC. *)
EXTENDS Dependency

Rule(makes, scan, dir, spans) ==
    [makes |-> makes, scan |-> scan, dir |-> dir, spans |-> spans,
     nearest |-> FALSE, allowloop |-> FALSE, allowcross |-> FALSE]

\* Attaching to a cohort on either side, inside a window.
WindowRules == {Rule("parent", TRUE, "left", FALSE), Rule("parent", TRUE, "right", FALSE),
                [Rule("child", FALSE, "right", FALSE) EXCEPT !.nearest = TRUE]}
\* Attaching across windows.
SpanRules == {Rule("parent", TRUE, "left", TRUE), Rule("child", TRUE, "right", TRUE)}
AllRules == WindowRules \cup SpanRules

\* "a chain, the last one takes the children" (the default), and c->2 2->p.
Chain == [link |-> <<0, 1>>, tail |-> 2]
HeadLast == [link |-> <<2, 0>>, tail |-> 1]
SomeRecipes == {Chain, HeadLast}
NoRecipes == {}
NoTags == {}
OneTag == {2}
=============================================================================
