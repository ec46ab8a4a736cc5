------------------------------ MODULE MCGrammar ------------------------------
(***************************************************************************)
(* Grammars for GrammarToolchain: each family asks one question of the     *)
(* toolchain, with every combination of the statements in its menus.       *)
(***************************************************************************)
EXTENDS GrammarToolchain

MCTagSeq == <<"*", "a", "b", "c", "^a", "^c", "<n>", "vs", "@m", "<w>", "_LEFT_", "_RIGHT_">>
MCSpecialTags == {"^a", "^c", "<n>", "vs", "_LEFT_", "_RIGHT_"}
MCFailFast == {"^a", "^c"}
MCNumerical == {"<n>"}
MCVarstring == {"vs"}
MCHits == ("^a" :> {"a"}) @@ ("^c" :> {"c"}) @@ ("<n>" :> {"c"}) @@ ("vs" :> {"b"})
          @@ ("_LEFT_" :> {}) @@ ("_RIGHT_" :> {})
MCStrictOption == [t \in Tags |-> IF t \in {"*", "_LEFT_", "_RIGHT_"} THEN "never"
                                  ELSE IF t = "<w>" THEN "STRICT_WFORMS" ELSE ""]
MCMagicTags == <<"_LEFT_", "_RIGHT_">>
MCVarSets == "vs" :> <<"A">>
MCRegexpLine == {}
MCFirstChar == [t \in Tags |-> IF t = "@m" THEN "@" ELSE "x"]
MCReadings == SUBSET {"a", "b", "c"}

----------------------------------------------------------------------------
(* Statements                                                               *)

Name(n) == [unify |-> "", name |-> n]
Uni(u, n) == [unify |-> u, name |-> n]
Inline(ts) == [tags |-> ts]
One(item) == [items |-> <<item>>, ops |-> <<>>]
Two(a, op, b) == [items |-> <<a, b>>, ops |-> <<op>>]
Three(a, o, b, p, d) == [items |-> <<a, b, d>>, ops |-> <<o, p>>]

LISTs(n, contents) == {[kind |-> "LIST", name |-> n, tags |-> e] : e \in contents}
SETs(n, exprs) == {[kind |-> "SET", name |-> n, expr |-> e] : e \in exprs}
Head1(k) == [kind |-> k, anchor |-> ""]

Rule(k, target, tests) ==
    [kind |-> k, wordform |-> "", name |-> "", flags |-> {}, sub |-> "0", command |-> "", how |-> "",
     child |-> <<>>, sublist |-> <<>>, maplist |-> <<>>, where |-> "", with |-> "", target |-> target,
     tests |-> tests, to |-> "", child2 |-> <<>>, dep_tests |-> <<>>]

Blank == [mods |-> {}, kind |-> "test", letters |-> <<>>, digits |-> TRUE, offset |-> 1, relation |-> "",
          target |-> One(Name("A")), tmpl |-> "", ors |-> <<>>, seq |-> <<>>, barrier |-> <<>>,
          cbarrier |-> <<>>, link |-> <<>>]
T(n) == [Blank EXCEPT !.target = One(Name(n))]
TLink(t, u) == [t EXCEPT !.link = <<u>>]

----------------------------------------------------------------------------
(* What sets mean: two lists, a set of them and a rule on it.               *)

A == Name("A")    B == Name("B")    C == Name("C")    D == Name("D")
Sets ==
    << LISTs("A", {<<{"a"}>>, <<{"a"}, {"b"}>>, <<{"a", "b"}>>, <<{"a"}, {"^c"}>>, <<{"<n>"}>>}),
       LISTs("B", {<<{"b"}>>, <<{"b"}, {"c"}>>, <<{"b", "c"}, {"a"}>>, <<{"c"}, {"^a"}>>, <<{"c"}>>}),
       SETs("C", {Two(A, op, B) : op \in {"OR", "+", "-", "^"} }
                 \cup {Three(A, "OR", B, op, Inline(<<"c">>)) : op \in {"OR", "-", "^"}}
                 \cup {Three(A, op, B, "OR", Inline(<<"a">>)) : op \in {"^", "-"}}
                 \cup {One(A), One(Uni("$$", "A"))}),
       {Rule("SELECT", One(C), <<>>), Rule("SELECT", One(Uni("$$", "C")), <<>>),
        Rule("REMOVE", Two(B, "-", C), <<>>), Rule("REMOVE", One(Inline(<<"b", "a">>)), <<>>)} >>
SetOperators ==
    << LISTs("A", {<<{"a"}, {"b"}>>, <<{"a", "b"}>>}),
       LISTs("B", {<<{"b"}>>, <<{"b"}, {"c"}>>, <<{"a", "b"}>>}),
       SETs("C", {Two(A, op, B) : op \in SetOps}),
       {Rule("SELECT", One(C), <<>>)} >>

----------------------------------------------------------------------------
(* What tests mean: templates, links, alternatives, barriers and f tests,   *)
(* shared between two rules.                                                *)

Tmpl(n, t) == [kind |-> "TEMPLATE", name |-> n, test |-> t]
Refer(n) == [Blank EXCEPT !.kind = "tmpl", !.tmpl = n, !.offset = 0]
At(letters, t) == [t EXCEPT !.letters = letters]
Or(ts) == [Blank EXCEPT !.kind = "ors", !.ors = ts, !.offset = 0]
Seq2(e, f) == [Blank EXCEPT !.kind = "seq", !.seq = <<e, f>>, !.offset = 0]
Not(t) == [t EXCEPT !.mods = {"NOT"}]
Until(t, n) == [t EXCEPT !.barrier = <<One(Name(n))>>]
UntilC(t, n) == [t EXCEPT !.cbarrier = <<One(Name(n))>>]
Far(n) == At(<<"*">>, T(n))

SomeTests ==
    {T("A"), At(<<"f">>, T("N")), Not(TLink(T("A"), At(<<"f">>, T("N")))), Until(Far("A"), "B"),
     UntilC(Far("B"), "A"), Until(T("A"), "B"), Refer("t"), TLink(Refer("t"), T("B")),
     [At(<<"C">>, Blank) EXCEPT !.tmpl = "t"], Or(<<T("A"), Not(T("B"))>>), TLink(Or(<<T("A"), Refer("t")>>), T("A")),
     Seq2(One(A), One(B)), TLink(Seq2(One(A), One(B)), Far("A")), At(<<"c", "*">>, [T("A") EXCEPT !.digits = FALSE])}
Given(s) == {s}
LookAhead(r, on) == IF on THEN [r EXCEPT !.flags = {"LOOKDELETED"}] ELSE r
Tests ==
    << LISTs("A", {<<{"a"}>>}), LISTs("B", {<<{"b"}>>}), LISTs("N", {<<{"b"}, {"<n>"}>>, <<{"a", "<n>"}>>}),
       {Tmpl("t", T("A")), Tmpl("t", TLink(Far("B"), T("A"))), Tmpl("t", Or(<<T("A"), T("B")>>))},
       {Rule("SELECT", One(A), <<t>>) : t \in SomeTests},
       {LookAhead(Rule("REMOVE", One(B), <<t, T("A")>>), t = T("A")) : t \in SomeTests} >>
\* The other end of a dependency, and a template that is defined after its use.
Parents ==
    << LISTs("A", {<<{"a"}>>}), LISTs("B", {<<{"b"}>>}),
       {[Rule("SETPARENT", One(A), ts) EXCEPT !.to = to, !.dep_tests = ds] :
            ts \in {<<>>, <<Far("A")>>}, to \in {"TO", "FROM"}, ds \in {<<Far("B")>>, <<Refer("t"), T("A"), T("B")>>}},
       {Tmpl("t", T("B")), Tmpl("u", T("B"))} >>

----------------------------------------------------------------------------
(* Where rules belong: headings, included texts, ends, and errors.          *)

Select(n) == Rule("SELECT", One(Name(n)), <<T("A")>>)
Include(t) == [kind |-> "INCLUDE", text |-> t]
End == [kind |-> "END"]
Anchor(n) == [kind |-> "ANCHOR", anchor |-> n]
Structure ==
    << LISTs("A", {<<{"a"}>>}),
       {Select("A"), Head1("SECTION"), Head1("AFTER-SECTIONS"), Anchor("x")},
       {Select("A"), Head1("NULL-SECTION"), Include(<<Head1("SECTION"), Select("A")>>), End},
       {[Select("A") EXCEPT !.name = "x"], Include(<<Select("A"), End, Select("A")>>), Anchor("x"), Select("Z"), [kind |-> "GARBAGE"]},
       {Select("A"), Head1("BEFORE-SECTIONS"), End},
       {Select("A")} >>

----------------------------------------------------------------------------
(* Tags that bind: unified sets and varstrings, in tests linked to others.  *)

Mapped(k, n) == [Rule(k, One(A), <<>>) EXCEPT !.maplist = <<One(n)>>]
Binding ==
    << LISTs("A", {<<{"a"}, {"b"}>>}), LISTs("B", {<<{"b"}>>, <<{"vs"}, {"b"}>>}), LISTs("M", {<<{"@m"}>>}),
       {Tmpl("t", T("B")), Tmpl("t", [T("A") EXCEPT !.target = One(Uni("$$", "A"))])},
       SETs("D", {Two(A, "-", Uni("$$", "B")), Two(A, "+", B)}),
       {Rule("SELECT", One(Name("A")), <<t>>) :
            t \in {T("D"), Until(Far("A"), "D"), TLink(T("A"), T("D")), Refer("t"), T("B"), TLink(T("A"), Refer("t"))}}
       \cup {Mapped("MAP", Name("M")), Mapped("ADD", Uni("$$", "A"))} >>

----------------------------------------------------------------------------
(* The rest of the statements, one after the other.                         *)

Names(k, n) == [kind |-> k, names |-> n]
TagsOf(k, t) == [kind |-> k, tags |-> t]
Opt(o) == [kind |-> "OPTIONS", options |-> o]
Settings ==
    << {TagsOf("DELIMITERS", <<{"<w>"}>>)}, {TagsOf("SOFT-DELIMITERS", <<{"c"}>>), TagsOf("DELIMITERS", <<{"c"}>>)},
       {[kind |-> "MAPPING-PREFIX", prefix |-> "x"], [kind |-> "SUBREADINGS", ltr |-> TRUE], TagsOf("PREFERRED-TARGETS", <<"a">>)},
       {TagsOf("REOPEN-MAPPINGS", <<"@m">>), TagsOf("LIST-TAGS", <<"a", "b">>), [kind |-> "PARENTHESES", pairs |-> <<<<"a", "b">>>>]},
       {TagsOf("STRICT-TAGS", <<"a", "b", "<w>">>), Opt({"NO_ISETS"}), Opt({"STRICT_WFORMS", "NO_ITMPLS"}), Opt({"bad"})},
       LISTs("A", {<<{"a"}>>, <<{"c"}>>, <<{"a"}, {"a"}>>}),
       {Names("STATIC-SETS", <<"A">>)}, {Rule("PROTECT", One(Inline(<<"a">>)), <<>>), Select("A"), Rule("SELECT", One(A), <<Or(<<T("A")>>)>>),
        Rule("SELECT", One(Name("a")), <<>>), Rule("SELECT", One(Name("c")), <<>>)} >>

----------------------------------------------------------------------------
(* Every kind of rule, some of them against the rules of the language.      *)

AllSets(k) == [Mapped(k, B) EXCEPT !.sublist = <<One(A)>>, !.to = "TO", !.tests = <<Far("A"), T("B")>>,
                                   !.dep_tests = IF k \in Directed THEN <<Far("B"), T("A")>> ELSE <<>>]
Flagged(r, fs) == [r EXCEPT !.flags = fs]
Kinds ==
    << LISTs("A", {<<{"a"}>>, <<{"a"}, {"^c"}>>}), LISTs("B", {<<{"b"}, {"c"}>>, <<{"b"}, {"b", "c"}>>}),
       {Head1("SECTION"), Head1("CORRECTIONS")},
       {AllSets(k) : k \in ReadingRules \cup CohortRules}
       \cup {[AllSets("EXTERNAL") EXCEPT !.how = "ONCE", !.command = "c"], [AllSets("ADDCOHORT") EXCEPT !.where = "AFTER"],
             [AllSets("MOVE") EXCEPT !.to = "BEFORE", !.child2 = <<One(B)>>], [AllSets("SWITCH") EXCEPT !.to = "WITH"],
             [AllSets("MERGECOHORTS") EXCEPT !.to = "WITH"], [AllSets("SETPARENT") EXCEPT !.with = "WITHCHILD", !.child = <<One(A)>>],
             [AllSets("MAP") EXCEPT !.where = "BEFORE", !.child = <<One(B)>>], [AllSets("COPY") EXCEPT !.sub = "*"]}
       \cup {Flagged(Select("A"), fs) : fs \in {{"SAFE", "UNSAFE"}, {"WITHCHILD"}, {"UNMAPLAST"}, {"ENCL_INNER"},
                                                {"ENCL_INNER", "ENCL_ANY"}, {"DELAYED", "ITERATE"}, {"LOOKDELAYED"}}},
       {Select("B"), [Mapped("REPLACE", A) EXCEPT !.wordform = "<w>"]} >>

MCFamilies == {Sets, SetOperators, Tests, Parents, Structure, Binding, Settings, Kinds}

\* An OR of two lists of which one is a part of the other.
OrFamilies ==
    { << LISTs("A", {<<{"a", "b"}>>}), LISTs("B", {<<{"a"}>>}), SETs("C", {Two(A, "OR", B)}),
         {Rule("SELECT", One(C), <<>>), Rule("REMOVE", One(C), <<>>)} >>,
      << LISTs("A", {<<{"b"}, {"a", "b"}>>}), LISTs("B", {<<{"c"}>>}), SETs("C", {Two(A, "OR", B)}),
         {Rule("SELECT", One(C), <<>>)} >> }
=============================================================================
