----------------------------- MODULE MCMatching -----------------------------
(***************************************************************************)
(* Windows of two cohorts with up to two readings, a sub-reading, three    *)
(* plain, two mapping and two numeric tags, and rules of every type with   *)
(* contextual tests, unified sets, a difference and <W=MAX>.               *)
(***************************************************************************)
EXTENDS Matching

List(paths) == [kind |-> "list", paths |-> paths, ff |-> {}]
Of(kind, parts, ops) == [kind |-> kind, parts |-> parts, ops |-> ops]

MCSetDef == [
    A     |-> List(<<<<"a">>>>),
    B     |-> List(<<<<"b">>>>),
    AthenC |-> List(<<<<"a", "c">>, <<"b">>>>),
    NotB  |-> [kind |-> "list", paths |-> <<<<"a">>, <<"c">>>>, ff |-> {"b"}],
    AminB |-> Of("set", <<"A", "B">>, <<"-">>),
    AorB  |-> Of("set", <<"A", "B">>, <<"OR">>),
    AandB |-> Of("set", <<"A", "B">>, <<"+">>),
    Guard |-> Of("set", <<"A", "B", "X">>, <<"^", "OR">>),
    Tag   |-> Of("$$", <<"AorB">>, <<>>),
    Top   |-> Of("&&", <<"AorB">>, <<>>),
    X     |-> List(<<<<"x">>>>),
    Most  |-> List(<<<<"W=MAX">>>>),
    Any   |-> [kind |-> "any"]]

MCComparison == ("W1" :> [op |-> "=", val |-> 1]) @@ ("W2" :> [op |-> "=", val |-> 2])
                @@ ("W=MAX" :> [op |-> "=", val |-> NumMax])

MCMappingTags == {"x", "y"}
MCSentTags == {"b"}

Rule(type, target, tests) ==
    [type |-> type, target |-> target, sub |-> 0, tests |-> tests, add |-> <<>>,
     maps |-> <<>>, remove |-> <<>>, spot |-> NoTag, after |-> FALSE]
Test(at, set) == [at |-> at, set |-> set, neg |-> FALSE, careful |-> FALSE, link |-> <<>>]
Not(test) == [test EXCEPT !.neg = TRUE]
All(test) == [test EXCEPT !.careful = TRUE]
Link(test, to) == [test EXCEPT !.link = <<to>>]

\* Unified sets in targets and tests, and tags that come and go
Unifying == <<
    Rule("REMOVE", "Tag", <<Test(1, "Tag")>>),
    Rule("REMOVE", "Top", <<All(Test(1, "Top"))>>),
    Rule("SELECT", "Top", <<Test(1, "Top")>>),
    Rule("SELECT", "Any", <<Link(Test(0, "Tag"), Test(1, "Tag"))>>),
    [Rule("SUBSTITUTE", "AandB", <<>>) EXCEPT !.remove = <<"b">>, !.add = <<"c">>],
    [Rule("COPY", "NotB", <<>>) EXCEPT !.remove = <<"a">>, !.add = <<"b">>, !.maps = <<"y">>]>>

\* Mapping tags and numeric tags
Mapped == <<
    [Rule("ADD", "AminB", <<>>) EXCEPT !.maps = <<"x", "y">>],
    [Rule("MAP", "AthenC", <<>>) EXCEPT !.add = <<"W2">>, !.maps = <<"x">>, !.spot = "c"],
    Rule("UNMAP", "X", <<>>),
    Rule("SELECT", "Most", <<Test(0, "Any")>>),
    [Rule("APPEND", "X", <<>>) EXCEPT !.add = <<"a", "b">>, !.maps = <<"x", "y">>]>>

\* Differences and other operators, and tags taken away
Differences == <<
    Rule("REMOVE", "AminB", <<Test(0, "AandB")>>),
    [Rule("SUBSTITUTE", "B", <<>>) EXCEPT !.remove = <<"b">>, !.add = <<"c">>],
    [Rule("ADD", "AminB", <<Not(Test(1, "AminB"))>>) EXCEPT !.add = <<"b">>, !.spot = "a"],
    [Rule("SUBSTITUTE", "B", <<>>) EXCEPT !.sub = 1, !.remove = <<"b", "c">>, !.add = <<"a">>],
    [Rule("REPLACE", "Guard", <<Test(1, "Guard")>>) EXCEPT !.add = <<"c">>, !.maps = <<"x">>]>>

MCGrammars == {Unifying, Mapped, Differences}

One(tags) == <<Reading(tags)>>

MCWindows == {
    << <<One(<<"a", "b">>), One(<<"b", "W1">>)>>, <<One(<<"a", "b">>), One(<<"a">>)>> >>,
    << <<One(<<"a", "W1">>), One(<<"b", "W2">>)>>, <<One(<<"b">>)>> >>,
    << << <<Reading(<<"a", "c">>), Reading(<<"c", "b", "y">>)>>,
          <<Reading(<<"a", "c", "x">>), Reading(<<"b", "x">>)>> >>,
       <<One(<<"a">>), One(<<"a", "c", "W1">>)>> >> }
=============================================================================
