---------------------------- MODULE ContextTests ----------------------------
(***************************************************************************)
(* The contextual tests of a grammar: the parsing of one test and of what  *)
(* hangs on it, the table in which equal tests become one, and the         *)
(* rewriting of f tests (TextualParser, Grammar::addContextualTest,        *)
(* ContextualTest).                                                        *)
(*                                                                         *)
(* Tests live in the heap of the grammar and are known by their place in   *)
(* it, 0 being none.  The hash under which a test is kept is that of its   *)
(* contents when it was added: "key", with "now" for the contents it has.  *)
(***************************************************************************)
EXTENDS GrammarSets

NoTest == 0
Bare == [pos |-> {}, offset |-> 0, target |-> NoSet, relation |-> "", barrier |-> NoSet,
         cbarrier |-> NoSet, tmpl |-> "", linked |-> NoTest, ors |-> <<>>]

\* Grammar::addContextualTest: of tests with the hash of this one, the equal
\* one is kept; otherwise the test is added.  What is linked to it and OR'ed in
\* it has been added before.
addKeyed(g, key, t) ==
    LET equal == {i \in DOMAIN g.heap : g.heap[i].key = key /\ g.heap[i].now = t}
    IN  IF equal # {} THEN Returning(g, CHOOSE i \in equal : TRUE)
        ELSE Returning([g EXCEPT !.heap = Append(@, [key |-> key, now |-> t, bound |-> NoTest])],
                       Len(g.heap) + 1)
addContextualTest(g, t) == addKeyed(g, t, t)

----------------------------------------------------------------------------
(* Positions.  A test as written is a record: mods (NEGATE, ALL, NONE, NOT), *)
(* kind, and with kind "test" the letters of its position, an offset if      *)
(* digits were given, a relation and its target or template; "seq" is the    *)
(* shorthand [A, B], "ors" the inline template, "tmpl" a reference.          *)

\* What a letter does to the position.
Adds == ("**" :> "SCANALL") @@ ("*" :> "SCANFIRST") @@ ("C" :> "CAREFUL")
        @@ ("c" :> "DEP_CHILD") @@ ("cc" :> "DEP_GLOB") @@ ("p" :> "DEP_PARENT")
        @@ ("s" :> "DEP_SIBLING") @@ ("S" :> "SELF") @@ ("N" :> "NO_BARRIER")
        @@ ("<" :> "SPAN_LEFT") @@ (">" :> "SPAN_RIGHT") @@ ("W" :> "SPAN_BOTH")
        @@ ("@" :> "ABSOLUTE") @@ ("O" :> "NO_PASS_ORIGIN") @@ ("o" :> "PASS_ORIGIN")
        @@ ("L" :> "LEFT_PAR") @@ ("R" :> "RIGHT_PAR") @@ ("X" :> "MARK_SET")
        @@ ("x" :> "MARK_JUMP") @@ ("D" :> "LOOK_DELETED") @@ ("d" :> "LOOK_DELAYED")
        @@ ("A" :> "ATTACH_TO") @@ ("w" :> "WITH") @@ ("?" :> "UNKNOWN")
        @@ ("f" :> "NUMERIC_BRANCH") @@ ("B" :> "BAG_OF_TAGS") @@ ("r:" :> "RELATION")
        @@ ("r" :> "RIGHT") @@ ("l" :> "LEFT") @@ ("rr" :> "RIGHTMOST") @@ ("ll" :> "LEFTMOST")
Letter(pos, l) ==
    CASE l = "pp" -> pos \cup {"DEP_PARENT", "DEP_GLOB"}
      [] l = "cc" -> (pos \ {"DEP_CHILD"}) \cup {"DEP_GLOB"}
      [] l = "rr" -> (pos \ {"RIGHT"}) \cup {"RIGHTMOST"}
      [] l = "ll" -> (pos \ {"LEFT"}) \cup {"LEFTMOST"}
      [] OTHER    -> pos \cup {Adds[l]}

\* SELF-NO-BARRIER turns the meaning of N on S around; a scan of children or
\* siblings is a deep one.
Turned(g, pos) ==
    IF "SELF_NO_BARRIER" \in g.options /\ "SELF" \in pos
    THEN IF "NO_BARRIER" \in pos THEN pos \ {"NO_BARRIER"} ELSE pos \cup {"NO_BARRIER"}
    ELSE pos
Deepened(pos) ==
    IF pos \cap {"DEP_CHILD", "DEP_SIBLING"} # {} /\ pos \cap {"SCANFIRST", "SCANALL"} # {}
    THEN (pos \ {"SCANFIRST", "SCANALL"}) \cup {"DEP_DEEP"}
    ELSE pos

Spans == {"SPAN_BOTH", "SPAN_LEFT", "SPAN_RIGHT"}
BadPosition(a, pos) ==
    \/ a.letters = <<"o">> /\ ~a.digits
    \/ a.letters = <<"O">> /\ ~a.digits
    \/ a.digits /\ pos \cap {"DEP_CHILD", "DEP_SIBLING", "DEP_PARENT", "LEFT_PAR", "RIGHT_PAR", "RELATION"} # {}
    \/ "BAG_OF_TAGS" \in pos /\ (a.digits \/ ~(pos \subseteq {"BAG_OF_TAGS", "NOT", "NEGATE"} \cup Spans))
    \/ "DEP_PARENT" \in pos /\ "DEP_GLOB" \notin pos /\ pos \cap {"LEFTMOST", "RIGHTMOST"} # {}
    \/ {"PASS_ORIGIN", "NO_PASS_ORIGIN"} \subseteq pos
    \/ {"LEFT_PAR", "RIGHT_PAR"} \subseteq pos
    \/ {"ALL", "NONE"} \subseteq pos
    \/ "UNKNOWN" \in pos /\ (pos # {"UNKNOWN"} \/ a.digits)

Positioned(g, a, pos) ==
    Then(Require([g EXCEPT !.has_bag_of_tags = @ \/ "BAG_OF_TAGS" \in pos,
                           !.tags = IF a.relation = "" THEN @ ELSE @ \cup {a.relation}],
                 ~BadPosition(a, pos)),
         LAMBDA k : Returning([k EXCEPT !.has_dep = @ \/ pos \cap {"DEP_CHILD", "DEP_PARENT", "DEP_SIBLING"} # {},
                                        !.has_relations = @ \/ "RELATION" \in pos],
                              [Bare EXCEPT !.pos = pos, !.offset = a.offset, !.relation = a.relation]))
parseContextualTestPosition(g, a) ==
    Positioned(g, a, Deepened(Turned(g, FoldLeft(Letter, a.mods, a.letters))))

----------------------------------------------------------------------------
(* Tests.  flags are those of the rule, none in a template.                 *)

Scans == {"SCANFIRST", "SCANALL", "DEP_DEEP", "DEP_GLOB"}
LookFlags(flags) == (IF "LOOKDELETED" \in flags THEN {"LOOK_DELETED"} ELSE {})
                    \cup (IF "LOOKDELAYED" \in flags THEN {"LOOK_DELAYED"} ELSE {})

\* The set of a part of a test that it may lack.
Optional(g, expr) == IF expr = <<>> THEN Returning(g, NoSet) ELSE parseSetInlineWrapper(g, expr[1])

\* The position, the target or template, and the barriers, which are dropped
\* from a test that does not scan.
WithSets(test, sets, stops) ==
    [test EXCEPT !.target   = sets[1],
                 !.cbarrier = IF stops THEN sets[2] ELSE NoSet,
                 !.barrier  = IF stops THEN sets[3] ELSE NoSet]
ParseSets(g, a, test) ==
    Then(ForEach(g, <<IF a.tmpl = "" THEN <<a.target>> ELSE <<>>, a.cbarrier, a.barrier>>, Optional),
         LAMBDA k : Returning(k, WithSets(test, k.ret, test.pos \cap (Scans \cup {"SELF"}) # {})))
ParsePlain(g, a) ==
    Then(IF a.kind = "tmpl" THEN Returning(g, [Bare EXCEPT !.pos = a.mods])
         ELSE parseContextualTestPosition(g, a),
         LAMBDA k : ParseSets(k, a, [k.ret EXCEPT !.tmpl = a.tmpl,
                        !.pos = @ \cup IF a.kind = "test" /\ a.tmpl # "" THEN {"TMPL_OVERRIDE"} ELSE {}]))

\* Linked one to the other from the last, which has the flags of the rule; the
\* first has the modifiers.
AddSeq(g, mods, look, sets, link) ==
    LET n == Len(sets)
        at(i) == [Bare EXCEPT !.pos = (IF i = 1 THEN mods ELSE {}) \cup (IF i = n THEN look ELSE {}),
                              !.offset = 1, !.target = sets[i]]
        step(acc, i) == addContextualTest(acc, [at(n + 1 - i) EXCEPT !.linked = acc.ret])
    IN  FoldLeft(step, Returning(g, link), [i \in 1 .. n |-> i])

RECURSIVE parseContextualTestList(_, _, _)

\* The test itself: the sets of a "seq", otherwise a test that nothing is linked to
parseBody(g, a, flags) ==
    CASE a.kind = "ors" -> IF "NO_ITMPLS" \in g.options THEN Error(g)
                           ELSE ForEach(g, a.ors, LAMBDA k, x : parseContextualTestList(k, x, flags))
      [] a.kind = "seq" -> ForEach(g, a.seq, parseSetInlineWrapper)
      [] OTHER          -> ParsePlain(g, a)

\* LINK does not go with a NONE test.
IsNone(a) == "NONE" \in a.mods /\ ~(a.kind = "seq" /\ Len(a.seq) > 1)
parseLink(g, a, flags) ==
    IF a.link = <<>> THEN Returning(g, NoTest)
    ELSE IF IsNone(a) THEN Error(g)
    ELSE parseContextualTestList(g, a.link[1], flags)

addTest(g, a, body, look) ==
    CASE a.kind = "seq" -> AddSeq(g, a.mods, look, body, g.ret)
      [] a.kind = "ors" -> addContextualTest(g, [Bare EXCEPT !.pos = a.mods \cup look, !.ors = body, !.linked = g.ret])
      [] OTHER          -> addContextualTest(g, [body EXCEPT !.pos = @ \cup look, !.linked = g.ret])

parseContextualTestList(g, a, flags) ==
    Then(parseBody(g, a, flags),
         LAMBDA b : Then(parseLink(b, a, flags), LAMBDA k : addTest(k, a, b.ret, LookFlags(flags))))

\* parseContextualTests: with --vislcg-compat, NOT is made NEGATE in the test
\* that was added, or found.
NotIsNegate(pos) == IF "NOT" \in pos THEN (pos \ {"NOT"}) \cup {"NEGATE"} ELSE pos
parseContextualTests(g, a, flags) ==
    Then(parseContextualTestList(g, a, flags),
         LAMBDA k : IF k.vislcg_compat THEN [k EXCEPT !.heap[k.ret].now.pos = NotIsNegate(@)] ELSE k)

\* All tests of a rule; g.ret is their sequence, in the order written.
ParseTests(g, as, flags) == ForEach(g, as, LAMBDA k, a : parseContextualTests(k, a, flags))

----------------------------------------------------------------------------
(* After the text: templates are bound, and f tests made two tests.         *)

BindTemplates(g) ==
    LET unknown == {i \in DOMAIN g.heap : g.heap[i].now.tmpl \notin DOMAIN g.templates \cup {""}}
        test(n) == IF n \in DOMAIN g.templates THEN g.templates[n] ELSE NoTest
    IN  [g EXCEPT !.heap = [i \in DOMAIN g.heap |-> [g.heap[i] EXCEPT !.bound = test(g.heap[i].now.tmpl)]],
                  !.error_counter = @ + Cardinality(unknown)]

\* One f test becomes an OR of itself and of a careful one on a target without
\* the numeric tags, in the tests linked to it and in the rules that use it.
Renamed(a, b, i) == IF i = a THEN b ELSE i
\* Mutant: not in the tests linked to it.
InsteadOf_Rules(g, i, or) ==
    LET all(is) == [j \in DOMAIN is |-> Renamed(i, or, is[j])] IN
    [g EXCEPT !.rules = [r \in DOMAIN @ |->
                    [@[r] EXCEPT !.dep_target = Renamed(i, or, @), !.tests = all(@), !.dep_tests = all(@)]]]

InsteadOf(g, i, or) ==
    LET all(is) == [j \in DOMAIN is |-> Renamed(i, or, is[j])] IN
    [g EXCEPT
        !.heap = [j \in DOMAIN @ |-> [@[j] EXCEPT !.now.linked = Renamed(i, or, @)]],
        !.rules = [r \in DOMAIN @ |->
                    [@[r] EXCEPT !.dep_target = Renamed(i, or, @), !.tests = all(@), !.dep_tests = all(@)]]]
OrOf(g, i) == addContextualTest(g, [Bare EXCEPT !.ors = <<g.ret, i>>])
Careful(g, e, set) ==
    LET Bound(k) == [k EXCEPT !.heap[k.ret].bound = e.bound] IN
    Bound(addKeyed(g, e.key, [e.now EXCEPT !.pos = (@ \ {"NUMERIC_BRANCH"}) \cup {"CAREFUL"},
                                           !.target = set, !.ors = <<>>]))
Split(g, i, e) == Careful([g EXCEPT !.heap[i].now.pos = @ \ {"NUMERIC_BRANCH"}], e, g.ret)
Branched(g, i) ==
    LET Replaced(k) == InsteadOf(k, i, k.ret) IN
    Replaced(OrOf(Split(removeNumericTags(g, g.heap[i].now.target), i, g.heap[i]), i))

RECURSIVE NumericBranches(_)
NumericBranches(g) ==
    LET fs == {i \in DOMAIN g.heap : "NUMERIC_BRANCH" \in g.heap[i].now.pos}
    IN  IF fs = {} \/ g.quit THEN g ELSE NumericBranches(Branched(g, CHOOSE i \in fs : TRUE))
=============================================================================
