--------------------------- MODULE GrammarMeaning ---------------------------
(***************************************************************************)
(* What a grammar says: the readings a set stands for, and the order and   *)
(* the parts of the rules, taken from the statements as they are written   *)
(* (manual, sets.xml and tests.xml); and the same for a compiled grammar,  *)
(* as the matching of readings takes it (GrammarApplicator_matchSet.cpp).  *)
(***************************************************************************)
EXTENDS BinaryGrammar

CONSTANT Readings \* the readings sets are compared on: sets of tags

TagMatch(t, R) == IF t \in SpecialTags THEN Hits[t] \cap R # {} ELSE t \in R

----------------------------------------------------------------------------
(* As matched                                                               *)

\* doesSetMatchReading_tags: no reading with a fail-fast tag; otherwise a path
\* to a terminal node, none of it a fail-fast tag.
ListMatches(list, R) ==
    /\ \A t \in list.ff_tags : ~TagMatch(t, R)
    /\ \E trie \in {list.trie, list.trie_special} : \E p \in DOMAIN trie :
            trie[p] /\ \A i \in DOMAIN p : p[i] \notin FailFast /\ TagMatch(p[i], R)

\* doesSetMatchReading, for the first reading tested.  The operators other than
\* OR are taken first, from the left; a fail-fast part that matches ends it all.
RECURSIVE doesSetMatchReading(_, _, _)
doesSetMatchReading(c, n, R) ==
    LET s == c.sets[n]
        part(i) == doesSetMatchReading(c, s.sets[i], R)
        step(acc, i) ==
            IF i = 1 \/ s.ops[i - 1] = "OR"
            THEN [found |-> acc.found \/ (acc.match /\ ~acc.over),
                  over |-> acc.over \/ (acc.fail /\ ~acc.match),
                  match |-> part(i), fail |-> FALSE]
            ELSE CASE s.ops[i - 1] = "+" -> [acc EXCEPT !.match = @ /\ part(i)]
                   [] s.ops[i - 1] = "-" -> [acc EXCEPT !.match = @ /\ ~part(i)]
                   [] s.ops[i - 1] = "^" -> [acc EXCEPT !.match = @ /\ ~part(i), !.fail = @ \/ part(i)]
        end == FoldLeft(step, [found |-> FALSE, over |-> FALSE, match |-> FALSE, fail |-> FALSE],
                        [i \in DOMAIN s.sets |-> i])
    IN  IF s.list.any THEN TRUE
        ELSE IF s.sets = <<>> THEN ListMatches(s.list, R)
        ELSE IF s.unify = "&&"
             THEN LET u == c.sets[s.sets[1]]
                  IN  \E i \in DOMAIN u.sets : doesSetMatchReading(c, u.sets[i], R)
             ELSE end.found \/ (end.match /\ ~end.over)

Matched(c, n) == IF n = 0 THEN {} ELSE {R \in Readings : doesSetMatchReading(c, n, R)}

\* A test, with what hangs on it, of the compiled grammar.
RECURSIVE Tree(_, _)
Tree(c, i) ==
    IF i = NoTest THEN <<>>
    ELSE LET t == c.contexts[i]
         IN  << [pos |-> t.pos, offset |-> t.offset, relation |-> t.relation,
                 target |-> Matched(c, t.target), barrier |-> Matched(c, t.barrier),
                 cbarrier |-> Matched(c, t.cbarrier), tmpl |-> Tree(c, t.tmpl), linked |-> Tree(c, t.linked),
                 ors |-> [k \in DOMAIN t.ors |-> Tree(c, t.ors[k])]] >>

----------------------------------------------------------------------------
(* As written.  A text is taken with its inclusions put in their places.    *)

RECURSIVE Flat(_)
Flat(text) ==
    IF text = <<>> \/ Head(text).kind = "END" THEN <<>>
    ELSE (IF Head(text).kind = "INCLUDE" THEN Flat(Head(text).text) ELSE <<Head(text)>>) \o Flat(Tail(text))

IsRule(s) == "target" \in DOMAIN s
RuleStatements(text) == SelectSeq(text, IsRule)
Declaration(text, name) ==
    LET is == {i \in DOMAIN text : text[i].kind \in {"LIST", "SET"} /\ text[i].name = name}
    IN  text[CHOOSE i \in is : \A j \in is : i <= j]

\* The readings with all tags of an element of a LIST and none of the tags it
\* has with a ^.
Listed(elements) ==
    {R \in Readings :
        /\ \E e \in elements : e \cap FailFast = {} /\ \A t \in e : t = "*" \/ TagMatch(t, R)
        /\ \A e \in elements : \A t \in e \cap FailFast : ~TagMatch(t, R)}

\* The name of a set that is not declared stands for the tag of that name.
IsTagName(text, item) ==
    ~\E i \in DOMAIN text : text[i].kind \in {"LIST", "SET"} /\ text[i].name = item.name

\* The elements of a set, for the operators that work on those.
RECURSIVE Elements(_, _)
Elements(text, item) ==
    IF "tags" \in DOMAIN item THEN {ToSet(item.tags)}
    ELSE IF IsTagName(text, item) THEN {{item.name}}
    ELSE LET d == Declaration(text, item.name)
         IN  IF d.kind = "LIST" THEN ToSet(d.tags)
             ELSE UNION {Elements(text, d.expr.items[i]) : i \in DOMAIN d.expr.items}

\* The readings of an expression: A op B is one list for the operators on
\* elements; + and - come before OR; what a ^ takes away does not come back in
\* the alternatives behind it.
Joined(acc, op, R) ==
    CASE op = ""   -> [acc EXCEPT !.now = R]
      [] op = "OR" -> [all |-> acc.all \cup (acc.now \ acc.lost), now |-> R,
                       lost |-> acc.lost \cup acc.gone, gone |-> {}]
      [] op = "+"  -> [acc EXCEPT !.now = @ \cap R]
      [] op = "-"  -> [acc EXCEPT !.now = @ \ R]
      [] op = "^"  -> [acc EXCEPT !.now = @ \ R, !.gone = @ \cup R]
Total(acc) == acc.all \cup (acc.now \ acc.lost)

RECURSIVE Meaning(_, _, _)
DeclaredMeaning(text, d, numeric) ==
    IF d.kind = "LIST" THEN Listed({e \ numeric : e \in ToSet(d.tags)} \ {{}})
    ELSE Meaning(text, d.expr, numeric)
ItemMeaning(text, item, numeric) ==
    IF "tags" \in DOMAIN item THEN Listed({ToSet(item.tags) \ numeric})
    ELSE IF IsTagName(text, item) THEN Listed({{item.name}})
    ELSE DeclaredMeaning(text, Declaration(text, item.name), numeric)
Meaning(text, expr, numeric) ==
    IF Len(expr.items) = 2 /\ expr.ops[1] \in SetOps
    THEN Listed(Combined(expr.ops[1], Elements(text, expr.items[1]), Elements(text, expr.items[2])))
    ELSE Total(FoldLeft(LAMBDA acc, i : Joined(acc, IF i = 1 THEN "" ELSE expr.ops[i - 1],
                                               ItemMeaning(text, expr.items[i], numeric)),
                        [all |-> {}, now |-> {}, lost |-> {}, gone |-> {}],
                        [i \in DOMAIN expr.items |-> i]))

\* A test as written, in the form of Tree.  An f test is an OR of a careful one
\* without numeric tags and of the plain one.
TemplateTest(text, name) ==
    text[CHOOSE i \in DOMAIN text : text[i].kind = "TEMPLATE" /\ text[i].name = name].test
Letters(a) == IF a.kind = "test" THEN Deepened(FoldLeft(Letter, a.mods, a.letters)) ELSE a.mods
Position(a, look) == Letters(a) \cup look \cup (IF a.kind = "test" /\ a.tmpl # "" THEN {"TMPL_OVERRIDE"} ELSE {})
Nothing == [pos |-> {}, offset |-> 0, relation |-> "", target |-> {}, barrier |-> {}, cbarrier |-> {},
            tmpl |-> <<>>, linked |-> <<>>, ors |-> <<>>]

TargetMeaning(text, a, numeric) ==
    IF a.kind \in {"test", "tmpl"} /\ a.tmpl = "" THEN Meaning(text, a.target, numeric) ELSE {}
BarrierMeaning(text, expr, stops) == IF stops /\ expr # <<>> THEN Meaning(text, expr[1], {}) ELSE {}

AsBranch(pos, plain, careful) ==
    IF "NUMERIC_BRANCH" \in pos
    THEN <<[Nothing EXCEPT !.ors = <<
                <<[plain EXCEPT !.pos = @ \cup {"CAREFUL"}, !.target = careful]>>, <<plain>> >>]>>
    ELSE <<plain>>
SeqTest(text, a, look, i) ==
    [Nothing EXCEPT !.pos = (IF i = 1 THEN a.mods ELSE {}) \cup look, !.offset = 1,
                    !.target = Meaning(text, a.seq[i], {})]

RECURSIVE WrittenTree(_, _, _)
PlainTree(text, a, look, pos, stops) ==
    [pos |-> pos \ {"NUMERIC_BRANCH"}, offset |-> a.offset, relation |-> a.relation,
     target |-> TargetMeaning(text, a, {}), barrier |-> BarrierMeaning(text, a.barrier, stops),
     cbarrier |-> BarrierMeaning(text, a.cbarrier, stops),
     tmpl |-> IF a.tmpl = "" THEN <<>> ELSE WrittenTree(text, TemplateTest(text, a.tmpl), {}),
     linked |-> IF a.link = <<>> THEN <<>> ELSE WrittenTree(text, a.link[1], look),
     ors |-> [k \in DOMAIN a.ors |-> WrittenTree(text, a.ors[k], look)]]
SeqTree(text, a, look, linked) ==
    FoldRight(LAMBDA i, next : <<[SeqTest(text, a, look, i) EXCEPT !.linked = next]>>,
              [i \in DOMAIN a.seq |-> i], linked)
TreeAt(text, a, look, pos) ==
    AsBranch(pos, PlainTree(text, a, look, pos, pos \cap (Scans \cup {"SELF"}) # {}),
             TargetMeaning(text, a, Numerical))
WrittenTree(text, a, look) ==
    IF a.kind = "seq"
    THEN SeqTree(text, a, look, IF a.link = <<>> THEN <<>> ELSE WrittenTree(text, a.link[1], look))
    ELSE TreeAt(text, a, look, Position(a, look))
=============================================================================
