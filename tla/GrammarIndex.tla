---------------------------- MODULE GrammarIndex ----------------------------
(***************************************************************************)
(* Grammar::reindex: the parsed grammar g is made the one that is run and  *)
(* written, c.  Sets get numbers, in place of the hashes by which rules,   *)
(* tests and other sets refer to them; unused sets and tests are left out; *)
(* rules are put under the tags by which they are found, and flags derived *)
(* from what their tests refer to.                                         *)
(***************************************************************************)
EXTENDS TextualParser

CONSTANT FirstChar \* tag -> its first character

\* Static sets: an alias cannot be one, and a name that is no set is passed over.
Static(g) == {i \in DOMAIN g.static_sets : getSet(g, g.static_sets[i]) # NoSet}
BadStatic(g) == \E i \in DOMAIN g.static_sets : g.static_sets[i] \in DOMAIN g.set_alias
StaticName(g, h) == LET is == {i \in Static(g) : getSet(g, g.static_sets[i]) = h}
                    IN  IF is = {} THEN "" ELSE g.static_sets[CHOOSE i \in is : \A j \in is : j <= i]

----------------------------------------------------------------------------
(* What is used: ContextualTest::markUsed, Set::markUsed                    *)

TestsOf(r) == (ToSet(r.tests) \cup ToSet(r.dep_tests) \cup {r.dep_target}) \ {NoTest}
Onward(e) == ({e.now.linked, e.bound} \cup ToSet(e.now.ors)) \ {NoTest}

RECURSIVE ReachTests(_, _), ReachSets(_, _)
ReachTests(g, ids) ==
    LET more == ids \cup UNION {Onward(g.heap[i]) : i \in ids}
    IN  IF more = ids THEN ids ELSE ReachTests(g, more)
ReachSets(g, hs) ==
    LET more == hs \cup UNION {ToSet(g.sets[h].sets) : h \in hs}
    IN  IF more = hs THEN hs ELSE ReachSets(g, more)

UsedTests(g) == ReachTests(g, UNION {TestsOf(g.rules[i]) : i \in DOMAIN g.rules})
UsedSets(g) ==
    LET ofRule(r) == {r.target, r.childset1, r.childset2, r.maplist, r.sublist}
        ofTest(t) == {t.target, t.barrier, t.cbarrier}
    IN  ReachSets(g, (UNION {ofRule(g.rules[i]) : i \in DOMAIN g.rules}
                      \cup UNION {ofTest(g.heap[i].now) : i \in UsedTests(g)}
                      \cup UNION {ToSet(g.vs_sets[t]) : t \in DOMAIN g.vs_sets}
                      \cup {getSet(g, g.static_sets[i]) : i \in Static(g)}
                      \cup {g.delimiters, g.soft_delimiters}) \ {NoSet})

\* Grammar::addSetToList: the parts of a set before the set.
RECURSIVE addSetToList(_, _, _)
addSetToList(g, list, h) ==
    IF h \in ToSet(list) THEN list
    ELSE Append(FoldLeft(LAMBDA l, part : addSetToList(g, l, part), list, g.sets[h].sets), h)
SetsList(g) == FoldSet(LAMBDA h, l : addSetToList(g, l, h), <<>>, UsedSets(g))

----------------------------------------------------------------------------
(* From hashes to numbers; 0 is the number of the dummy set and of no set.  *)

Number(list, h) == IF h = NoSet THEN 0 ELSE CHOOSE n \in DOMAIN list : list[n] = h

\* setAdjustSets, and the flags from Set::reindex.
setAdjustSets(g, list, h) ==
    LET s == g.sets[h]
    IN  [list |-> s.list, sets |-> [i \in DOMAIN s.sets |-> Number(list, s.sets[i])], ops |-> s.ops,
         unify |-> s.unify, special |-> Special(g, s), child_unify |-> IsUnified(g, s),
         name |-> StaticName(g, h)]

contextAdjustTarget(list, e) ==
    [pos |-> e.now.pos, offset |-> e.now.offset, relation |-> e.now.relation,
     target |-> Number(list, e.now.target), barrier |-> Number(list, e.now.barrier),
     cbarrier |-> Number(list, e.now.cbarrier), tmpl |-> e.bound, linked |-> e.now.linked, ors |-> e.now.ors]

Numbered(list, r) ==
    [r EXCEPT !.target = Number(list, @), !.childset1 = Number(list, @), !.childset2 = Number(list, @),
              !.maplist = Number(list, @), !.sublist = Number(list, @)]

----------------------------------------------------------------------------
(* What is derived, from a text or from a binary grammar                    *)

\* indexSetToRule: every tag of every part; a set that may match otherwise is
\* under the tag of everything.
TagAny == "*"
TrieTags(list) == UNION {ToSet(p) : p \in DOMAIN list.trie \cup DOMAIN list.trie_special}
\* Mutant: sets that match otherwise than by their tags are not set apart.
indexSet_Plain(c, n) == TrieTags(c.sets[n].list) \cup UNION {TrieTags(c.sets[m].list) : m \in ToSet(c.sets[n].sets)}
RECURSIVE indexSet(_, _)
indexSet(c, n) ==
    LET s == c.sets[n]
    IN  IF s.special \/ s.unify = "$$" THEN {TagAny}
        ELSE TrieTags(s.list) \cup UNION {indexSet(c, s.sets[i]) : i \in DOMAIN s.sets}

RulesByTag(c) ==
    LET under == [r \in DOMAIN c.rules |-> indexSet(c, c.rules[r].target)]
    IN  [t \in UNION {under[r] : r \in DOMAIN under} |-> {r \in DOMAIN under : t \in under[r]}]

\* indexSets: the sets to try on a cohort with the tag.
SetsByTag(c) ==
    LET under == [n \in DOMAIN c.sets |-> indexSet(c, n)]
    IN  [t \in UNION {under[n] : n \in DOMAIN under} |-> {n \in DOMAIN under : t \in under[n]}]

\* The names that the run can look up.
StaticNames(c) == [nm \in {c.sets[n].name : n \in DOMAIN c.sets} \ {""} |->
                        CHOOSE n \in DOMAIN c.sets : c.sets[n].name = nm]

\* The order of the rules of a section is that of their numbers.
InSection(c, test(_)) == SelectSeq([r \in DOMAIN c.rules |-> r], LAMBDA r : test(c.rules[r].section))
SectionLists(c) ==
    LET before(x) == x = -1    after(x) == x = -2    null(x) == x = -3    numbered(x) == x >= 0
        used == {c.rules[r].section : r \in DOMAIN c.rules} \cap Nat
    IN  [before_sections |-> InSection(c, before), after_sections |-> InSection(c, after),
         null_section |-> InSection(c, null), rules |-> InSection(c, numbered),
         sections |-> IF used = {} THEN {} ELSE 0 .. CHOOSE x \in used : \A y \in used : y <= x]

\* The sets that hold a varstring, and the tests whose answer a unification or
\* a varstring can change: not those with such a test OR'ed in them.
RECURSIVE WithVarstring(_, _), NeedOrder(_, _)
WithVarstring(c, ns) ==
    LET more == {n \in DOMAIN c.sets : \/ ToSet(c.sets[n].sets) \cap ns # {}
                                       \/ trie_hasType(c.sets[n].list.trie, Varstring)
                                       \/ trie_hasType(c.sets[n].list.trie_special, Varstring)}
    IN  IF more \subseteq ns THEN ns ELSE WithVarstring(c, ns \cup more)
Unifies(c, n) == n # 0 /\ (c.sets[n].unify # "" \/ c.sets[n].child_unify \/ n \in WithVarstring(c, {}))
\* Mutant: only what the test itself refers to.
NeedOrder_Once(c, ts) == {i \in DOMAIN c.contexts : Unifies(c, c.contexts[i].target)}
NeedOrder(c, ts) ==
    LET more == {i \in DOMAIN c.contexts : LET t == c.contexts[i] IN
                    \/ {t.tmpl, t.linked} \cap ts # {}
                    \/ \E n \in {t.target, t.barrier, t.cbarrier} : Unifies(c, n)}
    IN  IF more \subseteq ts THEN ts ELSE NeedOrder(c, ts \cup more)

\* A mapping or substitution list with a unified set gives the flags whose bits
\* make the number of the flag CAPTURE_UNIF.
CaptureUnif == {"NEAREST", "IMMEDIATE", "LOOKDELETED"}
DerivedFlags(c, r, need) ==
    r.flags
    \cup (IF \E n \in {r.maplist, r.sublist} \ {0} : c.sets[n].child_unify THEN CaptureUnif ELSE {})
    \cup (IF TestsOf(r) \cap need # {} THEN {"KEEPORDER"} ELSE {})

Derived(c) ==
    LET need == NeedOrder(c, {})
    IN  [c EXCEPT !.rules = [r \in DOMAIN @ |-> [c.rules[r] EXCEPT !.flags = DerivedFlags(c, c.rules[r], need)]],
                  !.rules_by_tag = RulesByTag(c), !.sets_by_tag = SetsByTag(c),
                  !.static_names = StaticNames(c), !.lists = SectionLists(c),
                  !.mapping_tags = {t \in c.tags : FirstChar[t] = c.mapping_prefix},
                  !.has_protect = \E r \in DOMAIN c.rules : c.rules[r].type = "PROTECT"]

\* reindex of a parsed grammar.
Compiled(g) ==
    LET list == SetsList(g)
    IN  Derived([sets |-> [n \in DOMAIN list |-> setAdjustSets(g, list, list[n])],
                 contexts |-> [i \in UsedTests(g) |-> contextAdjustTarget(list, g.heap[i])],
                 rules |-> [i \in DOMAIN g.rules |-> Numbered(list, g.rules[i])],
                 delimiters |-> Number(list, g.delimiters),
                 soft_delimiters |-> Number(list, g.soft_delimiters),
                 vs_sets |-> [t \in DOMAIN g.vs_sets |-> [i \in DOMAIN g.vs_sets[t] |-> Number(list, g.vs_sets[t][i])]],
                 tags |-> g.tags, mapping_prefix |-> g.mapping_prefix,
                 preferred_targets |-> g.preferred_targets, reopen_mappings |-> g.reopen_mappings,
                 parentheses |-> g.parentheses, sub_readings_ltr |-> g.sub_readings_ltr,
                 anchors |-> g.anchors, has_dep |-> g.has_dep, has_relations |-> g.has_relations,
                 has_bag_of_tags |-> g.has_bag_of_tags, ordered |-> g.ordered,
                 has_protect |-> FALSE, mapping_tags |-> {}, rules_by_tag |-> <<>>, sets_by_tag |-> <<>>,
                 static_names |-> <<>>, lists |-> <<>>])
=============================================================================
