-------------------------- MODULE GrammarToolchain --------------------------
(***************************************************************************)
(* The way of a grammar through the programs (main.cpp, cg_comp.cpp): its  *)
(* text is parsed statement by statement, indexed, written as a binary     *)
(* file, and that file read and indexed by a later run.                    *)
(***************************************************************************)
EXTENDS GrammarMeaning

CONSTANT Families \* sequences of menus: the i-th statement of a text is one of
                  \* the i-th menu

VARIABLES
    menus, \* the menus still to choose from
    text,  \* the statements read
    g,     \* the grammar and the parser
    c,     \* the grammar that is run: after reindex
    file,  \* the binary file
    phase

vars == <<menus, text, g, c, file, phase>>

None == <<>>

Init == /\ menus \in Families
        /\ text = <<>>
        /\ g = Begin(FALSE)
        /\ c = None
        /\ file = None
        /\ phase = "parsing"

\* parseFromUChar, one statement of the main file.
ReadStatement ==
    /\ phase = "parsing" /\ menus # <<>>
    /\ \E s \in Head(menus) :
        /\ text' = Append(text, s)
        /\ g' = parseFromUChar(g, <<s>>)
        /\ menus' = IF s.kind = "END" THEN <<>> ELSE Tail(menus)
    /\ phase' = IF g'.quit THEN "failed" ELSE phase
    /\ UNCHANGED <<c, file>>

\* The end of the text; a grammar with errors is not used.
FinishText ==
    /\ phase = "parsing" /\ menus = <<>>
    /\ g' = Finish(g)
    /\ phase' = IF g'.quit \/ g'.error_counter > 0 THEN "failed" ELSE "parsed"
    /\ UNCHANGED <<menus, text, c, file>>

Reindex ==
    /\ phase = "parsed"
    /\ IF BadStatic(g) THEN c' = c /\ phase' = "failed"
       ELSE c' = Compiled(g) /\ phase' = "compiled"
    /\ UNCHANGED <<menus, text, g, file>>

WriteBinary ==
    /\ phase = "compiled"
    /\ file' = writeBinaryGrammar(c)
    /\ c' = AfterWriting(c)
    /\ phase' = "written"
    /\ UNCHANGED <<menus, text, g>>

\* A run that is given the binary file.
ReadBinary ==
    /\ phase = "written"
    /\ c' = Derived(parse_grammar(file))
    /\ phase' = "reloaded"
    /\ UNCHANGED <<menus, text, g, file>>

Next == ReadStatement \/ FinishText \/ Reindex \/ WriteBinary \/ ReadBinary

Spec == Init /\ [][Next]_vars

----------------------------------------------------------------------------
(* Properties                                                               *)

Usable == phase \in {"compiled", "reloaded"}

TypeOK ==
    /\ phase \in {"parsing", "failed", "parsed", "compiled", "written", "reloaded"}
    /\ g.tags \subseteq Tags
    /\ \A n \in DOMAIN g.sets_by_name : g.sets_by_name[n] \in DOMAIN g.sets
    /\ \A i \in DOMAIN g.heap : g.heap[i].now.linked \in 0 .. Len(g.heap)
    /\ Usable => \A i \in DOMAIN c.contexts :
            LET t == c.contexts[i] IN {t.linked, t.tmpl} \cup ToSet(t.ors) \subseteq DOMAIN c.contexts \cup {NoTest}

\* The target of every rule matches exactly the readings that the statements say
\* it does: whatever addSet makes of a set (a LIST of an OR, a difference for
\* fail-fast tags, another set of the same contents), whatever number it gets,
\* and also when the grammar has been through a file.
TargetsMeanWhatIsWritten ==
    Usable => LET flat == Flat(text)    rs == RuleStatements(flat)
              IN  /\ Len(c.rules) = Len(rs)
                  /\ \A i \in DOMAIN rs : Matched(c, c.rules[i].target) = Meaning(flat, rs[i].target, {})

\* A set can be found under a tag of every reading that it matches, and so can a
\* rule by its target, so that looking only at the sets and rules of a reading's
\* tags (and those of *) loses none.
IndexFindsMatches ==
    LET under(index, x, R) == \E t \in (R \cup {TagAny}) \cap DOMAIN index : x \in index[t]
    IN  Usable => /\ \A n \in DOMAIN c.sets : \A R \in Matched(c, n) : under(c.sets_by_tag, n, R)
                  /\ \A r \in DOMAIN c.rules : \A R \in Matched(c, c.rules[r].target) :
                        under(c.rules_by_tag, r, R)

\* Every rule has the tests it was written with, in that order, and is in the
\* section it was written in: sharing equal tests, binding templates to their
\* names, splitting f tests, and writing and reading tests back to front leave
\* each test what it was.
LastHeading(flat, i) ==
    LET hs == {j \in 1 .. i : flat[j].kind \in Headings}
    IN  IF hs = {} THEN "MAPPINGS" ELSE flat[CHOOSE j \in hs : \A k \in hs : k <= j].kind
SectionOf(flat, i) ==
    LET kind == LastHeading(flat, i) IN
    CASE kind \in BeforeKinds     -> -1
      [] kind = "AFTER-SECTIONS"  -> -2
      [] kind = "NULL-SECTION"    -> -3
      [] OTHER -> Cardinality({j \in 1 .. i : flat[j].kind \in SectionKinds}) - 1
RulesAreAsWritten ==
    Usable => LET flat == Flat(text)
                  at == SelectSeq([i \in DOMAIN flat |-> i], LAMBDA i : IsRule(flat[i]))
                  trees(as, look) == [k \in DOMAIN as |-> WrittenTree(flat, as[k], look)]
              IN  \A r \in DOMAIN at :
                    LET s == flat[at[r]]    rule == c.rules[r]    look == LookFlags(s.flags)
                        other == (IF rule.dep_target = NoTest THEN <<>> ELSE <<rule.dep_target>>) \o rule.dep_tests
                    IN  /\ rule.section = SectionOf(flat, at[r])
                        /\ [k \in DOMAIN rule.tests |-> Tree(c, rule.tests[k])] = trees(s.tests, look)
                        /\ [k \in DOMAIN other |-> Tree(c, other[k])] = trees(s.dep_tests, look)

\* The grammar read from the binary file is the one that was written, but for the
\* fail-fast tags of sets, which the file does not have.
Stripped(k) == [k EXCEPT !.sets = [n \in DOMAIN k.sets |-> [k.sets[n] EXCEPT !.list.ff_tags = {}]]]
BinaryIsTheGrammar == phase = "reloaded" => Stripped(c) = Stripped(Compiled(g))

\* A rule keeps the order of its tests when one of them, one linked to it or a
\* template it stands for can bind or use a unified tag.
RECURSIVE Behind(_, _), Within(_, _)
Behind(k, ids) == LET more == ids \cup (UNION {{k.contexts[i].linked, k.contexts[i].tmpl} : i \in ids} \ {NoTest})
                  IN  IF more = ids THEN ids ELSE Behind(k, more)
Within(k, ns) == LET more == ns \cup UNION {ToSet(k.sets[n].sets) : n \in ns}
                 IN  IF more = ns THEN ns ELSE Within(k, more)
Binds(k, n) == n # 0 /\ \E m \in Within(k, {n}) :
                    k.sets[m].unify # "" \/ TrieTags(k.sets[m].list) \cap Varstring # {}
OrderIsKept ==
    Usable => \A r \in DOMAIN c.rules :
        (\E i \in Behind(c, TestsOf(c.rules[r])) :
            LET t == c.contexts[i] IN Binds(c, t.target) \/ Binds(c, t.barrier) \/ Binds(c, t.cbarrier))
        => "KEEPORDER" \in c.rules[r].flags
=============================================================================
