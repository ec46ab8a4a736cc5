--------------------------- MODULE BinaryGrammar ---------------------------
(***************************************************************************)
(* BinaryGrammar_write.cpp and BinaryGrammar_read.cpp: a compiled grammar  *)
(* as a file, and back.                                                    *)
(*                                                                         *)
(* Every object is written as the bits of the fields it has and then those *)
(* fields alone; the reader gives the others the values of a new object.   *)
(***************************************************************************)
EXTENDS GrammarIndex

\* The fields that differ from those of a new object, and the object again.
Pack(obj, new) == Restrict(obj, {f \in DOMAIN new : obj[f] # new[f]})
Unpack(packed, new) == packed @@ new

NewCompiledSet == [list |-> EmptyList, sets |-> <<>>, ops |-> <<>>, unify |-> "", special |-> FALSE,
                   child_unify |-> FALSE, name |-> ""]
NewContext == [pos |-> {}, offset |-> 0, relation |-> "", target |-> 0, barrier |-> 0, cbarrier |-> 0,
               tmpl |-> NoTest, linked |-> NoTest, ors |-> <<>>]
NewCompiledRule == [NoRule EXCEPT !.target = 0, !.childset1 = 0, !.childset2 = 0, !.maplist = 0, !.sublist = 0]

----------------------------------------------------------------------------
(* Writing                                                                  *)

\* writeContextualTest: a test once, after those it refers to, which are written
\* by their hashes.
RECURSIVE writeContextualTest(_, _, _)
writeContextualTest(c, written, i) ==
    IF i = NoTest \/ i \in {written[k].hash : k \in DOMAIN written} THEN written
    ELSE LET t == c.contexts[i]
             kids == FoldLeft(LAMBDA w, k : writeContextualTest(c, w, k), written,
                              <<t.tmpl>> \o t.ors \o <<t.linked>>)
         IN  Append(kids, [hash |-> i, fields |-> Pack(t, NewContext)])

\* A tag, with the numbers of the sets in it if it is a varstring.
NewTag == [tag |-> "", vs_sets |-> <<>>]
writeTag(c, t) == Pack([tag |-> t, vs_sets |-> IF t \in DOMAIN c.vs_sets THEN c.vs_sets[t] ELSE <<>>], NewTag)

\* A set has no name in the file unless it is static, and no fail-fast tags.
writeSet(s) == Pack([s EXCEPT !.list.ff_tags = {}], NewCompiledSet)

\* A rule, and then its tests in reverse.
InFront == {"tests", "dep_tests", "dep_target"}
writeRule(r) ==
    [fields |-> Pack(r, [f \in DOMAIN NewCompiledRule \ InFront |-> NewCompiledRule[f]]),
     dep_target |-> r.dep_target, dep_tests |-> Reverse(r.dep_tests), tests |-> Reverse(r.tests)]

NewHeader == [mapping_prefix |-> "", reopen_mappings |-> {}, preferred_targets |-> <<>>,
              parentheses |-> <<>>, anchors |-> <<>>, delimiters |-> 0, soft_delimiters |-> 0, has_dep |-> FALSE, sub_readings_ltr |-> FALSE, has_relations |-> FALSE,
              has_bag_of_tags |-> FALSE, ordered |-> FALSE]

writeBinaryGrammar(c) ==
    [header   |-> Pack(Restrict(c, DOMAIN NewHeader), NewHeader),
     tags     |-> {writeTag(c, t) : t \in c.tags},
     sets     |-> [n \in DOMAIN c.sets |-> writeSet(c.sets[n])],
     contexts |-> FoldSet(LAMBDA i, w : writeContextualTest(c, w, i), <<>>, DOMAIN c.contexts),
     count    |-> Cardinality(DOMAIN c.contexts),
     rules    |-> [r \in DOMAIN c.rules |-> writeRule(c.rules[r])]]

\* What the writing leaves of the grammar in memory.
AfterWriting(c) == [c EXCEPT !.rules = [r \in DOMAIN @ |->
                [c.rules[r] EXCEPT !.tests = Reverse(@), !.dep_tests = Reverse(@)]]]

----------------------------------------------------------------------------
(* Reading                                                                  *)

\* readContextualTest: the linked test is looked up among those read so far, the
\* template and the OR'ed tests when all have been read.
readContextualTest(contexts, entry) ==
    LET t == Unpack(entry.fields, NewContext)
        known == t.linked \in DOMAIN contexts
    IN  (entry.hash :> [t EXCEPT !.linked = IF known THEN @ ELSE NoTest]) @@ contexts
readContexts(file) == FoldLeft(readContextualTest, <<>>, SubSeq(file.contexts, 1, file.count))

\* readTags: the sets of the varstrings are bound when the sets have been read.
readTags(file) == {Unpack(entry, NewTag) : entry \in file.tags}
BindVarstringSets(tags) ==
    LET bound == {t \in tags : t.tag \in Varstring}
    IN  [x \in {t.tag : t \in bound} |-> (CHOOSE t \in bound : t.tag = x).vs_sets]

\* Mutant: behind them.
InOrderRead_Appended(ts) == ts
\* Each test read is put in front of those before it.
InOrderRead(ts) == FoldLeft(LAMBDA l, t : <<t>> \o l, <<>>, ts)
readRule(w) == [Unpack(w.fields, NewCompiledRule) EXCEPT
                    !.dep_target = w.dep_target, !.dep_tests = InOrderRead(w.dep_tests), !.tests = InOrderRead(w.tests)]

\* parse_grammar, and the reindex that follows it: of a binary grammar only what is
\* derived is made anew.
parse_grammar(file) ==
    LET header == Unpack(file.header, NewHeader)
        prefix == IF header.mapping_prefix = "" THEN "@" ELSE header.mapping_prefix
        tags == readTags(file)
        body == [tags |-> {t.tag : t \in tags}, vs_sets |-> BindVarstringSets(tags),
                 sets |-> [n \in DOMAIN file.sets |-> Unpack(file.sets[n], NewCompiledSet)],
                 contexts |-> readContexts(file),
                 rules |-> [r \in DOMAIN file.rules |-> readRule(file.rules[r])],
                 has_protect |-> FALSE, mapping_tags |-> {}, rules_by_tag |-> <<>>, sets_by_tag |-> <<>>,
                 static_names |-> <<>>, lists |-> <<>>]
    IN  [header EXCEPT !.mapping_prefix = prefix] @@ body
=============================================================================
