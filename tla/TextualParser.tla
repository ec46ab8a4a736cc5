--------------------------- MODULE TextualParser ---------------------------
(***************************************************************************)
(* TextualParser: a grammar as written, statement by statement, into the   *)
(* Grammar object, and what is done to it at the end of the text.          *)
(*                                                                         *)
(* A statement is a record whose field "kind" is its keyword.  The grammar *)
(* g holds the state of the parser too; g.rule is the rule being parsed.   *)
(* An error drops the statement it is in, ten of them end the program, and *)
(* any of them keeps the grammar from being used.                          *)
(***************************************************************************)
EXTENDS ContextTests

CONSTANTS
    MagicTags,   \* the tags that each make a magic set of their own
    VarSets,     \* varstring tag -> the names of sets in it
    RegexpLine   \* the tags with T_REGEXP_LINE

MaxErrors == 10

NoRule == [type |-> "", wordform |-> "", name |-> "", flags |-> {}, sub_reading |-> "0", varname |-> "",
           childset1 |-> NoSet, childset2 |-> NoSet, maplist |-> NoSet, sublist |-> NoSet, target |-> NoSet,
           tests |-> <<>>, dep_target |-> NoTest, dep_tests |-> <<>>, section |-> 0]

Empty == [sets |-> <<>>, sets_by_name |-> <<>>, set_name_seeds |-> <<>>, set_alias |-> <<>>,
          list_tags |-> {}, strict_tags |-> {}, options |-> {}, tags |-> {}, static_sets |-> <<>>,
          delimiters |-> NoSet, soft_delimiters |-> NoSet, declared |-> {}, mapping_prefix |-> "@",
          preferred_targets |-> <<>>, reopen_mappings |-> {}, parentheses |-> <<>>,
          sub_readings_ltr |-> FALSE, anchors |-> <<>>, sections |-> 0, place |-> "before",
          rules |-> <<>>, heap |-> <<>>, templates |-> <<>>, vs_sets |-> <<>>, has_dep |-> FALSE,
          has_relations |-> FALSE, has_bag_of_tags |-> FALSE, ordered |-> FALSE,
          vislcg_compat |-> FALSE, rule |-> NoRule, error_counter |-> 0,
          err |-> FALSE, quit |-> FALSE, ret |-> NoSet]

\* An option that does not hold while a part of a statement is parsed.
Restore(g, options) == [g EXCEPT !.options = options]
Suspending(g, option, Parse(_)) == Restore(Parse([g EXCEPT !.options = @ \ {option}]), g.options)

\* Grammar::addAnchor: a primary anchor may be defined once; a rule whose name
\* is that of an anchor does not change it.
addAnchor(g, name, at, primary) ==
    IF name \in DOMAIN g.anchors
    THEN IF primary THEN Quit(g) ELSE g
    ELSE [g EXCEPT !.anchors = (name :> IF at > Len(g.rules) THEN Len(g.rules) ELSE at) @@ @]

\* An anchor stands for the rule that comes next.
parseAnchorish(g, name) == addAnchor(g, name, Len(g.rules), TRUE)

----------------------------------------------------------------------------
(* Rules.  Those parts that a rule may lack are sequences of at most one.   *)

Exclusive == {{"KEEPORDER", "VARYORDER"}, {"REMEMBERX", "RESETX"}, {"NEAREST", "ALLOWLOOP"},
              {"UNSAFE", "SAFE"}, {"UNMAPLAST", "SAFE"}, {"DELAYED", "IMMEDIATE"},
              {"WITHCHILD", "NOCHILD"}, {"ITERATE", "NOITERATE"}, {"BEFORE", "AFTER"}}
Enclosures == {"ENCL_INNER", "ENCL_OUTER", "ENCL_FINAL", "ENCL_ANY"}

Iterating == {"SELECT", "REMOVE", "IFF", "DELIMIT", "REMCOHORT", "MOVE", "SWITCH"}
\* The flags that follow from those given and from the kind of the rule.
Defaults(key, flags) ==
    flags \cup (IF flags \cap {"ITERATE", "NOITERATE"} = {} /\ key \notin Iterating THEN {"NOITERATE"} ELSE {})
          \cup (IF key = "UNMAP" /\ flags \cap {"SAFE", "UNSAFE"} = {} THEN {"SAFE"} ELSE {})
          \cup (IF "UNMAPLAST" \in flags THEN {"UNSAFE"} ELSE {})

\* The set of a part of a rule goes to one of its fields.
SetField(g, field) == Then(g, LAMBDA k : [k EXCEPT !.rule = [@ EXCEPT ![field] = k.ret]])
RuleSet(g, expr, field) ==
    IF expr = <<>> THEN g ELSE Then(g, LAMBDA k : SetField(parseSetInlineWrapper(k, expr[1]), field))

\* The head of a rule: its wordform, its name, the command of an EXTERNAL, its
\* flags, and the set that goes with WITHCHILD.
LegalHead(s) ==
    /\ s.kind = "EXTERNAL" => s.how \in {"ONCE", "ALWAYS"}
    /\ Cardinality(s.flags \cap Enclosures) <= 1
    /\ \A pair \in Exclusive : ~(pair \subseteq s.flags)
NewRule(g, s) ==
    [g EXCEPT !.rule = [NoRule EXCEPT !.type = IF s.kind = "EXTERNAL" THEN "EXTERNAL_" \o s.how ELSE s.kind,
                                      !.wordform = s.wordform, !.name = s.name, !.varname = s.command,
                                      !.flags = Defaults(s.kind, s.flags), !.sub_reading = s.sub],
              !.has_dep = @ \/ "WITHCHILD" \in s.flags]
RuleHead(g, s) ==
    Then(Require(parseTags(g, {s.wordform, s.command} \ {""}), LegalHead(s)),
         LAMBDA k : RuleSet(NewRule(k, s), IF "WITHCHILD" \in s.flags THEN s.child ELSE <<>>, "childset1"))

\* What may be mapped or put in: a LIST without fail-fast tags and lines of
\* regular expressions, a unified set, or an OR of such.
IsUnified(g, set) == set.unify # "" \/ ChildUnify(g, set)
HasTags(list) == DOMAIN list.trie # {} \/ DOMAIN list.trie_special # {}
is_mapping_list(g, set) ==
    IF HasTags(set.list) \/ IsUnified(g, set)
    THEN \A trie \in {set.list.trie, set.list.trie_special} :
            \A tv \in trie_getTags(trie) : ToSet(tv) \cap (FailFast \cup RegexpLine) = {}
    ELSE /\ \A i \in DOMAIN set.ops : set.ops[i] = "OR"
         /\ \A i \in DOMAIN set.sets : LET part == g.sets[set.sets[i]]
                                       IN  HasTags(part.list) \/ IsUnified(g, part)

IsList(g, set) == ~IsEmptySet(set) /\ is_mapping_list(g, set)
RuleList(g, expr, field) ==
    Then(Suspending(g, "NO_ISETS", LAMBDA k : RuleSet(k, <<expr>>, field)),
         LAMBDA k : Require(k, IsList(k, k.sets[k.rule[field]])))

Relations == {"ADDRELATIONS", "SETRELATIONS", "REMRELATIONS"}
Relation == {"ADDRELATION", "SETRELATION", "REMRELATION"}
Mapping == {"MAP", "ADD", "REPLACE", "APPEND", "SUBSTITUTE", "COPY", "SETVARIABLE", "REMVARIABLE",
            "ADDCOHORT", "JUMP", "SPLITCOHORT", "MERGECOHORTS"} \cup Relations \cup Relation

\* The lists of a rule: what is substituted, what is mapped, what comes after it.
NeedsSublist == {"SUBSTITUTE", "EXECUTE"}
ListsAfter(s) == s.kind \in Relations \cup {"SETVARIABLE"} \/ (s.kind = "COPY" /\ s.sublist # <<>>)
IfHas(g, has, s, field) == IF has THEN Then(g, LAMBDA k : RuleList(k, s[field][1], field)) ELSE g
RuleLists(g, s) ==
    IfHas(IfHas(Require(IfHas(g, s.kind \in NeedsSublist, s, "sublist"),
                        ~(s.sub = "*" /\ s.kind \in {"MAP", "ADD", "REPLACE", "SUBSTITUTE", "COPY"})),
                s.kind \in Mapping, s, "maplist"),
          ListsAfter(s), s, "sublist")

\* AFTER and BEFORE, the target with its children, and the tests.  The tests are
\* put in front of each other and turned around at the end of the rule.
Where(g, s) ==
    LET flags == g.rule.flags \cup ({s.where} \ {""}) IN
    CASE s.kind = "ADDCOHORT" ->
            Require([g EXCEPT !.rule.type = "ADDCOHORT_" \o s.where], s.where \in {"AFTER", "BEFORE"})
      [] s.kind \in {"ADD", "MAP", "SUBSTITUTE", "COPY"} /\ flags \cap {"AFTER", "BEFORE"} # {} ->
            RuleSet([g EXCEPT !.rule.flags = flags], s.child, "childset1")
      [] OTHER -> g
Children(g, s) ==
    CASE s.with = "WITHCHILD" ->
            RuleSet([g EXCEPT !.has_dep = TRUE, !.rule.flags = (@ \cup {"WITHCHILD"}) \ {"NOCHILD"}],
                    s.child, "childset1")
      [] s.with = "NOCHILD" ->
            [g EXCEPT !.rule.flags = (@ \cup {"NOCHILD"}) \ {"WITHCHILD"}, !.rule.childset1 = NoSet]
      [] OTHER -> g
RuleTests(g, as) == Then(g, LAMBDA k : ParseTests(k, as, k.rule.flags))
RuleTarget(g, s) ==
    Then(RuleTests(RuleSet(Then(Where(g, s), LAMBDA k : Children(k, s)), <<s.target>>, "target"), s.tests),
         LAMBDA k : [k EXCEPT !.rule.tests = k.ret])

\* The other end of a dependency, a relation, a move or a merge: the first of its
\* tests is the target, except for MERGECOHORTS.
Directed == {"SETPARENT", "SETCHILD", "MOVE", "SWITCH", "MERGECOHORTS"} \cup Relations \cup Relation
Direction(g, s) ==
    CASE s.kind = "MOVE" -> Require([g EXCEPT !.rule.type = "MOVE_" \o s.to], s.to \in {"AFTER", "BEFORE"})
      [] s.kind \in {"SWITCH", "MERGECOHORTS"} -> Require(g, s.to = "WITH")
      [] s.to = "TO"   -> g
      [] s.to = "FROM" -> [g EXCEPT !.rule.flags = @ \cup {"REVERSE"}]
      [] OTHER         -> Error(g)
OtherChildren(g, s) ==
    IF s.kind = "MOVE" /\ s.child2 # <<>> THEN RuleSet([g EXCEPT !.has_dep = TRUE], s.child2, "childset2") ELSE g
OtherEnd(g, s) ==
    CASE g.ret = <<>> -> Error(g)
      [] s.kind = "MERGECOHORTS" -> [g EXCEPT !.rule.dep_tests = g.ret]
      [] OTHER -> [g EXCEPT !.rule.dep_target = Head(g.ret), !.rule.dep_tests = Tail(g.ret)]
RuleDirection(g, s) ==
    IF s.kind \notin Directed THEN g
    ELSE Then(RuleTests(Then(Direction(g, s), LAMBDA k : OtherChildren(k, s)), s.dep_tests),
              LAMBDA k : OtherEnd(k, s))

\* addRuleToGrammar: to the section that is open.
Section(g) == CASE g.place = "section" -> g.sections - 1
                [] g.place = "before"  -> -1
                [] g.place = "after"   -> -2
                [] g.place = "null"    -> -3
addRuleToGrammar(g) == [g EXCEPT !.rules = Append(@, [g.rule EXCEPT !.section = Section(g)]),
                                 !.rule = NoRule]

EndOfRule(g, s) ==
    addRuleToGrammar([g EXCEPT
        !.has_dep = @ \/ s.kind \in {"SETPARENT", "SETCHILD", "SPLITCOHORT", "MERGECOHORTS"},
        !.has_relations = @ \/ s.kind \in Relations \cup Relation])
parseRule(g, s) ==
    Then(Then(Then(Then(RuleHead(g, s), LAMBDA k : RuleLists(k, s)),
                   LAMBDA k : RuleTarget(k, s)),
              LAMBDA k : RuleDirection(k, s)),
         LAMBDA k : EndOfRule(k, s))

----------------------------------------------------------------------------
(* The other statements                                                     *)

\* DELIMITERS and SOFT-DELIMITERS: the set has a name of its own.
addNamedList(g, name, elements) == addSet(g, [NewSet(name) EXCEPT !.list = parseTagList(ToSet(elements))])
ListUnder(g, name, elements, Use(_)) ==
    Then(parseTags(g, UNION ToSet(elements)),
         LAMBDA k : Require(Then(addNamedList(k, name, elements), Use), elements # <<>>))
Delimiting(g, s, field, name) ==
    IF field \in g.declared THEN Error(g)
    ELSE ListUnder([g EXCEPT !.declared = @ \cup {field}], name, s.tags, LAMBDA k : [k EXCEPT ![field] = k.ret])

MappingPrefix(g, s) == IF "prefix" \in g.declared THEN Error(g)
                       ELSE [g EXCEPT !.declared = @ \cup {"prefix"}, !.mapping_prefix = s.prefix]

PreferredTargets(g, s) ==
    Then(parseTags(g, ToSet(s.tags)), LAMBDA k : [k EXCEPT !.preferred_targets = @ \o s.tags])
ReopenMappings(g, s) ==
    Then(parseTags(g, ToSet(s.tags)), LAMBDA k : [k EXCEPT !.reopen_mappings = @ \cup ToSet(s.tags)])
StaticSets(g, s) == [g EXCEPT !.static_sets = @ \o s.names]

\* LIST-TAGS and STRICT-TAGS: the list so far is put aside while the statement is
\* read, and lost if it fails; the new one is what it lists.
ListTags(g, s) ==
    Then(parseTags([g EXCEPT !.list_tags = {}], ToSet(s.tags)),
         LAMBDA k : [k EXCEPT !.list_tags = g.list_tags \cup ToSet(s.tags)])
StrictTags(g, s) ==
    LET Listed(k) == [k EXCEPT !.strict_tags = g.strict_tags \cup ToSet(s.tags)]
    IN  Listed(parseTags([g EXCEPT !.strict_tags = {}], ToSet(s.tags)))

List(g, s) == ListUnder(g, s.name, s.tags, LAMBDA k : k)

\* SET: a set that is another one by a new name is an alias of it.
Parsed(acc) == Then(acc.g, LAMBDA k : Returning(k, [NewSet("") EXCEPT !.sets = acc.sets, !.ops = acc.ops]))
IsAlias(g, set) == rehash(set) \notin DOMAIN g.sets /\ Len(set.sets) = 1
AliasOf(g, name, h) == addSet([g EXCEPT !.set_alias = (name :> h) @@ @], g.sets[h])
SetOrAlias(g, set) == IF IsAlias(g, set) THEN AliasOf(g, set.name, set.sets[1]) ELSE addSet(g, set)
SetStatement(g, s) ==
    Then(Suspending(g, "NO_ISETS", LAMBDA k : Parsed(parseSetInline(k, s.expr))),
         LAMBDA k : SetOrAlias(k, [k.ret EXCEPT !.name = s.name]))

\* The headings; that of a section or of the rules outside of them may name an
\* anchor.
BeforeKinds == {"MAPPINGS", "CORRECTIONS", "BEFORE-SECTIONS"}
SectionKinds == {"SECTION", "CONSTRAINTS"}
Heading(g, s) ==
    LET k == CASE s.kind \in BeforeKinds  -> [g EXCEPT !.place = "before"]
               [] s.kind \in SectionKinds -> [g EXCEPT !.place = "section", !.sections = @ + 1]
               [] s.kind = "AFTER-SECTIONS" -> [g EXCEPT !.place = "after"]
               [] s.kind = "NULL-SECTION"   -> [g EXCEPT !.place = "null"]
    IN  IF s.anchor = "" THEN k ELSE parseAnchorish(k, s.anchor)

Options(g, s) == IF ~(s.options \subseteq {"NO_ISETS", "NO_ITMPLS", "STRICT_WFORMS", "STRICT_BFORMS",
                        "STRICT_SECOND", "STRICT_REGEX", "STRICT_ICASE", "SELF_NO_BARRIER", "ORDERED"})
                 THEN Error(g)
                 ELSE [g EXCEPT !.options = @ \cup (s.options \ {"ORDERED"}),
                                !.ordered = @ \/ "ORDERED" \in s.options]

\* A template may be defined once.
AddTemplate(g, name) ==
    IF name \in DOMAIN g.templates THEN Quit(g) ELSE [g EXCEPT !.templates = (name :> g.ret) @@ @]
Template(g, s) ==
    Then(Suspending(g, "NO_ITMPLS", LAMBDA k : parseContextualTestList(k, s.test, {})),
         LAMBDA k : AddTemplate(k, s.name))

Parentheses(g, s) ==
    Then(parseTags(g, UNION {ToSet(s.pairs[i]) : i \in DOMAIN s.pairs}),
         LAMBDA k : [k EXCEPT !.parentheses = FoldLeft(LAMBDA f, pair : (pair[1] :> pair[2]) @@ f, @, s.pairs)])

\* The keywords of rules, in the two places where they are looked for.
CohortRules == Relations \cup Relation \cup
    {"SETVARIABLE", "REMVARIABLE", "SETPARENT", "SETCHILD", "EXTERNAL", "REMCOHORT", "ADDCOHORT",
     "SPLITCOHORT", "MERGECOHORTS"}
ReadingRules ==
    {"IFF", "MAP", "ADD", "APPEND", "SELECT", "REMOVE", "REPLACE", "DELIMIT", "SUBSTITUTE", "COPY", "JUMP",
     "MOVE", "SWITCH", "EXECUTE", "UNMAP", "PROTECT", "UNPROTECT"}

Headings == BeforeKinds \cup SectionKinds \cup {"AFTER-SECTIONS", "NULL-SECTION"}
Statement(g, s) ==
    CASE s.kind = "DELIMITERS"        -> Delimiting(g, s, "delimiters", "_S_DELIMITERS_")
      [] s.kind = "SOFT-DELIMITERS"   -> Delimiting(g, s, "soft_delimiters", "_S_SOFT_DELIMITERS_")
      [] s.kind = "MAPPING-PREFIX"    -> MappingPrefix(g, s)
      [] s.kind = "PREFERRED-TARGETS" -> PreferredTargets(g, s)
      [] s.kind = "REOPEN-MAPPINGS"   -> ReopenMappings(g, s)
      [] s.kind = "STATIC-SETS"       -> StaticSets(g, s)
      [] s.kind = "LIST-TAGS"         -> ListTags(g, s)
      [] s.kind = "STRICT-TAGS"       -> StrictTags(g, s)
      [] s.kind = "LIST"              -> List(g, s)
      [] s.kind = "SET"               -> SetStatement(g, s)
      [] s.kind \in Headings          -> Heading(g, s)
      [] s.kind = "SUBREADINGS"       -> [g EXCEPT !.sub_readings_ltr = s.ltr]
      [] s.kind = "OPTIONS"           -> Options(g, s)
      [] s.kind = "ANCHOR"            -> parseAnchorish(g, s.anchor)
      [] s.kind = "TEMPLATE"          -> Template(g, s)
      [] s.kind = "PARENTHESES"       -> Parentheses(g, s)
      [] s.kind \in CohortRules \cup ReadingRules -> parseRule(g, s)
      [] OTHER                        -> Error(g)

\* The loop of parseFromUChar for one statement: an error is counted and the rest
\* of the statement skipped.
TooMany(g) == IF g.error_counter >= MaxErrors THEN Quit(g) ELSE g
Caught(g) ==
    IF g.err THEN TooMany([g EXCEPT !.err = FALSE, !.error_counter = @ + 1, !.rule = NoRule]) ELSE g

\* parseFromUChar: an included text is parsed in place; END ends only the text it
\* is in.
RECURSIVE parseFromUChar(_, _)
parseFromUChar(g, text) ==
    IF g.quit \/ text = <<>> \/ Head(text).kind = "END" THEN g
    ELSE parseFromUChar(IF Head(text).kind = "INCLUDE" THEN parseFromUChar(g, Head(text).text)
                        ELSE Caught(Statement(g, Head(text))),
                        Tail(text))

----------------------------------------------------------------------------
(* Before and after the text (parse_grammar)                                *)

\* Each magic tag has a set of its name, and _PAREN_ is _LEFT_ or _RIGHT_.
MagicSet(g, t) == addSet(parseTags(g, {t}), [NewSet(t) EXCEPT !.list = addTagToSet(EmptyList, t)])
ParenSet(g) ==
    addSet(g, [NewSet("_PAREN_") EXCEPT !.sets = <<getSet(g, "_LEFT_"), getSet(g, "_RIGHT_")>>, !.ops = <<"OR">>])
Begin(compat) ==
    ParenSet(FoldLeft(MagicSet, addAnchor([Empty EXCEPT !.vislcg_compat = compat, !.tags = {"*"}], "START", 0, TRUE),
                      MagicTags))

\* The sets named in the varstring tags; one that does not exist ends the program,
\* for nothing catches the error out here.
Uncaught(g) == IF Failed(g) THEN Quit(g) ELSE g
BindSet(g, t, name) ==
    Then(Uncaught(parseSet(g, [unify |-> "", name |-> name])),
         LAMBDA k : [k EXCEPT !.vs_sets[t] = Append(@, k.ret)])
NamedSets(t) == [j \in DOMAIN VarSets[t] |-> <<t, VarSets[t][j]>>]
BindVarstrings(g) ==
    LET vs == g.tags \cap Varstring IN
    FoldLeft(LAMBDA acc, tn : Then(acc, LAMBDA k : BindSet(k, tn[1], tn[2])),
             [g EXCEPT !.vs_sets = [t \in vs |-> <<>>]],
             FlattenSeq([i \in DOMAIN TagSeq |-> IF TagSeq[i] \in vs THEN NamedSets(TagSeq[i]) ELSE <<>>]))

\* The last anchor stands for the last rule.  Without rules its place wraps
\* around and is cut down to none.
NameAnchor(g, i) ==
    IF g.rules[i].name = "" THEN g ELSE addAnchor(g, g.rules[i].name, i - 1, FALSE)
RuleAnchors(g) ==
    Then(addAnchor(g, "END", IF g.rules = <<>> THEN 0 ELSE Len(g.rules) - 1, TRUE),
         LAMBDA k : FoldLeft(NameAnchor, k, [i \in DOMAIN k.rules |-> i]))

Finish(g) ==
    Then(Then(RuleAnchors(g),
              LAMBDA k : BindVarstrings([k EXCEPT !.ordered = @ \/ k.tags \cap RegexpLine # {}])),
         LAMBDA k : NumericBranches(BindTemplates(k)))
=============================================================================
