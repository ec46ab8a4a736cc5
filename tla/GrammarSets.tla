---------------------------- MODULE GrammarSets ----------------------------
(***************************************************************************)
(* The sets of a grammar while it is being parsed: Grammar::addSet and its *)
(* kin, Set.cpp, and the parsing of set expressions.                       *)
(*                                                                         *)
(* Every operator takes the grammar g and gives the grammar after the call; *)
(* what the call returns is in g.ret.  Sets are known by the hash of their  *)
(* contents, a value made of the hashes of the tries (which do not tell     *)
(* terminal nodes, TagTrie) or of the parts and operators.  Hashes of       *)
(* different values are taken to differ.  A name made up by the program     *)
(* (_G_...) is the empty one.                                               *)
(***************************************************************************)
EXTENDS TagTrie, SequencesExt, Integers

CONSTANT StrictOption \* tag -> the option under which STRICT-TAGS applies to it:
                      \* "" for an ordinary tag, "never" for the magic ones

NoSet == <<>>

\* An error found by the parser drops the statement (err); one found by the
\* grammar ends the program (quit).
Failed(g) == g.err \/ g.quit
Error(g) == [g EXCEPT !.err = TRUE, !.ret = NoSet]
Quit(g) == [g EXCEPT !.quit = TRUE, !.ret = NoSet]
Returning(g, r) == [g EXCEPT !.ret = r]

\* What is done unless something has failed: a call that returns early otherwise.
Then(g, Next(_)) == IF Failed(g) THEN g ELSE Next(g)
Require(g, cond) == IF Failed(g) \/ cond THEN g ELSE Error(g)

\* The results of a call for each of xs, in g.ret, in their order.
Collect(results, g) == Then(g, LAMBDA k : Returning(k, Append(results, k.ret)))
ForEach(g, xs, Call(_, _)) ==
    FoldLeft(LAMBDA acc, x : Then(acc, LAMBDA k : Collect(k.ret, Call(k, x))), Returning(g, <<>>), xs)

\* parseTag: the tag is known from now on, and may have to be a listed one.
Strict(g, t) == /\ g.strict_tags # {}
                /\ t \notin g.strict_tags
                /\ StrictOption[t] \in g.options \cup {""}
parseTags(g, ts) ==
    Require([g EXCEPT !.tags = @ \cup ts], \A t \in ts : ~Strict(g, t))

NewSet(name) == [name |-> name, list |-> EmptyList, sets |-> <<>>, ops |-> <<>>, unify |-> ""]

rehash(s) == IF s.sets = <<>>
             THEN <<"list", trie_rehash(s.list.trie), trie_rehash(s.list.trie_special)>>
             ELSE <<"set", s.sets, s.ops>>

IsEmptySet(s) == s.list = EmptyList /\ s.sets = <<>>

\* Set::reindex: the flags that follow from the contents.
RECURSIVE Special(_, _), ChildUnify(_, _)
ChildUnify(g, s) == \/ s.unify # ""
                    \/ \E i \in DOMAIN s.sets : ChildUnify(g, g.sets[s.sets[i]])
Special(g, s) == \/ s.unify # ""
                 \/ DOMAIN s.list.trie_special # {}
                 \/ ChildUnify(g, s)
                 \/ \E i \in DOMAIN s.sets : Special(g, g.sets[s.sets[i]])

Roots(trie) == {p \in DOMAIN trie : Len(p) = 1}

\* Grammar::getSet for the hash of a name; a set whose name was given a seed
\* is not found under another name.
getSet(g, name) ==
    IF name \notin DOMAIN g.sets_by_name THEN NoSet
    ELSE LET h == g.sets_by_name[name]
         IN  IF g.sets[h].name \in DOMAIN g.set_name_seeds THEN NoSet ELSE h

----------------------------------------------------------------------------
(* Grammar::addSet *)

NonEmpty(list) == IF DOMAIN list.trie # {} THEN list.trie ELSE list.trie_special

\* Mutant: the parts may be of any size.
OnlyTags_AnySize(g, s) ==
    /\ s.sets # <<>> /\ s.unify = ""
    /\ \A i \in DOMAIN s.sets : (i > 1 => s.ops[i - 1] = "OR") /\ g.sets[s.sets[i]].sets = <<>>

\* An OR of LISTs of one element each is made a LIST of their elements.
OnlyTags(g, s) ==
    /\ s.sets # <<>> /\ s.unify = ""
    /\ \A i \in DOMAIN s.sets :
        LET part == g.sets[s.sets[i]] IN
        /\ i > 1 => s.ops[i - 1] = "OR"
        /\ part.sets = <<>>
        /\ DOMAIN part.list.trie = {} \/ DOMAIN part.list.trie_special = {}
        /\ trie_singular(NonEmpty(part.list))
Collapsed(g, s) ==
    LET step(list, h) == InsertTags(list, trie_getTagList(NonEmpty(g.sets[h].list)))
    IN  [s EXCEPT !.list = FoldLeft(step, @, s.sets), !.sets = <<>>, !.ops = <<>>]

\* Some, and not all, of the elements of a LIST are fail-fast tags.
Mixed(s) == /\ s.list.ff_tags # {}
            /\ Cardinality(s.list.ff_tags) <
                 Cardinality(Roots(s.list.trie)) + Cardinality(Roots(s.list.trie_special))
\* The positive part keeps all but the terminal nodes of fail-fast tags; the
\* negative part has the tags without their ^.
Under(t, trie) == {p \in DOMAIN trie : trie[<<t>>] /\ p[1] = t}
WithoutFailFast(list) ==
    LET gone == UNION {Under(t, list.trie_special) : t \in {u \in list.ff_tags : <<u>> \in DOMAIN list.trie_special}}
    IN  [EmptyList EXCEPT !.trie = list.trie, !.trie_special = Restrict(list.trie_special, DOMAIN list.trie_special \ gone)]
Negated(list) ==
    LET bare == Arranged({CHOOSE x \in Hits[t] : TRUE : t \in list.ff_tags}, Before)
    IN  FoldLeft(addTagToSet, EmptyList, bare)

\* A name is taken by the first set defined under it; the same name for other
\* contents ends the program, unless the first one was found to have the
\* contents of a set of another name.
Named(g, s, h) ==
    IF s.name = "" THEN g
    ELSE IF s.name \notin DOMAIN g.sets_by_name
         THEN [g EXCEPT !.sets_by_name = (s.name :> h) @@ @]
    ELSE IF g.sets_by_name[s.name] = h THEN g
    ELSE IF s.name \in DOMAIN g.set_name_seeds
         THEN IF g.set_name_seeds[s.name] = h THEN g ELSE Quit(g)
    ELSE IF g.sets[g.sets_by_name[s.name]].name = s.name THEN Quit(g)
    ELSE [g EXCEPT !.set_name_seeds = (s.name :> h) @@ @]

\* The set is stored under its contents, or dropped for the one already there;
\* two that differ in kind or in size are a collision.
Stored(g, s, h) ==
    IF h \notin DOMAIN g.sets THEN Returning([g EXCEPT !.sets = (h :> s) @@ @], h)
    ELSE LET a == g.sets[h] IN
         IF a.unify # s.unify \/ Special(g, a) # Special(g, s) THEN Quit(g)
         ELSE Returning(g, h)

\* A set that is not split any more
addWhole(g, s, h) == Then(Named(g, s, h), LAMBDA k : Stored(k, s, h))
SplitSet(s, positive, negative) ==
    [s EXCEPT !.list = [EmptyList EXCEPT !.any = s.list.any], !.sets = <<positive, negative>>, !.ops = <<"-">>]
addRehashed(g, s) == addWhole(g, s, rehash(s))

RECURSIVE addSet(_, _)
addParts(g, s) ==
    ForEach(g, <<WithoutFailFast(s.list), Negated(s.list)>>,
            LAMBDA k, list : addSet(k, [NewSet("") EXCEPT !.list = list]))
addSplit(g, s) == addRehashed(g, SplitSet(s, g.ret[1], g.ret[2]))
addCollapsed(g, s) == IF Mixed(s) THEN Then(addParts(g, s), LAMBDA k : addSplit(k, s)) ELSE addRehashed(g, s)
addSet(g, s) == addCollapsed(g, IF OnlyTags(g, s) THEN Collapsed(g, s) ELSE s)

----------------------------------------------------------------------------
(* Set expressions: [items, ops], an item being the name of a set or the tags *)
(* of a set written in place.                                                 *)

\* parseSet: a name; $$A and &&A wrap the set A; the name of a strict or listed
\* tag stands for the set of that tag.  A name is a record [unify, name].
Wrapped(n) == n.unify \o n.name
parseUnified(g, n, inner) ==
    IF inner = NoSet THEN Error(g)
    ELSE IF getSet(g, Wrapped(n)) # NoSet THEN Returning(g, getSet(g, Wrapped(n)))
    ELSE Then(addSet(g, [NewSet(Wrapped(n)) EXCEPT !.sets = <<inner>>, !.unify = n.unify]),
              LAMBDA k : Returning(k, getSet(k, Wrapped(n))))
parseName(g, name, found) ==
    LET listed == g.strict_tags \cup g.list_tags
        known == IF listed = {} THEN g ELSE [g EXCEPT !.tags = @ \cup {name}]
    IN  IF found # NoSet THEN Returning(g, found)
        ELSE IF name \in listed THEN addSet(known, [NewSet(name) EXCEPT !.list = addTagToSet(EmptyList, name)])
        ELSE Error(known)
parseSet(g, n) ==
    IF n.unify # "" THEN parseUnified(g, n, getSet(g, n.name))
    ELSE parseName(g, n.name, IF n.name \in DOMAIN g.set_alias THEN g.set_alias[n.name] ELSE getSet(g, n.name))

\* Grammar::getTags: the tags of all parts, whatever the operators.
RECURSIVE getTags(_, _)
getTags(g, h) ==
    LET s == g.sets[h]
    IN  UNION {getTags(g, s.sets[i]) : i \in DOMAIN s.sets}
        \cup GetTagsInto(s.list.trie) \cup GetTagsInto(s.list.trie_special)

\* The operators worked out while parsing.
SetOps == {"diff", "isect", "symdiff"}
Combined(op, b, a) == CASE op = "diff"    -> b \ a
                        [] op = "isect"   -> a \cap b
                        [] op = "symdiff" -> (a \ b) \cup (b \ a)

\* parseSetInline: acc = [g, sets, ops]; each item is one step.
Item(g, item) ==
    IF "tags" \notin DOMAIN item THEN parseSet(g, item)
    ELSE IF "NO_ISETS" \in g.options /\ item.tags[1] # "*" THEN Error(g)
    ELSE Then(parseTags(g, ToSet(item.tags)),
              LAMBDA k : addSet(k, [NewSet("") EXCEPT !.list = InlineList(item.tags)]))
Added(g, acc, op) == [g |-> g, sets |-> Append(acc.sets, g.ret), ops |-> IF op = "" THEN acc.ops ELSE Append(acc.ops, op)]
WorkedOut(acc) ==
    LET n == Len(acc.sets)
        r == Combined(Last(acc.ops), getTags(acc.g, acc.sets[n - 1]), getTags(acc.g, acc.sets[n]))
    IN  Added(addSet(acc.g, [NewSet("") EXCEPT !.list = InsertAll(EmptyList, r)]),
              [sets |-> SubSeq(acc.sets, 1, n - 2), ops |-> Front(acc.ops)], "")
ItemAdded(acc, op) == IF Failed(acc.g) \/ op \notin SetOps THEN acc ELSE WorkedOut(acc)
ParseItem(acc, item, op) ==
    IF Failed(acc.g) THEN acc ELSE ItemAdded(Added(Item(acc.g, item), acc, op), op)

parseSetInline(g, expr) ==
    FoldLeft(LAMBDA acc, i : ParseItem(acc, expr.items[i], IF i = 1 THEN "" ELSE expr.ops[i - 1]),
             [g |-> g, sets |-> <<>>, ops |-> <<>>], [i \in DOMAIN expr.items |-> i])

\* parseSetInlineWrapper: the set that a rule or a test refers to.
SetOf(acc) == IF Len(acc.sets) = 1 THEN acc.g.sets[acc.sets[1]]
              ELSE [NewSet("") EXCEPT !.sets = acc.sets, !.ops = acc.ops]
InlineSet(acc) == Then(acc.g, LAMBDA k : addSet(k, SetOf(acc)))
parseSetInlineWrapper(g, expr) == InlineSet(parseSetInline(g, expr))

----------------------------------------------------------------------------
(* Grammar::removeNumericTags: the set for the careful half of an f test.   *)

ListOf(set) == IF set.list.ff_tags = {} THEN {} ELSE {Arranged(set.list.ff_tags, Before)}

\* The elements of a LIST without its numeric tags, * if none is left.
NotNumeric(tvs) == {SelectSeq(tv, LAMBDA t : t \notin Numerical) : tv \in tvs} \ {<<>>}
Nonempty(tvs) == IF tvs = {} THEN {<<"*">>} ELSE tvs
InsertKept(list, tv) ==
    IF Len(tv) = 1 /\ tv[1] \in FailFast THEN [list EXCEPT !.ff_tags = @ \cup {tv[1]}]
    ELSE InsertComposite(list, tv)
KeptList(tvs, any) == FoldLeft(InsertKept, [EmptyList EXCEPT !.any = any], Arranged(tvs, VectorBefore))

removeFromList(g, h, s, tvs) ==
    IF \A tv \in tvs : ToSet(tv) \cap Numerical = {} THEN Returning(g, h)
    ELSE addSet(g, [NewSet("") EXCEPT !.list = KeptList(Nonempty(NotNumeric(tvs)), s.list.any), !.unify = s.unify])
removeFromParts(g, h, s) ==
    IF g.ret = s.sets THEN Returning(g, h)
    ELSE addSet(g, [NewSet("") EXCEPT !.sets = g.ret, !.ops = s.ops, !.unify = s.unify])

RECURSIVE removeNumericTags(_, _)
removeNumericTags(g, h) ==
    LET s == g.sets[h] IN
    IF s.sets # <<>> THEN Then(ForEach(g, s.sets, LAMBDA k, i : removeNumericTags(k, i)),
                               LAMBDA k : removeFromParts(k, h, s))
    ELSE removeFromList(g, h, s, UNION {trie_getTags(trie) : trie \in {s.list.trie, s.list.trie_special}} \cup ListOf(s))
=============================================================================
