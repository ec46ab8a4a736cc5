------------------------------ MODULE TagTrie ------------------------------
(***************************************************************************)
(* The tries in which a LIST keeps its tags (TagTrie.hpp), and the reading *)
(* of a list of tags into them (TextualParser::parseTagList).              *)
(*                                                                         *)
(* A trie is a function from the paths of its nodes to whether the node is *)
(* terminal.  Tags are ordered by their place in TagSeq, which stands both *)
(* for the order of their addresses and for that of their hashes.          *)
(***************************************************************************)
EXTENDS Integers, Sequences, SequencesExt, FiniteSets, Functions, TLC

CONSTANTS
    TagSeq,      \* all tags, in order
    SpecialTags, \* those with T_SPECIAL
    FailFast,    \* those written ^tag; special
    Numerical,   \* those written <tag=..>; special
    Varstring,   \* those with T_VARSTRING; special
    Hits         \* special tag -> the tags of a reading that it matches (for a
                 \* fail-fast tag, the one tag without its ^)

Tags == ToSet(TagSeq)

ASSUME TagAssumption ==
    /\ IsInjective(TagSeq)
    /\ SpecialTags \subseteq Tags
    /\ (FailFast \cup Numerical \cup Varstring) \subseteq SpecialTags
    /\ DOMAIN Hits = SpecialTags

Place(t) == CHOOSE i \in DOMAIN TagSeq : TagSeq[i] = t
Before(a, b) == Place(a) < Place(b)
Sorted(tv) == SortSeq(tv, Before)

\* The elements of a set in the order of Less.
Arranged(S, Less(_, _)) ==
    LET insert(x, seq) == SelectSeq(seq, LAMBDA y : Less(y, x)) \o <<x>> \o SelectSeq(seq, LAMBDA y : ~Less(y, x))
    IN  FoldSet(insert, <<>>, S)

----------------------------------------------------------------------------
EmptyTrie == [p \in {} |-> FALSE]

\* The nonempty prefixes of a path: the nodes on the way to it.
Nodes(tv) == {SubSeq(tv, 1, i) : i \in 1 .. Len(tv)}

\* trie_insert: stops at a terminal node on the way, and drops what lies
\* under the node it makes terminal.
trie_insert(trie, tv) ==
    IF \E p \in Nodes(tv) \cap DOMAIN trie : trie[p]
    THEN trie
    ELSE [p \in {q \in DOMAIN trie : ~IsStrictPrefix(tv, q)} \cup Nodes(tv) |->
            p = tv \/ (p \in DOMAIN trie /\ trie[p])]

\* The insertion of one tag by addTagToSet: nothing under the node is dropped.
SetTerminal(trie, t) == [p \in DOMAIN trie \cup {<<t>>} |-> p = <<t>> \/ trie[p]]

\* Depth first, the children of a node in the order of their tags.
PathBefore(p, q) ==
    \/ IsStrictPrefix(p, q)
    \/ \E i \in DOMAIN p \cap DOMAIN q :
            SubSeq(p, 1, i - 1) = SubSeq(q, 1, i - 1) /\ Before(p[i], q[i])
DepthFirst(paths) == Arranged(paths, PathBefore)

\* One path from the root down to the first terminal node.
trie_singular(trie) ==
    \E p \in DOMAIN trie :
        /\ trie[p]
        /\ \A q \in DOMAIN trie : IsStrictPrefix(q, p) => ~trie[q]
        /\ \A q \in DOMAIN trie : Len(q) <= Len(p) => IsPrefix(q, p)

\* The tags of all nodes, those under a terminal node included.
LastTags(paths) == [i \in DOMAIN paths |-> Last(paths[i])]
trie_getTagList(trie) == LastTags(DepthFirst(DOMAIN trie))

\* The hash of a trie does not tell which nodes are terminal.
trie_rehash(trie) == DOMAIN trie

trie_hasType(trie, type) == \E p \in DOMAIN trie : Last(p) \in type

\* The walk of trie_getTags: at a terminal node the tags gathered so far are
\* sorted in place, kept, and the last of them taken off again; a node that is
\* not terminal leaves its tag behind.
Keep(acc, tv) == [tv |-> Front(tv), rv |-> acc.rv \cup {tv}]
Visit(acc, tag, terminal) ==
    IF terminal THEN Keep(acc, Sorted(Append(acc.tv, tag))) ELSE [acc EXCEPT !.tv = Append(@, tag)]

\* The nodes that the walk reaches: none under a terminal one.
Reached(trie) == {p \in DOMAIN trie : \A q \in DOMAIN trie : IsStrictPrefix(q, p) => ~trie[q]}

Walk(trie, paths) ==
    FoldLeft(LAMBDA acc, p : Visit(acc, Last(p), trie[p]), [tv |-> <<>>, rv |-> {}], DepthFirst(paths)).rv

\* trie_getTags with a vector of the caller's, as Grammar::getTags uses it.
GetTagsInto(trie) == Walk(trie, Reached(trie))

\* trie_getTags of one argument: a new vector for every root.
trie_getTags(trie) ==
    UNION {Walk(trie, {p \in Reached(trie) : p[1] = r[1]}) : r \in {q \in DOMAIN trie : Len(q) = 1}}

----------------------------------------------------------------------------
(* A LIST under construction: its two tries, the fail-fast tags, and whether *)
(* it holds the tag * (ST_ANY).                                              *)

IsAny(t) == t = "*"

EmptyList == [trie |-> EmptyTrie, trie_special |-> EmptyTrie, ff_tags |-> {}, any |-> FALSE]

addTagToSet(s, t) ==
    [s EXCEPT !.any     = @ \/ IsAny(t),
              !.ff_tags = IF t \in FailFast THEN @ \cup {t} ELSE @,
              !.trie         = IF t \in SpecialTags THEN @ ELSE SetTerminal(@, t),
              !.trie_special = IF t \in SpecialTags THEN SetTerminal(@, t) ELSE @]

InsertComposite(s, tv) ==
    IF ToSet(tv) \cap SpecialTags # {}
    THEN [s EXCEPT !.trie_special = trie_insert(@, tv)]
    ELSE [s EXCEPT !.trie = trie_insert(@, tv)]

InsertTags(s, tv) == IF Len(tv) = 1 THEN addTagToSet(s, tv[1]) ELSE InsertComposite(s, tv)

\* How often each tag occurs in a set of tag vectors.
Frequency(taglists, t) == Cardinality({tv \in taglists : t \in ToSet(tv)})
ByFrequency(taglists, tv) ==
    SortSeq(tv, LAMBDA a, b : \/ Frequency(taglists, a) > Frequency(taglists, b)
                              \/ Frequency(taglists, a) = Frequency(taglists, b) /\ Before(a, b))

\* The insertion of a set of tag vectors: in their order, each with its most
\* frequent tags first.
VectorBefore(v, w) == PathBefore(v, w)
InsertAll(s, taglists) ==
    LET step(acc, tv) == InsertTags(acc, ByFrequency(taglists, tv))
    IN  FoldLeft(step, s, Arranged(taglists, VectorBefore))

\* parseTagList: every element is a set of tags, sorted and made unique.
parseTagList(elements) ==
    InsertAll(EmptyList, {Arranged(e, Before) : e \in elements})

\* The composite tag written in place in a rule or a SET: not sorted.
InlineList(tv) == InsertTags(EmptyList, tv)
=============================================================================
