---------------------------- MODULE SetMatching ----------------------------
(***************************************************************************)
(* Whether a set matches a reading or a cohort, with all that is           *)
(* remembered on the way: the index of answers by hash of the reading, the *)
(* sets a cohort may still match, and what $$ and && sets are bound to.    *)
(*                                                                         *)
(* A tag is plain or numeric: expressions, variables and the magic tags    *)
(* are left out, and so are static tags, barriers, scanning tests and      *)
(* tests of sub-readings. Answers come with the state after them: cohorts  *)
(* co, index yes and no, bindings ut of $$ sets, us of && sets, and first  *)
(* (unif_sets_firstrun).                                                   *)
(***************************************************************************)
EXTENDS Readings

Unbound == <<>>
FreshBindings == [ut |-> [X \in Sets |-> Unbound], us |-> {}, first |-> TRUE]
Answer(y, s) == [yes |-> y, s |-> s]

-----------------------------------------------------------------------------
(* One reading: doesSetMatchReading.                                       *)

MatchesNumber(co, p, t) ==
    LET v == Comparison[t].val
        val == IF v <= NumMin THEN co.low ELSE IF v >= NumMax THEN co.high ELSE v
    IN \E u \in TagSet(p) \cap Numerical :
            Compare(Comparison[t].op, val, Comparison[u].op, Comparison[u].val)

MatchesTag(co, p, t) == IF t \in Numerical THEN MatchesNumber(co, p, t) ELSE t \in TagSet(p)

AsksExtreme(X, p) ==
    /\ TagSet(p) \cap Numerical # {}
    /\ \E t \in OwnTags(X) \cap Numerical : Comparison[t].val \notin (NumMin + 1)..(NumMax - 1)

\* doesSetMatchReading_tags and _trie. The paths are in the order of the
\* trie; in unification mode only the one X is bound to will do, and the
\* first that matches binds X.
Hits(s, c, p, X, unif) ==
    {n \in DOMAIN SetDef[X].paths :
        /\ \A t \in ToSet(SetDef[X].paths[n]) : MatchesTag(s.co[c], p, t)
        /\ unif => s.ut[X] \in {Unbound, <<X, n>>}}

FirstHit(s, X, hits, unif) ==
    IF hits = {} THEN Answer(FALSE, s)
    ELSE Answer(TRUE, IF unif THEN [s EXCEPT !.ut[X] = <<X, Min(hits)>>] ELSE s)

MatchPaths(s, c, p, X, unif) == FirstHit(s, X, Hits(s, c, p, X, unif), unif)

MatchList(s, c, p, X, unif) ==
    IF SetDef[X].ff \cap TagSet(p) # {} THEN Answer(FALSE, s)
    ELSE MatchPaths(IF AsksExtreme(X, p) THEN [s EXCEPT !.co[c] = UpdateMinMax(@)] ELSE s,
                    c, p, X, unif)

\* Variant: what does not match the tag a $$ set is bound to is remembered.
Remember_Unified(s, X, p, y, unif) ==
    IF y THEN [s EXCEPT !.yes = @ \cup {<<X, Hash(p)>>}]
    ELSE [s EXCEPT !.no = @ \cup {<<X, Hash(p)>>}]

\* The end of doesSetMatchReading: index_readingSet_yes and _no
Remember(s, X, p, y, unif) ==
    IF y THEN [s EXCEPT !.yes = @ \cup {<<X, Hash(p)>>}]
    ELSE IF unif \/ SetDef[X].kind = "$$" THEN s
    ELSE [s EXCEPT !.no = @ \cup {<<X, Hash(p)>>}]

\* Every set of a unified set gets the tag one of them is bound to.
Propagate(s, X) ==
    LET parts == SetDef[X].parts
        bound == SelectSeq(parts, LAMBDA Y : s.ut[Y] # Unbound)
    IN IF bound = <<>> THEN s
       ELSE [s EXCEPT !.ut = [Y \in Sets |-> IF Y \in ToSet(parts) THEN s.ut[bound[1]] ELSE @[Y]]]

RECURSIVE MatchSet(_, _, _, _, _, _)

\* A set made of others. Operators other than OR bind tighter; ^ (failfast)
\* ends the search when its right side matches, - and \ do not. The first
\* part is as after an OR.
NoPart == [match |-> FALSE, failed |-> FALSE, done |-> FALSE]

OpBefore(X, i) == IF i = 1 THEN "OR" ELSE SetDef[X].ops[i - 1]

Decided(acc, op) == IF op = "OR" THEN [acc EXCEPT !.done = @ \/ acc.match \/ acc.failed] ELSE acc

AsksPart(acc, op) ==
    /\ ~acc.done
    /\ \/ op \in {"OR", "^"}
       \/ op \in {"+", "-"} /\ acc.match
       \/ op = "NOT" /\ ~acc.match

JoinPart(acc, op, a) ==
    [acc EXCEPT !.s = a.s,
                !.failed = op # "OR" /\ (@ \/ (op = "^" /\ a.yes)),
                !.match = CASE op \in {"OR", "+"} -> a.yes
                            [] op = "NOT"         -> ~a.yes
                            [] OTHER              -> @ /\ ~a.yes]

MatchPart(acc, op, c, p, Y, bypass, unif) ==
    IF AsksPart(acc, op) THEN JoinPart(acc, op, MatchSet(acc.s, c, p, Y, bypass, unif)) ELSE acc

EndOfParts(acc, X, unif) == Answer(acc.match, IF unif THEN Propagate(acc.s, X) ELSE acc.s)

MatchParts(s, c, p, X, bypass, unif) ==
    EndOfParts(FoldLeft(LAMBDA acc, i : MatchPart(Decided(acc, OpBefore(X, i)), OpBefore(X, i),
                                                  c, p, SetDef[X].parts[i], bypass, unif),
                        NoPart @@ [s |-> s], [i \in DOMAIN SetDef[X].parts |-> i]),
               X, unif)

\* A && set: the first time, all sets of the set that match are noted; from
\* then on one of these has to match.
NoteUnified(acc, Y, a) == [s |-> a.s, ok |-> IF a.yes THEN acc.ok \cup {Y} ELSE acc.ok]

EndOfUnified(acc, us, first) ==
    IF first THEN Answer(us # {}, [acc.s EXCEPT !.us = us, !.first = us = {}])
    ELSE Answer(acc.ok # {}, acc.s)

UnifyWith(acc, s) == EndOfUnified(acc, s.us \cup acc.ok, s.first)

MatchUnified(s, c, p, X, bypass, unif) ==
    LET inner == SetDef[SetDef[X].parts[1]].parts IN
    UnifyWith(FoldLeft(LAMBDA acc, Y :
                            NoteUnified(acc, Y, MatchSet(acc.s, c, p, Y, bypass, unif)),
                       [s |-> s, ok |-> {}], IF s.first THEN inner ELSE SetToSeq(s.us)),
              s)

Remembered(a, X, p, unif) == Answer(a.yes, Remember(a.s, X, p, a.yes, unif))

MatchSet(s, c, p, X, bypass, unif) ==
    LET known == ~bypass /\ ~unif IN
    IF known /\ <<X, Hash(p)>> \in s.no THEN Answer(FALSE, s)
    ELSE IF known /\ <<X, Hash(p)>> \in s.yes THEN Answer(TRUE, s)
    ELSE Remembered(CASE SetDef[X].kind = "any"  -> Answer(TRUE, s)
                      [] SetDef[X].kind = "list" -> MatchList(s, c, p, X, unif)
                      [] SetDef[X].kind = "&&"   -> MatchUnified(s, c, p, X, bypass, unif)
                      [] OTHER -> MatchParts(s, c, p, X, bypass, unif \/ SetDef[X].kind = "$$"),
                    X, p, unif)

\* How rules and tests ask
Matches(s, c, p, X) == MatchSet(s, c, p, X, IsSpecial[X], FALSE)

-----------------------------------------------------------------------------
(* One cohort: doesSetMatchCohort and the contextual tests on it. A test:  *)
(* [at, set, neg, careful, link], at an offset, link a sequence of at most *)
(* one test. x is the dSMC_Context: did_test, matched_tests and            *)
(* matched_target.                                                         *)

RECURSIVE RunTest(_, _, _)

NoContext == [tested |-> FALSE, result |-> FALSE, target |-> FALSE]

\* doesSetMatchCohort_testLinked
Linked(a, test, x) ==
    [yes |-> a.yes, s |-> a.s,
     x |-> [x EXCEPT !.result = a.yes, !.tested = ~IsChildUnify[test.set]]]

TestLinked(s, c, test, x) ==
    IF test.link = <<>> THEN [yes |-> TRUE, s |-> s, x |-> x]
    ELSE IF x.tested THEN [yes |-> x.result, s |-> s, x |-> x]
    ELSE Linked(RunTest(s, c, test.link[1]), test, x)

\* What a failed attempt has bound is taken back, but not unif_sets_firstrun.
Restore(l, before, X) ==
    IF l.yes \/ ~IsChildUnify[X] THEN l
    ELSE [l EXCEPT !.s.ut = before.ut, !.s.us = before.us]

\* doesSetMatchCohort_helper on reading i
TestFound(a, c, test, x) ==
    IF a.yes /\ ~test.neg THEN TestLinked(a.s, c, test, [x EXCEPT !.target = TRUE])
    ELSE [yes |-> FALSE, s |-> a.s, x |-> [x EXCEPT !.target = @ \/ a.yes]]

Attempt(s, c, i, test, x) ==
    Restore(TestFound(Matches(s, c, s.co[c].readings[i][1], test.set), c, test, x), s, test.set)

\* NOT holds where the set matches no reading.
OrNone(r, c, test) ==
    IF test.neg /\ ~r.x.target THEN TestLinked(r.s, c, test, r.x) ELSE r

Numbers(s, c) == [i \in DOMAIN s.co[c].readings |-> i]

\* doesSetMatchCohortNormal: one reading. With a linked test that has to be
\* asked again for every reading, all readings are tried.
Settled(r, test) == r.yes /\ (test.link = <<>> \/ r.x.tested)

TryReading(acc, c, i, test) ==
    IF Settled(acc, test) THEN acc
    ELSE [Attempt(acc.s, c, i, test, acc.x) EXCEPT !.yes = @ \/ acc.yes]

NoLongerPossible(r, c, X) ==
    IF r.x.target \/ X \in AnySets THEN r ELSE [r EXCEPT !.s.co[c].possible = @ \ {X}]

EndOfNormal(r, c, test) ==
    IF Settled(r, test) THEN r ELSE NoLongerPossible(OrNone(r, c, test), c, test.set)

Normal(s, c, test) ==
    EndOfNormal(FoldLeft(LAMBDA acc, i : TryReading(acc, c, i, test),
                         [yes |-> FALSE, s |-> s, x |-> NoContext], Numbers(s, c)), c, test)

\* doesSetMatchCohortCareful: all readings
Careful(s, c, test) ==
    OrNone(FoldLeft(LAMBDA acc, i : IF acc.yes THEN Attempt(acc.s, c, i, test, acc.x) ELSE acc,
                    [yes |-> TRUE, s |-> s, x |-> NoContext], Numbers(s, c)), c, test)

TestCohort(s, c, test) ==
    IF ~test.neg /\ test.set \notin s.co[c].possible THEN Answer(FALSE, s)
    ELSE IF test.careful THEN Careful(s, c, test) ELSE Normal(s, c, test)

\* runContextualTest at a fixed offset
RunTest(s, c, test) ==
    IF c + test.at \in DOMAIN s.co THEN TestCohort(s, c + test.at, test)
    ELSE Answer(test.neg /\ test.link = <<>>, s)
=============================================================================
