------------------------------ MODULE Matching ------------------------------
(***************************************************************************)
(* Rules run on the cohorts of a window: which readings a rule's target    *)
(* and tests match, what the rule does to them, and what is remembered     *)
(* from one rule to the next.                                              *)
(*                                                                         *)
(* A rule: [type, target, sub, tests, add, maps, remove, spot, after]: sub *)
(* is 0 or the number of a sub-reading, add and maps are the plain and the *)
(* mapping tags of its list, remove the tags to take away, spot and after  *)
(* where ADD and COPY insert. What the window does with its rules (order,  *)
(* sections, index of rules) is RuleEngine's; protected and hidden         *)
(* readings, IFF and --unsafe are left to it as well.                      *)
(***************************************************************************)
EXTENDS SetMatching

CONSTANTS
    Grammars,      \* grammars to try: sequences of rules
    Windows,       \* windows to try: sequences of cohorts, each a sequence of readings
    SentTags,      \* tags an external program may add to a reading
    MaxSteps,      \* bound: rules, exchanges and resets in a behaviour
    MaxReadings    \* bound: readings of a cohort

ASSUME BoundsAssumption == MaxSteps \in Nat /\ MaxReadings \in Nat \ {0}

VARIABLES
    rules,         \* the grammar
    cohorts,
    yes, no,       \* index_readingSet_yes and _no: set and hash of a reading
    steps
vars == <<rules, cohorts, yes, no, steps>>


-----------------------------------------------------------------------------
(* The target loop of runRulesOnSingleWindow.                              *)

HasPart(rd, r) == r.sub + 1 \in DOMAIN rd

\* An answer is copied to readings of the same plain hash
SharesAnswers(r) == ~(IsSpecial[r.target] \/ IsMapping(r.target))

\* All tests, until one fails; with nothing bound, their answer holds for
\* the other readings too, once one of them has held (did_test).
Unbinding(s) == s.ut = FreshBindings.ut /\ s.us = {}

Tested(acc, a, r) ==
    [yes |-> a.yes, s |-> a.s,
     tested |-> IF a.yes THEN ~IsSpecial[r.target] /\ Unbinding(a.s) ELSE acc.tested]

RunTests(s, c, r) ==
    FoldLeft(LAMBDA acc, test : IF acc.yes THEN Tested(acc, RunTest(acc.s, c, test), r) ELSE acc,
             [yes |-> TRUE, s |-> s, tested |-> FALSE], r.tests)

\* Variant: a reading finds the bindings of the reading before it.
NewReading_Bound(s) == s

NewReading(s) == [s EXCEPT !.ut = FreshBindings.ut, !.us = {}, !.first = TRUE]

\* The answer of the tests for a reading, t being that of the target
WithTests(acc, t, c, r) ==
    IF acc.tested \/ ~t.yes THEN [yes |-> acc.good, s |-> t.s, tested |-> acc.tested]
    ELSE RunTests(t.s, c, r)

Concluded(acc, i, h, target, q) ==
    LET hit == target /\ q.yes IN
    [s |-> q.s, tested |-> q.tested, good |-> q.yes,
     matched |-> IF hit THEN acc.matched \cup {i} ELSE acc.matched,
     plain |-> acc.plain @@ (h :> hit)]

AskTests(acc, c, i, h, r, t) == Concluded(acc, i, h, t.yes, WithTests(acc, t, c, r))

TryPart(acc, c, i, p, r) ==
    IF p.mapped /\ r.type \in {"MAP", "ADD", "REPLACE"} THEN acc
    ELSE IF SharesAnswers(r) /\ HashPlain(p) \in DOMAIN acc.plain
    THEN [acc EXCEPT !.matched = IF acc.plain[HashPlain(p)] THEN @ \cup {i} ELSE @]
    ELSE AskTests(acc, c, i, HashPlain(p), r, Matches(NewReading(acc.s), c, p, r.target))

TargetLoop(s, c, r) ==
    FoldLeft(LAMBDA acc, i :
                IF HasPart(acc.s.co[c].readings[i], r)
                THEN TryPart(acc, c, i, acc.s.co[c].readings[i][r.sub + 1], r) ELSE acc,
             [s |-> s, tested |-> FALSE, good |-> FALSE, matched |-> {},
              plain |-> [h \in {} |-> FALSE]], Numbers(s, c))

\* A cohort no tag of which can match the target is not tried, nor is one
\* with a single reading by SELECT and REMOVE.
Tries(co, r) ==
    /\ r.sub = 0 => r.target \in co.possible
    /\ r.type \in {"SELECT", "REMOVE"} => Len(co.readings) > 1

Attempted(s, c, r) ==
    IF Tries(s.co[c], r) THEN TargetLoop(s, c, r) ELSE [matched |-> {}, s |-> s]

-----------------------------------------------------------------------------
(* What the types of rules do to part k of reading i.                      *)

PutMappings(co, i, k, r, mapped) ==
    IF r.maps = <<>> THEN co ELSE SplitMappings(co, i, k, r.maps, mapped)

InsertAll(s, at, ts) == SubSeq(s, 1, at - 1) \o ts \o SubSeq(s, at, Len(s))

\* ADD, MAP and COPY put their tags before or after the tag spot, at the
\* front if the reading has no such tag, or at the end.
PutTags(co, i, k, r) ==
    LET old == co.readings[i][k].tags
        at  == IF r.spot \notin ToSet(old) THEN 1
               ELSE SelectInSeq(old, LAMBDA t : t = r.spot) + (IF r.after THEN 1 ELSE 0)
    IN IF r.spot = NoTag \/ at > Len(old) THEN AddTags(co, i, k, r.add)
       ELSE Reflow([co EXCEPT !.readings[i][k].tags = InsertAll(@, at, r.add)], i, k)

SetMapped(co, i, k, r) ==
    IF r.type = "MAP" THEN [co EXCEPT !.readings[i][k].mapped = TRUE] ELSE co

Map(co, i, k, r) ==
    SetMapped(PutMappings(PutTags(co, i, k, r), i, k, r, r.type = "MAP"), i, k, r)

Replace(co, i, k, r) ==
    LET c == Reflow([co EXCEPT !.readings[i][k].tags = <<>>], i, k)
    IN PutMappings(AddTags(c, i, k, r.add), i, k, r, TRUE)

\* SUBSTITUTE: one tag is replaced wherever it is; of several the last
\* marks the place. Nothing happens if none is there.
Substitute(co, i, k, r) ==
    LET old  == co.readings[i][k].tags
        gone == ToSet(r.remove) \cap ToSet(old)
        spot == SelectLastInSeq(old, LAMBDA t : t \in gone)
        New(j) == IF old[j] \notin gone THEN <<old[j]>>
                  ELSE IF Cardinality(gone) = 1 \/ j = spot THEN r.add ELSE <<>>
        new  == FlattenSeq([j \in DOMAIN old |-> New(j)])
    IN IF gone = {} THEN co
       ELSE PutMappings(Reflow([co EXCEPT !.readings[i][k].tags = new], i, k), i, k, r, TRUE)

\* APPEND adds one reading, whichever reading matched
Append1(co, r) ==
    LET n == Len(co.readings) + 1
        New == AppendReading([co EXCEPT !.possible = @ \cup AnySets], <<Reading(<<>>)>>)
    \* the new reading joins the cohort after those it is split into
    IN [PutMappings(AddTags(New, n, 1, r.add), n, 1, r, FALSE)
            EXCEPT !.readings = SubSeq(@, 1, n - 1) \o SubSeq(@, n + 1, Len(@)) \o <<@[n]>>]

\* COPY copies the whole reading and changes the copy itself
Copy(co, i, r) ==
    LET n == Len(co.readings) + 1
        here == ToSet(r.remove) \cap TagSet(co.readings[i][r.sub + 1])
        c == FoldLeft(LAMBDA d, t : DelTag(d, n, 1, t), AppendReading(co, co.readings[i]),
                      SetToSeq(here))
    IN Reflow(PutMappings(PutTags(c, n, 1, r), n, 1, r, TRUE), n, 1)

Acts(co, i, r) ==
    LET k == r.sub + 1 IN
    CASE r.type \in {"ADD", "MAP"} -> Map(co, i, k, r)
      [] r.type = "UNMAP"      -> Unmap(co, i, k)
      [] r.type = "REPLACE"    -> Replace(co, i, k, r)
      [] r.type = "SUBSTITUTE" -> Substitute(co, i, k, r)
      [] r.type = "COPY"       -> Copy(co, i, r)

\* SELECT keeps what matched, REMOVE the rest, unless nothing would be left.
Kept(co, r, matched) ==
    LET all == DOMAIN co.readings IN
    CASE matched \in {{}, all}  -> all
      [] r.type = "SELECT" -> matched
      [] r.type = "REMOVE" -> all \ matched

\* REMOVE moves readings from the end into the gaps.
Discard(co, r, keep) ==
    LET In(K) == SelectSeq([i \in DOMAIN co.readings |-> i], LAMBDA i : i \in K)
        Of(ns) == [n \in DOMAIN ns |-> co.readings[ns[n]]]
        gone == DOMAIN co.readings \ keep
        Close(rds, i) == Front([rds EXCEPT ![i] = Last(rds)])
    IN [co EXCEPT !.readings = IF r.type = "SELECT" THEN Of(In(keep))
                               ELSE FoldLeft(Close, @, Reverse(In(gone))),
                  !.deleted = @ \o Of(In(gone))]

\* Variant: the smallest and largest values outlive the readings.
Changed_ValuesKept(r, co, old) == co

\* The end of the loop body: a cohort that changed has no current values.
Changed(r, co, old) ==
    LET Hashes(rds) == [i \in DOMAIN rds |-> [k \in DOMAIN rds[i] |-> Hash(rds[i][k])]]
    IN IF \/ Hashes(co.readings) # Hashes(old.readings)
          \/ r.type = "UNMAP" /\ co.readings # old.readings
       THEN [co EXCEPT !.current = FALSE] ELSE co

Applied(co, r, matched) ==
    IF matched = {} THEN co
    ELSE CASE r.type \in {"SELECT", "REMOVE"} -> Discard(co, r, Kept(co, r, matched))
           [] r.type = "APPEND" -> Append1(co, r)
           [] OTHER -> FoldLeft(LAMBDA c, i : IF i \in matched THEN Acts(c, i, r) ELSE c,
                                co, [i \in DOMAIN co.readings |-> i])

-----------------------------------------------------------------------------

FreshCohort(rds) ==
    [readings |-> rds, deleted |-> <<>>, possible |-> AnySets, current |-> FALSE,
     low |-> 0, high |-> 0, quit |-> FALSE]

\* A cohort as reading the input leaves it: each reading with its tags
ReadIn(rds) ==
    FoldLeft(LAMBDA co, i : FoldLeft(LAMBDA d, k : Reflow(d, i, k), co,
                                     [k \in DOMAIN rds[i] |-> k]),
             FreshCohort(rds), [i \in DOMAIN rds |-> i])

Init ==
    /\ rules \in Grammars
    /\ \E w \in Windows : cohorts = [c \in DOMAIN w |-> ReadIn(w[c])]
    /\ yes = {} /\ no = {}
    /\ steps = 0

Counted == steps < MaxSteps /\ steps' = steps + 1

Asked == [co |-> cohorts, yes |-> yes, no |-> no] @@ FreshBindings

Act(a, c, r) == [a EXCEPT !.s.co[c] = Changed(r, Applied(@, r, a.matched), @)]

Outcome(c, r) == Act(Attempted(Asked, c, r), c, r)

RunRule(c, j) ==
    /\ Counted
    /\ c \in DOMAIN cohorts
    /\ \E s \in {Outcome(c, rules[j]).s} :
            Len(s.co[c].readings) <= MaxReadings /\ cohorts' = s.co /\ yes' = s.yes /\ no' = s.no
    /\ UNCHANGED rules

\* resetIndexes, every so many windows
ResetIndexes ==
    /\ Counted
    /\ yes' = {} /\ no' = {}
    /\ UNCHANGED <<rules, cohorts>>

\* An EXTERNAL rule on cohort d: the program gets the window and sends
\* readings of it back as changed; here, with a tag added to one. It is
\* sent no sub-readings.
External(d, c, i, t) ==
    /\ Counted
    /\ {c, d} \subseteq DOMAIN cohorts /\ i \in DOMAIN cohorts[c].readings
    /\ t \notin TagSet(cohorts[c].readings[i][1])
    /\ LET changed == Reflow([cohorts[c] EXCEPT !.readings[i][1].tags = Append(@, t)], i, 1)
       IN cohorts' = [cohorts EXCEPT ![c] = changed, ![d].current = FALSE]
    /\ UNCHANGED <<rules, yes, no>>

\* Nothing but the bound stops the system.
AtBound == steps = MaxSteps /\ UNCHANGED vars

Next ==
    \/ AtBound
    \/ \E c \in DOMAIN cohorts, j \in DOMAIN rules : RunRule(c, j)
    \/ ResetIndexes
    \/ \E c, d \in DOMAIN cohorts, t \in SentTags :
            \E i \in DOMAIN cohorts[c].readings : External(d, c, i, t)

Spec == Init /\ [][Next]_vars

-----------------------------------------------------------------------------
(* Properties.                                                             *)

TypeOK ==
    /\ \A c \in DOMAIN cohorts :
            /\ cohorts[c].possible \subseteq Sets
            /\ cohorts[c].readings # <<>>
            /\ \A rd \in ToSet(cohorts[c].readings) : \A k \in DOMAIN rd :
                    /\ rd[k].mapping \in {NoTag} \cup MappingTags
                    /\ rd[k].mapped \in BOOLEAN
    /\ \A e \in yes \cup no : e[1] \in Sets
    /\ steps \in 0..MaxSteps

\* What is remembered never changes an answer: whatever rules, splits,
\* exchanges and resets came before, each rule matches the readings it would
\* match with the index of answers empty and every set possible for every
\* cohort.
AnswersAreFresh ==
    \A c \in DOMAIN cohorts, j \in DOMAIN rules :
        LET r == rules[j]
            anew == [Asked EXCEPT !.yes = {}, !.no = {},
                                  !.co = [d \in DOMAIN @ |-> [@[d] EXCEPT !.possible = Sets,
                                                                         !.current = FALSE]]]
        IN Attempted(Asked, c, r).matched = Attempted(anew, c, r).matched

\* The members of a unified set: the paths of its lists for $$, and its
\* top-level sets for &&.
Paths(X) == [n \in DOMAIN SetDef[X].paths |-> ToSet(SetDef[X].paths[n])]
Members(U) ==
    LET in == SetDef[U].parts[1]
        lists == IF SetDef[in].kind = "list" THEN <<in>> ELSE SetDef[in].parts
        paths == FlattenSeq([n \in DOMAIN lists |-> Paths(lists[n])])
    IN IF SetDef[U].kind = "&&" THEN [n \in DOMAIN lists |-> ToSet(Paths(lists[n]))]
       ELSE [n \in DOMAIN paths |-> {paths[n]}]

Has(p, member) == \E path \in member : path \subseteq TagSet(p)

\* The members a part has, and the first of them
AllMembers(p, U) == {m \in ToSet(Members(U)) : Has(p, m)}
FirstMember(p, U) ==
    LET ns == {n \in DOMAIN Members(U) : Has(p, Members(U)[n])}
    IN  IF ns = {} THEN {} ELSE {Members(U)[Min(ns)]}

HoldsAt(c, t, member) ==
    /\ c + t.at \in DOMAIN cohorts
    /\ LET rds == ToSet(cohorts[c + t.at].readings) IN
       IF t.careful THEN \A rd \in rds : Has(rd[1], member) ELSE \E rd \in rds : Has(rd[1], member)

\* The members that a rule with one member in the place of its target's set
\* matches part p by
Explaining(c, r, members) == {m \in members : \A t \in ToSet(r.tests) : HoldsAt(c, t, m)}

\* Where a reading has several members of a && set, the code holds on to all of
\* them and lets each reading it asks have another one: more than one reading
\* is asked by a careful test, and by a second test.
MixesMembers(p, r) ==
    /\ SetDef[r.target].kind = "&&" /\ Cardinality(AllMembers(p, r.target)) > 1
    /\ Len(r.tests) > 1 \/ \E t \in ToSet(r.tests) : t.careful

\* Of the members of && that a reading has, the manual takes the first where it
\* explains what && does, and each, with a rule of its own, in its example: a
\* reading is matched if its first member explains it, and only if one does.
TargetAsExploded ==
    \A c \in DOMAIN cohorts, j \in DOMAIN rules :
        LET r == rules[j]
            matched == Attempted(Asked, c, r).matched IN
        (/\ Unifies(r.target) /\ r.tests # <<>> /\ Tries(cohorts[c], r)
         /\ \A t \in ToSet(r.tests) : t.set = r.target)
        => \A i \in DOMAIN cohorts[c].readings :
            LET p == cohorts[c].readings[i][1]
                first == FirstMember(p, r.target)
                most == IF SetDef[r.target].kind = "&&" THEN AllMembers(p, r.target) ELSE first
            IN  /\ Explaining(c, r, first) # {} => i \in matched
                /\ i \in matched => Explaining(c, r, most) # {} \/ MixesMembers(p, r)

\* A $$ set is asked for first in a test, on some reading of its cohort, and
\* then in the test linked to it.
LinkAsExploded ==
    \A c \in DOMAIN cohorts, j \in DOMAIN rules :
        \A t \in ToSet(rules[j].tests) :
            (SetDef[t.set].kind = "$$" /\ t.link # <<>> /\ c + t.at \in DOMAIN cohorts)
            => RunTest(Asked, c, t).yes =
                \E rd \in ToSet(cohorts[c + t.at].readings) :
                    \E m \in FirstMember(rd[1], t.set) : HoldsAt(c + t.at, t.link[1], m)

\* A rule with a set unified by $$ or && in its target and its tests does what
\* the manual explains it by: it matches the readings that a rule would that has
\* one member in all places of the set, which for $$ is the first of its tags
\* that the reading has. What an earlier reading or a failed attempt was bound
\* to makes no difference (doesSetMatchReading, runRulesOnSingleWindow).
UnifiedAsExploded == TargetAsExploded /\ LinkAsExploded

\* The smallest and largest value a test compares with are those of the
\* readings the cohort has now.
ValuesAreCurrent ==
    \A c \in DOMAIN cohorts :
        cohorts[c].current => /\ cohorts[c].low = Lowest(cohorts[c])
                              /\ cohorts[c].high = Highest(cohorts[c])

KeptMappings(c, r, a) ==
    LET after == a.s.co[c] IN
    /\ ~after.quit
    /\ \A rd \in ToSet(after.readings) : \A k \in DOMAIN rd :
            TagSet(rd[k]) \cap MappingTags = {rd[k].mapping} \ {NoTag}
    /\ (r.type \in {"ADD", "MAP"} /\ r.sub = 0) =>
        \A i \in a.matched :
            LET p == cohorts[c].readings[i][1] IN
            \A m \in (ToSet(r.maps) \cup {p.mapping}) \ {NoTag} :
                \E rd \in ToSet(after.readings) :
                    /\ HashPlain(rd[1]) = HashPlain(p) \cup ToSet(r.add)
                    /\ rd[1].mapping = m

\* No reading gets a second mapping tag, which would end the program, and
\* ADD and MAP leave every combination: each reading they act on is there
\* afterwards with each mapping tag of the rule, and with the one it had.
MappingsAreKept ==
    \A c \in DOMAIN cohorts, j \in DOMAIN rules : KeptMappings(c, rules[j], Outcome(c, rules[j]))

\* Joining readings for printing loses none of them: each is printed, with
\* the mapping tags of its sub-readings and its own, or, if it has none, as one
\* that has. And what is printed was there. Left out are cohorts with readings
\* that the mapping tag of a sub-reading alone tells apart (mergeReadings).
PrintLosesNothing ==
    \A c \in DOMAIN cohorts :
        SubMappingsAgree(cohorts[c].readings) => LosesNothing(cohorts[c].readings)

\* Numeric tags compare as the manual's table says: a tag of the grammar, be it
\* <W=MIN> or <W=MAX>, which stands for an extreme of the cohort asked, and a tag
\* of a reading match when some value fits both, and two inequalities when they
\* are the same.
ComparesAsTheTableSays ==
    LET numbered == {co \in ToSet(cohorts) : Values(co) # {}}
    IN  \A x \in UNION {{Lowest(co), Highest(co)} : co \in numbered}, y \in 0..3 :
            \A op, iop \in Operators : ComparesAsTable(op, x, iop, y, -1..7)
=============================================================================
