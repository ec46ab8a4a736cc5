---------------------------- MODULE ContextTest -----------------------------
(***************************************************************************)
(* Running one contextual test: a chain of linked tests, each of which     *)
(* looks at one cohort or scans for one, to the left, to the right or both *)
(* ways, through windows, up to a barrier; or goes through the dependency  *)
(* tree or the relations of a cohort.                                      *)
(*                                                                         *)
(* runContextualTest calls itself for the linked test as soon as a cohort  *)
(* of the scan matches, so a state is the stack of these calls; one step   *)
(* is one runSingleTest. A cohort is its place in line, the cohorts of all *)
(* windows in a row, >>> and enclosed ones included. A set is one tag.     *)
(*                                                                         *)
(* Left out: templates, enclosures as positions, bags of tags, sub-        *)
(* readings, deleted readings, attaching, unification.                     *)
(***************************************************************************)
EXTENDS Integers, Sequences, SequencesExt, DepIterators

CONSTANTS
    Cases,         \* what to run: records of lines, chains of tests, targets
    AlwaysSpan,    \* --always-span
    NoPassOrigin,  \* --no-pass-origin
    NoCohort,      \* the null Cohort pointer
    NoSet          \* the test has no barrier

\* A cohort of the line: its window, its readings as tag sets, CT_ENCLOSED, and
\* its dependencies and relations. The children of >>> have the parent 0. >>> is
\* not enclosed; an enclosed group at the end of a window, after which a scan slips
\* into the next one, and links of enclosed cohorts are left out.
LineType(l) ==
    /\ l \in Seq(Range(l))
    /\ \A i \in DOMAIN l :
         /\ DOMAIN l[i] = {"win", "readings", "enclosed", "parent", "children", "rels"}
         /\ l[i].win \in Nat \ {0} /\ l[i].enclosed \in BOOLEAN
         /\ l[i].readings \in Seq(SUBSET STRING) /\ l[i].readings # <<>>
         /\ l[i].parent \in Nat \cup {NoParent} /\ l[i].children \subseteq DOMAIN l
         /\ \A j \in DOMAIN l : l[j].parent = i => j \in l[i].children
         /\ \A j \in l[i].children : l[j].parent = (IF LocalNo(l, i) = 0 THEN 0 ELSE i)
         /\ \A n \in DOMAIN l[i].rels : n \in STRING /\ l[i].rels[n] \subseteq Nat
         /\ l[i].enclosed =>
              /\ i - 1 \in DOMAIN l /\ l[i - 1].win = l[i].win
              /\ i + 1 \in DOMAIN l /\ l[i + 1].win = l[i].win
              /\ l[i].parent = NoParent
              /\ \A j \in DOMAIN l : /\ i # l[j].parent
                                   /\ \A n \in DOMAIN l[j].rels : i \notin l[j].rels[n]
    /\ \A i, j \in DOMAIN l : i < j => l[i].win <= l[j].win
    /\ \A i \in DOMAIN l : \A w \in 1..l[i].win : \E j \in DOMAIN l : l[j].win = w

\* The position and the modifiers of a test. scan is *, ** or neither; span is
\* <, >, W or neither; origin is o, O or neither; mark is x, X or neither. dep is
\* the dependency asked for, rel a relation; side is l or r, most is ll or rr.
\* With c and s the parser takes any * for a deep scan and no scan.
TestType(t) ==
    /\ DOMAIN t = {"off", "scan", "abs", "span", "self", "nb", "careful", "quant", "not",
                   "negate", "origin", "mark", "target", "barrier", "cbarrier", "dep", "rel",
                   "side", "most"}
    /\ t.off \in Int /\ t.scan \in {"none", "*", "**"} /\ t.span \in {"none", "<", ">", "W"}
    /\ t.quant \in {"none", "ALL", "NONE"} /\ t.origin \in {"none", "o", "O"}
    /\ t.mark \in {"none", "x", "X"}
    /\ {t.abs, t.self, t.nb, t.careful, t.not, t.negate} \subseteq BOOLEAN
    /\ t.dep \in {"none", "p", "pp", "c", "c*", "cc", "s", "s*", "rel"}
    /\ t.side \in {"none", "l", "r"} /\ t.most \in {"none", "ll", "rr"}
    /\ t.dep # "none" => t.off = 0 /\ ~ t.abs  \* else it starts from >>> or next to it
    /\ t.dep = "none" => t.side = "none" /\ t.most = "none"
    /\ t.dep \in {"c", "c*", "s", "s*"} => t.scan = "none"
    /\ t.dep = "p" => t.most = "none"
    /\ t.self /\ t.dep = "none" => t.span = "none"  \* else S may read past the end of a window

ASSUME CasesAssumption ==
    \A k \in Cases :
        /\ \A l \in k.lines : LineType(l) /\ k.targets \subseteq {i \in DOMAIN l : ~ l[i].enclosed}
        /\ \A c \in k.chains : c \in Seq(Range(c)) \ {<<>>} /\ \A i \in DOMAIN c : TestType(c[i])
ASSUME OptionsAssumption == AlwaysSpan \in BOOLEAN /\ NoPassOrigin \in BOOLEAN
ASSUME NoCohortAssumption == NoCohort \notin Nat

VARIABLES
    line,    \* the cohorts of all windows, linked by prev and next
    cohorts, \* cohorts[w]: the cohorts of window w that are not enclosed
    chain,   \* the test and those linked to it
    target,  \* the cohort the rule is tried on
    mark,    \* mark
    deepSeen, \* dep_deep_seen: tests with the cohorts they went on from
    calls,   \* the runContextualTest calls, the innermost one last
    answer   \* what the outermost call returned, or "running"

given == <<line, cohorts, chain, target>>
vars == <<given, mark, deepSeen, calls, answer>>

Cohorts == DOMAIN line
\* The cohort with number 0, while the rules of the target's window run.
RootCohort == cohorts[line[target].win][1]

-----------------------------------------------------------------------------
(* The line and its windows. *)

Win(c) == line[c].win
\* SingleWindow::cohorts of window w, by local_number, and the cohort at its
\* position p, from 0.
Visible(l) == {i \in DOMAIN l : ~ l[i].enclosed}
CohortsOf(l, w) ==
    LET S == {i \in Visible(l) : l[i].win = w}
    IN  [p \in 1..Cardinality(S) |-> CHOOSE c \in S : LocalNo(l, c) = p - 1]
Size(w) == Len(cohorts[w])
At(w, p) == IF p \in 0..Size(w) - 1 THEN cohorts[w][p + 1] ELSE NoCohort
LocalNumber(c) == LocalNo(line, c)

\* The windows on either side; 0 is the null pointer.
Before(w) == w - 1
After(w)  == IF w < Len(cohorts) THEN w + 1 ELSE 0

SpansLeft(t)  == t.span \in {"<", "W"}
SpansRight(t) == t.span \in {">", "W"}

\* Where the test starts: the position, and the window, which may be another one.
Start(t, w, p) ==
    LET v == IF ~ t.abs THEN w
             ELSE IF t.span = "<" /\ Before(w) # 0 THEN Before(w)
             ELSE IF t.span = ">" /\ After(w) # 0 THEN After(w) ELSE w
        q == IF ~ t.abs THEN p + t.off
             ELSE IF t.off < 0 THEN Size(v) + t.off ELSE t.off
    IN  IF q >= Size(v) /\ SpansRight(t) /\ After(v) # 0
          THEN [win |-> After(v), pos |-> 0]
        ELSE IF q < 0 /\ SpansLeft(t) /\ Before(v) # 0
          THEN [win |-> Before(v), pos |-> Size(Before(v)) - 1]
        ELSE [win |-> v, pos |-> q]

\* TopologyLeftIter and TopologyRightIter: the next cohort that is not enclosed.
LeftOf(t, c) ==
    LET far == {d \in 1..c - 1 : ~ line[d].enclosed}
    IN  IF far = {} \/ (Win(c - 1) # Win(c) /\ ~ SpansLeft(t) /\ ~ AlwaysSpan) THEN NoCohort
        ELSE CHOOSE d \in far : \A e \in far : e <= d
RightOf(t, c) ==
    LET far == {d \in c + 1..Len(line) : ~ line[d].enclosed}
    IN  IF far = {} \/ (Win(c + 1) # Win(c) /\ ~ SpansRight(t) /\ ~ AlwaysSpan) THEN NoCohort
        ELSE CHOOSE d \in far : \A e \in far : d <= e

Onwards(t, c) ==
    IF t.off < 0 THEN LeftOf(t, c) ELSE IF t.off > 0 THEN RightOf(t, c) ELSE NoCohort

BothWays(t) == t.off = 0 /\ t.scan # "none" /\ t.dep = "none"

\* runDependencyTest and runRelationTest, the former with POS_DEP_DEEP.
Loops(t) == t.dep \in {"c", "c*", "s", "s*", "rel"}
Deep(t)  == t.dep \in {"c*", "s*"}
\* The tests that go on after a cohort that does not match.
Scans(t) == t.scan # "none" \/ t.dep \in {"pp", "cc"}

-----------------------------------------------------------------------------
(* Matching one cohort. *)

SomeHas(c, s)  == \E i \in DOMAIN line[c].readings : s \in line[c].readings[i]
AllHave(c, s)  == \A i \in DOMAIN line[c].readings : s \in line[c].readings[i]
FirstHas(c, s) == s \in line[c].readings[1]

\* What makes doesSetMatchCohort run the linked test: a reading that matches,
\* or with NOT none that does. Careful tests look no further than a mismatch,
\* and take the first reading for one under NOT.
Fits(t, c) == (IF t.careful THEN FirstHas(c, t.target) ELSE SomeHas(c, t.target)) # t.not

\* The return value, when the linked test, if there is one, gives linked.
Holds(t, c, linked) ==
    Fits(t, c) /\ linked /\ (t.careful /\ ~ t.not => AllHave(c, t.target))

\* Mutant: a careful scan stops only where the first reading matches.
Matched_FirstReading(t, c) ==
    IF t.careful THEN FirstHas(c, t.target) ELSE SomeHas(c, t.target)

\* context.matched_target
Matched(t, c) ==
    IF t.careful /\ t.scan # "*" THEN FirstHas(c, t.target) ELSE SomeHas(c, t.target)

\* Variant: BARRIER asks for all readings, as CBARRIER does.
IsBarrier_All(t, c) ==
    \/ t.barrier # NoSet /\ AllHave(c, t.barrier)
    \/ t.cbarrier # NoSet /\ AllHave(c, t.cbarrier)

\* Under NOT the barrier is inverted as well.
IsBarrier(t, c) ==
    \/ t.barrier # NoSet /\ SomeHas(c, t.barrier) # t.not
    \/ t.cbarrier # NoSet /\ (IF t.not THEN ~ FirstHas(c, t.cbarrier) ELSE AllHave(c, t.cbarrier))

\* The cohort the chain may not pass. >>> is no limit.
IsOrigin(t, c, origin) ==
    (t.off # 0 \/ t.scan # "none") /\ c = origin /\ LocalNumber(c) # 0

\* runSingleTest: the result, whether the scan is over and whether at a barrier.
\* default is set for a test that does not scan, and after a barrier no more.
Single(t, c, origin, linked) ==
    LET ret    == Holds(t, c, linked) /\ (IsOrigin(t, c, origin) => t.not)
        broken == IsOrigin(t, c, origin) \/ ~ Scans(t) \/ (t.scan = "*" /\ Matched(t, c))
        lifted == IsBarrier(t, c) /\ ~ broken /\ t.self /\ t.nb
    IN  [ret     |-> ret,
         break   |-> broken \/ ((IsBarrier(t, c) \/ (Matched(t, c) /\ ret)) /\ ~ lifted),
         barrier |-> IsBarrier(t, c) /\ ~ lifted,
         default |-> ~ Scans(t) /\ ~ IsBarrier(t, c)]

-----------------------------------------------------------------------------
(* One call of runContextualTest.                                          *)

\* way is the loop the call is in: "self" and then one of "line" and "both",
\* at the cohort it has come to; for "both" that is i steps from the window
\* and position in left or right. todo is what the iterator of pp or cc has left,
\* climbed the cohorts the iterator of p has left behind. "tree" is the loop of
\* runDependencyTest or runRelationTest, with a level for each time it called
\* itself; kept: ALL has found a match. linked: what the linked test returned
\* here. from, which the code does not keep, is the cohort the test stands on.
Call(k, w, p, o) ==
    [test |-> k, win |-> w, pos |-> p, origin |-> o, way |-> "start", from |-> At(w, p),
     at |-> NoCohort, i |-> 0, side |-> "left", left |-> 0, lpos |-> 0, right |-> 0, rpos |-> 0,
     linked |-> "unknown", todo |-> {}, climbed |-> {}, levels |-> <<>>, kept |-> FALSE]

Top == calls[Len(calls)]
Test == chain[Top.test]
HasLink == Top.test < Len(chain)
Update(f) == calls' = [calls EXCEPT ![Len(calls)] = f]

\* label_gotACohort: found is FALSE when the Cohort pointer is null.
Result(found, ret) ==
    LET r == IF ~ found /\ Test.not /\ ~ HasLink THEN TRUE ELSE found /\ ret
    IN  r # Test.negate

\* With --no-pass-origin or O the first test may not pass the rule's target.
FirstOrigin ==
    IF chain[1].origin # "o" /\ (NoPassOrigin \/ chain[1].origin = "O") THEN target ELSE NoCohort

Return(r) ==
    IF Len(calls) = 1
      THEN calls' = <<>> /\ answer' = (IF r THEN "yes" ELSE "no")
      ELSE /\ calls' = [Front(calls) EXCEPT ![Len(calls) - 1].linked = IF r THEN "yes" ELSE "no"]
           /\ UNCHANGED answer

Init ==
    /\ \E k \in Cases : line \in k.lines /\ chain \in k.chains /\ target \in k.targets
    /\ cohorts = [w \in 1..Last(line).win |-> CohortsOf(line, w)]
    /\ mark = target
    /\ deepSeen = {}
    /\ calls = <<Call(1, Win(target), LocalNumber(target), FirstOrigin)>>
    /\ answer = "running"

\* Mutant: when the left is exhausted the distance is not increased.
NextBoth_NoStep(f) ==
    IF f.side = "left" /\ f.right # 0 THEN [f EXCEPT !.side = "right"]
    ELSE IF f.left # 0 THEN [f EXCEPT !.side = "left", !.i = @ + 1]
    ELSE f

\* The loop both ways: after the left or right cohort at distance i the other
\* one, in a window that is not exhausted.
NextBoth(f) ==
    IF f.side = "left" /\ f.right # 0 THEN [f EXCEPT !.side = "right"]
    ELSE IF f.left # 0 THEN [f EXCEPT !.side = "left", !.i = @ + 1]
    ELSE [f EXCEPT !.i = @ + 1, !.side = "right"]
Place(f) == IF f.side = "left" THEN At(f.left, f.lpos - f.i) ELSE At(f.right, f.rpos + f.i)
EnterBoth(f) == [NextBoth([f EXCEPT !.side = "right"]) EXCEPT !.way = "both"]

\* The end of the loop over an iterator: the last result, and whether there is
\* no cohort because the loop was left for ALL, NONE, l or r or never entered.
EndLine(ret, failed) ==
    Return(IF ~ ret /\ Test.quant = "NONE" THEN Result(TRUE, TRUE) ELSE Result(~ failed, ret))

\* What the iterator comes to after f.at.
Upcoming(f) ==
    LET up == ParentIter(line, RootCohort, Test, AlwaysSpan, f.climbed, f.at)
    IN  CASE Test.dep = "none" -> Onwards(Test, f.at)
          [] Test.dep = "p" -> IF up = {} THEN NoCohort ELSE CHOOSE p \in up : TRUE
          [] Test.dep \in {"pp", "cc"} -> IF f.todo = {} THEN NoCohort ELSE Foremost(line, Test, f.todo)

\* With l and r every cohort has to be on that side of the one before it.
WrongSide(t, c, d) ==
    (t.side = "l" /\ Less(line, c, d)) \/ (t.side = "r" /\ ~ Less(line, c, d))

\* From the cohort f.at to the next one. ret is the last result; if nothing has
\* been tested there is none.
Proceed(f, tested, ret) ==
    \E next \in {Upcoming(f)} :
        IF next = NoCohort THEN EndLine(tested /\ ret, ~ tested)
        ELSE IF WrongSide(Test, f.at, next) THEN EndLine(FALSE, TRUE)
        ELSE /\ Update([f EXCEPT !.way = "line", !.at = next, !.linked = "unknown",
                                 !.todo = @ \ {next},
                                 !.climbed = IF Test.dep = "p" THEN @ \cup {f.at} ELSE @])
             /\ UNCHANGED answer

\* S makes the iterators begin with the cohort itself, pp and cc with l or r do so
\* in their order.
SelfFirst(t) == t.self /\ (~ Sided(t) \/ t.dep = "p")

\* The end of runDependencyTest or runRelationTest.
EndTree(found) == Return(Result(TRUE, found # (Test.quant = "NONE")))

\* One call of runDependencyTest. self: the test of the cohort itself is to come.
Level(t, c) ==
    [cur |-> c, self |-> t.self /\ ~ Sided(t) /\ t.dep # "rel",
     todo |-> IF t.dep = "rel" THEN Related(line, t, c) ELSE Deps(line, t, c)]

\* runDependencyTest has been called for c, unless it has been seen.
Descend(levels, c) ==
    IF Deep(Test) /\ <<Top.test, c>> \in deepSeen THEN levels ELSE Append(levels, Level(Test, c))
SeenWith(c) == IF Deep(Test) THEN deepSeen \cup {<<Top.test, c>>} ELSE deepSeen

\* Back to the innermost call that has something left.
Climbing(f, levels) ==
    LET left == {n \in DOMAIN levels : levels[n].self \/ levels[n].todo # {}}
    IN  IF left = {} THEN EndTree(f.kept)
        ELSE /\ Update([f EXCEPT !.way = "tree", !.linked = "unknown",
                                 !.levels = SubSeq(levels, 1, Max(left))])
             /\ UNCHANGED answer

\* The call finds where it starts, and which loop it is going to be in.
Begin ==
    /\ calls # <<>> /\ Top.way = "start"
    /\ LET w == IF Test.mark = "x" THEN Win(mark) ELSE Top.win
           p == IF Test.mark = "x" THEN LocalNumber(mark) ELSE Top.pos
           s == Start(Test, w, p)
           c == At(s.win, s.pos)
           f == [Top EXCEPT !.win = s.win, !.pos = p, !.at = c, !.from = At(w, p),
                            !.origin = IF Test.origin = "o" THEN NoCohort ELSE @,
                            !.left = s.win, !.lpos = s.pos, !.right = s.win, !.rpos = s.pos]
       IN  /\ \/ c = NoCohort /\ Return(Result(FALSE, FALSE))
              \/ /\ c # NoCohort /\ BothWays(Test)
                 /\ Update(IF Test.self THEN [f EXCEPT !.way = "self"] ELSE EnterBoth(f))
                 /\ UNCHANGED answer
              \/ /\ c # NoCohort /\ Test.dep = "none" /\ ~ BothWays(Test)
                 /\ Update([f EXCEPT !.way = IF Test.self THEN "self" ELSE "line"])
                 /\ UNCHANGED answer
              \/ /\ c # NoCohort /\ Test.dep # "none" /\ ~ Loops(Test)
                 /\ \E g \in {[f EXCEPT !.todo = Iterated(line, RootCohort, Test, c)]} :
                        IF SelfFirst(Test) THEN Update([g EXCEPT !.way = "self"]) /\ UNCHANGED answer
                        ELSE Proceed(g, FALSE, FALSE)
              \/ /\ c # NoCohort /\ Loops(Test)
                 /\ \E levels \in {Descend(<<>>, c)} : Climbing(f, levels)
           /\ deepSeen' = IF c = NoCohort THEN deepSeen ELSE SeenWith(c)
    /\ UNCHANGED <<given, mark>>

Inner == Last(Top.levels)

\* The cohort the next runSingleTest is about. S takes the cohort at the
\* position the call began at.
Here ==
    CASE Top.way = "self" -> IF BothWays(Test) THEN Top.at ELSE At(Top.win, Top.pos)
      [] Top.way = "line" -> Top.at
      [] Top.way = "both" -> Place(Top)
      [] Top.way = "tree" -> IF Inner.self THEN Inner.cur ELSE Foremost(line, Test, Inner.todo)

Running == calls # <<>> /\ Top.way # "start"
\* runDependencyTest passes over cohorts in windows that it may not go to.
IsFar ==
    /\ Top.way = "tree" /\ ~ Inner.self /\ Test.dep # "rel"
    /\ ~ InSpan(line, Test, Inner.cur, Here)
NeedsLink == HasLink /\ ~ IsFar /\ Top.linked = "unknown" /\ Fits(Test, Here)

Marked ==
    IF Test.mark = "X" /\ Top.linked = "unknown" /\ Here # NoCohort /\ ~ IsFar THEN Here ELSE mark

\* The linked test is run from the cohort that matches.
CallLinked ==
    /\ Running /\ Here # NoCohort /\ NeedsLink
    /\ mark' = Marked
    /\ LET o == IF chain[Top.test + 1].origin = "O" THEN Here ELSE Top.origin
       IN  calls' = Append(calls, Call(Top.test + 1, Win(Here), LocalNumber(Here), o))
    /\ UNCHANGED <<given, deepSeen, answer>>

\* runSingleTest, with the linked test's answer if it was needed.
Tested == Running /\ Here # NoCohort /\ ~ NeedsLink
Verdict == Single(Test, Here, Top.origin, Top.linked # "no")
Fresh(f) == [f EXCEPT !.linked = "unknown"]

TestSelf ==
    /\ Tested /\ Top.way = "self"
    /\ mark' = Marked
    /\ LET v    == Verdict
           over == v.break /\ (v.ret \/ ~ v.default)
       IN  IF BothWays(Test)
             THEN IF v.break /\ v.ret THEN Return(Result(TRUE, TRUE))
                  ELSE Update(EnterBoth(Fresh(Top))) /\ UNCHANGED answer
             ELSE IF over
               THEN Return(Result(TRUE, v.ret \/ Test.quant = "NONE"))
               ELSE IF Test.dep = "none"
                 THEN Update([Fresh(Top) EXCEPT !.way = "line"]) /\ UNCHANGED answer
                 ELSE Proceed(Top, TRUE, v.ret)
    /\ UNCHANGED <<given, deepSeen>>

TestAlong ==
    /\ Tested /\ Top.way = "line"
    /\ mark' = Marked
    /\ LET v      == Verdict
           failed == (Test.quant = "ALL" /\ ~ v.ret) \/ (Test.quant = "NONE" /\ v.ret)
       IN  IF failed \/ v.break THEN EndLine(v.ret, failed) ELSE Proceed(Top, TRUE, v.ret)
    /\ UNCHANGED <<given, deepSeen>>

\* After a cohort on one side: that side is over, or goes on, or goes on in the
\* next window. Under NOT, if one side is over both are.
Passed(f, over) ==
    LET t == Test IN
    IF f.side = "left"
      THEN IF over THEN [f EXCEPT !.left = 0, !.right = IF t.not THEN 0 ELSE @]
           ELSE IF f.lpos - f.i # 0 THEN f
           ELSE IF ~ (SpansLeft(t) \/ AlwaysSpan) \/ Before(f.left) = 0 THEN [f EXCEPT !.left = 0]
           ELSE [f EXCEPT !.left = Before(f.left), !.lpos = f.i + Size(Before(f.left))]
      ELSE IF over THEN [f EXCEPT !.right = 0, !.left = IF t.not THEN 0 ELSE @]
           ELSE IF f.rpos + f.i # Size(f.right) - 1 THEN f
           ELSE IF ~ (SpansRight(t) \/ AlwaysSpan) THEN [f EXCEPT !.right = 0]
           ELSE [f EXCEPT !.right = After(f.right), !.rpos = -f.i - 1]

\* Either cohort at distance i; outside the window there is none.
TestBoth ==
    /\ Running /\ Top.way = "both" /\ (Here # NoCohort => ~ NeedsLink)
    /\ mark' = Marked
    /\ LET v == IF Here = NoCohort THEN [ret |-> FALSE, break |-> TRUE, default |-> FALSE]
                ELSE Verdict
           f == Passed(Fresh(Top), v.break)
       IN  IF v.break /\ v.ret THEN Return(Result(TRUE, TRUE))
           ELSE IF f.left = 0 /\ f.right = 0 THEN Return(Result(Here # NoCohort, v.ret))
           ELSE Update(NextBoth(f)) /\ UNCHANGED answer
    /\ UNCHANGED <<given, deepSeen>>

\* runDependencyTest or runRelationTest at one cohort: at the cohort itself, or
\* at the next of those it loops over. Without ALL the first match ends all.
TestTree ==
    /\ Tested /\ Top.way = "tree"
    /\ mark' = Marked
    /\ LET v == IF IsFar THEN [ret |-> FALSE, break |-> FALSE, barrier |-> FALSE, default |-> FALSE]
                ELSE Verdict
           all   == Test.quant = "ALL" /\ ~ Inner.self
           outer == Front(Top.levels)
           rest  == Append(outer, IF Inner.self THEN [Inner EXCEPT !.self = FALSE]
                                  ELSE [Inner EXCEPT !.todo = @ \ {Here}])
           down  == Deep(Test) /\ ~ Inner.self /\ ~ v.ret /\ ~ all /\ ~ v.barrier
       IN  /\ CASE v.ret /\ ~ all -> EndTree(TRUE)
                [] v.ret /\ all   -> Climbing([Top EXCEPT !.kept = TRUE], rest)
                [] ~ v.ret /\ all -> EndTree(FALSE)
                [] ~ v.ret /\ ~ all ->
                     \E levels \in {IF Inner.self /\ v.barrier THEN outer
                                   ELSE IF down THEN Descend(rest, Here) ELSE rest} :
                         Climbing(Top, levels)
           /\ deepSeen' = IF down THEN SeenWith(Here) ELSE deepSeen
    /\ UNCHANGED given

Stopped == calls = <<>> /\ UNCHANGED vars

Work == Begin \/ CallLinked \/ TestSelf \/ TestAlong \/ TestBoth \/ TestTree
Next == Work \/ Stopped

Spec == Init /\ [][Next]_vars
FairSpec == Spec /\ WF_vars(Work)

=============================================================================
