------------------------- MODULE ContextTestProofs --------------------------
(***************************************************************************)
(* Proofs about ContextTest: where a chain of contextual tests looks, for  *)
(* every line of cohorts, every chain of tests and every option.           *)
(***************************************************************************)
EXTENDS ContextMeaning, FiniteSetTheorems, SequenceTheorems, WellFoundedInduction, TLAPS

-----------------------------------------------------------------------------
(* The invariant.                                                          *)

\* What the rule is run on does not change.
GivenOK ==
    /\ LineType(line) /\ target \in Visible(line)
    /\ chain \in Seq(Range(chain)) \ {<<>>} /\ \A n \in DOMAIN chain : TestType(chain[n])
    /\ cohorts = [w \in 1..Last(line).win |-> CohortsOf(line, w)]

\* The windows that a test which stands in window v is about.
Wide(t, v, w) ==
    /\ w < v => SpansLeft(t) \/ AlwaysSpan
    /\ w > v => SpansRight(t) \/ AlwaysSpan

\* The cohort lets the scan pass.
Clear(t, c) == ~ SomeHas(c, t.barrier)

\* A scan along the line that has come to d is on its side, and has passed no
\* barrier.
OnItsSide(t, c, d) ==
    /\ t.off < 0 => d <= Base(t, c)
    /\ t.off > 0 => d >= Base(t, c)
ClearUpTo(t, c, d) ==
    BarrierIsPlain(t) => /\ \A e \in LineScope(t, c) : Between(Base(t, c), e, d) => Clear(t, e)
                         /\ t.self => Clear(t, c)

\* A scan along the line that has not begun has passed nothing.
ClearFrom(t, c, d) == \A e \in LineScope(t, c) : ~ Between(Base(t, c), e, d)

\* The first test with S is of the cohort the test stands on.
OnSelf(f, t) ==
    /\ t.self
    /\ BothWays(t) => /\ f.at = Base(t, f.from) /\ f.i = 0
                      /\ f.left = Win(f.at) /\ f.lpos = LocalNo(line, f.at)
                      /\ f.right = Win(f.at) /\ f.rpos = LocalNo(line, f.at)
    /\ ~ BothWays(t) => At(f.win, f.pos) = f.from
    /\ ~ BothWays(t) /\ t.dep = "none" => OnItsSide(t, f.from, f.at) /\ ClearFrom(t, f.from, f.at)
    /\ t.dep # "none" => f.at = f.from /\ f.climbed = {} /\ ~ Loops(t)

\* The way up from c by k parents, of which only the last may be its own parent.
WayUp(t, c, d, climbed, k) ==
    /\ d = Lineage(c)[k] /\ (d \notin climbed \/ ParentNode(d) = d)
    /\ Cardinality(climbed) = k
    /\ BarrierIsPlain(t) => \A j \in 1..k - 1 : Clear(t, Lineage(c)[j])

\* A scan with an iterator.
OnLine(f, t) ==
    /\ ~ BothWays(t) /\ ~ Loops(t)
    /\ t.dep = "none" => OnItsSide(t, f.from, f.at) /\ ClearUpTo(t, f.from, f.at)
    /\ t.dep = "p" => \E k \in 1..Len(line) : WayUp(t, f.from, f.at, f.climbed, k)
    /\ t.dep # "none" /\ SelfFirst(t) /\ BarrierIsPlain(t) => Clear(t, f.from)

\* A scan both ways is in window l, or r, in which it counts from lp, or rp: of the
\* cohorts on that side of b it has passed those less than k away.
Leftwards(t, c, b, l, lp, k) ==
    /\ l \in 1..Len(cohorts) /\ Wide(t, Win(c), l)
    /\ l < Win(b) \/ (l = Win(b) /\ lp = LocalNo(line, b))
    /\ BarrierIsPlain(t) => \A e \in Visible(line) :
          e < b /\ (Win(e) > l \/ (Win(e) = l /\ LocalNo(line, e) > lp - k)) => Clear(t, e)
Rightwards(t, c, b, r, rp, k) ==
    /\ r \in 1..Len(cohorts) /\ Wide(t, Win(c), r)
    /\ r > Win(b) \/ (r = Win(b) /\ rp = LocalNo(line, b))
    /\ BarrierIsPlain(t) => \A e \in Visible(line) :
          e > b /\ (Win(e) < r \/ (Win(e) = r /\ LocalNo(line, e) < rp + k)) => Clear(t, e)
OnBoth(f, t) ==
    /\ BothWays(t) /\ f.at = Base(t, f.from) /\ f.i >= 1
    /\ f.left # 0 => Leftwards(t, f.from, f.at, f.left, f.lpos, IF f.side = "left" THEN f.i ELSE f.i + 1)
    /\ f.right # 0 => Rightwards(t, f.from, f.at, f.right, f.rpos, f.i)
    /\ f.side = "left" => f.left # 0
    /\ f.side = "right" => f.right # 0

\* The calls of runDependencyTest: each for a cohort the one before it came to,
\* with a test of the cohort itself to come in the last one only.
OnLevels(t, c, levels) ==
    /\ ~ Deep(t) => Len(levels) <= 1
    /\ \A n \in DOMAIN levels :
          LET v == levels[n] IN
          /\ v.cur \in Visible(line) /\ v.todo \subseteq Level(t, v.cur).todo
          /\ v.self => Level(t, v.cur).self /\ n = Len(levels)
          /\ BarrierIsPlain(t) /\ ~ v.self /\ t.self => Clear(t, v.cur)
          /\ n = 1 => v.cur = c
          /\ n > 1 =>
                /\ v.cur \in Level(t, levels[n - 1].cur).todo
                /\ t.dep = "c*" /\ BarrierIsPlain(t) => Clear(t, v.cur)
                /\ \A m \in 1..n - 1 : levels[m].cur # v.cur

OnTree(f, t) ==
    /\ Loops(t) /\ f.levels # <<>> /\ OnLevels(t, f.from, f.levels)
    /\ Last(f.levels).self \/ Last(f.levels).todo # {}

CallOK(f, t) ==
    /\ f.from \in Visible(line)
    /\ f.way = "start" => /\ f.win = Win(f.from) /\ f.pos = LocalNo(line, f.from)
                          /\ f.i = 0 /\ f.climbed = {}
    /\ f.way # "start" => f.at \in Visible(line) /\ Spanned(t, f.from, f.at)
    /\ t.dep \in {"pp", "cc"} /\ f.way \in {"self", "line"} =>
          f.todo \subseteq Iterated(line, RootCohort, t, f.from)
    /\ f.way = "self" => OnSelf(f, t)
    /\ f.way = "line" => OnLine(f, t)
    /\ f.way = "both" => OnBoth(f, t)
    /\ f.way = "tree" => OnTree(f, t)

\* What c* and s* have gone on from is known to have been seen.
SeenBy(f, t, n, seen) ==
    Deep(t) /\ f.way = "tree" => \A m \in DOMAIN f.levels : <<n, f.levels[m].cur>> \in seen

\* The calls that are running.
CallsOK(cs, seen) ==
    /\ cs \in Seq(CallType) /\ Len(cs) <= Len(chain)
    /\ \A n \in DOMAIN cs :
          /\ cs[n].test = n
          /\ CallOK(cs[n], chain[n])
          /\ SeenBy(cs[n], chain[n], n, seen)

Inv ==
    /\ GivenOK /\ TypeOK /\ mark \in Visible(line)
    /\ CallsOK(calls, deepSeen)

-----------------------------------------------------------------------------
(* Numbers and finite sets.                                                *)

\* A nonempty set of natural numbers has a least element.
LEMMA LeastNumber ==
    ASSUME NEW T, T \subseteq Nat, T # {}
    PROVE  \E x \in T : \A y \in T : x <= y
<1> DEFINE R == OpToRel(<, Nat)
<1>1. IsWellFoundedOn(R, Nat)
  BY NatLessThanWellFounded
<1>2. \A x, y \in Nat : x < y => <<x, y>> \in R
  BY DEF OpToRel
<1> HIDE DEF R
<1>3. PICK x \in T : \A y \in T : ~ (<<y, x>> \in R)
  BY <1>1, WFMin
<1>4. \A y \in T : x <= y
  <2> TAKE y \in T
  <2>1. x \in Nat /\ y \in Nat /\ ~ (y < x)
    BY <1>2, <1>3
  <2> QED  BY <2>1
<1> QED  BY <1>4

\* A nonempty set of numbers up to n has a greatest element.
LEMMA GreatestNumber ==
    ASSUME NEW n \in Nat, NEW S, S \subseteq 0..n, S # {}
    PROVE  \E x \in S : \A y \in S : x >= y
<1> DEFINE T == {n - x : x \in S}
<1>1. T \subseteq Nat /\ T # {}
  <2>1. \A x \in S : n - x \in Nat
    OBVIOUS
  <2> QED  BY <2>1
<1> HIDE DEF T
<1>2. PICK z \in T : \A y \in T : z <= y
  BY <1>1, LeastNumber
<1>3. PICK x \in S : z = n - x
  BY DEF T
<1>4. \A y \in S : x >= y
  <2> TAKE y \in S
  <2>1. n - y \in T /\ x \in Int /\ y \in Int
    BY DEF T
  <2> QED  BY <1>2, <1>3, <2>1
<1> QED  BY <1>4

\* Min and Max are in the set.
LEMMA MinMaxIn ==
    ASSUME NEW n \in Nat, NEW S, S \subseteq 0..n, S # {}
    PROVE  /\ Min(S) \in S /\ \A y \in S : Min(S) <= y
           /\ Max(S) \in S /\ \A y \in S : Max(S) >= y
<1>1. \E x \in S : \A y \in S : x =< y
  <2>1. S \subseteq Nat
    OBVIOUS
  <2> QED  BY <2>1, LeastNumber
<1>2. \E x \in S : \A y \in S : x >= y
  BY GreatestNumber
<1> QED  BY <1>1, <1>2 DEF Min, Max

\* Induction on a set of numbers up to N.
LEMMA UpTo ==
    ASSUME NEW N \in Nat, NEW T, 0 \in T,
           \A n \in 0..(N - 1) : n \in T => n + 1 \in T
    PROVE  0..N \subseteq T
<1> SUFFICES ASSUME 0..N \ T # {}  PROVE FALSE
  OBVIOUS
<1> DEFINE U == 0..N \ T
<1>1. U \subseteq Nat /\ U # {}
  OBVIOUS
<1>2. PICK m \in U : \A y \in U : m <= y
  <2> HIDE DEF U
  <2> QED  BY <1>1, LeastNumber
<1>3. m \in 1..N /\ m \notin T
  BY <1>2
<1>4. m - 1 \in 0..(N - 1) /\ (m - 1) + 1 = m
  BY <1>3
<1>5. m - 1 \in T
  <2>1. m - 1 \in 0..N /\ ~(m <= m - 1)
    BY <1>3
  <2> QED  BY <1>2, <2>1
<1> QED  BY <1>3, <1>4, <1>5

\* A proper part of a finite set is smaller.
LEMMA PartIsSmaller ==
    ASSUME NEW S, NEW T, IsFiniteSet(S), T \subseteq S
    PROVE  /\ IsFiniteSet(T) /\ Cardinality(T) \in Nat /\ Cardinality(S) \in Nat
           /\ Cardinality(T) <= Cardinality(S)
           /\ T # S => Cardinality(T) < Cardinality(S)
<1>1. T \in SUBSET S
  OBVIOUS
<1>2. IsFiniteSet(T) /\ Cardinality(T) <= Cardinality(S) /\ (Cardinality(S) = Cardinality(T) => S = T)
  BY <1>1, FS_Subset
<1>3. Cardinality(T) \in Nat /\ Cardinality(S) \in Nat
  BY <1>2, FS_CardinalityType
<1> QED  BY <1>2, <1>3

\* Two sets without a common element together.
LEMMA Disjoint ==
    ASSUME NEW S, NEW T, IsFiniteSet(S), IsFiniteSet(T), S \cap T = {}
    PROVE  IsFiniteSet(S \cup T) /\ Cardinality(S \cup T) = Cardinality(S) + Cardinality(T)
<1>1. /\ IsFiniteSet(S \cup T)
      /\ Cardinality(S \cup T) = Cardinality(S) + Cardinality(T) - Cardinality(S \cap T)
  BY FS_Union
<1>2. Cardinality(S \cap T) = 0 /\ Cardinality(S) \in Nat /\ Cardinality(T) \in Nat
  BY FS_EmptySet, FS_CardinalityType
<1> QED  BY <1>1, <1>2

-----------------------------------------------------------------------------
(* The line and its windows.                                               *)

\* The cohorts of window w.
Col(w) == {c \in Visible(line) : Win(c) = w}

\* What LineType says of a line.
LEMMA LineFacts ==
    ASSUME GivenOK
    PROVE  /\ Len(line) \in Nat /\ Cohorts = 1..Len(line)
           /\ Visible(line) \subseteq Cohorts /\ Visible(line) \subseteq Nat
           /\ target \in Visible(line) /\ Len(line) >= 1
           /\ \A c \in Cohorts : Win(c) \in Nat \ {0}
           /\ \A c, d \in Cohorts : c <= d => Win(c) <= Win(d)
           /\ \A c \in Cohorts \ Visible(line) :
                 /\ c - 1 \in Cohorts /\ Win(c - 1) = Win(c)
                 /\ c + 1 \in Cohorts /\ Win(c + 1) = Win(c)
           /\ \A c \in Cohorts : \A w \in 1..Win(c) : \E d \in Cohorts : Win(d) = w
<1> DEFINE R == Range(line)
<1>1. line \in Seq(R)
  BY DEF GivenOK, LineType
<1>2. Len(line) \in Nat /\ Cohorts = 1..Len(line)
  <2> HIDE DEF R
  <2> QED  BY <1>1 DEF Cohorts
<1>3. Visible(line) \subseteq Cohorts /\ target \in Visible(line)
  BY DEF Visible, Cohorts, GivenOK
<1>4. \A c \in Cohorts : Win(c) \in Nat \ {0}
  BY DEF GivenOK, LineType, Win, Cohorts
<1>5. \A c, d \in Cohorts : c <= d => Win(c) <= Win(d)
  <2> TAKE c, d \in Cohorts
  <2>1. c < d => Win(c) <= Win(d)
    BY DEF GivenOK, LineType, Win, Cohorts
  <2>2. c = d => Win(c) <= Win(d)
    BY <1>4
  <2> QED  BY <1>2, <2>1, <2>2
<1>6. \A c \in Cohorts \ Visible(line) :
         /\ c - 1 \in Cohorts /\ Win(c - 1) = Win(c)
         /\ c + 1 \in Cohorts /\ Win(c + 1) = Win(c)
  BY DEF GivenOK, LineType, Win, Cohorts, Visible
<1>7. \A c \in Cohorts : \A w \in 1..Win(c) : \E d \in Cohorts : Win(d) = w
  BY DEF GivenOK, LineType, Win, Cohorts
<1> QED  BY <1>2, <1>3, <1>4, <1>5, <1>6, <1>7

\* The last cohort is in the last window, and every window is the one of a cohort
\* that is not enclosed.
LEMMA WindowsFilled ==
    ASSUME GivenOK
    PROVE  /\ Last(line).win \in Nat \ {0}
           /\ \A c \in Cohorts : Win(c) \in 1..Last(line).win
           /\ \A w \in 1..Last(line).win : Col(w) # {}
<1>1. Last(line) = line[Len(line)] /\ Len(line) \in Cohorts /\ Last(line).win = Win(Len(line))
  BY LineFacts DEF Last, Win
<1>2. Last(line).win \in Nat \ {0}
  BY <1>1, LineFacts
<1>3. \A c \in Cohorts : Win(c) \in 1..Last(line).win
  <2> TAKE c \in Cohorts
  <2>1. c <= Len(line) /\ Win(c) \in Nat \ {0}
    BY LineFacts
  <2>2. Win(c) <= Win(Len(line))
    BY <1>1, <2>1, LineFacts
  <2> QED  BY <1>1, <1>2, <2>1, <2>2
<1>4. ASSUME NEW w \in 1..Last(line).win
      PROVE  Col(w) # {}
  <2> DEFINE T == {d \in Cohorts : Win(d) = w}
  <2>1. T \subseteq Nat /\ T # {}
    BY <1>1, LineFacts
  <2> HIDE DEF T
  <2>2. PICK d \in T : \A e \in T : d <= e
    BY <2>1, LeastNumber
  <2>3. d \in Cohorts /\ Win(d) = w
    BY DEF T
  <2>4. d \in Visible(line)
    <3>1. SUFFICES ASSUME d \notin Visible(line)  PROVE FALSE
      OBVIOUS
    <3>2. d - 1 \in Cohorts /\ Win(d - 1) = w
      BY <2>3, <3>1, LineFacts
    <3>3. d - 1 \in T /\ d \in Nat
      BY <2>3, <3>2, LineFacts DEF T
    <3> QED  BY <2>2, <3>3
  <2> QED  BY <2>3, <2>4 DEF Col
<1> QED  BY <1>2, <1>3, <1>4

\* local_number counts the cohorts of the window before c that are not enclosed.
LEMMA LocalNoCounts ==
    ASSUME GivenOK, NEW c \in Cohorts
    PROVE  /\ LocalNo(line, c) = Cardinality({d \in Col(Win(c)) : d < c})
           /\ LocalNo(line, c) \in Nat
           /\ \A S \in SUBSET Visible(line) : IsFiniteSet(S)
<1>1. {d \in 1..c - 1 : line[d].win = line[c].win /\ ~ line[d].enclosed}
        = {d \in Col(Win(c)) : d < c}
  <2>1. \A d \in 1..c - 1 : d \in Cohorts /\ d < c
    BY LineFacts
  <2>2. \A d \in Col(Win(c)) : d < c => d \in 1..c - 1
    BY LineFacts DEF Col
  <2> QED  BY <2>1, <2>2 DEF Col, Visible, Win, Cohorts
<1>2. IsFiniteSet(1..Len(line))
  BY LineFacts, FS_Interval
<1>3. \A S \in SUBSET Visible(line) : IsFiniteSet(S)
  BY <1>2, LineFacts, FS_Subset
<1>4. IsFiniteSet({d \in Col(Win(c)) : d < c})
  BY <1>3 DEF Col
<1> QED  BY <1>1, <1>3, <1>4, FS_CardinalityType DEF LocalNo

\* It grows along a window.
LEMMA LocalNoGrows ==
    ASSUME GivenOK, NEW c \in Visible(line), NEW d \in Visible(line), Win(c) = Win(d), c < d
    PROVE  LocalNo(line, c) < LocalNo(line, d)
<1> DEFINE S == {e \in Col(Win(c)) : e < c}
           T == {e \in Col(Win(d)) : e < d}
<1>1. S \subseteq T /\ S # T
  <2>1. \A e \in Col(Win(c)) : e \in Nat
    BY LineFacts DEF Col
  <2>2. c \in T /\ c \notin S
    BY LineFacts DEF Col
  <2> QED  BY <2>1, <2>2, LineFacts
<1>2. IsFiniteSet(T) /\ LocalNo(line, c) = Cardinality(S) /\ LocalNo(line, d) = Cardinality(T)
  BY LocalNoCounts, LineFacts DEF Col
<1> HIDE DEF S, T
<1> QED  BY <1>1, <1>2, PartIsSmaller

\* The cohorts of a window are at 0 to its size, less one.
LEMMA LocalNoRange ==
    ASSUME GivenOK, NEW w
    PROVE  /\ IsFiniteSet(Col(w)) /\ Cardinality(Col(w)) \in Nat
           /\ \A c \in Col(w) : LocalNo(line, c) \in 0..Cardinality(Col(w)) - 1
           /\ \A c, d \in Col(w) : LocalNo(line, c) = LocalNo(line, d) => c = d
           /\ \A p \in 0..Cardinality(Col(w)) - 1 : \E c \in Col(w) : LocalNo(line, c) = p
<1> DEFINE n == Cardinality(Col(w))
           f == [c \in Col(w) |-> LocalNo(line, c)]
<1>1. IsFiniteSet(Col(w)) /\ n \in Nat
  BY LocalNoCounts, LineFacts, FS_CardinalityType DEF Col
<1>2. \A c \in Col(w) : c \in Visible(line) /\ Win(c) = w /\ c \in Cohorts /\ c \in Nat
  BY LineFacts DEF Col
<1>3. ASSUME NEW c \in Col(w)  PROVE LocalNo(line, c) \in 0..n - 1
  <2> DEFINE S == {d \in Col(w) : d < c}
  <2>1. LocalNo(line, c) = Cardinality(S) /\ LocalNo(line, c) \in Nat
    BY <1>2, LocalNoCounts
  <2>2. S \subseteq Col(w) /\ S # Col(w)
    BY <1>2
  <2> HIDE DEF S
  <2>3. Cardinality(S) < n
    BY <1>1, <2>2, PartIsSmaller
  <2> HIDE DEF n
  <2> QED  BY <1>1, <2>1, <2>3
<1>4. ASSUME NEW c \in Col(w), NEW d \in Col(w), LocalNo(line, c) = LocalNo(line, d)
      PROVE  c = d
  <2>1. c < d \/ c = d \/ d < c
    BY <1>2
  <2>2. LocalNo(line, c) \in Nat /\ LocalNo(line, d) \in Nat
    BY <1>2, LocalNoCounts
  <2> QED  BY <1>2, <1>4, <2>1, <2>2, LocalNoGrows
<1> HIDE DEF n
<1>5. f \in Injection(Col(w), 0..n - 1)
  BY <1>3, <1>4 DEF Injection, IsInjective
<1>6. IsFiniteSet(0..n - 1) /\ Cardinality(0..n - 1) = n
  <2>1. /\ IsFiniteSet(0..n - 1)
        /\ Cardinality(0..n - 1) = IF 0 > n - 1 THEN 0 ELSE (n - 1) - 0 + 1
    BY <1>1, FS_Interval
  <2> QED  BY <1>1, <2>1
<1> HIDE DEF f
<1>7. f \in Surjection(Col(w), 0..n - 1)
  BY <1>5, <1>6, FS_Injection DEF n
<1>8. \A p \in 0..n - 1 : \E c \in Col(w) : LocalNo(line, c) = p
  BY <1>7 DEF Surjection, f
<1> QED  BY <1>1, <1>3, <1>4, <1>8 DEF n

\* SingleWindow::cohorts of a window.
LEMMA WindowFacts ==
    ASSUME GivenOK
    PROVE  /\ Len(cohorts) = Last(line).win /\ DOMAIN cohorts = 1..Len(cohorts)
           /\ Len(cohorts) \in Nat \ {0}
           /\ \A w \in 1..Len(cohorts) :
                 /\ cohorts[w] \in Seq(Col(w)) /\ Size(w) = Cardinality(Col(w))
                 /\ Len(cohorts[w]) = Size(w) /\ Size(w) \in Nat \ {0}
                 /\ \A p \in 0..Size(w) - 1 :
                       cohorts[w][p + 1] \in Col(w) /\ LocalNo(line, cohorts[w][p + 1]) = p
<1> DEFINE m == Last(line).win
<1>1. m \in Nat \ {0} /\ cohorts = [w \in 1..m |-> CohortsOf(line, w)]
  BY WindowsFilled DEF GivenOK
<1> HIDE DEF m
<1>2. Len(cohorts) = m /\ DOMAIN cohorts = 1..m
  <2>1. cohorts \in Seq({CohortsOf(line, w) : w \in 1..m})
    BY <1>1
  <2> QED  BY <1>1
<1>3. ASSUME NEW w \in 1..m
      PROVE  /\ cohorts[w] \in Seq(Col(w)) /\ Len(cohorts[w]) = Cardinality(Col(w))
             /\ \A p \in 0..Cardinality(Col(w)) - 1 :
                   cohorts[w][p + 1] \in Col(w) /\ LocalNo(line, cohorts[w][p + 1]) = p
  <2> DEFINE n == Cardinality(Col(w))
             g == [p \in 1..n |-> CHOOSE c \in Col(w) : LocalNo(line, c) = p - 1]
  <2>1. {i \in Visible(line) : line[i].win = w} = Col(w)
    BY DEF Col, Win
  <2>2. cohorts[w] = g
    BY <1>1, <2>1 DEF CohortsOf
  <2>3. n \in Nat
    BY LocalNoRange
  <2>4. \A p \in 1..n : g[p] \in Col(w) /\ LocalNo(line, g[p]) = p - 1
    <3> TAKE p \in 1..n
    <3>1. p - 1 \in 0..n - 1
      BY <2>3
    <3>2. \E c \in Col(w) : LocalNo(line, c) = p - 1
      BY <3>1, LocalNoRange
    <3> QED  BY <3>2
  <2> HIDE DEF n
  <2>5. g \in Seq(Col(w)) /\ Len(g) = n
    BY <2>3, <2>4
  <2>6. \A p \in 0..n - 1 : g[p + 1] \in Col(w) /\ LocalNo(line, g[p + 1]) = p
    <3> TAKE p \in 0..n - 1
    <3>1. p + 1 \in 1..n /\ (p + 1) - 1 = p
      BY <2>3
    <3> HIDE DEF g
    <3> QED  BY <2>4, <3>1
  <2> HIDE DEF g
  <2> QED  BY <2>2, <2>5, <2>6 DEF n
<1>4. \A w \in 1..m : Cardinality(Col(w)) \in Nat \ {0}
  BY LocalNoRange, WindowsFilled, FS_EmptySet DEF m
<1> QED  BY <1>1, <1>2, <1>3, <1>4 DEF Size, m

\* Windows and positions find the cohorts that are not enclosed.
LEMMA AtFacts ==
    ASSUME GivenOK
    PROVE  /\ \A c \in Visible(line) :
                 /\ c # NoCohort /\ Win(c) \in 1..Len(cohorts) /\ At(Win(c), LocalNo(line, c)) = c
                 /\ LocalNo(line, c) \in 0..Size(Win(c)) - 1
           /\ \A w \in 1..Len(cohorts), p \in Int :
                 /\ At(w, p) # NoCohort => /\ At(w, p) \in Visible(line) /\ Win(At(w, p)) = w
                                           /\ LocalNo(line, At(w, p)) = p /\ p \in 0..Size(w) - 1
                 /\ p \in 0..Size(w) - 1 => At(w, p) \in Visible(line)
<1>1. \A c \in Visible(line) : c # NoCohort
  BY LineFacts, NoCohortAssumption
<1>2. ASSUME NEW w \in 1..Len(cohorts), NEW p \in Int
      PROVE  /\ p \in 0..Size(w) - 1 => /\ At(w, p) \in Visible(line) /\ Win(At(w, p)) = w
                                        /\ LocalNo(line, At(w, p)) = p
             /\ p \notin 0..Size(w) - 1 => At(w, p) = NoCohort
  BY WindowFacts DEF At, Col
<1>3. ASSUME NEW c \in Visible(line)
      PROVE  /\ Win(c) \in 1..Len(cohorts) /\ LocalNo(line, c) \in 0..Size(Win(c)) - 1
             /\ At(Win(c), LocalNo(line, c)) = c
  <2>1. Win(c) \in 1..Len(cohorts) /\ c \in Col(Win(c))
    BY LineFacts, WindowsFilled, WindowFacts DEF Col
  <2>2. LocalNo(line, c) \in 0..Size(Win(c)) - 1
    BY <2>1, LocalNoRange, WindowFacts
  <2>3. LocalNo(line, c) \in Int
    BY <2>2, WindowFacts
  <2> DEFINE d == At(Win(c), LocalNo(line, c))
  <2>4. d \in Col(Win(c)) /\ LocalNo(line, d) = LocalNo(line, c)
    BY <1>2, <2>1, <2>2, <2>3 DEF Col
  <2> HIDE DEF d
  <2>5. d = c
    BY <2>1, <2>4, LocalNoRange
  <2> QED  BY <2>1, <2>2, <2>5 DEF d
<1> QED  BY <1>1, <1>2, <1>3

\* The order of the line is that of windows and positions.
LEMMA LineOrder ==
    ASSUME GivenOK, NEW c \in Visible(line), NEW d \in Visible(line)
    PROVE  /\ c < d <=> Win(c) < Win(d) \/ (Win(c) = Win(d) /\ LocalNo(line, c) < LocalNo(line, d))
           /\ c = d <=> Win(c) = Win(d) /\ LocalNo(line, c) = LocalNo(line, d)
<1>1. /\ c \in Cohorts /\ d \in Cohorts /\ c \in Nat /\ d \in Nat
      /\ Win(c) \in Nat /\ Win(d) \in Nat
  BY LineFacts
<1>2. LocalNo(line, c) \in Nat /\ LocalNo(line, d) \in Nat
  BY <1>1, LocalNoCounts
<1>3. (c <= d => Win(c) <= Win(d)) /\ (d <= c => Win(d) <= Win(c))
  BY <1>1, LineFacts
<1>4. Win(c) = Win(d) => /\ c < d => LocalNo(line, c) < LocalNo(line, d)
                         /\ d < c => LocalNo(line, d) < LocalNo(line, c)
  BY LocalNoGrows
<1> QED  BY <1>1, <1>2, <1>3, <1>4

\* Less orders the cohorts that are not enclosed.
LEMMA LessOrders ==
    ASSUME GivenOK, NEW c \in Visible(line), NEW d \in Visible(line)
    PROVE  /\ LocalNo(line, c) \in 0..Len(line) /\ Win(c) \in 0..Len(cohorts)
           /\ Less(line, c, d) <=> \/ LocalNo(line, c) < LocalNo(line, d)
                                   \/ LocalNo(line, c) = LocalNo(line, d) /\ Win(c) < Win(d)
<1>1. /\ c \in Cohorts /\ d \in Cohorts /\ Win(c) \in Nat /\ Win(d) \in Nat
      /\ LocalNo(line, c) \in Nat /\ LocalNo(line, d) \in Nat
  BY LineFacts, LocalNoCounts
<1>2. LocalNo(line, c) <= Len(line)
  <2> DEFINE S == {e \in Col(Win(c)) : e < c}
  <2>1. S \subseteq 1..Len(line) /\ IsFiniteSet(1..Len(line)) /\ Cardinality(1..Len(line)) = Len(line)
    <3>1. S \subseteq 1..Len(line)
      BY LineFacts DEF Col
    <3>2. Len(line) \in Int /\ Len(line) >= 1
      BY LineFacts
    <3> HIDE DEF S
    <3> QED  BY <3>1, <3>2, FS_Interval
  <2>2. LocalNo(line, c) = Cardinality(S)
    BY <1>1, LocalNoCounts
  <2> HIDE DEF S
  <2> QED  BY <2>1, <2>2, PartIsSmaller
<1>3. Win(c) \in 0..Len(cohorts)
  BY <1>1, AtFacts, WindowFacts
<1> QED  BY <1>1, <1>2, <1>3, LineFacts DEF Less, Win

\* The cohorts before window w.
Sooner(w) == {c \in Visible(line) : Win(c) < w}

\* Rank counts the cohorts of the windows before, and those of the window.
LEMMA RankFacts ==
    ASSUME GivenOK
    PROVE  /\ \A c \in Cohorts : Rank(c) \in Nat
           /\ \A c, d \in Cohorts : c <= d => Rank(c) <= Rank(d)
           /\ \A c \in Cohorts, d \in Visible(line) : c < d => Rank(c) < Rank(d)
<1>1. ASSUME NEW c \in Cohorts
      PROVE  IsFiniteSet(Visible(line) \cap 1..c) /\ Rank(c) \in Nat
  <2>1. IsFiniteSet(Visible(line) \cap 1..c)
    BY <1>1, LocalNoCounts
  <2> QED  BY <2>1, FS_CardinalityType DEF Rank
<1>2. ASSUME NEW c \in Cohorts, NEW d \in Cohorts, c <= d
      PROVE  Rank(c) <= Rank(d) /\ (c < d /\ d \in Visible(line) => Rank(c) < Rank(d))
  <2> DEFINE S == Visible(line) \cap 1..c
             T == Visible(line) \cap 1..d
  <2>1. IsFiniteSet(T) /\ Rank(c) = Cardinality(S) /\ Rank(d) = Cardinality(T)
    BY <1>1 DEF Rank
  <2>2. S \subseteq T
    BY <1>2, LineFacts
  <2>3. c < d /\ d \in Visible(line) => d \in T /\ d \notin S
    BY LineFacts
  <2> HIDE DEF S, T
  <2> QED  BY <2>1, <2>2, <2>3, PartIsSmaller
<1>3. \A c \in Cohorts, d \in Visible(line) : c < d => d \in Cohorts /\ c <= d
  BY LineFacts
<1> QED  BY <1>1, <1>2, <1>3

\* In a window it is the position that counts, and a window adds its size.
LEMMA RankOfWindow ==
    ASSUME GivenOK
    PROVE  /\ \A w : Cardinality(Sooner(w)) \in Nat
           /\ \A w \in 1..Len(cohorts) :
                 Cardinality(Sooner(w + 1)) = Cardinality(Sooner(w)) + Size(w)
           /\ \A c \in Visible(line) :
                 Rank(c) = Cardinality(Sooner(Win(c))) + LocalNo(line, c) + 1
<1>1. ASSUME NEW w  PROVE IsFiniteSet(Sooner(w)) /\ Cardinality(Sooner(w)) \in Nat
  BY LocalNoCounts, LineFacts, FS_CardinalityType DEF Sooner
<1>2. ASSUME NEW w \in 1..Len(cohorts)
      PROVE  Cardinality(Sooner(w + 1)) = Cardinality(Sooner(w)) + Size(w)
  <2>1. \A c \in Visible(line) : Win(c) \in Nat
    BY LineFacts
  <2>2. w \in Nat
    BY WindowFacts
  <2>3. Sooner(w + 1) = Sooner(w) \cup Col(w) /\ Sooner(w) \cap Col(w) = {}
    BY <2>1, <2>2 DEF Sooner, Col
  <2>4. IsFiniteSet(Col(w)) /\ Size(w) = Cardinality(Col(w))
    BY LocalNoRange, WindowFacts
  <2> QED  BY <1>1, <2>3, <2>4, Disjoint
<1>3. ASSUME NEW c \in Visible(line)
      PROVE  Rank(c) = Cardinality(Sooner(Win(c))) + LocalNo(line, c) + 1
  <2> DEFINE A == Sooner(Win(c))
             B == {d \in Col(Win(c)) : d < c}
  <2>1. c \in Cohorts /\ c \in Nat /\ \A d \in Visible(line) : d \in Cohorts /\ d \in Nat /\ Win(d) \in Nat
    BY LineFacts
  <2>2. \A d \in Visible(line) : d <= c <=> d \in A \/ d \in B \/ d = c
    <3> TAKE d \in Visible(line)
    <3>1. (d <= c => Win(d) <= Win(c)) /\ (c <= d => Win(c) <= Win(d))
      BY <2>1, LineFacts
    <3> QED  BY <2>1, <3>1 DEF Sooner, Col
  <2>3. Visible(line) \cap 1..c = (A \cup B) \cup {c}
    <3>1. \A d \in Visible(line) : d \in 1..c <=> d <= c
      <4>1. \A d \in Visible(line) : d \in 1..Len(line) /\ Len(line) \in Nat
        BY <2>1, LineFacts
      <4> QED  BY <2>1, <4>1
    <3>2. A \subseteq Visible(line) /\ B \subseteq Visible(line)
      BY DEF Sooner, Col
    <3> HIDE DEF A, B
    <3> QED  BY <2>2, <3>1, <3>2
  <2>4. IsFiniteSet(A) /\ IsFiniteSet(B) /\ LocalNo(line, c) = Cardinality(B) /\ A \cap B = {}
    <3>1. B \in SUBSET Visible(line)
      BY DEF Col
    <3>2. IsFiniteSet(B) /\ LocalNo(line, c) = Cardinality(B)
      BY <2>1, <3>1, LocalNoCounts
    <3>3. A \cap B = {}
      BY <2>1 DEF Sooner, Col
    <3> QED  BY <1>1, <3>2, <3>3
  <2>5. c \notin A \cup B
    BY <2>1 DEF Sooner, Col
  <2> HIDE DEF A, B
  <2>6. IsFiniteSet(A \cup B) /\ Cardinality(A \cup B) = Cardinality(A) + Cardinality(B)
    BY <2>4, Disjoint
  <2>7. Cardinality((A \cup B) \cup {c}) = Cardinality(A \cup B) + 1
    BY <2>5, <2>6, FS_AddElement
  <2>8. Rank(c) = Cardinality(A) + Cardinality(B) + 1
    BY <2>3, <2>6, <2>7 DEF Rank
  <2> QED  BY <2>4, <2>8 DEF A
<1> QED  BY <1>1, <1>2, <1>3

\* A set of cohorts has a first and a last one.
LEMMA SetHasEnds ==
    ASSUME GivenOK, NEW S, S \subseteq Visible(line), S # {}
    PROVE  Leftmost(line, S) \in S /\ Rightmost(line, S) \in S
<1> DEFINE A == {LocalNo(line, c) : c \in S}
           B(a) == {Win(c) : c \in {c \in S : LocalNo(line, c) = a}}
<1>1. \A c \in S : LocalNo(line, c) \in 0..Len(line) /\ Win(c) \in 0..Len(cohorts)
  BY LessOrders
<1>2. Len(line) \in Nat /\ Len(cohorts) \in Nat
  BY LineFacts, WindowFacts
<1>3. A \subseteq 0..Len(line) /\ A # {} /\ A \subseteq Nat
  BY <1>1, <1>2
<1>4. \A a : B(a) \subseteq 0..Len(cohorts) /\ B(a) \subseteq Nat
  BY <1>1, <1>2
<1>5. \A c, d \in S :
         /\ Less(line, c, d) <=>
              (LocalNo(line, c) < LocalNo(line, d)
               \/ (LocalNo(line, c) = LocalNo(line, d) /\ Win(c) < Win(d)))
         /\ c = d <=> Win(c) = Win(d) /\ LocalNo(line, c) = LocalNo(line, d)
  BY LessOrders, LineOrder
<1>6. \E d \in S : \A e \in S \ {d} : Less(line, d, e)
  <2>1. PICK a \in A : \A x \in A : a <= x
    <3> HIDE DEF A
    <3> QED  BY <1>3, LeastNumber
  <2>2. B(a) # {}
    OBVIOUS
  <2>3. PICK b \in B(a) : \A x \in B(a) : b <= x
    <3>1. B(a) \subseteq Nat
      BY <1>4
    <3> HIDE DEF B
    <3> QED  BY <2>2, <3>1, LeastNumber
  <2>4. PICK d \in S : LocalNo(line, d) = a /\ Win(d) = b
    OBVIOUS
  <2>5. ASSUME NEW e \in S \ {d}  PROVE Less(line, d, e)
    <3>1. a <= LocalNo(line, e) /\ (LocalNo(line, e) = a => b <= Win(e))
      BY <2>1, <2>3
    <3> HIDE DEF A, B
    <3>2. LocalNo(line, e) \in Nat /\ a \in Nat /\ Win(e) \in Nat /\ b \in Nat
      BY <1>1, <1>2, <2>4
    <3> QED  BY <1>5, <2>4, <3>1, <3>2
  <2> QED  BY <2>5
<1>7. \E d \in S : \A e \in S \ {d} : Less(line, e, d)
  <2>1. PICK a \in A : \A x \in A : a >= x
    <3> HIDE DEF A
    <3> QED  BY <1>2, <1>3, GreatestNumber
  <2>2. B(a) # {}
    OBVIOUS
  <2>3. PICK b \in B(a) : \A x \in B(a) : b >= x
    <3>1. B(a) \subseteq 0..Len(cohorts)
      BY <1>4
    <3> HIDE DEF B
    <3> QED  BY <1>2, <2>2, <3>1, GreatestNumber
  <2>4. PICK d \in S : LocalNo(line, d) = a /\ Win(d) = b
    OBVIOUS
  <2>5. ASSUME NEW e \in S \ {d}  PROVE Less(line, e, d)
    <3>1. a >= LocalNo(line, e) /\ (LocalNo(line, e) = a => b >= Win(e))
      BY <2>1, <2>3
    <3> HIDE DEF A, B
    <3>2. LocalNo(line, e) \in Nat /\ a \in Nat /\ Win(e) \in Nat /\ b \in Nat
      BY <1>1, <1>2, <2>4
    <3> QED  BY <1>5, <2>4, <3>1, <3>2
  <2> QED  BY <2>5
<1> QED  BY <1>6, <1>7 DEF Leftmost, Rightmost

\* The loops and iterators take a cohort of those they have left.
LEMMA ForemostIn ==
    ASSUME GivenOK, NEW t, NEW S, S \subseteq Visible(line), S # {},
           t.dep \in {"pp", "cc", "c", "c*", "s", "s*", "rel"}
    PROVE  Foremost(line, t, S) \in S
<1>1. S \subseteq 0..Len(line) /\ Len(line) \in Nat
  BY LineFacts
<1>2. Min(S) \in S /\ Max(S) \in S
  BY <1>1, MinMaxIn
<1> QED  BY <1>2, SetHasEnds DEF Foremost

\* TopologyLeftIter and TopologyRightIter: the next cohort that is not enclosed, in
\* a window that the test spans.
LEMMA LeftOfFacts ==
    ASSUME GivenOK, NEW t, NEW c \in Visible(line), LeftOf(t, c) # NoCohort
    PROVE  /\ LeftOf(t, c) \in Visible(line) /\ LeftOf(t, c) < c
           /\ \A d \in Visible(line) : d < c => d <= LeftOf(t, c)
           /\ Spanned(t, c, LeftOf(t, c))
<1> DEFINE far == {d \in 1..c - 1 : ~ line[d].enclosed}
           r == LeftOf(t, c)
<1>1. c \in Nat /\ c \in Cohorts /\ Cohorts = 1..Len(line) /\ Len(line) \in Nat /\ c <= Len(line)
  BY LineFacts
<1>2. far = {d \in Visible(line) : d < c}
  BY <1>1, LineFacts DEF Visible, Cohorts
<1>3. /\ far # {} /\ (Win(c - 1) = Win(c) \/ SpansLeft(t) \/ AlwaysSpan)
      /\ r = CHOOSE d \in far : \A e \in far : e <= d
  BY DEF LeftOf
<1>4. far \subseteq 0..c - 1 /\ c - 1 \in Nat
  BY <1>1, <1>3
<1> HIDE DEF far
<1>5. \E d \in far : \A e \in far : d >= e
  BY <1>3, <1>4, GreatestNumber
<1>6. \E d \in far : \A e \in far : e <= d
  BY <1>4, <1>5
<1>7. r \in far /\ \A e \in far : e <= r
  BY <1>3, <1>6
<1> HIDE DEF r
<1>8. r \in Visible(line) /\ r < c /\ r \in Nat /\ \A d \in Visible(line) : d < c => d <= r
  BY <1>2, <1>4, <1>7
<1>9. Win(r) <= Win(c) /\ Win(r) \in Nat /\ Win(c) \in Nat
  BY <1>1, <1>8, LineFacts
<1>10. Win(r) < Win(c) => SpansLeft(t) \/ AlwaysSpan
  <2> SUFFICES ASSUME Win(r) < Win(c), ~ (SpansLeft(t) \/ AlwaysSpan)  PROVE FALSE
    OBVIOUS
  <2> DEFINE T == {i \in r + 1..c - 1 : Win(i) = Win(c)}
  <2>1. Win(c - 1) = Win(c) /\ c - 1 # r
    <3>1. Win(c - 1) = Win(c)
      BY <1>3
    <3>2. Win(r) # Win(c)
      BY <1>9
    <3> QED  BY <3>1, <3>2
  <2>2. c - 1 \in T /\ T \subseteq Nat
    BY <1>1, <1>8, <2>1
  <2> HIDE DEF T
  <2>3. PICK i \in T : \A j \in T : i <= j
    BY <2>2, LeastNumber
  <2>4. i \in r + 1..c - 1 /\ Win(i) = Win(c)
    BY DEF T
  <2>5. i \in Cohorts \ Visible(line)
    BY <1>1, <1>8, <2>4
  <2>6. Win(i - 1) = Win(c)
    BY <2>4, <2>5, LineFacts
  <2>7. i - 1 # r /\ i - 1 \in r + 1..c - 1
    BY <1>1, <1>8, <1>9, <2>4, <2>6
  <2>8. i - 1 \in T /\ ~ (i <= i - 1)
    BY <1>1, <1>8, <2>4, <2>6, <2>7 DEF T
  <2> QED  BY <2>3, <2>8
<1> QED  BY <1>8, <1>9, <1>10 DEF Spanned, r

\* The same to the right.
LEMMA RightOfFacts ==
    ASSUME GivenOK, NEW t, NEW c \in Visible(line), RightOf(t, c) # NoCohort
    PROVE  /\ RightOf(t, c) \in Visible(line) /\ RightOf(t, c) > c
           /\ \A d \in Visible(line) : d > c => d >= RightOf(t, c)
           /\ Spanned(t, c, RightOf(t, c))
<1> DEFINE far == {d \in c + 1..Len(line) : ~ line[d].enclosed}
           r == RightOf(t, c)
<1>1. c \in Nat /\ c \in Cohorts /\ Cohorts = 1..Len(line) /\ Len(line) \in Nat /\ c >= 1
  BY LineFacts
<1>2. far = {d \in Visible(line) : d > c}
  BY <1>1, LineFacts DEF Visible, Cohorts
<1>3. /\ far # {} /\ (Win(c + 1) = Win(c) \/ SpansRight(t) \/ AlwaysSpan)
      /\ r = CHOOSE d \in far : \A e \in far : d <= e
  BY DEF RightOf
<1>4. far \subseteq Nat /\ far \subseteq c + 1..Len(line)
  BY <1>1
<1> HIDE DEF far
<1>5. \E d \in far : \A e \in far : d <= e
  BY <1>3, <1>4, LeastNumber
<1>6. r \in far /\ \A e \in far : r <= e
  BY <1>3, <1>5
<1> HIDE DEF r
<1>7. r \in Visible(line) /\ r > c /\ r \in Nat /\ r <= Len(line)
      /\ \A d \in Visible(line) : d > c => d >= r
  BY <1>1, <1>2, <1>4, <1>6
<1>8. Win(c) <= Win(r) /\ Win(r) \in Nat /\ Win(c) \in Nat
  BY <1>1, <1>7, LineFacts
<1>9. Win(r) > Win(c) => SpansRight(t) \/ AlwaysSpan
  <2> SUFFICES ASSUME Win(r) > Win(c), ~ (SpansRight(t) \/ AlwaysSpan)  PROVE FALSE
    OBVIOUS
  <2> DEFINE T == {i \in c + 1..r - 1 : Win(i) = Win(c)}
  <2>1. Win(c + 1) = Win(c) /\ c + 1 # r
    <3>1. Win(c + 1) = Win(c)
      BY <1>3
    <3>2. Win(r) # Win(c)
      BY <1>8
    <3> QED  BY <3>1, <3>2
  <2>2. c + 1 \in T /\ T \subseteq 0..Len(line)
    BY <1>1, <1>7, <2>1
  <2> HIDE DEF T
  <2>3. PICK i \in T : \A j \in T : i >= j
    BY <1>1, <2>2, GreatestNumber
  <2>4. i \in c + 1..r - 1 /\ Win(i) = Win(c)
    BY DEF T
  <2>5. i \in Cohorts \ Visible(line)
    BY <1>1, <1>7, <2>4
  <2>6. Win(i + 1) = Win(c)
    BY <2>4, <2>5, LineFacts
  <2>7. i + 1 # r /\ i + 1 \in c + 1..r - 1
    BY <1>1, <1>7, <1>8, <2>4, <2>6
  <2>8. i + 1 \in T /\ ~ (i >= i + 1)
    BY <1>1, <1>7, <2>4, <2>6, <2>7 DEF T
  <2> QED  BY <2>3, <2>8
<1> QED  BY <1>7, <1>8, <1>9 DEF Spanned, r

-----------------------------------------------------------------------------
(* The tree and the relations.                                             *)

\* Nothing leads to an enclosed cohort.
LEMMA LinkFacts ==
    ASSUME GivenOK
    PROVE  /\ RootCohort \in Visible(line) /\ LocalNo(line, RootCohort) = 0
           /\ \A c \in Cohorts :
                 /\ line[c].parent \in Nat \cup {NoParent}
                 /\ line[c].children \subseteq Visible(line)
                 /\ \A d \in line[c].children :
                       line[d].parent = (IF LocalNo(line, c) = 0 THEN 0 ELSE c)
                 /\ line[c].parent \in Cohorts => c \in line[line[c].parent].children
                 /\ \A n \in DOMAIN line[c].rels : line[c].rels[n] \cap Cohorts \subseteq Visible(line)
                 /\ {line[c].parent} \cap Cohorts \subseteq Visible(line)
<1>1. RootCohort \in Visible(line) /\ LocalNo(line, RootCohort) = 0
  <2>1. Win(target) \in 1..Len(cohorts)
    BY AtFacts, LineFacts
  <2>2. Size(Win(target)) \in Nat \ {0}
    BY <2>1, WindowFacts
  <2>3. 0 \in 0..Size(Win(target)) - 1
    BY <2>2
  <2>4. cohorts[Win(target)][0 + 1] \in Col(Win(target))
        /\ LocalNo(line, cohorts[Win(target)][0 + 1]) = 0
    BY <2>1, <2>3, WindowFacts
  <2> QED  BY <2>4 DEF RootCohort, Win, Col
<1>2. ASSUME NEW c \in Cohorts
      PROVE  /\ line[c].parent \in Nat \cup {NoParent}
             /\ \A d \in line[c].children :
                   /\ d \in Cohorts
                   /\ line[d].parent = (IF LocalNo(line, c) = 0 THEN 0 ELSE c)
             /\ line[c].parent \in Cohorts => c \in line[line[c].parent].children
             /\ c \notin Visible(line) => line[c].parent = NoParent
  BY <1>2 DEF GivenOK, LineType, Cohorts, Visible
<1>3. ASSUME NEW c \in Cohorts, NEW d \in Cohorts, d \notin Visible(line)
      PROVE  d # line[c].parent /\ \A n \in DOMAIN line[c].rels : d \notin line[c].rels[n]
  BY <1>3 DEF GivenOK, LineType, Cohorts, Visible
<1>4. ASSUME NEW c \in Cohorts, NEW d \in line[c].children
      PROVE  d \in Visible(line)
  <2>1. d \in Cohorts /\ line[d].parent \in Nat
    <3>1. c \in Nat
      BY LineFacts
    <3>2. d \in Cohorts /\ line[d].parent = (IF LocalNo(line, c) = 0 THEN 0 ELSE c)
      BY <1>2
    <3> QED  BY <3>1, <3>2
  <2> QED  BY <1>2, <2>1, NoParentAssumption
<1>5. ASSUME NEW c \in Cohorts
      PROVE  /\ \A n \in DOMAIN line[c].rels : line[c].rels[n] \cap Cohorts \subseteq Visible(line)
             /\ {line[c].parent} \cap Cohorts \subseteq Visible(line)
  BY <1>3
<1> QED  BY <1>1, <1>2, <1>4, <1>5

\* The parent, in the tree and for the iterators.
LEMMA ParentFacts ==
    ASSUME GivenOK, NEW c \in Cohorts
    PROVE  /\ ParentNode(c) \in Visible(line) \cup {NoCohort}
           /\ Parents(line, RootCohort, {c}) = {ParentNode(c)} \ {NoCohort}
<1>1. RootCohort \in Visible(line) /\ RootCohort \in Cohorts /\ RootCohort # NoCohort
  BY LinkFacts, LineFacts, AtFacts
<1>2. \A d \in Visible(line) : d # NoCohort
  BY AtFacts
<1>3. CASE line[c].parent = 0
  <2>1. ParentNode(c) = RootCohort
    BY <1>1, <1>3 DEF ParentNode, ParentIn, Cohorts
  <2>2. Parents(line, RootCohort, {c}) = {RootCohort}
    BY <1>3 DEF Parents, Find
  <2> QED  BY <1>1, <2>1, <2>2
<1>4. CASE line[c].parent # 0 /\ line[c].parent \in Cohorts
  <2>1. ParentNode(c) = line[c].parent /\ line[c].parent \in Visible(line)
    BY <1>4, LinkFacts DEF ParentNode, ParentIn, Cohorts
  <2>2. Parents(line, RootCohort, {c}) = {line[c].parent}
    BY <1>4 DEF Parents, Find, Cohorts
  <2> QED  BY <1>2, <2>1, <2>2
<1>5. CASE line[c].parent # 0 /\ line[c].parent \notin Cohorts
  <2>1. ParentNode(c) = NoCohort
    BY <1>5 DEF ParentNode, ParentIn, Cohorts
  <2>2. Parents(line, RootCohort, {c}) = {}
    BY <1>5 DEF Parents, Find, Cohorts
  <2> QED  BY <2>1, <2>2
<1> QED  BY <1>3, <1>4, <1>5

\* Which windows a test spans: those a step leads to, from one to the next.
LEMMA SpannedFacts ==
    ASSUME GivenOK, NEW t, NEW c \in Cohorts
    PROVE  /\ Spanned(t, c, c)
           /\ \A d \in Cohorts : Win(d) = Win(c) => Spanned(t, c, d)
           /\ \A d \in Cohorts : InSpan(line, t, c, d) => Spanned(t, c, d)
           /\ \A d \in Cohorts : t.span = "W" => InSpan(line, t, c, d) /\ Spanned(t, c, d)
           /\ \A d, e \in Cohorts : Spanned(t, c, d) /\ Spanned(t, d, e) => Spanned(t, c, e)
           /\ \A d \in Cohorts : Spanned(t, c, d) <=> Wide(t, Win(c), Win(d))
<1>1. \A d \in Cohorts : Win(d) \in Nat
  BY LineFacts
<1>2. ASSUME NEW d \in Cohorts, NEW e \in Cohorts, Spanned(t, c, d), Spanned(t, d, e)
      PROVE  Spanned(t, c, e)
  <2>1. Win(e) < Win(c) => SpansLeft(t) \/ AlwaysSpan
    <3> SUFFICES ASSUME Win(e) < Win(c)  PROVE SpansLeft(t) \/ AlwaysSpan
      OBVIOUS
    <3>1. Win(d) < Win(c) \/ Win(e) < Win(d)
      BY <1>1
    <3> QED  BY <1>2, <3>1 DEF Spanned
  <2>2. Win(e) > Win(c) => SpansRight(t) \/ AlwaysSpan
    <3> SUFFICES ASSUME Win(e) > Win(c)  PROVE SpansRight(t) \/ AlwaysSpan
      OBVIOUS
    <3>1. Win(d) > Win(c) \/ Win(e) > Win(d)
      BY <1>1
    <3> QED  BY <1>2, <3>1 DEF Spanned
  <2> QED  BY <2>1, <2>2 DEF Spanned
<1>3. \A d \in Cohorts : Win(d) = Win(c) => Spanned(t, c, d)
  BY <1>1 DEF Spanned
<1>4. \A d \in Cohorts : InSpan(line, t, c, d) => Spanned(t, c, d)
  BY DEF Spanned, InSpan, Win, SpansLeft, SpansRight
<1>5. \A d \in Cohorts : t.span = "W" => InSpan(line, t, c, d)
  BY DEF InSpan
<1>6. \A d \in Cohorts : Spanned(t, c, d) <=> Wide(t, Win(c), Win(d))
  BY DEF Spanned, Wide
<1> QED  BY <1>2, <1>3, <1>4, <1>5, <1>6

\* What pp and cc go through.
LEMMA IteratedFacts ==
    ASSUME GivenOK, NEW t, TestType(t), t.dep \in {"p", "pp", "cc"}, NEW c \in Visible(line)
    PROVE  /\ Iterated(line, RootCohort, t, c) \subseteq Visible(line)
           /\ \A d \in Iterated(line, RootCohort, t, c) : Spanned(t, c, d)
<1> DEFINE V == Visible(line)
<1>1. c \in Cohorts /\ V \subseteq Cohorts /\ V \in SUBSET DOMAIN line
  BY LineFacts DEF Cohorts
<1>2. Ancestors(line, RootCohort, t, c) \subseteq {d \in V : InSpan(line, t, c, d)}
  <2>1. Parents(line, RootCohort, V \cup {c}) \subseteq V
    <3>1. \A d \in V : Find(line, RootCohort, line[d].parent) \subseteq V
      <4> TAKE d \in V
      <4>1. d \in Cohorts
        BY <1>1
      <4> QED  BY <4>1, LinkFacts DEF Find, Cohorts
    <3> QED  BY <3>1 DEF Parents
  <2> QED  BY <1>1, <2>1 DEF Ancestors
<1>3. Descendents(line, t, c) \subseteq {d \in V : InSpan(line, t, c, d)}
  <2> DEFINE S == {d \in V : InSpan(line, t, c, d)}
  <2>1. S \in SUBSET DOMAIN line
    BY <1>1
  <2>2. Children(line, t, c, S \cup {c}) \subseteq S
    <3>1. \A e \in S \cup {c} : line[e].children \subseteq V
      BY <1>1, LinkFacts
    <3> QED  BY <3>1 DEF Children
  <2> HIDE DEF S
  <2>3. Descendents(line, t, c) \subseteq S
    BY <2>1, <2>2 DEF Descendents
  <2> QED  BY <2>3 DEF S
<1>4. t.side \in {"none", "l", "r"}
  BY DEF TestType
<1>5. ASSUME NEW S, S \subseteq {d \in V : InSpan(line, t, c, d)}
      PROVE  \A d \in Among(line, t, c, S) : d \in V /\ Spanned(t, c, d)
  <2>1. OnSide(line, t, c, S) \subseteq S
    BY <1>4 DEF OnSide
  <2>2. \A d \in V : InSpan(line, t, c, d) => Spanned(t, c, d)
    BY <1>1, SpannedFacts
  <2>3. Spanned(t, c, c)
    BY <1>1, SpannedFacts
  <2> QED  BY <1>5, <2>1, <2>2, <2>3 DEF Among
<1>6. CASE t.dep = "p"
  BY <1>6 DEF Iterated
<1>7. CASE t.dep = "pp"
  <2>1. Iterated(line, RootCohort, t, c) = Among(line, t, c, Ancestors(line, RootCohort, t, c))
    BY <1>7 DEF Iterated
  <2> QED  BY <1>2, <1>5, <2>1
<1>8. CASE t.dep = "cc"
  <2>1. Iterated(line, RootCohort, t, c) = Among(line, t, c, Descendents(line, t, c))
    BY <1>8 DEF Iterated
  <2> QED  BY <1>3, <1>5, <2>1
<1> QED  BY <1>6, <1>7, <1>8

\* What r: finds is in one of the relations of the cohort.
LEMMA NamedFacts ==
    ASSUME NEW t, NEW c
    PROVE  \A d \in Named(line, t, c) :
              d \in Cohorts /\ \E n \in DOMAIN line[c].rels : d \in line[c].rels[n]
<1> DEFINE R == {line[c].rels[n] : n \in {k \in DOMAIN line[c].rels : t.rel \in {k, AnyRelation}}}
<1> TAKE d \in Named(line, t, c)
<1>1. d \in UNION R /\ d \in Cohorts
  BY DEF Named, Cohorts
<1>2. PICK r \in R : d \in r
  BY <1>1
<1> QED  BY <1>1, <1>2

\* What the loops of c, s and r: go through at one level: with S the cohort itself
\* too. Where links stay in their windows so does the loop.
LEMMA LevelFacts ==
    ASSUME GivenOK, NEW t, TestType(t), Loops(t), NEW c \in Visible(line)
    PROVE  /\ Level(t, c).cur = c /\ Level(t, c).todo \subseteq Visible(line)
           /\ Level(t, c).self = (t.self /\ ~ Sided(t) /\ t.dep # "rel")
           /\ t.dep \in {"c*", "s*", "rel"} /\ LinksWithin(t) =>
                 \A d \in Level(t, c).todo :
                    Spanned(t, c, d) /\ InSpan(line, t, c, d) /\ (t.span # "W" => Win(d) = Win(c))
           /\ t.dep \in {"c", "c*"} /\ (t.self => ~ Sided(t)) => Level(t, c).todo \subseteq line[c].children
<1> DEFINE V == Visible(line)
           Top0 == {d \in DOMAIN line : line[d].win = line[c].win /\ LocalNo(line, d) = 0}
<1>1. c \in Cohorts /\ V \subseteq Cohorts /\ \A d \in V : Win(d) \in Nat
  BY LineFacts
<1>2. t.side \in {"none", "l", "r"} /\ t.most \in {"none", "ll", "rr"}
  BY DEF TestType
<1>3. \A d \in Cohorts : line[d].children \subseteq V
  BY LinkFacts
<1>4. ASSUME t.dep # "rel"
      PROVE  /\ Level(t, c).todo = Deps(line, t, c)
             /\ Family(line, t, c) \subseteq V
             /\ Deps(line, t, c) \subseteq Family(line, t, c) \cup (IF Sided(t) THEN {c} ELSE {})
             /\ ~ t.self => c \notin Deps(line, t, c)
  <2>1. Level(t, c).todo = Deps(line, t, c)
    BY <1>4 DEF Level
  <2>2. Family(line, t, c) \subseteq V
    BY <1>1, <1>3 DEF Family, Cohorts
  <2>3. Deps(line, t, c) \subseteq Family(line, t, c) \cup (IF Sided(t) THEN {c} ELSE {})
        /\ (~ t.self => c \notin Deps(line, t, c))
    BY <1>2 DEF Deps
  <2> QED  BY <2>1, <2>2, <2>3
<1>5. ASSUME t.dep = "rel"
      PROVE  /\ Level(t, c).todo = Related(line, t, c)
             /\ Named(line, t, c) \subseteq V
             /\ Related(line, t, c) \subseteq Named(line, t, c) \cup {c}
  <2>1. Level(t, c).todo = Related(line, t, c)
    BY <1>5 DEF Level
  <2>2. \A n \in DOMAIN line[c].rels : line[c].rels[n] \cap DOMAIN line \subseteq V
    BY <1>1, LinkFacts DEF Cohorts
  <2>3. Named(line, t, c) \subseteq V
    BY <2>2, NamedFacts DEF Cohorts
  <2> DEFINE S == Among(line, t, c, Named(line, t, c))
  <2>4. S \subseteq Named(line, t, c) \cup {c}
    BY <1>2 DEF Among, OnSide
  <2>5. S \subseteq V
    BY <2>3, <2>4
  <2>6. Related(line, t, c) \subseteq S
    <3>1. S # {} => Leftmost(line, S) \in S /\ Rightmost(line, S) \in S
      <4> HIDE DEF S
      <4> QED  BY <2>5, SetHasEnds
    <3>2. Related(line, t, c) =
            IF DOMAIN line[c].rels = {} \/ S = {} THEN {}
            ELSE CASE t.most = "ll" -> {Leftmost(line, S)}
                   [] t.most = "rr" -> {Rightmost(line, S)}
                   [] t.most = "none"   -> S
      BY DEF Related
    <3> HIDE DEF S
    <3> QED  BY <1>2, <3>1, <3>2
  <2> HIDE DEF S
  <2> QED  BY <2>1, <2>3, <2>4, <2>6
<1>6. Level(t, c).todo \subseteq V
  BY <1>4, <1>5
<1>7. ASSUME t.dep \in {"c*", "s*", "rel"}, LinksWithin(t), NEW d \in Level(t, c).todo
      PROVE  t.span = "W" \/ Win(d) = Win(c)
  <2> SUFFICES ASSUME t.span # "W", d # c  PROVE Win(d) = Win(c)
    OBVIOUS
  <2>1. CASE t.dep = "rel"
    <3>1. d \in Named(line, t, c)
      BY <1>5, <1>7, <2>1
    <3>2. PICK n \in DOMAIN line[c].rels : d \in line[c].rels[n] /\ d \in Cohorts
      BY <3>1, NamedFacts
    <3> QED  BY <1>1, <1>7, <2>1, <3>2 DEF LinksWithin
  <2>2. CASE t.dep = "c*"
    <3>1. d \in line[c].children
      BY <1>4, <1>7, <2>2 DEF Family
    <3> QED  BY <1>1, <1>7, <2>2, <3>1 DEF LinksWithin
  <2>3. CASE t.dep = "s*"
    <3>1. d \in Family(line, t, c)
      BY <1>4, <1>7, <2>3
    <3>2. \A i \in Cohorts : \A j \in line[i].children : Win(j) = Win(i)
      BY <1>7, <2>3 DEF LinksWithin
    <3>3. CASE line[c].parent = 0
      <4>1. PICK i \in Top0 : d \in line[i].children
        BY <2>3, <3>1, <3>3 DEF Family
      <4> QED  BY <3>2, <4>1 DEF Win, Cohorts
    <3>4. CASE line[c].parent # 0
      <4>1. line[c].parent \in Cohorts /\ d \in line[line[c].parent].children
        BY <2>3, <3>1, <3>4 DEF Family, Cohorts
      <4>2. c \in line[line[c].parent].children
        BY <1>1, <4>1, LinkFacts
      <4> QED  BY <3>2, <4>1, <4>2
    <3> QED  BY <3>3, <3>4
  <2> QED  BY <1>7, <2>1, <2>2, <2>3
<1>8. ASSUME t.dep \in {"c*", "s*", "rel"}, LinksWithin(t), NEW d \in Level(t, c).todo
      PROVE  Spanned(t, c, d) /\ InSpan(line, t, c, d) /\ (t.span # "W" => Win(d) = Win(c))
  <2>1. d \in V /\ d \in Cohorts
    BY <1>1, <1>6, <1>8
  <2>2. t.span = "W" \/ Win(d) = Win(c)
    BY <1>7, <1>8
  <2>3. Win(d) = Win(c) => InSpan(line, t, c, d)
    BY <1>1, <2>1 DEF InSpan, Win
  <2>4. t.span = "W" => InSpan(line, t, c, d)
    BY <1>1, <2>1, SpannedFacts
  <2> QED  BY <1>1, <2>1, <2>2, <2>3, <2>4, SpannedFacts
<1>9. ASSUME t.dep \in {"c", "c*"}, t.self => ~ Sided(t)
      PROVE  Level(t, c).todo \subseteq line[c].children
  <2>1. Family(line, t, c) = line[c].children
    BY <1>9 DEF Family
  <2> QED  BY <1>4, <1>9, <2>1
<1>10. Level(t, c).cur = c /\ Level(t, c).self = (t.self /\ ~ Sided(t) /\ t.dep # "rel")
  BY DEF Level
<1> QED  BY <1>6, <1>8, <1>9, <1>10

\* The ancestors are reached one by one.
LEMMA LineageFacts ==
    ASSUME GivenOK, NEW d \in Cohorts
    PROVE  /\ DOMAIN Lineage(d) = 1..Len(line)
           /\ Lineage(d)[1] = ParentNode(d)
           /\ \A k \in 1..Len(line) - 1 :
                 Lineage(d)[k] # NoCohort => Lineage(d)[k + 1] = ParentNode(Lineage(d)[k])
<1> DEFINE N == Len(line)
           step(e) == IF e = NoCohort THEN NoCohort ELSE ParentNode(e)
           Ok(g, m) == g = [n \in 0..m |-> IF n = 0 THEN d ELSE step(g[n - 1])]
           T == {m \in 0..N : \E g : Ok(g, m)}
<1>1. N \in Nat /\ N >= 1 /\ d # NoCohort
  BY LineFacts, NoCohortAssumption
<1>2. N \in T
  <2>1. 0 \in T
    <3> DEFINE g == [n \in 0..0 |-> d]
    <3>1. Ok(g, 0)
      OBVIOUS
    <3>2. 0 \in 0..N
      BY <1>1
    <3> HIDE DEF Ok, g
    <3> QED  BY <3>1, <3>2
  <2>2. ASSUME NEW m \in 0..N - 1, m \in T  PROVE m + 1 \in T
    <3>1. PICK g : Ok(g, m)
      BY <2>2
    <3> DEFINE h == [n \in 0..m + 1 |-> IF n = m + 1 THEN step(g[m]) ELSE g[n]]
    <3>2. \A n \in 0..m : g[n] = IF n = 0 THEN d ELSE step(g[n - 1])
      BY <3>1
    <3>3. \A n \in 0..m + 1 : h[n] = IF n = 0 THEN d ELSE step(h[n - 1])
      <4> TAKE n \in 0..m + 1
      <4> HIDE DEF step
      <4>1. CASE n = m + 1
        <5>1. n # 0 /\ n - 1 \in 0..m /\ n - 1 # m + 1 /\ n - 1 = m
          BY <2>2, <4>1
        <5> QED  BY <4>1, <5>1
      <4>2. CASE n # m + 1
        <5>1. n \in 0..m /\ (n # 0 => n - 1 \in 0..m /\ n - 1 # m + 1)
          BY <2>2, <4>2
        <5> QED  BY <3>2, <4>2, <5>1
      <4> QED  BY <4>1, <4>2
    <3> HIDE DEF step
    <3>4. Ok(h, m + 1)
      <4> DEFINE k == [n \in 0..m + 1 |-> IF n = 0 THEN d ELSE step(h[n - 1])]
      <4>1. DOMAIN h = 0..m + 1 /\ h = [n \in 0..m + 1 |-> h[n]]
        OBVIOUS
      <4>2. \A n \in 0..m + 1 : h[n] = k[n]
        <5> HIDE DEF h
        <5> QED  BY <3>3
      <4> HIDE DEF h
      <4>3. h = k
        BY <4>1, <4>2
      <4> QED  BY <4>3
    <3>5. m + 1 \in 0..N
      BY <1>1, <2>2
    <3> HIDE DEF Ok
    <3> QED  BY <3>4, <3>5
  <2> HIDE DEF T
  <2>3. 0..N \subseteq T
    BY <1>1, <2>1, <2>2, UpTo
  <2> QED  BY <1>1, <2>3
<1> DEFINE up == CHOOSE up : up = [n \in 0..N |-> IF n = 0 THEN d ELSE step(up[n - 1])]
<1>3. Ok(up, N)
  BY <1>2
<1>4. Lineage(d) = [n \in 1..N |-> up[n]]
  BY DEF Lineage, LineageIn, ParentNode
<1>5. \A n \in 0..N : up[n] = IF n = 0 THEN d ELSE step(up[n - 1])
  <2> HIDE DEF up
  <2> QED  BY <1>3
<1> HIDE DEF up, step
<1>6. up[0] = d /\ \A n \in 1..N : up[n] = step(up[n - 1])
  BY <1>1, <1>5
<1>7. Lineage(d)[1] = ParentNode(d)
  BY <1>1, <1>4, <1>6 DEF step
<1>8. ASSUME NEW k \in 1..N - 1, Lineage(d)[k] # NoCohort
      PROVE  Lineage(d)[k + 1] = ParentNode(Lineage(d)[k])
  <2>1. k \in 1..N /\ k + 1 \in 1..N /\ (k + 1) - 1 = k
    BY <1>1
  <2>2. up[k + 1] = step(up[k])
    BY <1>6, <2>1
  <2> QED  BY <1>4, <1>8, <2>1, <2>2 DEF step
<1> QED  BY <1>4, <1>7, <1>8

-----------------------------------------------------------------------------
(* Scans along the line.                                                   *)

\* Where a test counts from.
LEMMA BaseFacts ==
    ASSUME GivenOK, NEW t, TestType(t), NEW c \in Visible(line)
    PROVE  /\ Base(t, c) \in Visible(line) /\ Spanned(t, c, Base(t, c))
           /\ ~ t.abs => Base(t, c) = c
           /\ \E w \in 1..Len(cohorts) :
                 /\ w = (IF t.span = "<" /\ Before(Win(c)) # 0 THEN Before(Win(c))
                         ELSE IF t.span = ">" /\ After(Win(c)) # 0 THEN After(Win(c)) ELSE Win(c))
                 /\ t.abs => /\ Win(Base(t, c)) = w
                             /\ LocalNo(line, Base(t, c)) = (IF t.off < 0 THEN Size(w) - 1 ELSE 0)
<1> DEFINE w == IF t.span = "<" /\ Before(Win(c)) # 0 THEN Before(Win(c))
                ELSE IF t.span = ">" /\ After(Win(c)) # 0 THEN After(Win(c)) ELSE Win(c)
<1>1. Win(c) \in 1..Len(cohorts) /\ Len(cohorts) \in Nat /\ c \in Cohorts
  BY AtFacts, WindowFacts, LineFacts
<1>2. w \in 1..Len(cohorts)
  BY <1>1 DEF Before, After
<1>3. \A d \in Visible(line) : Win(d) = w => Spanned(t, c, d)
  BY <1>1 DEF Spanned, SpansLeft, SpansRight, Before, After
<1>4. Base(t, c) = IF ~ t.abs THEN c ELSE IF t.off < 0 THEN Last(cohorts[w]) ELSE cohorts[w][1]
  BY DEF Base
<1> HIDE DEF w
<1>5. Size(w) \in Nat \ {0} /\ Len(cohorts[w]) = Size(w)
  BY <1>2, WindowFacts
<1>6. \A p \in 0..Size(w) - 1 : /\ cohorts[w][p + 1] \in Visible(line) /\ Win(cohorts[w][p + 1]) = w
                                /\ LocalNo(line, cohorts[w][p + 1]) = p
  BY <1>2, WindowFacts DEF Col
<1>7. CASE ~ t.abs
  BY <1>1, <1>2, <1>4, <1>7, SpannedFacts DEF w
<1>8. CASE t.abs
  <2>1. CASE t.off < 0
    <3>1. Base(t, c) = cohorts[w][(Size(w) - 1) + 1]
      BY <1>4, <1>5, <1>8, <2>1 DEF Last
    <3>2. Size(w) - 1 \in 0..Size(w) - 1
      BY <1>5
    <3>3. /\ Base(t, c) \in Visible(line) /\ Win(Base(t, c)) = w
          /\ LocalNo(line, Base(t, c)) = Size(w) - 1
      BY <1>6, <3>1, <3>2
    <3> QED  BY <1>2, <1>3, <1>8, <2>1, <3>3 DEF w
  <2>2. CASE ~ (t.off < 0)
    <3>1. Base(t, c) = cohorts[w][0 + 1]
      BY <1>4, <1>8, <2>2
    <3>2. 0 \in 0..Size(w) - 1
      BY <1>5
    <3>3. /\ Base(t, c) \in Visible(line) /\ Win(Base(t, c)) = w
          /\ LocalNo(line, Base(t, c)) = 0
      BY <1>6, <3>1, <3>2
    <3> QED  BY <1>2, <1>3, <1>8, <2>2, <3>3 DEF w
  <2> QED  BY <2>1, <2>2
<1> QED  BY <1>7, <1>8

\* What is passed on the way from b to d.
LEMMA BetweenFacts ==
    ASSUME GivenOK, NEW b \in Visible(line), NEW e \in Visible(line), NEW d \in Visible(line)
    PROVE  /\ Between(b, e, d) <=> (e = b /\ d # b) \/ (d < e /\ e < b) \/ (b < e /\ e < d)
           /\ Far(b, e) \in Int /\ (Far(b, e) < 0 <=> e < b) /\ (Far(b, e) > 0 <=> e > b)
<1>1. b \in Nat /\ e \in Nat /\ d \in Nat /\ {b, e, d} \subseteq Cohorts
  BY LineFacts
<1>2. Rank(b) \in Nat /\ Rank(e) \in Nat /\ Rank(d) \in Nat
  BY <1>1, RankFacts
<1>3. /\ b < e <=> Rank(b) < Rank(e)
      /\ b < d <=> Rank(b) < Rank(d)
      /\ d < e <=> Rank(d) < Rank(e)
      /\ e < b <=> Rank(e) < Rank(b)
      /\ d < b <=> Rank(d) < Rank(b)
      /\ e < d <=> Rank(e) < Rank(d)
  <2>1. \A x, y \in {b, e, d} : x < y => Rank(x) < Rank(y)
    BY <1>1, RankFacts
  <2>2. \A x, y \in {b, e, d} : Rank(x) < Rank(y) => x < y
    <3> TAKE x, y \in {b, e, d}
    <3>1. x \in Nat /\ y \in Nat /\ Rank(x) \in Nat /\ Rank(y) \in Nat
      BY <1>1, <1>2
    <3> QED  BY <2>1, <3>1
  <2> QED  BY <2>1, <2>2
<1>4. /\ Distance(b, e) = IF Rank(e) < Rank(b) THEN Rank(b) - Rank(e) ELSE Rank(e) - Rank(b)
      /\ Distance(b, d) = IF Rank(d) < Rank(b) THEN Rank(b) - Rank(d) ELSE Rank(d) - Rank(b)
  BY <1>2 DEF Distance, Far
<1>5. Far(b, e) \in Int /\ (Far(b, e) < 0 <=> e < b) /\ (Far(b, e) > 0 <=> e > b)
  BY <1>1, <1>2, <1>3 DEF Far
<1> QED  BY <1>1, <1>2, <1>3, <1>4, <1>5 DEF Between

\* The cohort a test starts at is in a window that the test spans, and no nearer to
\* where it counts from than the first one the test is about.
LEMMA StartFacts ==
    ASSUME GivenOK, NEW t, TestType(t), NEW b \in Visible(line), NEW s, NEW c,
           s = Start(t, Win(b), LocalNo(line, b)), c = At(s.win, s.pos), c # NoCohort
    PROVE  /\ c \in Visible(line) /\ Spanned(t, b, c)
           /\ s.win = Win(c) /\ s.pos = LocalNo(line, c)
           /\ OnItsSide(t, b, c) /\ (~ BothWays(t) => ClearFrom(t, b, c))
           /\ t.off = 0 => c = Base(t, b)
           /\ t.dep # "none" => c = b
           /\ t.self /\ t.dep = "none" => s.win = Win(b)
<1> DEFINE w == Win(b)
           p == LocalNo(line, b)
           v == IF t.span = "<" /\ Before(Win(b)) # 0 THEN Before(Win(b))
                ELSE IF t.span = ">" /\ After(Win(b)) # 0 THEN After(Win(b)) ELSE Win(b)
           u == IF ~ t.abs THEN w ELSE v
           q == IF ~ t.abs THEN p + t.off ELSE IF t.off < 0 THEN Size(u) + t.off ELSE t.off
           a == Base(t, b)
           off == IF t.abs /\ t.off < 0 THEN t.off + 1 ELSE t.off
           K(x) == Cardinality(Sooner(x))
<1>1. /\ a \in Visible(line) /\ b \in Cohorts /\ a \in Cohorts
      /\ w \in 1..Len(cohorts) /\ v \in 1..Len(cohorts) /\ u \in 1..Len(cohorts)
      /\ Len(cohorts) \in Nat /\ t.off \in Int
      /\ ~ t.abs => a = b
      /\ t.abs => Win(a) = v /\ LocalNo(line, a) = (IF t.off < 0 THEN Size(v) - 1 ELSE 0)
  <2>1. a \in Visible(line) /\ b \in Cohorts /\ w \in 1..Len(cohorts) /\ Len(cohorts) \in Nat
    BY BaseFacts, AtFacts, WindowFacts, LineFacts
  <2>2. v \in 1..Len(cohorts) /\ (~ t.abs => a = b)
        /\ (t.abs => Win(a) = v /\ LocalNo(line, a) = (IF t.off < 0 THEN Size(v) - 1 ELSE 0))
    BY BaseFacts
  <2> QED  BY <2>1, <2>2, LineFacts DEF TestType
<1>2. /\ p \in 0..Size(w) - 1 /\ Size(w) \in Nat \ {0} /\ Size(u) \in Nat \ {0}
  BY <1>1, AtFacts, WindowFacts
<1>3. s = IF q >= Size(u) /\ SpansRight(t) /\ After(u) # 0
            THEN [win |-> After(u), pos |-> 0]
          ELSE IF q < 0 /\ SpansLeft(t) /\ Before(u) # 0
            THEN [win |-> Before(u), pos |-> Size(Before(u)) - 1]
          ELSE [win |-> u, pos |-> q]
  BY DEF Start
<1>4. q \in Int
  BY <1>1, <1>2
<1>5. /\ s.win \in 1..Len(cohorts) /\ s.pos \in Int
      /\ \/ s.win = u + 1 /\ s.pos = 0 /\ q >= Size(u) /\ SpansRight(t)
         \/ s.win = u - 1 /\ s.pos = Size(u - 1) - 1 /\ q < 0 /\ SpansLeft(t)
         \/ s.win = u /\ s.pos = q
  <2>1. \A x \in 1..Len(cohorts) : Size(x) \in Nat
    BY WindowFacts
  <2> HIDE DEF u, q
  <2>2. CASE q >= Size(u) /\ SpansRight(t) /\ After(u) # 0
    BY <1>1, <1>3, <2>2 DEF After
  <2>3. CASE q < 0 /\ SpansLeft(t) /\ Before(u) # 0 /\ ~ (q >= Size(u))
    <3>1. u - 1 \in 1..Len(cohorts) /\ s = [win |-> u - 1, pos |-> Size(u - 1) - 1]
      BY <1>1, <1>3, <2>3 DEF Before
    <3> QED  BY <2>1, <2>3, <3>1
  <2>4. CASE s = [win |-> u, pos |-> q]
    BY <1>1, <1>4, <2>4
  <2> QED  BY <1>2, <1>3, <1>4, <2>2, <2>3, <2>4
<1>6. /\ c \in Visible(line) /\ c \in Cohorts /\ s.win = Win(c) /\ s.pos = LocalNo(line, c)
      /\ s.pos \in 0..Size(s.win) - 1
  BY SMTT(60), <1>5, AtFacts, LineFacts
<1>7. /\ \A x : K(x) \in Nat
      /\ \A x \in 1..Len(cohorts) : K(x + 1) = K(x) + Size(x)
      /\ Rank(c) = K(s.win) + s.pos + 1
      /\ Rank(b) = K(w) + p + 1
      /\ Rank(a) = K(Win(a)) + LocalNo(line, a) + 1
  BY <1>1, <1>6, RankOfWindow
<1>8. /\ off >= 0 => 0 <= Far(a, c) /\ Far(a, c) <= off
      /\ off <= 0 => off <= Far(a, c) /\ Far(a, c) <= 0
      /\ Far(a, c) \in Int
  <2>1. Far(a, c) = Rank(c) - Rank(a)
    BY DEF Far
  <2> DEFINE x == IF ~ t.abs THEN p ELSE IF t.off < 0 THEN Size(u) - 1 ELSE 0
  <2>2. Rank(a) = K(u) + x + 1
    BY <1>1, <1>7
  <2>3. /\ x \in 0..Size(u) - 1 /\ K(u) \in Nat /\ off \in Int /\ q = x + off
        /\ (off > 0 <=> t.off > 0)
    <3>1. K(u) \in Nat /\ off \in Int /\ (off > 0 <=> t.off > 0)
      BY SMTT(60), <1>1, <1>7
    <3>2. CASE ~ t.abs
      <4>1. Size(u) = Size(w)
        BY <3>2
      <4> HIDE DEF u
      <4> QED  BY <1>1, <1>2, <3>1, <3>2, <4>1
    <3>3. CASE t.abs
      <4> HIDE DEF u
      <4> QED  BY SMTT(60), <1>1, <1>2, <3>1, <3>3
    <3> QED  BY <3>2, <3>3
  <2> HIDE DEF u, K, x, q, off
  <2>4. CASE s.win = u /\ s.pos = q
    <3>1. Rank(c) = K(u) + q + 1
      BY <1>7, <2>4
    <3> QED  BY <1>2, <1>4, <2>1, <2>2, <2>3, <3>1
  <2>5. CASE s.win = u + 1 /\ s.pos = 0 /\ q >= Size(u)
    <3>1. Rank(c) = K(u) + Size(u) + 1
      BY <1>1, <1>2, <1>7, <2>5
    <3> QED  BY <1>2, <1>4, <2>1, <2>2, <2>3, <2>5, <3>1
  <2>6. CASE s.win = u - 1 /\ s.pos = Size(u - 1) - 1 /\ q < 0
    <3>1. u - 1 \in 1..Len(cohorts) /\ (u - 1) + 1 = u
      BY <1>1, <1>5, <2>6
    <3>2. K(u) = K(u - 1) + Size(u - 1) /\ K(u - 1) \in Nat /\ Size(u - 1) \in Nat
      BY <1>7, <3>1, WindowFacts
    <3>3. Rank(c) = K(u)
      BY <1>7, <2>6, <3>2
    <3> QED  BY <1>2, <1>4, <2>1, <2>2, <2>3, <2>6, <3>3
  <2> QED  BY <1>5, <2>4, <2>5, <2>6
<1>9. OnItsSide(t, b, c)
  <2>1. (Far(a, c) < 0 <=> c < a) /\ (Far(a, c) > 0 <=> c > a) /\ a \in Nat /\ c \in Nat
    BY <1>1, <1>6, BetweenFacts, LineFacts
  <2> QED  BY <1>1, <1>8, <2>1 DEF OnItsSide
<1>10. t.off = 0 => c = a
  <2> SUFFICES ASSUME t.off = 0  PROVE c = a
    OBVIOUS
  <2>1. Far(a, c) = 0
    BY <1>8
  <2>2. ~ (c < a) /\ ~ (c > a) /\ a \in Nat /\ c \in Nat
    BY <1>1, <1>6, <2>1, BetweenFacts, LineFacts
  <2> QED  BY <2>2
<1>11. ASSUME ~ BothWays(t)  PROVE ClearFrom(t, b, c)
  <2> SUFFICES ASSUME NEW e \in LineScope(t, b), Between(a, e, c)  PROVE FALSE
    BY DEF ClearFrom
  <2>1. e \in Visible(line) /\ (t.off < 0 => Far(a, e) <= off) /\ (t.off > 0 => Far(a, e) >= off)
    <3>1. Near(t, b) \subseteq Visible(line)
      BY DEF Near
    <3>2. off \in Int
      BY <1>1
    <3>3. e \in Near(t, b)
      BY DEF LineScope
    <3>4. CASE t.off = 0
      BY <3>1, <3>3, <3>4
    <3>5. Far(a, e) \in Int
      BY <1>1, <3>1, <3>3, BetweenFacts
    <3> DEFINE N == Near(t, b)
    <3>6. CASE t.off < 0
      <4>1. Far(a, e) = off \/ Far(a, e) <= off
        <5>1. t.scan = "none" => e \in {d \in N : Far(a, d) = off}
          BY DEF LineScope
        <5>2. t.scan # "none" => e \in {d \in N : Far(a, d) <= off}
          BY <1>1, <3>6 DEF LineScope
        <5> HIDE DEF N, off, a
        <5> QED  BY <5>1, <5>2
      <4> HIDE DEF N, off, a
      <4> QED  BY <1>1, <3>1, <3>2, <3>3, <3>5, <3>6, <4>1
    <3>7. CASE t.off > 0
      <4>1. Far(a, e) = off \/ Far(a, e) >= off
        <5>1. t.scan = "none" => e \in {d \in N : Far(a, d) = off}
          BY DEF LineScope
        <5>2. t.scan # "none" => e \in {d \in N : Far(a, d) >= off}
          BY <1>1, <3>7 DEF LineScope
        <5> HIDE DEF N, off, a
        <5> QED  BY <5>1, <5>2
      <4> HIDE DEF N, off, a
      <4> QED  BY <1>1, <3>1, <3>2, <3>3, <3>5, <3>7, <4>1
    <3> QED  BY <1>1, <3>4, <3>6, <3>7
  <2>2. Distance(a, e) < Distance(a, c)
    BY DEF Between
  <2>3. Far(a, e) \in Int
    BY <1>1, <2>1, BetweenFacts
  <2>4. t.off = 0 => Distance(a, c) = 0 /\ Distance(a, e) >= 0
    BY <1>8, <2>3 DEF Distance
  <2> QED  BY <1>1, <1>8, <2>1, <2>2, <2>3, <2>4 DEF Distance
<1>12. t.dep # "none" => c = b
  BY <1>1, <1>10 DEF TestType
<1>13. t.self /\ t.dep = "none" => s.win = w
  <2> SUFFICES ASSUME t.self, t.dep = "none"  PROVE s.win = w
    OBVIOUS
  <2>1. t.span = "none"
    BY DEF TestType
  <2>2. u = w
    BY <2>1
  <2> HIDE DEF u
  <2> QED  BY <1>5, <2>1, <2>2 DEF SpansLeft, SpansRight
<1>14. Spanned(t, b, c)
  <2>1. u = w \/ (u = w - 1 /\ t.span = "<") \/ (u = w + 1 /\ t.span = ">")
    BY <1>1 DEF Before, After
  <2>2. w \in Nat /\ u \in Nat
    BY <1>1
  <2> HIDE DEF u
  <2>3. \/ s.win = u + 1 /\ SpansRight(t)
        \/ s.win = u - 1 /\ SpansLeft(t)
        \/ s.win = u
    BY <1>5
  <2> QED  BY <1>6, <2>1, <2>2, <2>3 DEF Spanned, SpansLeft, SpansRight
<1> QED  BY <1>6, <1>9, <1>10, <1>11, <1>12, <1>13, <1>14

\* An iterator along the line goes from a cohort that lets it pass to the next one
\* on that side.
LEMMA OnwardsFacts ==
    ASSUME GivenOK, NEW t, TestType(t), t.dep = "none", ~ BothWays(t),
           NEW b \in Visible(line), NEW c \in Visible(line), NEW n, n = Onwards(t, c), n # NoCohort,
           Spanned(t, b, c), OnItsSide(t, b, c), ClearUpTo(t, b, c),
           BarrierIsPlain(t) => Clear(t, c)
    PROVE  n \in Visible(line) /\ Spanned(t, b, n) /\ OnItsSide(t, b, n) /\ ClearUpTo(t, b, n)
<1> DEFINE a == Base(t, b)
<1>1. /\ a \in Visible(line) /\ a \in Nat /\ c \in Nat /\ b \in Cohorts /\ c \in Cohorts
      /\ \A e \in LineScope(t, b) : e \in Visible(line) /\ e \in Nat
      /\ t.off \in Int
  <2>1. \A e \in LineScope(t, b) : e \in Visible(line)
    BY DEF LineScope, Near
  <2> QED  BY <2>1, BaseFacts, LineFacts DEF TestType
<1>2. t.off # 0
  BY DEF Onwards
<1>3. CASE t.off < 0
  <2>1. n = LeftOf(t, c)
    BY <1>3 DEF Onwards
  <2>2. n \in Visible(line) /\ n < c /\ (\A d \in Visible(line) : d < c => d <= n) /\ Spanned(t, c, n)
    BY <2>1, LeftOfFacts
  <2>3. n \in Nat /\ n \in Cohorts
    BY <2>2, LineFacts
  <2>4. Spanned(t, b, n)
    BY <1>1, <2>2, <2>3, SpannedFacts
  <2>5. c <= a /\ n < a
    BY <1>1, <1>3, <2>2, <2>3 DEF OnItsSide
  <2>6. \A e \in LineScope(t, b) : Between(a, e, n) => Between(a, e, c) \/ e = c
    <3> TAKE e \in LineScope(t, b)
    <3> HAVE Between(a, e, n)
    <3>1. e = a \/ (n < e /\ e < a) \/ (a < e /\ e < n)
      BY <1>1, <2>2, BetweenFacts
    <3>2. ~ (e < c)
      BY <1>1, <2>2, <2>3, <2>5, <3>1
    <3>3. Between(a, e, c) <=> (e = a /\ c # a) \/ (c < e /\ e < a) \/ (a < e /\ e < c)
      BY <1>1, BetweenFacts
    <3> QED  BY <1>1, <2>3, <2>5, <3>1, <3>2, <3>3
  <2>7. ClearUpTo(t, b, n)
    BY <2>6 DEF ClearUpTo
  <2> QED  BY <1>1, <1>3, <2>2, <2>3, <2>4, <2>5, <2>7 DEF OnItsSide
<1>4. CASE t.off > 0
  <2>1. n = RightOf(t, c)
    BY <1>1, <1>4 DEF Onwards
  <2>2. n \in Visible(line) /\ n > c /\ (\A d \in Visible(line) : d > c => d >= n) /\ Spanned(t, c, n)
    BY <2>1, RightOfFacts
  <2>3. n \in Nat /\ n \in Cohorts
    BY <2>2, LineFacts
  <2>4. Spanned(t, b, n)
    BY <1>1, <2>2, <2>3, SpannedFacts
  <2>5. c >= a /\ n > a
    BY <1>1, <1>4, <2>2, <2>3 DEF OnItsSide
  <2>6. \A e \in LineScope(t, b) : Between(a, e, n) => Between(a, e, c) \/ e = c
    <3> TAKE e \in LineScope(t, b)
    <3> HAVE Between(a, e, n)
    <3>1. e = a \/ (n < e /\ e < a) \/ (a < e /\ e < n)
      BY <1>1, <2>2, BetweenFacts
    <3>2. ~ (e > c)
      BY <1>1, <2>2, <2>3, <2>5, <3>1
    <3>3. Between(a, e, c) <=> (e = a /\ c # a) \/ (c < e /\ e < a) \/ (a < e /\ e < c)
      BY <1>1, BetweenFacts
    <3> QED  BY <1>1, <2>3, <2>5, <3>1, <3>2, <3>3
  <2>7. ClearUpTo(t, b, n)
    BY <2>6 DEF ClearUpTo
  <2> QED  BY <1>1, <1>4, <2>2, <2>3, <2>4, <2>5, <2>7 DEF OnItsSide
<1> QED  BY <1>1, <1>2, <1>3, <1>4

-----------------------------------------------------------------------------
(* Calls.                                                                  *)

\* A call of which some fields have changed is a call.
LEMMA IsCall ==
    ASSUME NEW f \in CallType, NEW k, k = [x \in DOMAIN f |-> k[x]], k.test = f.test,
           k.win = f.win \/ k.win \in Nat \ {0}, k.pos = f.pos \/ k.pos \in Int,
           k.from = f.from \/ k.from \in Cohorts, k.origin \in {f.origin, NoCohort},
           k.way = f.way \/ k.way \in {"self", "line", "both", "tree"},
           k.at = f.at \/ k.at \in Cohorts, k.i = f.i \/ k.i \in Nat,
           k.side = f.side \/ k.side \in {"left", "right"},
           k.left = f.left \/ k.left \in Nat, k.lpos = f.lpos \/ k.lpos \in Int,
           k.right = f.right \/ k.right \in Nat, k.rpos = f.rpos \/ k.rpos \in Int,
           k.linked = f.linked \/ k.linked \in {"unknown", "yes", "no"},
           k.todo = f.todo \/ k.todo \subseteq Cohorts,
           k.climbed = f.climbed \/ k.climbed \subseteq Cohorts,
           k.kept = f.kept \/ k.kept \in BOOLEAN,
           k.levels = f.levels \/ k.levels \in Seq(LevelType)
    PROVE  k \in CallType
<1> DEFINE Q == Seq(LevelType)
           D == {"test", "win", "pos", "from", "origin", "way", "at", "i", "side", "left", "lpos",
                 "right", "rpos", "linked", "todo", "climbed", "kept", "levels"}
<1>1. /\ f.test \in DOMAIN chain /\ f.win \in Nat \ {0} /\ f.pos \in Int /\ f.from \in Cohorts
      /\ f.origin \in Cohorts \cup {NoCohort} /\ f.way \in {"start", "self", "line", "both", "tree"}
      /\ f.at \in Cohorts \cup {NoCohort} /\ f.i \in Nat /\ f.side \in {"left", "right"}
      /\ f.left \in Nat /\ f.lpos \in Int /\ f.right \in Nat /\ f.rpos \in Int
      /\ f.linked \in {"unknown", "yes", "no"} /\ f.todo \subseteq Cohorts /\ f.climbed \subseteq Cohorts
      /\ f.kept \in BOOLEAN /\ f.levels \in Q /\ DOMAIN f = D
  BY DEF CallType
<1> HIDE DEF Q, D
<1>2. /\ k.test \in DOMAIN chain /\ k.win \in Nat \ {0} /\ k.pos \in Int /\ k.from \in Cohorts
      /\ k.at \in Cohorts \cup {NoCohort} /\ k.i \in Nat
      /\ k.left \in Nat /\ k.lpos \in Int /\ k.right \in Nat /\ k.rpos \in Int
  BY <1>1, SMTT(60)
<1>3. /\ k.origin \in Cohorts \cup {NoCohort} /\ k.way \in {"start", "self", "line", "both", "tree"}
      /\ k.side \in {"left", "right"} /\ k.linked \in {"unknown", "yes", "no"}
  BY <1>1
<1>4. k.todo \in SUBSET Cohorts /\ k.climbed \in SUBSET Cohorts
  BY <1>1
<1>5. k.kept \in BOOLEAN /\ k.levels \in Q
  BY <1>1 DEF Q
<1>6. k = [x \in D |-> k[x]]
  BY <1>1
<1>7. k \in CallType
  <2> HIDE <1>1
  <2> QED  BY <1>2, <1>3, <1>4, <1>5, <1>6, SMTT(60) DEF CallType, Q, D
<1> QED  BY <1>7

-----------------------------------------------------------------------------
(* Scans both ways.                                                        *)

\* A scan both ways begins on either side of where it counts from.
LEMMA BothBegins ==
    ASSUME GivenOK, NEW t, TestType(t), BothWays(t), NEW f \in CallType,
           f.from \in Visible(line), f.at = Base(t, f.from), f.at \in Visible(line),
           Spanned(t, f.from, f.at), f.i = 0,
           f.left = Win(f.at), f.lpos = LocalNo(line, f.at),
           f.right = Win(f.at), f.rpos = LocalNo(line, f.at)
    PROVE  /\ EnterBoth(f) \in CallType /\ EnterBoth(f).way = "both"
           /\ EnterBoth(f).test = f.test /\ EnterBoth(f).from = f.from /\ EnterBoth(f).at = f.at
           /\ OnBoth(EnterBoth(f), t)
<1> DEFINE h == [f EXCEPT !.side = "right"]
           g == EnterBoth(f)
<1>1. f.left \in 1..Len(cohorts) /\ Len(cohorts) \in Nat /\ f.lpos \in Nat
      /\ f.at \in Cohorts /\ f.from \in Cohorts
  BY SMTT(60), AtFacts, WindowFacts, LineFacts, LocalNoCounts
<1>2. g = [[h EXCEPT !.side = "left", !.i = @ + 1] EXCEPT !.way = "both"] /\ h \in CallType
  <2>1. h.side = "right" /\ h.left # 0 /\ h \in CallType
    BY SMTT(60), <1>1 DEF CallType
  <2>2. g = [NextBoth(h) EXCEPT !.way = "both"]
    BY DEF EnterBoth
  <2> HIDE DEF h, g
  <2>3. NextBoth(h) = [h EXCEPT !.side = "left", !.i = @ + 1]
    BY <2>1 DEF NextBoth
  <2> QED  BY <2>1, <2>2, <2>3
<1> HIDE DEF g
<1>3. /\ g.from = f.from /\ g.at = f.at /\ g.i = 1 /\ g.side = "left" /\ g.way = "both"
      /\ g.left = Win(f.at) /\ g.lpos = LocalNo(line, f.at)
      /\ g.right = Win(f.at) /\ g.rpos = LocalNo(line, f.at)
      /\ g.test = f.test /\ g \in CallType
  <2>1. /\ h.from = f.from /\ h.at = f.at /\ h.i = 0 /\ h.test = f.test
        /\ h.left = f.left /\ h.lpos = f.lpos /\ h.right = f.right /\ h.rpos = f.rpos
    BY DEF CallType
  <2> HIDE DEF h
  <2>2. g = [x \in DOMAIN h |-> g[x]]
    BY <1>2
  <2>3. /\ g.from = h.from /\ g.at = h.at /\ g.i = h.i + 1 /\ g.test = h.test
        /\ g.left = h.left /\ g.lpos = h.lpos /\ g.right = h.right /\ g.rpos = h.rpos
        /\ g.win = h.win /\ g.pos = h.pos /\ g.origin = h.origin /\ g.linked = h.linked
        /\ g.todo = h.todo /\ g.climbed = h.climbed /\ g.kept = h.kept /\ g.levels = h.levels
        /\ g.way = "both" /\ g.side = "left"
    BY <1>2 DEF CallType
  <2>4. g.i \in Nat /\ g.i = 1
    BY <2>1, <2>3
  <2>5. g \in CallType
    BY <1>2, <2>2, <2>3, <2>4, IsCall, ZenonT(60)
  <2> QED  BY <2>1, <2>3, <2>4, <2>5
<1>4. Wide(t, Win(f.from), Win(f.at))
  BY <1>1, SpannedFacts
<1>5. \A e \in Visible(line) :
         /\ e < f.at <=> Win(e) < Win(f.at) \/ (Win(e) = Win(f.at) /\ LocalNo(line, e) < LocalNo(line, f.at))
         /\ f.at < e <=> Win(f.at) < Win(e) \/ (Win(f.at) = Win(e) /\ LocalNo(line, f.at) < LocalNo(line, e))
         /\ Win(e) \in Nat /\ LocalNo(line, e) \in Nat /\ e \in Nat
  <2> TAKE e \in Visible(line)
  <2>1. e \in Cohorts /\ Win(e) \in Nat /\ e \in Nat
    BY LineFacts
  <2> QED  BY <2>1, LineOrder, LocalNoCounts
<1>6. Leftwards(t, g.from, g.at, g.left, g.lpos, g.i)
  <2> SUFFICES ASSUME NEW e \in Visible(line), e < f.at,
                      Win(e) > Win(f.at) \/ (Win(e) = Win(f.at) /\ LocalNo(line, e) > LocalNo(line, f.at) - 1)
               PROVE  FALSE
    BY <1>1, <1>3, <1>4 DEF Leftwards
  <2> QED  BY <1>1, <1>5
<1>7. Rightwards(t, g.from, g.at, g.right, g.rpos, g.i)
  <2> SUFFICES ASSUME NEW e \in Visible(line), e > f.at,
                      Win(e) < Win(f.at) \/ (Win(e) = Win(f.at) /\ LocalNo(line, e) < LocalNo(line, f.at) + 1)
               PROVE  FALSE
    BY <1>1, <1>3, <1>4 DEF Rightwards
  <2>1. f.at \in Nat
    BY LineFacts
  <2> QED  BY <1>1, <1>5, <2>1
<1>8. OnBoth(g, t)
  BY <1>3, <1>6, <1>7, <1>1 DEF OnBoth
<1> QED  BY <1>3, <1>8 DEF g

\* How cohorts follow one another, by windows and their numbers in them.
LEMMA PlaceOrder ==
    ASSUME GivenOK, NEW b \in Visible(line)
    PROVE  \A e \in Visible(line) :
             /\ e < b <=> Win(e) < Win(b) \/ (Win(e) = Win(b) /\ LocalNo(line, e) < LocalNo(line, b))
             /\ e > b <=> Win(e) > Win(b) \/ (Win(e) = Win(b) /\ LocalNo(line, e) > LocalNo(line, b))
             /\ Win(e) \in 1..Len(cohorts) /\ LocalNo(line, e) \in 0..Size(Win(e)) - 1 /\ e \in Nat
<1> TAKE e \in Visible(line)
<1>1. /\ e \in Nat /\ b \in Nat /\ Win(e) \in Nat /\ Win(b) \in Nat
      /\ LocalNo(line, e) \in Nat /\ LocalNo(line, b) \in Nat
  BY LineFacts, LocalNoCounts
<1>2. /\ e < b <=> Win(e) < Win(b) \/ (Win(e) = Win(b) /\ LocalNo(line, e) < LocalNo(line, b))
      /\ b < e <=> Win(b) < Win(e) \/ (Win(b) = Win(e) /\ LocalNo(line, b) < LocalNo(line, e))
  BY LineOrder
<1>3. Win(e) \in 1..Len(cohorts) /\ LocalNo(line, e) \in 0..Size(Win(e)) - 1
  BY AtFacts
<1> QED  BY <1>1, <1>2, <1>3

\* A scan both ways is at a cohort that the test spans, and has passed no barrier.
LEMMA BothReaches ==
    ASSUME GivenOK, NEW t, NEW f \in CallType, OnBoth(f, t),
           f.from \in Visible(line), f.at \in Visible(line), NEW c, c = Place(f), c # NoCohort
    PROVE  /\ c \in Visible(line) /\ Spanned(t, f.from, c)
           /\ BarrierIsPlain(t) => \A e \in LineScope(t, f.from) : Between(f.at, e, c) => Clear(t, e)
<1> DEFINE b == f.at
<1>1. /\ f.i \in Nat \ {0} /\ f.left \in Nat /\ f.right \in Nat /\ f.lpos \in Int /\ f.rpos \in Int
      /\ f.side \in {"left", "right"} /\ f.from \in Cohorts
      /\ BothWays(t) /\ b = Base(t, f.from)
  BY LineFacts DEF CallType, OnBoth
<1>2. \A e \in LineScope(t, f.from) : e \in Visible(line) /\ e # b
  BY <1>1 DEF LineScope, Near, BothWays
<1>3. CASE f.side = "left"
  <2>1. Leftwards(t, f.from, b, f.left, f.lpos, f.i) /\ c = At(f.left, f.lpos - f.i)
    BY <1>3 DEF OnBoth, Place
  <2>2. f.left \in 1..Len(cohorts) /\ Wide(t, Win(f.from), f.left)
        /\ (f.left < Win(b) \/ (f.left = Win(b) /\ f.lpos = LocalNo(line, b)))
    BY <2>1 DEF Leftwards
  <2>3. c \in Visible(line) /\ Win(c) = f.left /\ LocalNo(line, c) = f.lpos - f.i /\ c \in Cohorts
    <3>1. f.lpos - f.i \in Int
      BY <1>1
    <3>2. c \in Visible(line) /\ Win(c) = f.left /\ LocalNo(line, c) = f.lpos - f.i
      BY <2>1, <2>2, <3>1, AtFacts
    <3> QED  BY <3>2, LineFacts
  <2>4. c < b /\ c \in Nat /\ b \in Nat
    BY <1>1, <2>2, <2>3, PlaceOrder
  <2>5. ASSUME BarrierIsPlain(t), NEW e \in LineScope(t, f.from), Between(b, e, c)
        PROVE  Clear(t, e)
    <3>1. e \in Visible(line) /\ e # b /\ e \in Nat
      BY <1>2, <2>5, LineFacts
    <3>2. c < e /\ e < b
      <4>1. (e = b /\ c # b) \/ (c < e /\ e < b) \/ (b < e /\ e < c)
        BY <2>3, <2>5, <3>1, BetweenFacts
      <4> QED  BY <2>4, <3>1, <4>1
    <3>3. Win(e) > f.left \/ (Win(e) = f.left /\ LocalNo(line, e) > f.lpos - f.i)
      <4>1. e > c <=> Win(e) > Win(c) \/ (Win(e) = Win(c) /\ LocalNo(line, e) > LocalNo(line, c))
        BY <2>3, <3>1, PlaceOrder
      <4> QED  BY <2>3, <2>4, <3>1, <3>2, <4>1
    <3> QED  BY <2>1, <2>5, <3>1, <3>2, <3>3 DEF Leftwards
  <2> QED  BY <1>1, <2>2, <2>3, <2>5, SpannedFacts
<1>4. CASE f.side = "right"
  <2>1. Rightwards(t, f.from, b, f.right, f.rpos, f.i) /\ c = At(f.right, f.rpos + f.i)
    BY <1>4 DEF OnBoth, Place
  <2>2. f.right \in 1..Len(cohorts) /\ Wide(t, Win(f.from), f.right)
        /\ (f.right > Win(b) \/ (f.right = Win(b) /\ f.rpos = LocalNo(line, b)))
    BY <2>1 DEF Rightwards
  <2>3. c \in Visible(line) /\ Win(c) = f.right /\ LocalNo(line, c) = f.rpos + f.i /\ c \in Cohorts
    <3>1. f.rpos + f.i \in Int
      BY <1>1
    <3>2. c \in Visible(line) /\ Win(c) = f.right /\ LocalNo(line, c) = f.rpos + f.i
      BY <2>1, <2>2, <3>1, AtFacts
    <3> QED  BY <3>2, LineFacts
  <2>4. c > b /\ c \in Nat /\ b \in Nat
    BY <1>1, <2>2, <2>3, PlaceOrder
  <2>5. ASSUME BarrierIsPlain(t), NEW e \in LineScope(t, f.from), Between(b, e, c)
        PROVE  Clear(t, e)
    <3>1. e \in Visible(line) /\ e # b /\ e \in Nat
      BY <1>2, <2>5, LineFacts
    <3>2. e < c /\ e > b
      <4>1. (e = b /\ c # b) \/ (c < e /\ e < b) \/ (b < e /\ e < c)
        BY <2>3, <2>5, <3>1, BetweenFacts
      <4> QED  BY <2>4, <3>1, <4>1
    <3>3. Win(e) < f.right \/ (Win(e) = f.right /\ LocalNo(line, e) < f.rpos + f.i)
      <4>1. e < c <=> Win(e) < Win(c) \/ (Win(e) = Win(c) /\ LocalNo(line, e) < LocalNo(line, c))
        BY <2>3, <3>1, PlaceOrder
      <4> QED  BY <2>3, <2>4, <3>1, <3>2, <4>1
    <3> QED  BY <2>1, <2>5, <3>1, <3>2, <3>3 DEF Rightwards
  <2> QED  BY <1>1, <2>2, <2>3, <2>5, SpannedFacts
<1> QED  BY <1>1, <1>3, <1>4

\* A cohort that lets the scan pass is passed, and at the border of a window the
\* scan goes on in the next one if the test spans it.
LEMMA LeftPassed ==
    ASSUME GivenOK, NEW t, NEW c, NEW b \in Visible(line), NEW l, NEW lp \in Int, NEW i \in Nat,
           Leftwards(t, c, b, l, lp, i), Win(c) \in Nat,
           BarrierIsPlain(t) => At(l, lp - i) # NoCohort /\ Clear(t, At(l, lp - i))
    PROVE  /\ Leftwards(t, c, b, l, lp, i + 1)
           /\ lp - i = 0 /\ (SpansLeft(t) \/ AlwaysSpan) /\ l - 1 # 0 =>
                 Leftwards(t, c, b, l - 1, i + Size(l - 1), i + 1)
<1>1. /\ l \in 1..Len(cohorts) /\ Wide(t, Win(c), l) /\ Len(cohorts) \in Nat
      /\ l < Win(b) \/ (l = Win(b) /\ lp = LocalNo(line, b))
  BY WindowFacts DEF Leftwards
<1>2. ASSUME BarrierIsPlain(t), NEW e \in Visible(line), e < b,
             Win(e) > l \/ (Win(e) = l /\ LocalNo(line, e) >= lp - i)
      PROVE  Clear(t, e)
  <2>1. Win(e) \in Nat /\ LocalNo(line, e) \in Nat
    BY PlaceOrder
  <2>2. CASE Win(e) = l /\ LocalNo(line, e) = lp - i
    <3>1. At(l, lp - i) = e
      BY <2>2, AtFacts
    <3> QED  BY <1>2, <3>1
  <2>3. CASE ~ (Win(e) = l /\ LocalNo(line, e) = lp - i)
    <3>1. Win(e) > l \/ (Win(e) = l /\ LocalNo(line, e) > lp - i)
      BY <1>2, <2>1, <2>3
    <3> QED  BY <1>2, <3>1 DEF Leftwards
  <2> QED  BY <2>2, <2>3
<1>3. Leftwards(t, c, b, l, lp, i + 1)
  <2> SUFFICES ASSUME BarrierIsPlain(t), NEW e \in Visible(line), e < b,
                      Win(e) > l \/ (Win(e) = l /\ LocalNo(line, e) > lp - (i + 1))
               PROVE  Clear(t, e)
    BY <1>1 DEF Leftwards
  <2>1. LocalNo(line, e) \in Nat
    BY PlaceOrder
  <2>2. LocalNo(line, e) > lp - (i + 1) => LocalNo(line, e) >= lp - i
    BY <2>1
  <2> QED  BY <1>2, <2>2
<1>4. ASSUME lp - i = 0, SpansLeft(t) \/ AlwaysSpan, l - 1 # 0
      PROVE  Leftwards(t, c, b, l - 1, i + Size(l - 1), i + 1)
  <2>1. l - 1 \in 1..Len(cohorts)
    BY <1>1, <1>4
  <2>2. Wide(t, Win(c), l - 1)
    BY <1>1, <1>4 DEF Wide
  <2>3. Size(l - 1) \in Nat /\ l - 1 < Win(b)
    <3>1. Win(b) \in Nat
      BY PlaceOrder
    <3> QED  BY <1>1, <2>1, <3>1, WindowFacts
  <2> SUFFICES ASSUME BarrierIsPlain(t), NEW e \in Visible(line), e < b,
                      \/ Win(e) > l - 1
                      \/ Win(e) = l - 1 /\ LocalNo(line, e) > (i + Size(l - 1)) - (i + 1)
               PROVE  Clear(t, e)
    BY <2>1, <2>2, <2>3 DEF Leftwards
  <2>4. Win(e) \in Nat /\ LocalNo(line, e) \in 0..Size(Win(e)) - 1
    BY PlaceOrder
  <2>5. Win(e) > l - 1
    BY <2>3, <2>4
  <2>6. Win(e) > l \/ (Win(e) = l /\ LocalNo(line, e) >= lp - i)
    BY <1>1, <1>4, <2>4, <2>5
  <2> QED  BY <1>2, <2>6
<1> QED  BY <1>3, <1>4

\* The same to the right.
LEMMA RightPassed ==
    ASSUME GivenOK, NEW t, NEW c, NEW b \in Visible(line), NEW r, NEW rp \in Int, NEW i \in Nat,
           Rightwards(t, c, b, r, rp, i), Win(c) \in Nat,
           BarrierIsPlain(t) => At(r, rp + i) # NoCohort /\ Clear(t, At(r, rp + i))
    PROVE  /\ Rightwards(t, c, b, r, rp, i + 1)
           /\ rp + i = Size(r) - 1 /\ (SpansRight(t) \/ AlwaysSpan) /\ r + 1 <= Len(cohorts) =>
                 Rightwards(t, c, b, r + 1, -i - 1, i + 1)
<1>1. /\ r \in 1..Len(cohorts) /\ Wide(t, Win(c), r) /\ Len(cohorts) \in Nat
      /\ r > Win(b) \/ (r = Win(b) /\ rp = LocalNo(line, b))
  BY WindowFacts DEF Rightwards
<1>2. ASSUME BarrierIsPlain(t), NEW e \in Visible(line), e > b,
             Win(e) < r \/ (Win(e) = r /\ LocalNo(line, e) <= rp + i)
      PROVE  Clear(t, e)
  <2>1. Win(e) \in Nat /\ LocalNo(line, e) \in Nat
    BY PlaceOrder
  <2>2. CASE Win(e) = r /\ LocalNo(line, e) = rp + i
    <3>1. At(r, rp + i) = e
      BY <2>2, AtFacts
    <3> QED  BY <1>2, <3>1
  <2>3. CASE ~ (Win(e) = r /\ LocalNo(line, e) = rp + i)
    <3>1. Win(e) < r \/ (Win(e) = r /\ LocalNo(line, e) < rp + i)
      BY <1>2, <2>1, <2>3
    <3> QED  BY <1>2, <3>1 DEF Rightwards
  <2> QED  BY <2>2, <2>3
<1>3. Rightwards(t, c, b, r, rp, i + 1)
  <2> SUFFICES ASSUME BarrierIsPlain(t), NEW e \in Visible(line), e > b,
                      Win(e) < r \/ (Win(e) = r /\ LocalNo(line, e) < rp + (i + 1))
               PROVE  Clear(t, e)
    BY <1>1 DEF Rightwards
  <2>1. LocalNo(line, e) \in Nat
    BY PlaceOrder
  <2>2. LocalNo(line, e) < rp + (i + 1) => LocalNo(line, e) <= rp + i
    BY <2>1
  <2> QED  BY <1>2, <2>2
<1>4. ASSUME rp + i = Size(r) - 1, SpansRight(t) \/ AlwaysSpan, r + 1 <= Len(cohorts)
      PROVE  Rightwards(t, c, b, r + 1, -i - 1, i + 1)
  <2>1. r + 1 \in 1..Len(cohorts)
    BY <1>1, <1>4
  <2>2. Wide(t, Win(c), r + 1)
    BY <1>1, <1>4 DEF Wide
  <2>3. r + 1 > Win(b) /\ Win(b) \in Nat
    <3>1. Win(b) \in Nat
      BY PlaceOrder
    <3> QED  BY <1>1, <2>1, <3>1
  <2> SUFFICES ASSUME BarrierIsPlain(t), NEW e \in Visible(line), e > b,
                      \/ Win(e) < r + 1
                      \/ Win(e) = r + 1 /\ LocalNo(line, e) < (-i - 1) + (i + 1)
               PROVE  Clear(t, e)
    BY <2>1, <2>2, <2>3 DEF Rightwards
  <2>4. Win(e) \in Nat /\ LocalNo(line, e) \in 0..Size(Win(e)) - 1 /\ LocalNo(line, e) \in Nat
    BY PlaceOrder, LineFacts, LocalNoCounts
  <2>5. Win(e) < r + 1
    BY <2>3, <2>4
  <2>6. Win(e) < r \/ (Win(e) = r /\ LocalNo(line, e) <= rp + i)
    <3>1. Size(r) \in Nat
      BY <1>1, WindowFacts
    <3> QED  BY <1>1, <1>4, <2>4, <2>5, <3>1
  <2> QED  BY <1>2, <2>6
<1> QED  BY <1>3, <1>4

\* After a cohort that lets the scan pass the scan both ways goes on at the next one
\* to be looked at.
LEMMA BothGoesOn ==
    ASSUME GivenOK, NEW t, t = Test, NEW f \in CallType, OnBoth(f, t),
           f.from \in Visible(line), f.at \in Visible(line), NEW over \in BOOLEAN,
           ~ over /\ BarrierIsPlain(t) => Place(f) # NoCohort /\ Clear(t, Place(f)),
           NEW p, p = Passed(f, over), ~ (p.left = 0 /\ p.right = 0), NEW g, g = NextBoth(p)
    PROVE  /\ g \in CallType /\ g.test = f.test /\ g.from = f.from /\ g.at = f.at /\ g.way = f.way
           /\ OnBoth(g, t)
<1> DEFINE b == f.at
           c == f.from
           Same(h) == /\ h = [x \in DOMAIN f |-> h[x]]
                      /\ h.test = f.test /\ h.win = f.win /\ h.pos = f.pos /\ h.from = f.from
                      /\ h.origin = f.origin /\ h.way = f.way /\ h.at = f.at /\ h.linked = f.linked
                      /\ h.todo = f.todo /\ h.climbed = f.climbed /\ h.levels = f.levels /\ h.kept = f.kept
<1>1. /\ f.i \in Nat \ {0} /\ f.left \in Nat /\ f.right \in Nat /\ f.lpos \in Int /\ f.rpos \in Int
      /\ f.side \in {"left", "right"} /\ Win(c) \in Nat /\ Len(cohorts) \in Nat
      /\ BothWays(t) /\ b = Base(t, c)
      /\ f.left # 0 => Leftwards(t, c, b, f.left, f.lpos, IF f.side = "left" THEN f.i ELSE f.i + 1)
      /\ f.right # 0 => Rightwards(t, c, b, f.right, f.rpos, f.i)
      /\ f.side = "left" => f.left # 0
      /\ f.side = "right" => f.right # 0
  BY LineFacts, WindowFacts DEF CallType, OnBoth
<1>2. Same(f)
  BY DEF CallType
<1>3. /\ Same(p) /\ p.side = f.side /\ p.i = f.i
      /\ p.left \in Nat /\ p.right \in Nat /\ p.lpos \in Int /\ p.rpos \in Int
      /\ p.left # 0 => Leftwards(t, c, b, p.left, p.lpos, f.i + 1)
      /\ p.right # 0 => Rightwards(t, c, b, p.right, p.rpos, IF f.side = "left" THEN f.i ELSE f.i + 1)
  <2>1. CASE f.side = "left" /\ over
    <3>1. p = [f EXCEPT !.left = 0, !.right = IF t.not THEN 0 ELSE @]
      BY <2>1 DEF Passed
    <3>2. Same(p) /\ p.side = f.side /\ p.i = f.i /\ p.lpos = f.lpos /\ p.rpos = f.rpos
          /\ p.left = 0 /\ p.right \in {0, f.right}
      BY <3>1 DEF CallType
    <3> HIDE DEF Same
    <3>3. p.right # 0 => Rightwards(t, c, b, p.right, p.rpos, f.i)
      BY <1>1, <3>2
    <3>4. p.left \in Nat /\ p.right \in Nat /\ p.lpos \in Int /\ p.rpos \in Int
      BY <1>1, <3>2
    <3> QED  BY <2>1, <3>2, <3>3, <3>4
  <2>2. CASE f.side = "right" /\ over
    <3>1. p = [f EXCEPT !.right = 0, !.left = IF t.not THEN 0 ELSE @]
      BY <2>2 DEF Passed
    <3>2. Same(p) /\ p.side = f.side /\ p.i = f.i /\ p.lpos = f.lpos /\ p.rpos = f.rpos
          /\ p.right = 0 /\ p.left \in {0, f.left}
      BY <3>1 DEF CallType
    <3> HIDE DEF Same
    <3>3. p.left # 0 => Leftwards(t, c, b, p.left, p.lpos, f.i + 1)
      BY <1>1, <2>2, <3>2
    <3>4. p.left \in Nat /\ p.right \in Nat /\ p.lpos \in Int /\ p.rpos \in Int
      BY <1>1, <3>2
    <3> QED  BY <2>2, <3>2, <3>3, <3>4
  <2>3. CASE f.side = "left" /\ ~ over
    <3>1. BarrierIsPlain(t) => At(f.left, f.lpos - f.i) # NoCohort /\ Clear(t, At(f.left, f.lpos - f.i))
      BY <2>3 DEF Place
    <3>2. /\ Leftwards(t, c, b, f.left, f.lpos, f.i + 1)
          /\ f.lpos - f.i = 0 /\ (SpansLeft(t) \/ AlwaysSpan) /\ f.left - 1 # 0 =>
                Leftwards(t, c, b, f.left - 1, f.i + Size(f.left - 1), f.i + 1)
      BY <1>1, <2>3, <3>1, LeftPassed
    <3>3. CASE f.lpos - f.i # 0
      <4>1. p = f
        BY <2>3, <3>3 DEF Passed
      <4> HIDE DEF Same
      <4> QED  BY <1>1, <1>2, <2>3, <3>2, <4>1
    <3>4. CASE f.lpos - f.i = 0 /\ (~ (SpansLeft(t) \/ AlwaysSpan) \/ Before(f.left) = 0)
      <4>1. p = [f EXCEPT !.left = 0]
        BY <2>3, <3>4 DEF Passed
      <4>2. Same(p) /\ p.side = f.side /\ p.i = f.i /\ p.lpos = f.lpos /\ p.rpos = f.rpos
            /\ p.left = 0 /\ p.right = f.right
        BY <4>1 DEF CallType
      <4> HIDE DEF Same
      <4> QED  BY <1>1, <2>3, <4>2
    <3>5. CASE f.lpos - f.i = 0 /\ (SpansLeft(t) \/ AlwaysSpan) /\ Before(f.left) # 0
      <4>1. p = [f EXCEPT !.left = Before(f.left), !.lpos = f.i + Size(Before(f.left))]
        BY <2>3, <3>5 DEF Passed
      <4>2. Same(p) /\ p.side = f.side /\ p.i = f.i /\ p.rpos = f.rpos /\ p.right = f.right
            /\ p.left = Before(f.left) /\ p.lpos = f.i + Size(Before(f.left))
        BY <4>1 DEF CallType
      <4>3. /\ Before(f.left) = f.left - 1 /\ f.left - 1 \in 1..Len(cohorts) /\ Size(f.left - 1) \in Nat
        <5>1. f.left \in 1..Len(cohorts)
          BY <3>2 DEF Leftwards
        <5> QED  BY SMTT(60), <1>1, <3>5, <5>1, WindowFacts DEF Before
      <4> HIDE DEF Same
      <4> QED  BY <1>1, <2>3, <3>2, <3>5, <4>2, <4>3
    <3> QED  BY <3>3, <3>4, <3>5
  <2>4. CASE f.side = "right" /\ ~ over
    <3>1. BarrierIsPlain(t) => At(f.right, f.rpos + f.i) # NoCohort /\ Clear(t, At(f.right, f.rpos + f.i))
      BY <2>4 DEF Place
    <3>2. /\ Rightwards(t, c, b, f.right, f.rpos, f.i + 1)
          /\ f.rpos + f.i = Size(f.right) - 1 /\ (SpansRight(t) \/ AlwaysSpan) /\ f.right + 1 <= Len(cohorts) =>
                Rightwards(t, c, b, f.right + 1, -f.i - 1, f.i + 1)
      BY <1>1, <2>4, <3>1, RightPassed
    <3>3. CASE f.rpos + f.i # Size(f.right) - 1
      <4>1. p = f
        BY <2>4, <3>3 DEF Passed
      <4> HIDE DEF Same
      <4> QED  BY <1>1, <1>2, <2>4, <3>2, <4>1
    <3>4. CASE f.rpos + f.i = Size(f.right) - 1 /\ ~ (SpansRight(t) \/ AlwaysSpan)
      <4>1. p = [f EXCEPT !.right = 0]
        BY <2>4, <3>4 DEF Passed
      <4>2. Same(p) /\ p.side = f.side /\ p.i = f.i /\ p.lpos = f.lpos /\ p.rpos = f.rpos
            /\ p.right = 0 /\ p.left = f.left
        BY <4>1 DEF CallType
      <4> HIDE DEF Same
      <4> QED  BY <1>1, <2>4, <4>2
    <3>5. CASE f.rpos + f.i = Size(f.right) - 1 /\ (SpansRight(t) \/ AlwaysSpan)
      <4>1. p = [f EXCEPT !.right = After(f.right), !.rpos = -f.i - 1]
        BY <2>4, <3>5 DEF Passed
      <4>2. Same(p) /\ p.side = f.side /\ p.i = f.i /\ p.lpos = f.lpos /\ p.left = f.left
            /\ p.right = After(f.right) /\ p.rpos = -f.i - 1
        BY <4>1 DEF CallType
      <4>3. /\ After(f.right) \in Nat
            /\ After(f.right) # 0 => After(f.right) = f.right + 1 /\ f.right + 1 <= Len(cohorts)
        BY <1>1 DEF After
      <4> HIDE DEF Same
      <4> QED  BY <1>1, <2>4, <3>2, <3>5, <4>2, <4>3
    <3> QED  BY <3>3, <3>4, <3>5
  <2> QED  BY <1>1, <2>1, <2>2, <2>3, <2>4
<1>4. /\ Same(g) /\ g.left = p.left /\ g.lpos = p.lpos /\ g.right = p.right /\ g.rpos = p.rpos
      /\ \/ g.side = "right" /\ g.i = f.i /\ f.side = "left" /\ p.right # 0
         \/ g.side = "left" /\ g.i = f.i + 1 /\ p.left # 0 /\ (p.right # 0 => f.side = "right")
         \/ g.side = "right" /\ g.i = f.i + 1 /\ p.left = 0 /\ f.side = "right"
  <2>0. p = [x \in DOMAIN f |-> p[x]] /\ DOMAIN p = DOMAIN f
    BY <1>3
  <2>1. CASE p.side = "left" /\ p.right # 0
    <3>1. g = [p EXCEPT !.side = "right"]
      BY <2>1 DEF NextBoth
    <3>2. g = [x \in DOMAIN f |-> g[x]]
      BY <2>0, <3>1
    <3>3. /\ g.test = p.test /\ g.win = p.win /\ g.pos = p.pos /\ g.from = p.from
          /\ g.origin = p.origin /\ g.way = p.way /\ g.at = p.at /\ g.linked = p.linked
          /\ g.todo = p.todo /\ g.climbed = p.climbed /\ g.levels = p.levels /\ g.kept = p.kept
          /\ g.left = p.left /\ g.lpos = p.lpos /\ g.right = p.right /\ g.rpos = p.rpos
          /\ g.i = p.i /\ g.side = "right"
      BY <2>0, <3>1 DEF CallType
    <3> QED  BY SMTT(60), <1>1, <1>3, <2>1, <3>2, <3>3
  <2>2. CASE ~ (p.side = "left" /\ p.right # 0) /\ p.left # 0
    <3>1. g = [p EXCEPT !.side = "left", !.i = @ + 1]
      BY <2>2 DEF NextBoth
    <3>2. g = [x \in DOMAIN f |-> g[x]]
      BY <2>0, <3>1
    <3>3. /\ g.test = p.test /\ g.win = p.win /\ g.pos = p.pos /\ g.from = p.from
          /\ g.origin = p.origin /\ g.way = p.way /\ g.at = p.at /\ g.linked = p.linked
          /\ g.todo = p.todo /\ g.climbed = p.climbed /\ g.levels = p.levels /\ g.kept = p.kept
          /\ g.left = p.left /\ g.lpos = p.lpos /\ g.right = p.right /\ g.rpos = p.rpos
          /\ g.i = p.i + 1 /\ g.side = "left"
      BY <2>0, <3>1 DEF CallType
    <3> QED  BY SMTT(60), <1>1, <1>3, <2>2, <3>2, <3>3
  <2>3. CASE ~ (p.side = "left" /\ p.right # 0) /\ p.left = 0
    <3>1. g = [p EXCEPT !.i = @ + 1, !.side = "right"]
      BY <2>3 DEF NextBoth
    <3>2. g = [x \in DOMAIN f |-> g[x]]
      BY <2>0, <3>1
    <3>3. /\ g.test = p.test /\ g.win = p.win /\ g.pos = p.pos /\ g.from = p.from
          /\ g.origin = p.origin /\ g.way = p.way /\ g.at = p.at /\ g.linked = p.linked
          /\ g.todo = p.todo /\ g.climbed = p.climbed /\ g.levels = p.levels /\ g.kept = p.kept
          /\ g.left = p.left /\ g.lpos = p.lpos /\ g.right = p.right /\ g.rpos = p.rpos
          /\ g.i = p.i + 1 /\ g.side = "right"
      BY <2>0, <3>1 DEF CallType
    <3> QED  BY SMTT(60), <1>1, <1>3, <2>3, <3>2, <3>3
  <2> QED  BY <2>1, <2>2, <2>3
<1>5. g.i \in Nat /\ g.i >= 1 /\ g.side \in {"left", "right"}
  BY <1>1, <1>4
<1>6. g \in CallType
  <2>1. g.left \in Nat /\ g.right \in Nat /\ g.lpos \in Int /\ g.rpos \in Int
    BY <1>3, <1>4
  <2> QED  BY <1>4, <1>5, <2>1, IsCall, ZenonT(60)
<1>7. OnBoth(g, t)
  <2>1. g.from = c /\ g.at = b
    BY <1>4
  <2>2. g.left # 0 => Leftwards(t, c, b, g.left, g.lpos, IF g.side = "left" THEN g.i ELSE g.i + 1)
    <3> HIDE DEF Same
    <3> QED  BY <1>3, <1>4
  <2>3. g.right # 0 => Rightwards(t, c, b, g.right, g.rpos, g.i)
    <3> HIDE DEF Same
    <3> QED  BY <1>3, <1>4
  <2>4. (g.side = "left" => g.left # 0) /\ (g.side = "right" => g.right # 0)
    <3> HIDE DEF Same
    <3> QED  BY <1>3, <1>4
  <2> QED  BY <1>1, <1>5, <2>1, <2>2, <2>3, <2>4 DEF OnBoth
<1> QED  BY <1>4, <1>6, <1>7

-----------------------------------------------------------------------------
(* The way up.                                                             *)

\* p goes from a cohort that lets it pass to its parent, unless it was left before.
LEMMA UpGoesOn ==
    ASSUME GivenOK, NEW t, NEW c \in Visible(line), NEW d \in Visible(line),
           NEW climbed \in SUBSET Cohorts,
           \/ d = c /\ climbed = {}
           \/ /\ \E k \in 1..Len(line) : WayUp(t, c, d, climbed, k)
              /\ BarrierIsPlain(t) => Clear(t, d),
           NEW n \in ParentIter(line, RootCohort, t, AlwaysSpan, climbed, d)
    PROVE  /\ n = ParentNode(d) /\ n \in Visible(line) /\ Spanned(t, d, n)
           /\ \E k \in 1..Len(line) : WayUp(t, c, n, climbed \cup {d}, k)
<1> DEFINE all == climbed \cup {d}
<1>1. c \in Cohorts /\ d \in Cohorts /\ Len(line) \in Nat /\ Cohorts = 1..Len(line)
  BY LineFacts
<1>2. n \in Parents(line, RootCohort, {d}) /\ n \notin climbed /\ (AlwaysSpan \/ InSpan(line, t, d, n))
  BY DEF ParentIter
<1>3. n = ParentNode(d) /\ n \in Visible(line) /\ n \in Cohorts
  <2>1. /\ ParentNode(d) \in Visible(line) \cup {NoCohort}
        /\ Parents(line, RootCohort, {d}) = {ParentNode(d)} \ {NoCohort}
    BY <1>1, ParentFacts
  <2>2. n = ParentNode(d) /\ n \in Visible(line)
    BY <1>2, <2>1
  <2> QED  BY <2>2, LineFacts
<1>4. Spanned(t, d, n)
  <2>1. InSpan(line, t, d, n) => Spanned(t, d, n)
    BY <1>1, <1>3, SpannedFacts
  <2> QED  BY <1>2, <2>1 DEF Spanned
<1>5. IsFiniteSet(Cohorts) /\ Cardinality(Cohorts) = Len(line)
  <2>1. Len(line) \in Int /\ Len(line) >= 1
    BY LineFacts
  <2>2. IsFiniteSet(1..Len(line)) /\ Cardinality(1..Len(line)) = Len(line)
    BY <2>1, FS_Interval
  <2> QED  BY <1>1, <2>2
<1>6. all \in SUBSET Cohorts /\ IsFiniteSet(all) /\ IsFiniteSet(climbed) /\ Cardinality(all) <= Len(line)
  <2>1. all \subseteq Cohorts
    BY <1>1
  <2> HIDE DEF all
  <2> QED  BY <1>5, <2>1, PartIsSmaller
<1>7. CASE d = c /\ climbed = {}
  <2>1. Cardinality(all) = 1
    BY <1>7, FS_Singleton
  <2>2. n \notin all \/ ParentNode(n) = n
    BY <1>3, <1>7
  <2>3. n = Lineage(c)[1]
    BY <1>1, <1>3, <1>7, LineageFacts
  <2>4. 1 \in 1..Len(line) /\ \A j \in 1..1 - 1 : FALSE
    BY <1>1
  <2>5. WayUp(t, c, n, all, 1)
    BY <2>1, <2>2, <2>3, <2>4 DEF WayUp
  <2> HIDE DEF all
  <2>6. \E k \in 1..Len(line) : WayUp(t, c, n, all, k)
    BY <2>4, <2>5
  <2> QED  BY <1>3, <1>4, <2>6 DEF all
<1>8. CASE /\ \E k \in 1..Len(line) : WayUp(t, c, d, climbed, k)
           /\ BarrierIsPlain(t) => Clear(t, d)
  <2>1. PICK k \in 1..Len(line) : WayUp(t, c, d, climbed, k)
    BY <1>8
  <2>2. d \notin climbed
    <3>1. d \in climbed => ParentNode(d) = d
      BY <2>1 DEF WayUp
    <3> QED  BY <1>2, <1>3, <3>1
  <2>3. Cardinality(all) = k + 1
    <3>1. Cardinality(climbed) = k
      BY <2>1 DEF WayUp
    <3> QED  BY <1>6, <2>2, <3>1, FS_AddElement
  <2>4. k + 1 \in 1..Len(line) /\ k \in 1..Len(line) - 1
    BY <1>1, <1>6, <2>3
  <2>5. n = Lineage(c)[k + 1]
    <3>1. d = Lineage(c)[k] /\ d # NoCohort
      BY <2>1, AtFacts DEF WayUp
    <3> QED  BY <1>1, <1>3, <2>4, <3>1, LineageFacts
  <2>6. n \notin all \/ ParentNode(n) = n
    BY <1>2, <1>3
  <2>7. BarrierIsPlain(t) => \A j \in 1..(k + 1) - 1 : Clear(t, Lineage(c)[j])
    <3> SUFFICES ASSUME BarrierIsPlain(t), NEW j \in 1..(k + 1) - 1  PROVE Clear(t, Lineage(c)[j])
      OBVIOUS
    <3>1. CASE j = k
      BY <1>8, <2>1, <3>1 DEF WayUp
    <3>2. CASE j # k
      <4>1. j \in 1..k - 1
        BY <2>4, <3>2
      <4> QED  BY <2>1, <4>1 DEF WayUp
    <3> QED  BY <3>1, <3>2
  <2>8. WayUp(t, c, n, all, k + 1)
    BY <2>3, <2>5, <2>6, <2>7 DEF WayUp
  <2> HIDE DEF all
  <2>9. \E j \in 1..Len(line) : WayUp(t, c, n, all, j)
    BY <2>4, <2>8
  <2> QED  BY <1>3, <1>4, <2>9 DEF all
<1> QED  BY <1>7, <1>8

\* The cohorts that are lower on the way up have let it pass.
LEMMA UpReaches ==
    ASSUME GivenOK, NEW t, BarrierIsPlain(t), NEW c \in Visible(line), NEW d, NEW climbed,
           NEW k \in 1..Len(line), WayUp(t, c, d, climbed, k),
           NEW e \in Over(c), Height(c, e) < Height(c, d)
    PROVE  Clear(t, e)
<1> DEFINE up == Lineage(c)
           H(x) == {n \in DOMAIN up : up[n] = x}
<1>1. c \in Cohorts /\ Len(line) \in Nat /\ DOMAIN up = 1..Len(line)
  BY LineFacts, LineageFacts
<1>2. d = up[k]
  BY DEF WayUp
<1>3. k \in H(d) /\ H(d) \subseteq 0..Len(line)
  BY <1>1, <1>2
<1>4. Height(c, d) = Min(H(d)) /\ Height(c, e) = Min(H(e))
  BY DEF Height
<1>5. PICK j \in DOMAIN up : up[j] = e
  BY DEF Over, Range
<1>6. H(e) # {} /\ H(e) \subseteq 0..Len(line)
  BY <1>1, <1>5
<1>7. Min(H(e)) \in H(e) /\ Min(H(d)) <= k
  <2> HIDE DEF H
  <2> QED  BY <1>1, <1>3, <1>6, MinMaxIn
<1>8. Min(H(e)) \in 1..k - 1 /\ up[Min(H(e))] = e
  <2>1. Min(H(e)) \in 1..Len(line) /\ up[Min(H(e))] = e
    BY <1>1, <1>7
  <2>2. Min(H(d)) \in H(d)
    <3> HIDE DEF H
    <3> QED  BY <1>1, <1>3, MinMaxIn
  <2>3. Min(H(d)) \in Nat
    BY <1>1, <2>2
  <2> HIDE DEF H
  <2> QED  BY <1>1, <1>4, <1>7, <2>1, <2>3
<1> QED  BY <1>8 DEF WayUp

-----------------------------------------------------------------------------
(* The tree.                                                               *)

\* A way down to d, read backwards, is the beginning of its way up.
LEMMA WayDown ==
    ASSUME GivenOK, NEW m \in 1..Len(line), NEW x, \A n \in 1..m : x[n] \in Visible(line),
           NEW d \in Cohorts, ParentNode(d) = x[m],
           \A n \in 1..m - 1 : ParentNode(x[n + 1]) = x[n]
    PROVE  \A j \in 1..m : Lineage(d)[j] = x[m + 1 - j]
<1> DEFINE T == {j \in 0..m : j = 0 \/ Lineage(d)[j] = x[m + 1 - j]}
<1>1. m \in Nat /\ m >= 1 /\ Len(line) \in Nat /\ m <= Len(line)
  BY LineFacts
<1>2. 0 \in T
  BY <1>1
<1>3. ASSUME NEW j \in 0..(m - 1), j \in T  PROVE j + 1 \in T
  <2>1. CASE j = 0
    <3>1. Lineage(d)[1] = ParentNode(d)
      BY LineageFacts
    <3>2. m + 1 - (0 + 1) = m
      BY <1>1
    <3> QED  BY <1>1, <1>3, <2>1, <3>1, <3>2
  <2>2. CASE j # 0
    <3>1. Lineage(d)[j] = x[m + 1 - j] /\ m + 1 - j \in 1..m
      BY <1>1, <1>3, <2>2
    <3>2. Lineage(d)[j] # NoCohort
      BY <3>1, AtFacts
    <3>3. j \in 1..Len(line) - 1
      BY <1>1, <1>3, <2>2
    <3>4. Lineage(d)[j + 1] = ParentNode(x[m + 1 - j])
      BY <3>1, <3>2, <3>3, LineageFacts
    <3>5. m + 1 - (j + 1) \in 1..m - 1 /\ (m + 1 - (j + 1)) + 1 = m + 1 - j
      BY <1>1, <1>3, <2>2
    <3>6. ParentNode(x[m + 1 - j]) = x[m + 1 - (j + 1)]
      BY <3>5
    <3>7. j + 1 \in 0..m
      BY <1>1, <1>3
    <3> QED  BY <3>4, <3>6, <3>7
  <2> QED  BY <2>1, <2>2
<1> HIDE DEF T
<1>4. 0..m \subseteq T
  BY <1>1, <1>2, <1>3, UpTo
<1> QED
  <2> TAKE j \in 1..m
  <2>1. j \in T /\ j # 0
    BY <1>1, <1>4
  <2> QED  BY <2>1 DEF T

\* A child is the child of its parent, if there is one >>> with children.
LEMMA ChildFacts ==
    ASSUME GivenOK, NEW c \in Visible(line), NEW d \in line[c].children,
           \A i \in Cohorts : LocalNo(line, i) = 0 /\ line[i].children # {} => i = RootCohort
    PROVE  d \in Visible(line) /\ ParentNode(d) = c
<1>1. c \in Cohorts /\ c \in Nat /\ c # 0
  BY LineFacts
<1>2. d \in Visible(line) /\ line[d].parent = (IF LocalNo(line, c) = 0 THEN 0 ELSE c)
  BY <1>1, LinkFacts
<1>3. LocalNo(line, c) = 0 => c = RootCohort
  BY <1>1
<1> QED  BY <1>1, <1>2, <1>3 DEF ParentNode, ParentIn, Cohorts

\* The levels are different cohorts, and all in one window where links stay in theirs.
LEMMA LevelsFacts ==
    ASSUME GivenOK, NEW t, TestType(t), Loops(t), NEW c \in Visible(line),
           NEW levels, levels \in Seq(LevelType),
           levels # <<>>, OnLevels(t, c, levels)
    PROVE  /\ Len(levels) \in 1..Len(line) /\ levels[1].cur = c
           /\ LinksWithin(t) => \A n \in DOMAIN levels : t.span = "W" \/ Win(levels[n].cur) = Win(c)
<1> DEFINE m == Len(levels)
           f == [n \in 1..m |-> levels[n].cur]
<1>1. m \in Nat /\ m >= 1 /\ DOMAIN levels = 1..m /\ 1 \in DOMAIN levels
  OBVIOUS
<1>2. /\ \A n \in DOMAIN levels : levels[n].cur \in Visible(line) /\ levels[n].cur \in Cohorts
      /\ \A n, k \in DOMAIN levels : k < n => levels[k].cur # levels[n].cur
      /\ levels[1].cur = c
  <2>1. \A n \in DOMAIN levels : levels[n].cur \in Visible(line)
    BY DEF OnLevels
  <2>2. ASSUME NEW n \in DOMAIN levels, NEW k \in DOMAIN levels, k < n
        PROVE  levels[k].cur # levels[n].cur
    <3>1. n > 1 /\ k \in 1..n - 1
      BY <1>1, <2>2
    <3> QED  BY <3>1 DEF OnLevels
  <2> QED  BY <1>1, <2>1, <2>2, LineFacts DEF OnLevels
<1>3. m <= Len(line)
  <2>1. IsFiniteSet(Cohorts) /\ Cardinality(Cohorts) = Len(line) /\ Len(line) \in Nat
    <3>1. Len(line) \in Int /\ Len(line) >= 1 /\ Cohorts = 1..Len(line)
      BY LineFacts
    <3>2. IsFiniteSet(1..Len(line)) /\ Cardinality(1..Len(line)) = Len(line)
      BY <3>1, FS_Interval
    <3> QED  BY <3>1, <3>2
  <2>2. IsFiniteSet(1..m) /\ Cardinality(1..m) = m
    <3> HIDE DEF m
    <3>1. m \in Int /\ 1 \in Int
      BY <1>1
    <3> QED  BY <1>1, <3>1, FS_Interval
  <2>3. f \in Injection(1..m, Cohorts)
    <3>1. f \in [1..m -> Cohorts]
      BY <1>1, <1>2
    <3>2. \A n, k \in 1..m : f[n] = f[k] => n = k
      <4> SUFFICES ASSUME NEW n \in 1..m, NEW k \in 1..m, f[n] = f[k]  PROVE n = k
        OBVIOUS
      <4>1. n < k \/ k < n \/ n = k
        BY <1>1
      <4>2. levels[n].cur = levels[k].cur /\ n \in DOMAIN levels /\ k \in DOMAIN levels
        BY <1>1
      <4> QED  BY <1>2, <4>1, <4>2
    <3> HIDE DEF f, m
    <3> QED  BY <3>1, <3>2 DEF Injection, IsInjective
  <2> HIDE DEF f, m
  <2>4. Cardinality(1..m) <= Cardinality(Cohorts)
    BY <2>1, <2>3, FS_Injection
  <2> QED  BY <2>1, <2>2, <2>4
<1>4. ASSUME LinksWithin(t), t.span # "W"
      PROVE  \A n \in DOMAIN levels : Win(levels[n].cur) = Win(c)
  <2> DEFINE T == {n \in 0..m : n = 0 \/ Win(levels[n].cur) = Win(c)}
  <2>1. 0 \in T
    BY <1>1
  <2>2. ASSUME NEW n \in 0..(m - 1), n \in T  PROVE n + 1 \in T
    <3>1. CASE n = 0
      BY <1>1, <1>2, <3>1
    <3>2. CASE n # 0
      <4>1. n \in DOMAIN levels /\ n + 1 \in DOMAIN levels /\ n + 1 > 1 /\ (n + 1) - 1 = n /\ n + 1 \in 0..m
        BY <1>1, <2>2, <3>2
      <4>2. levels[n + 1].cur \in Level(t, levels[n].cur).todo /\ Deep(t)
        <5>1. Len(levels) > 1
          BY <1>1, <4>1
        <5> QED  BY <4>1, <5>1, <1>1 DEF OnLevels
      <4>3. t.dep \in {"c*", "s*"}
        BY <4>2 DEF Deep
      <4>4. Win(levels[n + 1].cur) = Win(levels[n].cur)
        BY <1>2, <1>4, <4>1, <4>2, <4>3, LevelFacts
      <4> QED  BY <2>2, <3>2, <4>1, <4>4
    <3> QED  BY <3>1, <3>2
  <2> HIDE DEF T, m
  <2>3. 0..m \subseteq T
    BY <1>1, <2>1, <2>2, UpTo
  <2> TAKE n \in DOMAIN levels
  <2>4. n \in T /\ n # 0
    BY <1>1, <2>3
  <2> QED  BY <2>4 DEF T
<1> QED  BY <1>1, <1>2, <1>3, <1>4, LineFacts

\* Where the loops of c, s and r: are: in the windows spanned, and behind no barrier.
LEMMA TreeReaches ==
    ASSUME GivenOK, NEW t, TestType(t), Loops(t), NEW c \in Visible(line),
           NEW levels, levels \in Seq(LevelType),
           levels # <<>>, OnLevels(t, c, levels), NEW v, v = Last(levels), NEW d,
           \/ v.self /\ d = v.cur
           \/ ~ v.self /\ d \in v.todo /\ (t.dep = "rel" \/ InSpan(line, t, v.cur, d))
    PROVE  /\ LinksWithin(t) => Spanned(t, c, d)
           /\ BarrierIsPlain(t) => \A e \in Earlier(t, c, Base(t, c), d) : Clear(t, e)
<1> DEFINE m == Len(levels)
           x == [n \in 1..m |-> levels[n].cur]
<1>1. /\ m \in 1..Len(line) /\ m \in Nat /\ m >= 1 /\ Len(line) \in Nat /\ DOMAIN levels = 1..m
      /\ levels[1].cur = c /\ v = levels[m]
      /\ LinksWithin(t) => \A n \in DOMAIN levels : t.span = "W" \/ Win(levels[n].cur) = Win(c)
  <2>1. /\ m \in 1..Len(line) /\ levels[1].cur = c
        /\ LinksWithin(t) => \A n \in DOMAIN levels : t.span = "W" \/ Win(levels[n].cur) = Win(c)
    BY LevelsFacts
  <2>2. m \in Nat /\ m >= 1 /\ Len(line) \in Nat
    BY <2>1, LineFacts
  <2>3. DOMAIN levels = 1..m /\ v = levels[m]
    BY DEF Last
  <2> QED  BY <2>1, <2>2, <2>3
<1>2. /\ c \in Cohorts /\ \A n \in 1..m : levels[n].cur \in Visible(line) /\ levels[n].cur \in Cohorts
      /\ v.todo \subseteq Level(t, v.cur).todo /\ v.self \in BOOLEAN
  <2>1. /\ \A n \in 1..m : levels[n].cur \in Visible(line)
        /\ levels[m].todo \subseteq Level(t, levels[m].cur).todo
    BY <1>1 DEF OnLevels
  <2>2. levels[m].self \in BOOLEAN
    <3>1. levels[m] \in LevelType
      BY <1>1
    <3> QED  BY <3>1 DEF LevelType
  <2> QED  BY <1>1, <2>1, <2>2, LineFacts
<1>3. d \in Visible(line) /\ d \in Cohorts
  <2>1. v.cur \in Visible(line) /\ (v.self => d = v.cur) /\ (~ v.self => d \in v.todo)
    BY <1>1, <1>2
  <2>2. Level(t, v.cur).todo \subseteq Visible(line)
    BY <2>1, LevelFacts
  <2> QED  BY <1>2, <2>1, <2>2, LineFacts
<1>4. ASSUME LinksWithin(t)  PROVE Spanned(t, c, d)
  <2>1. CASE t.span = "W"
    BY <1>2, <1>3, <2>1, SpannedFacts
  <2>2. CASE t.span # "W"
    <3>1. Win(v.cur) = Win(c) /\ v.cur \in Cohorts /\ v.cur \in Visible(line)
      BY <1>1, <1>2, <1>4, <2>2
    <3>2. Spanned(t, v.cur, d)
      <4>1. CASE v.self
        BY <3>1, <4>1, SpannedFacts
      <4>2. CASE ~ v.self /\ t.dep = "rel"
        BY <1>2, <1>4, <3>1, <4>2, LevelFacts
      <4>3. CASE ~ v.self /\ t.dep # "rel"
        BY <1>3, <3>1, <4>3, SpannedFacts
      <4> QED  BY <4>1, <4>2, <4>3
    <3> QED  BY <1>2, <1>3, <3>1, <3>2, SpannedFacts
  <2> QED  BY <2>1, <2>2
<1>5. ASSUME BarrierIsPlain(t)  PROVE \A e \in Earlier(t, c, Base(t, c), d) : Clear(t, e)
  <2> SUFFICES ASSUME NEW e \in Earlier(t, c, Base(t, c), d)  PROVE Clear(t, e)
    OBVIOUS
  <2>1. t.self => ~ Sided(t)
    BY <1>5 DEF BarrierIsPlain, Loops
  <2>2. ~ (d = c /\ t.self)
        /\ (e \in (IF t.dep = "c*" THEN Branch(c, d) \ {d} ELSE {}) \/ (t.self /\ e = c))
    BY DEF Earlier, Loops
  <2>3. v.self => t.self /\ m # 1
    <3>1. v.self => Level(t, v.cur).self
      BY <1>1 DEF OnLevels
    <3>2. Level(t, v.cur).self => t.self
      BY DEF Level
    <3> QED  BY <1>1, <2>2, <3>1, <3>2
  <2>4. CASE t.self /\ e = c
    <3>1. ~ levels[1].self
      <4>1. levels[1].self => m = 1
        BY <1>1 DEF OnLevels
      <4> QED  BY <1>1, <2>3, <4>1
    <3> QED  BY <1>1, <1>5, <2>4, <3>1 DEF OnLevels
  <2>5. CASE t.dep = "c*" /\ e \in Branch(c, d) \ {d}
    <3> DEFINE k == IF v.self THEN m - 1 ELSE m
               up == Lineage(d)
    <3>1. k \in 1..m /\ k \in 1..Len(line)
      BY <1>1, <1>2, <2>3
    <3>2. \A i \in Cohorts : LocalNo(line, i) = 0 /\ line[i].children # {} => i = RootCohort
      BY <1>5, <2>5 DEF BarrierIsPlain
    <3>3. \A n \in 1..m : Level(t, x[n]).todo \subseteq line[x[n]].children /\ x[n] \in Visible(line)
      BY <1>2, <2>1, <2>5, LevelFacts
    <3>4. \A n \in 1..m : \A y \in Level(t, x[n]).todo : ParentNode(y) = x[n]
      BY <3>2, <3>3, ChildFacts
    <3>5. \A n \in 1..m - 1 : ParentNode(x[n + 1]) = x[n]
      <4> TAKE n \in 1..m - 1
      <4>1. n \in 1..m /\ n + 1 \in 1..m /\ n + 1 > 1 /\ (n + 1) - 1 = n
        BY <1>1
      <4>2. x[n + 1] \in Level(t, x[n]).todo
        BY <1>1, <4>1 DEF OnLevels
      <4> QED  BY <3>4, <4>1, <4>2
    <3>6. ParentNode(d) = x[k]
      <4>1. CASE v.self
        <5>1. d = x[(m - 1) + 1] /\ m - 1 \in 1..m - 1
          BY <1>1, <2>3, <4>1
        <5> QED  BY <3>5, <4>1, <5>1
      <4>2. CASE ~ v.self
        <5>1. d \in Level(t, x[m]).todo /\ m \in 1..m
          BY <1>1, <1>2, <4>2
        <5> QED  BY <3>4, <4>2, <5>1
      <4> QED  BY <4>1, <4>2
    <3> HIDE DEF k
    <3>7. \A j \in 1..k : up[j] = x[k + 1 - j]
      <4> HIDE DEF x, m
      <4>1. \A n \in 1..k : x[n] \in Visible(line)
        BY <1>1, <3>1, <3>3
      <4>2. \A n \in 1..k - 1 : ParentNode(x[n + 1]) = x[n]
        BY <1>1, <3>1, <3>5
      <4>3. d \in Cohorts /\ k \in 1..Len(line) /\ ParentNode(d) = x[k]
        BY <1>3, <3>1, <3>6
      <4>4. \A j \in 1..k : Lineage(d)[j] = x[k + 1 - j]
        BY <4>1, <4>2, <4>3, WayDown
      <4> QED  BY <4>4
    <3> DEFINE H == {n \in DOMAIN up : up[n] = c}
    <3>8. DOMAIN up = 1..Len(line)
      BY <1>3, LineageFacts
    <3>9. k \in H /\ H \subseteq 0..Len(line)
      <4>1. k + 1 - k = 1 /\ k \in 1..k /\ 1 \in 1..m /\ k \in 1..Len(line)
        BY <1>1, <3>1
      <4>2. x[1] = c
        BY <1>1, <4>1
      <4> HIDE DEF x
      <4>3. up[k] = c
        BY <3>7, <4>1, <4>2
      <4> QED  BY <3>8, <4>1, <4>3
    <3>10. Min(H) \in H /\ Min(H) <= k
      <4> HIDE DEF H
      <4> QED  BY <1>1, <3>9, MinMaxIn
    <3>11. Min(H) \in 1..k /\ Min(H) \in Nat /\ Min(H) <= Len(line)
      <4>1. Min(H) \in 1..Len(line)
        BY <3>8, <3>10
      <4> HIDE DEF H
      <4> QED  BY <1>1, <3>1, <3>10, <4>1
    <3> HIDE DEF H
    <3>12. e \in ToSet(SubSeq(up, 1, Min(H) - 1))
      BY <2>5 DEF Branch, Height, H
    <3>13. PICK j \in 1..Min(H) - 1 : e = up[j]
      <4> DEFINE s == SubSeq(up, 1, Min(H) - 1)
      <4>1. s = [i \in 1..Min(H) - 1 |-> up[i]]
        <5>1. 1 + (Min(H) - 1) - 1 = Min(H) - 1 /\ \A i \in 1..Min(H) - 1 : i + 1 - 1 = i
          BY <3>11
        <5> QED  BY <3>11, <5>1 DEF SubSeq
      <4> HIDE DEF s
      <4> QED  BY <3>12, <4>1 DEF ToSet, s
    <3>14. k + 1 - j \in 2..m /\ j \in 1..k
      BY <1>1, <3>1, <3>11, <3>13
    <3>15. e = levels[k + 1 - j].cur /\ k + 1 - j \in DOMAIN levels /\ k + 1 - j > 1
      <4>1. up[j] = x[k + 1 - j]
        BY <3>7, <3>14
      <4>2. k + 1 - j \in 1..m /\ k + 1 - j > 1
        BY <1>1, <3>14
      <4> HIDE DEF up
      <4> QED  BY <1>1, <3>13, <4>1, <4>2
    <3> QED  BY <1>5, <2>5, <3>15 DEF OnLevels
  <2> QED  BY <2>2, <2>4, <2>5
<1> QED  BY <1>4, <1>5

-----------------------------------------------------------------------------
(* Where the innermost call looks.                                         *)

\* What the invariant says of the innermost call.
LEMMA TopFacts ==
    ASSUME Inv, calls # <<>>
    PROVE  /\ GivenOK /\ calls \in Seq(CallType) /\ Len(calls) \in 1..Len(chain) /\ Len(chain) \in Nat
           /\ Top \in CallType /\ Top.test = Len(calls) /\ Test = chain[Len(calls)] /\ TestType(Test)
           /\ CallOK(Top, Test) /\ SeenBy(Top, Test, Len(calls), deepSeen)
<1>1. calls \in Seq(CallType) /\ Len(calls) <= Len(chain) /\ GivenOK
  BY DEF Inv, CallsOK
<1>2. Len(chain) \in Nat /\ DOMAIN chain = 1..Len(chain)
  <2> DEFINE R == Range(chain)
  <2>1. chain \in Seq(R)
    BY <1>1 DEF GivenOK
  <2> HIDE DEF R
  <2> QED  BY <2>1
<1>3. Len(calls) \in DOMAIN calls /\ Len(calls) \in DOMAIN chain
  BY <1>1, <1>2
<1>4. Top = calls[Len(calls)] /\ Top \in CallType
  BY <1>1, <1>3 DEF Top
<1>5. /\ Top.test = Len(calls) /\ CallOK(Top, chain[Len(calls)])
      /\ SeenBy(Top, chain[Len(calls)], Len(calls), deepSeen)
  BY <1>3, <1>4 DEF Inv, CallsOK
<1>6. Test = chain[Len(calls)]
  BY <1>5 DEF Test
<1>7. TestType(Test)
  BY <1>1, <1>3, <1>6 DEF GivenOK
<1> QED  BY <1>1, <1>2, <1>3, <1>4, <1>5, <1>6, <1>7

\* The cohort of the next test, if there is one, is not enclosed; in the loops there
\* is one.
LEMMA HereFacts ==
    ASSUME Inv, Running
    PROVE  /\ Here # NoCohort => Here \in Visible(line)
           /\ Top.way # "both" => Here \in Visible(line) /\ Here # NoCohort
           /\ Top.way = "tree" =>
                 /\ Inner \in LevelType /\ Inner = Top.levels[Len(Top.levels)] /\ Top.levels \in Seq(LevelType)
                 /\ Inner.self => Here = Inner.cur
                 /\ ~ Inner.self => Here \in Inner.todo
<1>1. /\ GivenOK /\ Top \in CallType /\ TestType(Test) /\ CallOK(Top, Test)
      /\ Top.way \in {"self", "line", "both", "tree"}
  <2>1. Top \in CallType => Top.way \in {"start", "self", "line", "both", "tree"}
    BY DEF CallType
  <2> QED  BY <2>1, TopFacts DEF Running
<1>2. Top.at \in Visible(line) /\ Top.from \in Visible(line)
  BY <1>1 DEF CallOK
<1>3. CASE Top.way = "self"
  <2>1. Here = IF BothWays(Test) THEN Top.at ELSE At(Top.win, Top.pos)
    BY <1>3 DEF Here
  <2>2. ~ BothWays(Test) => At(Top.win, Top.pos) = Top.from
    BY <1>1, <1>3 DEF CallOK, OnSelf
  <2> QED  BY <1>1, <1>2, <1>3, <2>1, <2>2, AtFacts
<1>4. CASE Top.way = "line"
  <2>1. Here = Top.at
    BY <1>4 DEF Here
  <2> QED  BY <1>1, <1>2, <1>4, <2>1, AtFacts
<1>5. CASE Top.way = "both"
  <2>1. Here = Place(Top) /\ OnBoth(Top, Test)
    BY <1>1, <1>5 DEF Here, CallOK
  <2> QED  BY <1>1, <1>2, <1>5, <2>1, BothReaches
<1>6. CASE Top.way = "tree"
  <2> DEFINE ls == Top.levels
  <2>1. /\ ls \in Seq(LevelType) /\ ls # <<>> /\ OnLevels(Test, Top.from, ls)
        /\ Loops(Test) /\ (Last(ls).self \/ Last(ls).todo # {})
    BY <1>1, <1>6 DEF CallType, CallOK, OnTree
  <2>2. Inner = ls[Len(ls)] /\ Len(ls) \in DOMAIN ls /\ Inner \in LevelType /\ Inner = Last(ls)
    BY <2>1 DEF Inner, Last
  <2>3. Here = IF Inner.self THEN Inner.cur ELSE Foremost(line, Test, Inner.todo)
    BY <1>6 DEF Here
  <2>4. Inner.cur \in Visible(line) /\ Inner.todo \subseteq Level(Test, Inner.cur).todo
    BY <2>1, <2>2 DEF OnLevels
  <2>5. Inner.todo \subseteq Visible(line)
    BY <1>1, <2>1, <2>4, LevelFacts
  <2>6. ~ Inner.self => Here \in Inner.todo
    <3>1. Test.dep \in {"pp", "cc", "c", "c*", "s", "s*", "rel"}
      BY <2>1 DEF Loops
    <3> QED  BY <1>1, <2>1, <2>2, <2>3, <2>5, <3>1, ForemostIn
  <2>7. Inner.self \in BOOLEAN
    BY <2>2 DEF LevelType
  <2>8. Here \in Visible(line)
    BY <2>3, <2>4, <2>5, <2>6, <2>7
  <2> QED  BY <1>1, <1>6, <2>1, <2>2, <2>3, <2>6, <2>8, AtFacts
<1> QED  BY <1>1, <1>3, <1>4, <1>5, <1>6

\* The invariant implies that a test looks where it may.
LEMMA InvReaches ==
    ASSUME Inv
    PROVE  StaysInReach
<1> SUFFICES ASSUME Running, Here # NoCohort, ~ IsFar
             PROVE  /\ ~ line[Here].enclosed
                    /\ LinksWithin(Test) => Spanned(Test, Top.from, Here)
                    /\ BarrierIsPlain(Test) =>
                          \A e \in Earlier(Test, Top.from, Base(Test, Top.from), Here) : Clear(Test, e)
  BY DEF StaysInReach, Clear
<1> DEFINE t == Test
           c == Top.from
           d == Here
<1>1. /\ GivenOK /\ Top \in CallType /\ TestType(t) /\ CallOK(Top, t)
      /\ Top.way \in {"self", "line", "both", "tree"}
  <2>1. Top \in CallType => Top.way \in {"start", "self", "line", "both", "tree"}
    BY DEF CallType
  <2> QED  BY <2>1, TopFacts DEF Running
<1>2. d \in Visible(line) /\ c \in Visible(line) /\ Top.at \in Visible(line) /\ Spanned(t, c, Top.at)
      /\ c \in Cohorts /\ d \in Cohorts
  BY <1>1, HereFacts, LineFacts DEF CallOK
<1>3. ~ line[d].enclosed
  BY <1>2 DEF Visible
<1>4. CASE Top.way = "self"
  <2>1. t.self /\ (~ BothWays(t) => d = c) /\ (BothWays(t) => d = Top.at)
    BY <1>1, <1>4 DEF CallOK, OnSelf, Here
  <2>2. Spanned(t, c, d)
    BY <1>1, <1>2, <2>1, SpannedFacts
  <2>3. BarrierIsPlain(t) => Earlier(t, c, Base(t, c), d) = {}
    BY <2>1 DEF BarrierIsPlain, Earlier
  <2> QED  BY <1>3, <2>2, <2>3
<1>5. CASE Top.way = "line"
  <2>1. d = Top.at /\ OnLine(Top, t)
    BY <1>1, <1>5 DEF CallOK, Here
  <2>2. ASSUME BarrierIsPlain(t), NEW e \in Earlier(t, c, Base(t, c), d)  PROVE Clear(t, e)
    <3>1. \/ t.dep = "none" /\ e \in LineScope(t, c) /\ Between(Base(t, c), e, d)
          \/ t.dep = "p" /\ e \in Over(c) /\ Height(c, e) < Height(c, d)
          \/ t.self /\ e = c
      <4>1. t.dep # "c*"
        BY <2>1 DEF OnLine, Loops
      <4> QED  BY <2>2, <4>1 DEF Earlier
    <3>2. CASE t.dep = "none"
      <4>1. ClearUpTo(t, c, d)
        BY <2>1, <3>2 DEF OnLine
      <4> QED  BY <2>2, <3>1, <3>2, <4>1 DEF ClearUpTo
    <3>3. CASE t.dep # "none" /\ t.self /\ e = c
      <4>1. SelfFirst(t)
        BY <2>2, <3>3 DEF BarrierIsPlain, SelfFirst
      <4> QED  BY <2>1, <2>2, <3>3, <4>1 DEF OnLine
    <3>4. CASE t.dep = "p" /\ e \in Over(c) /\ Height(c, e) < Height(c, d)
      <4>1. PICK k \in 1..Len(line) : WayUp(t, c, d, Top.climbed, k)
        BY <2>1, <3>4 DEF OnLine
      <4> HIDE DEF t, c, d
      <4> QED  BY <1>1, <1>2, <2>2, <3>4, <4>1, UpReaches
    <3> QED  BY <3>1, <3>2, <3>3, <3>4
  <2> QED  BY <1>2, <1>3, <2>1, <2>2
<1>6. CASE Top.way = "both"
  <2>1. d = Place(Top) /\ OnBoth(Top, t) /\ BothWays(t) /\ Top.at = Base(t, c)
    BY <1>1, <1>6 DEF CallOK, Here, OnBoth
  <2>2. /\ Spanned(t, c, d)
        /\ BarrierIsPlain(t) => \A e \in LineScope(t, c) : Between(Top.at, e, d) => Clear(t, e)
    BY <1>1, <1>2, <2>1, BothReaches
  <2>3. ASSUME BarrierIsPlain(t), NEW e \in Earlier(t, c, Base(t, c), d)  PROVE Clear(t, e)
    <3>1. t.dep = "none" /\ ~ t.self
      BY <2>1, <2>3 DEF BarrierIsPlain, BothWays
    <3>2. e \in LineScope(t, c) /\ Between(Base(t, c), e, d)
      BY <2>3, <3>1 DEF Earlier
    <3> QED  BY <2>1, <2>2, <2>3, <3>2
  <2> QED  BY <1>3, <2>2, <2>3
<1>7. CASE Top.way = "tree"
  <2> DEFINE ls == Top.levels
  <2>1. /\ ls \in Seq(LevelType) /\ ls # <<>> /\ OnLevels(t, c, ls) /\ Loops(t)
    BY <1>1, <1>7 DEF CallType, CallOK, OnTree
  <2>2. Inner = Last(ls) /\ Inner.self \in BOOLEAN
    BY <1>7, HereFacts DEF Inner, LevelType
  <2>3. \/ Inner.self /\ d = Inner.cur
        \/ ~ Inner.self /\ d \in Inner.todo /\ (t.dep = "rel" \/ InSpan(line, t, Inner.cur, d))
    BY <1>7, <2>2, HereFacts DEF IsFar
  <2> HIDE DEF ls, t, c, d
  <2>4. /\ LinksWithin(t) => Spanned(t, c, d)
        /\ BarrierIsPlain(t) => \A e \in Earlier(t, c, Base(t, c), d) : Clear(t, e)
    BY <1>1, <1>2, <2>1, <2>2, <2>3, TreeReaches
  <2> QED  BY <1>3, <2>4 DEF t, c, d
<1> QED  BY <1>1, <1>4, <1>5, <1>6, <1>7

-----------------------------------------------------------------------------
(* Steps.                                                                  *)

\* What the invariant asks of the calls is about what does not change.
LEMMA GivenStays ==
    ASSUME UNCHANGED given
    PROVE  \A cs, seen : CallsOK(cs, seen)' <=> CallsOK(cs, seen)
<1>1. line' = line /\ cohorts' = cohorts /\ chain' = chain /\ target' = target
  BY DEF given
<1>2. Cohorts' = Cohorts /\ \A c : Win(c)' = Win(c)
  BY <1>1 DEF Cohorts, Win
<1>3. RootCohort' = RootCohort
  BY <1>1 DEF RootCohort
<1>4. \A w : Size(w)' = Size(w)
  BY <1>1 DEF Size
<1>5. \A w, p : At(w, p)' = At(w, p)
  BY <1>1, <1>4 DEF At
<1>6. \A c : Rank(c)' = Rank(c)
  BY <1>1 DEF Rank
<1>7. \A c, d : Far(c, d)' = Far(c, d)
  BY <1>6 DEF Far
<1>8. \A c, d : Distance(c, d)' = Distance(c, d)
  BY <1>7 DEF Distance
<1>9. \A c, d, e : Between(c, d, e)' <=> Between(c, d, e)
  BY <1>8 DEF Between
<1>10. \A w : After(w)' = After(w)
  BY <1>1 DEF After
<1>11. \A t, c : Base(t, c)' = Base(t, c)
  BY <1>1, <1>2, <1>10 DEF Base
<1>12. \A t, c, d : Spanned(t, c, d)' <=> Spanned(t, c, d)
  BY <1>2 DEF Spanned
<1>13. \A t, c : Near(t, c)' = Near(t, c)
  BY <1>1, <1>12 DEF Near
<1>14. \A t, c : LineScope(t, c)' = LineScope(t, c)
  BY <1>7, <1>11, <1>13, SMTT(60) DEF LineScope
<1>15. \A t, c : Clear(t, c)' <=> Clear(t, c)
  BY <1>1 DEF Clear, SomeHas
<1>16. \A c : ParentNode(c)' = ParentNode(c)
  BY <1>1, <1>3 DEF ParentNode
<1>17. \A c : Lineage(c)' = Lineage(c)
  BY <1>1, <1>3 DEF Lineage
<1>18. \A t : LinksWithin(t)' <=> LinksWithin(t)
  BY <1>1, <1>2 DEF LinksWithin
<1>19. \A t : BarrierIsPlain(t)' <=> BarrierIsPlain(t)
  BY <1>1, <1>2, <1>3, <1>18 DEF BarrierIsPlain
<1>20. \A t, c : Level(t, c)' = Level(t, c)
  BY <1>1 DEF Level
<1>21. CallType' = CallType
  BY <1>1, <1>2 DEF CallType, LevelType
<1>22. \A t, c, d : OnItsSide(t, c, d)' <=> OnItsSide(t, c, d)
  BY <1>11 DEF OnItsSide
<1>23. \A t, c, d : ClearFrom(t, c, d)' <=> ClearFrom(t, c, d)
  BY <1>9, <1>11, <1>14 DEF ClearFrom
<1>24. \A t, c, d : ClearUpTo(t, c, d)' <=> ClearUpTo(t, c, d)
  BY <1>9, <1>11, <1>14, <1>15, <1>19 DEF ClearUpTo
<1>25. \A f, t : OnSelf(f, t)' <=> OnSelf(f, t)
  BY <1>1, <1>2, <1>5, <1>11, <1>22, <1>23 DEF OnSelf
<1>26. \A t, c, d, up, k : WayUp(t, c, d, up, k)' <=> WayUp(t, c, d, up, k)
  BY <1>15, <1>16, <1>17, <1>19 DEF WayUp
<1>27. \A f, t : OnLine(f, t)' <=> OnLine(f, t)
  BY <1>1, <1>15, <1>19, <1>22, <1>24, <1>26 DEF OnLine
<1>28. \A t, c, b, l, lp, k : Leftwards(t, c, b, l, lp, k)' <=> Leftwards(t, c, b, l, lp, k)
  BY <1>1, <1>2, <1>15, <1>19 DEF Leftwards
<1>29. \A t, c, b, r, rp, k : Rightwards(t, c, b, r, rp, k)' <=> Rightwards(t, c, b, r, rp, k)
  BY <1>1, <1>2, <1>15, <1>19 DEF Rightwards
<1>30. \A f, t : OnBoth(f, t)' <=> OnBoth(f, t)
  BY <1>11, <1>28, <1>29 DEF OnBoth
<1>31. \A t, c, levels : OnLevels(t, c, levels)' <=> OnLevels(t, c, levels)
  BY <1>1, <1>15, <1>19, <1>20 DEF OnLevels
<1>32. \A f, t : OnTree(f, t)' <=> OnTree(f, t)
  BY <1>31 DEF OnTree
<1>33. \A f, t : CallOK(f, t)' <=> CallOK(f, t)
  BY <1>1, <1>2, <1>3, <1>12, <1>25, <1>27, <1>30, <1>32 DEF CallOK
<1>34. \A f, t, n, seen : SeenBy(f, t, n, seen)' <=> SeenBy(f, t, n, seen)
  BY DEF SeenBy
<1> QED
  BY <1>1, <1>21, <1>33, <1>34 DEF CallsOK

\* The invariant holds again if the new calls are such as it asks for.
LEMMA StepKeeps ==
    ASSUME Inv, UNCHANGED given, NEW cs, cs = calls', NEW seen, seen = deepSeen', CallsOK(cs, seen),
           mark' \in Visible(line), seen \subseteq (DOMAIN chain) \X Cohorts,
           answer' \in {"running", "yes", "no"}, cs = <<>> <=> answer' # "running"
    PROVE  Inv'
<1>1. line' = line /\ cohorts' = cohorts /\ chain' = chain /\ target' = target
  BY DEF given
<1>2. GivenOK' <=> GivenOK
  BY <1>1 DEF GivenOK
<1>3. CallsOK(calls, deepSeen)'
  BY GivenStays
<1>4. Cohorts' = Cohorts
  BY <1>1 DEF Cohorts
<1>5. calls' \in Seq(CallType') /\ Len(calls') <= Len(chain') /\ \A n \in DOMAIN calls' : calls'[n].test = n
  BY <1>3 DEF CallsOK
<1>6. LineType(line) /\ target \in Cohorts /\ mark' \in Cohorts
  BY LineFacts DEF Inv, TypeOK
<1>7. TypeOK'
  BY <1>1, <1>4, <1>5, <1>6 DEF TypeOK
<1> QED  BY <1>1, <1>2, <1>3, <1>7 DEF Inv

\* What the linked test has returned does not matter to where a call is.
LEMMA LinkedIsFree ==
    ASSUME NEW f \in CallType, NEW x \in {"unknown", "yes", "no"}, NEW g, g = [f EXCEPT !.linked = x]
    PROVE  /\ g \in CallType /\ g.test = f.test /\ g.way = f.way
           /\ \A t : CallOK(g, t) <=> CallOK(f, t)
           /\ \A t, n, seen : SeenBy(g, t, n, seen) <=> SeenBy(f, t, n, seen)
           /\ \A t : OnBoth(g, t) <=> OnBoth(f, t)
           /\ Place(g) = Place(f) /\ g.from = f.from /\ g.at = f.at
<1>1. g = [y \in DOMAIN f |-> g[y]]
  OBVIOUS
<1>2. /\ g.test = f.test /\ g.win = f.win /\ g.pos = f.pos /\ g.from = f.from /\ g.origin = f.origin
      /\ g.way = f.way /\ g.at = f.at /\ g.i = f.i /\ g.side = f.side /\ g.left = f.left
      /\ g.lpos = f.lpos /\ g.right = f.right /\ g.rpos = f.rpos /\ g.linked = x /\ g.todo = f.todo
      /\ g.climbed = f.climbed /\ g.kept = f.kept /\ g.levels = f.levels
  BY DEF CallType
<1>3. g \in CallType
  BY <1>1, <1>2, IsCall, ZenonT(60)
<1>4. \A t : OnSelf(g, t) <=> OnSelf(f, t)
  BY <1>2 DEF OnSelf
<1>5. \A t : OnLine(g, t) <=> OnLine(f, t)
  BY <1>2 DEF OnLine
<1>6. \A t : OnBoth(g, t) <=> OnBoth(f, t)
  BY <1>2 DEF OnBoth
<1>7. \A t : OnTree(g, t) <=> OnTree(f, t)
  BY <1>2 DEF OnTree
<1>8. \A t : CallOK(g, t) <=> CallOK(f, t)
  BY <1>2, <1>4, <1>5, <1>6, <1>7 DEF CallOK
<1>9. \A t, n, seen : SeenBy(g, t, n, seen) <=> SeenBy(f, t, n, seen)
  BY <1>2 DEF SeenBy
<1>10. Place(g) = Place(f)
  BY <1>2 DEF Place
<1> QED  BY <1>2, <1>3, <1>6, <1>8, <1>9, <1>10

\* The innermost call may be replaced by one that is right.
LEMMA UpdateKeeps ==
    ASSUME Inv, calls # <<>>, NEW f \in CallType, f.test = Top.test, CallOK(f, Test),
           NEW seen, deepSeen \subseteq seen, SeenBy(f, Test, Len(calls), seen),
           NEW cs, cs = [calls EXCEPT ![Len(calls)] = f]
    PROVE  CallsOK(cs, seen) /\ cs # <<>>
<1>1. /\ calls \in Seq(CallType) /\ Len(calls) \in Nat /\ Len(calls) >= 1 /\ Len(calls) <= Len(chain)
      /\ f.test = Len(calls) /\ Test = chain[Len(calls)]
  BY TopFacts DEF Inv, CallsOK
<1>2. cs \in Seq(CallType) /\ Len(cs) = Len(calls) /\ DOMAIN cs = DOMAIN calls
  BY <1>1
<1>3. ASSUME NEW n \in DOMAIN cs
      PROVE  cs[n].test = n /\ CallOK(cs[n], chain[n]) /\ SeenBy(cs[n], chain[n], n, seen)
  <2>1. CASE n = Len(calls)
    BY <1>1, <1>2, <2>1
  <2>2. CASE n # Len(calls)
    <3>1. cs[n] = calls[n] /\ n \in DOMAIN calls
      BY <1>1, <1>2, <2>2
    <3>2. calls[n].test = n /\ CallOK(calls[n], chain[n]) /\ SeenBy(calls[n], chain[n], n, deepSeen)
      BY <3>1 DEF Inv, CallsOK
    <3>3. SeenBy(calls[n], chain[n], n, seen)
      BY <3>2 DEF SeenBy
    <3> QED  BY <3>1, <3>2, <3>3
  <2> QED  BY <2>1, <2>2
<1>4. cs # <<>>
  BY <1>1, <1>2
<1> QED  BY <1>1, <1>2, <1>3, <1>4 DEF CallsOK

\* A call may return.
LEMMA ReturnKeeps ==
    ASSUME Inv, calls # <<>>, NEW r, Return(r), NEW seen, deepSeen \subseteq seen, NEW cs, cs = calls'
    PROVE  /\ CallsOK(cs, seen)
           /\ answer' \in {"running", "yes", "no"} /\ (cs = <<>> <=> answer' # "running")
<1> DEFINE m == Len(calls)
<1>1. /\ calls \in Seq(CallType) /\ m \in Nat /\ m >= 1 /\ m <= Len(chain) /\ answer = "running"
      /\ Len(chain) \in Nat
  BY TopFacts DEF Inv, CallsOK, TypeOK
<1>2. CASE m = 1
  <2>1. cs = <<>> /\ answer' \in {"yes", "no"}
    BY <1>2 DEF Return
  <2>2. CallsOK(<<>>, seen)
    BY <1>1 DEF CallsOK
  <2> QED  BY <2>1, <2>2
<1>3. CASE m # 1
  <2> DEFINE x == IF r THEN "yes" ELSE "no"
             k == m - 1
             g == [calls[k] EXCEPT !.linked = x]
  <2>1. cs = [Front(calls) EXCEPT ![k].linked = x] /\ answer' = "running"
    BY <1>1, <1>3 DEF Return
  <2>2. k \in DOMAIN calls /\ k \in Nat /\ k >= 1 /\ k < m
    <3>1. DOMAIN calls = 1..m
      BY <1>1
    <3>2. k \in 1..m /\ k \in Nat /\ k >= 1 /\ k < m
      <4> HIDE DEF m
      <4> QED  BY <1>1, <1>3
    <3> QED  BY <3>1, <3>2
  <2>3. /\ Front(calls) \in Seq(CallType) /\ Len(Front(calls)) = k /\ DOMAIN Front(calls) = 1..k
        /\ \A n \in 1..k : Front(calls)[n] = calls[n]
    BY <1>1, <2>2 DEF Front
  <2>4. cs = [Front(calls) EXCEPT ![k] = g]
    BY <2>1, <2>2, <2>3
  <2>5. calls[k] \in CallType /\ x \in {"unknown", "yes", "no"}
    BY <1>1, <2>2
  <2> HIDE DEF x
  <2>6. /\ g \in CallType /\ g.test = calls[k].test
        /\ CallOK(g, chain[k]) <=> CallOK(calls[k], chain[k])
        /\ SeenBy(g, chain[k], k, deepSeen) <=> SeenBy(calls[k], chain[k], k, deepSeen)
    BY <2>5, LinkedIsFree
  <2> HIDE DEF g, k, m
  <2>7. cs \in Seq(CallType) /\ Len(cs) = k /\ DOMAIN cs = 1..k /\ cs # <<>>
    BY <2>2, <2>3, <2>4, <2>6
  <2>8. ASSUME NEW n \in DOMAIN cs
        PROVE  cs[n].test = n /\ CallOK(cs[n], chain[n]) /\ SeenBy(cs[n], chain[n], n, seen)
    <3>1. n \in DOMAIN calls
      BY <1>1, <2>2, <2>7 DEF m
    <3>2. calls[n].test = n /\ CallOK(calls[n], chain[n]) /\ SeenBy(calls[n], chain[n], n, deepSeen)
      BY <3>1 DEF Inv, CallsOK
    <3>3. cs[n].test = n /\ CallOK(cs[n], chain[n]) /\ SeenBy(cs[n], chain[n], n, deepSeen)
      <4>1. CASE n = k
        BY <2>3, <2>4, <2>6, <2>7, <3>2, <4>1
      <4>2. CASE n # k
        <5>1. cs[n] = calls[n]
          BY <2>3, <2>4, <2>7, <4>2
        <5> QED  BY <3>2, <5>1
      <4> QED  BY <4>1, <4>2
    <3>4. SeenBy(cs[n], chain[n], n, seen)
      BY <3>3 DEF SeenBy
    <3> QED  BY <3>3, <3>4
  <2>9. Len(cs) <= Len(chain)
    BY <1>1, <2>2, <2>7
  <2> QED  BY <2>1, <2>7, <2>8, <2>9 DEF CallsOK
<1> QED  BY <1>2, <1>3

\* BARRIER, where it has one meaning, ends the scan at a cohort that has it, and is
\* not forgotten for what a test that does not scan says by default.
LEMMA SingleFacts ==
    ASSUME NEW t, TestType(t), NEW d, NEW o, NEW linked, NEW v, v = Single(t, d, o, linked)
    PROVE  /\ v.ret \in BOOLEAN /\ v.break \in BOOLEAN /\ v.barrier \in BOOLEAN
           /\ BarrierIsPlain(t) /\ ~ Clear(t, d) => v.break /\ v.barrier /\ ~ v.default
<1> DEFINE ret    == Holds(t, d, linked) /\ (IsOrigin(t, d, o) => t.not)
           broken == IsOrigin(t, d, o) \/ ~ Scans(t) \/ (t.scan = "*" /\ Matched(t, d))
           lifted == IsBarrier(t, d) /\ ~ broken /\ t.self /\ t.nb
<1>1. /\ v.ret = ret
      /\ v.break = (broken \/ ((IsBarrier(t, d) \/ (Matched(t, d) /\ ret)) /\ ~ lifted))
      /\ v.barrier = (IsBarrier(t, d) /\ ~ lifted)
      /\ v.default = (~ Scans(t) /\ ~ IsBarrier(t, d))
  BY Zenon DEF Single
<1>2. BarrierIsPlain(t) => ~ lifted /\ t.barrier # NoSet /\ t.not = FALSE
  BY DEF BarrierIsPlain, TestType
<1>3. BarrierIsPlain(t) /\ ~ Clear(t, d) => IsBarrier(t, d)
  <2> SUFFICES ASSUME BarrierIsPlain(t), ~ Clear(t, d)  PROVE IsBarrier(t, d)
    OBVIOUS
  <2>1. SomeHas(d, t.barrier) = TRUE
    BY DEF Clear, SomeHas
  <2> QED  BY <1>2, <2>1 DEF IsBarrier
<1> HIDE DEF ret, broken, lifted
<1>4. v.break <=> (broken \/ ((IsBarrier(t, d) \/ (Matched(t, d) /\ ret)) /\ ~ lifted))
  BY <1>1, Zenon
<1>5. v.barrier <=> (IsBarrier(t, d) /\ ~ lifted)
  BY <1>1, Zenon
<1>6. v.default <=> (~ Scans(t) /\ ~ IsBarrier(t, d))
  BY <1>1, Zenon
<1>7. v.ret \in BOOLEAN /\ v.break \in BOOLEAN /\ v.barrier \in BOOLEAN
  BY <1>1, Zenon DEF ret
<1> QED  BY <1>2, <1>3, <1>4, <1>5, <1>6, <1>7, Zenon

\* A call stands on a cohort from which an iterator may go on.
MayProceed(f, t) ==
    /\ ~ BothWays(t) /\ ~ Loops(t)
    /\ t.dep = "none" => /\ OnItsSide(t, f.from, f.at) /\ ClearUpTo(t, f.from, f.at)
                         /\ BarrierIsPlain(t) => Clear(t, f.at)
    /\ t.dep = "p" => \/ f.at = f.from /\ f.climbed = {}
                      \/ /\ \E k \in 1..Len(line) : WayUp(t, f.from, f.at, f.climbed, k)
                         /\ BarrierIsPlain(t) => Clear(t, f.at)
    /\ t.dep \in {"pp", "cc"} => f.todo \subseteq Iterated(line, RootCohort, t, f.from)
    /\ t.dep # "none" /\ SelfFirst(t) /\ BarrierIsPlain(t) => Clear(t, f.from)

\* The scan goes on to the next cohort of the iterator, or ends.
LEMMA ProceedKeeps ==
    ASSUME Inv, calls # <<>>, NEW f \in CallType, f.test = Top.test,
           f.from \in Visible(line), f.at \in Visible(line), Spanned(Test, f.from, f.at),
           MayProceed(f, Test),
           NEW tested, NEW ret, Proceed(f, tested, ret),
           NEW seen, deepSeen \subseteq seen, NEW cs, cs = calls'
    PROVE  /\ CallsOK(cs, seen)
           /\ answer' \in {"running", "yes", "no"} /\ (cs = <<>> <=> answer' # "running")
<1> DEFINE t == Test
<1>1. /\ GivenOK /\ TestType(t) /\ calls \in Seq(CallType) /\ answer = "running"
      /\ f.from \in Cohorts /\ f.at \in Cohorts
  BY TopFacts, LineFacts DEF Inv, TypeOK
<1>0. /\ ~ BothWays(t) /\ ~ Loops(t)
      /\ t.dep = "none" => /\ OnItsSide(t, f.from, f.at) /\ ClearUpTo(t, f.from, f.at)
                           /\ BarrierIsPlain(t) => Clear(t, f.at)
      /\ t.dep = "p" => \/ f.at = f.from /\ f.climbed = {}
                        \/ /\ \E k \in 1..Len(line) : WayUp(t, f.from, f.at, f.climbed, k)
                           /\ BarrierIsPlain(t) => Clear(t, f.at)
      /\ t.dep \in {"pp", "cc"} => f.todo \subseteq Iterated(line, RootCohort, t, f.from)
      /\ t.dep # "none" /\ SelfFirst(t) /\ BarrierIsPlain(t) => Clear(t, f.from)
  BY Zenon DEF MayProceed
<1>2. PICK next \in {Upcoming(f)} :
         IF next = NoCohort THEN EndLine(tested /\ ret, ~ tested)
         ELSE IF WrongSide(t, f.at, next) THEN EndLine(FALSE, TRUE)
         ELSE /\ Update([f EXCEPT !.way = "line", !.at = next, !.linked = "unknown",
                                  !.todo = @ \ {next},
                                  !.climbed = IF t.dep = "p" THEN @ \cup {f.at} ELSE @])
              /\ UNCHANGED answer
  BY DEF Proceed
<1>3. CASE next = NoCohort
  <2>1. \E r : Return(r)
    BY <1>2, <1>3 DEF EndLine
  <2> QED  BY <2>1, ReturnKeeps
<1>4. CASE next # NoCohort /\ WrongSide(t, f.at, next)
  <2>1. \E r : Return(r)
    BY <1>2, <1>4 DEF EndLine
  <2> QED  BY <2>1, ReturnKeeps
<1>5. CASE next # NoCohort /\ ~ WrongSide(t, f.at, next)
  <2> DEFINE h == [f EXCEPT !.way = "line", !.at = next, !.linked = "unknown",
                            !.todo = @ \ {next},
                            !.climbed = IF t.dep = "p" THEN @ \cup {f.at} ELSE @]
  <2>1. cs = [calls EXCEPT ![Len(calls)] = h] /\ answer' = "running"
    BY <1>1, <1>2, <1>5 DEF Update
  <2>2. h = [y \in DOMAIN f |-> h[y]]
    OBVIOUS
  <2>3. /\ h.test = f.test /\ h.win = f.win /\ h.pos = f.pos /\ h.from = f.from /\ h.origin = f.origin
        /\ h.way = "line" /\ h.at = next /\ h.i = f.i /\ h.side = f.side /\ h.left = f.left
        /\ h.lpos = f.lpos /\ h.right = f.right /\ h.rpos = f.rpos /\ h.linked = "unknown"
        /\ h.todo = f.todo \ {next} /\ h.climbed = (IF t.dep = "p" THEN f.climbed \cup {f.at} ELSE f.climbed)
        /\ h.kept = f.kept /\ h.levels = f.levels
    BY DEF CallType
  <2> HIDE DEF h
  <2>4. f.todo \subseteq Cohorts /\ f.climbed \subseteq Cohorts
    BY DEF CallType
  <2>5. /\ next \in Visible(line) /\ Spanned(t, f.from, next)
        /\ t.dep = "none" => OnItsSide(t, f.from, next) /\ ClearUpTo(t, f.from, next)
        /\ t.dep = "p" => \E k \in 1..Len(line) : WayUp(t, f.from, next, f.climbed \cup {f.at}, k)
    <3> DEFINE up == ParentIter(line, RootCohort, t, AlwaysSpan, f.climbed, f.at)
    <3>1. t.dep \in {"none", "p", "pp", "cc"}
      BY <1>0, <1>1 DEF TestType, Loops
    <3>2. CASE t.dep = "none"
      <4>1. next = Onwards(t, f.at)
        BY <1>2, <3>2 DEF Upcoming
      <4> HIDE DEF t
      <4> QED  BY <1>0, <1>1, <1>5, <3>2, <4>1, OnwardsFacts DEF t
    <3>3. CASE t.dep = "p"
      <4>1. next = IF up = {} THEN NoCohort ELSE CHOOSE p \in up : TRUE
        BY <1>2, <3>3 DEF Upcoming
      <4>2. next \in up
        <5> HIDE DEF up
        <5> QED  BY <1>5, <4>1
      <4>3. /\ next \in Visible(line) /\ Spanned(t, f.at, next)
            /\ \E k \in 1..Len(line) : WayUp(t, f.from, next, f.climbed \cup {f.at}, k)
        BY <1>0, <1>1, <2>4, <3>3, <4>2, UpGoesOn
      <4>4. Spanned(t, f.from, next)
        BY <1>1, <4>3, SpannedFacts, LineFacts
      <4> QED  BY <3>3, <4>3, <4>4
    <3>4. CASE t.dep \in {"pp", "cc"}
      <4>1. next = IF f.todo = {} THEN NoCohort ELSE Foremost(line, t, f.todo)
        BY <1>2, <3>4 DEF Upcoming
      <4>2. /\ Iterated(line, RootCohort, t, f.from) \subseteq Visible(line)
            /\ \A d \in Iterated(line, RootCohort, t, f.from) : Spanned(t, f.from, d)
        BY <1>1, <3>4, IteratedFacts
      <4>3. f.todo \subseteq Visible(line) /\ f.todo # {} /\ next = Foremost(line, t, f.todo)
        BY <1>0, <1>5, <3>4, <4>1, <4>2
      <4>4. next \in f.todo
        BY <1>1, <3>4, <4>3, ForemostIn
      <4> QED  BY <1>0, <3>4, <4>2, <4>4
    <3> QED  BY <3>1, <3>2, <3>3, <3>4
  <2>6. h \in CallType
    <3>1. next \in Cohorts
      BY <1>1, <2>5, LineFacts
    <3>2. h.todo \subseteq Cohorts /\ h.climbed \subseteq Cohorts
      BY <1>1, <2>3, <2>4
    <3> QED  BY <2>2, <2>3, <3>1, <3>2, IsCall, ZenonT(60)
  <2>7. OnLine(h, t)
    BY <1>0, <2>3, <2>5 DEF OnLine
  <2>8. CallOK(h, t) /\ SeenBy(h, t, Len(calls), seen)
    BY <1>0, <2>3, <2>5, <2>7 DEF CallOK, SeenBy
  <2>9. CallsOK(cs, seen) /\ cs # <<>>
    BY <2>1, <2>3, <2>6, <2>8, UpdateKeeps
  <2> QED  BY <2>1, <2>9
<1> QED  BY <1>3, <1>4, <1>5

\* The loops of c, s and r: go on at the innermost level that has something left, or
\* end.
LEMMA ClimbingKeeps ==
    ASSUME Inv, calls # <<>>, NEW f \in CallType, f.test = Top.test,
           f.from \in Visible(line), f.at \in Visible(line), Spanned(Test, f.from, f.at),
           Loops(Test), NEW levels \in Seq(LevelType), OnLevels(Test, f.from, levels),
           NEW seen, deepSeen \subseteq seen,
           Deep(Test) => \A m \in DOMAIN levels : <<Len(calls), levels[m].cur>> \in seen,
           Climbing(f, levels), NEW cs, cs = calls'
    PROVE  /\ CallsOK(cs, seen)
           /\ answer' \in {"running", "yes", "no"} /\ (cs = <<>> <=> answer' # "running")
<1> DEFINE t == Test
           left == {n \in DOMAIN levels : levels[n].self \/ levels[n].todo # {}}
<1>1. /\ GivenOK /\ TestType(t) /\ calls \in Seq(CallType) /\ answer = "running"
  BY TopFacts DEF Inv, TypeOK
<1>2. IF left = {} THEN EndTree(f.kept)
      ELSE /\ Update([f EXCEPT !.way = "tree", !.linked = "unknown",
                               !.levels = SubSeq(levels, 1, Max(left))])
           /\ UNCHANGED answer
  BY DEF Climbing
<1>3. CASE left = {}
  <2>1. \E r : Return(r)
    BY <1>2, <1>3 DEF EndTree
  <2> QED  BY <2>1, ReturnKeeps
<1>4. CASE left # {}
  <2> DEFINE k == Max(left)
             ls == SubSeq(levels, 1, k)
             h == [f EXCEPT !.way = "tree", !.linked = "unknown", !.levels = ls]
  <2>1. cs = [calls EXCEPT ![Len(calls)] = h] /\ answer' = "running"
    BY <1>1, <1>2, <1>4 DEF Update
  <2>2. h = [y \in DOMAIN f |-> h[y]]
    BY Zenon
  <2>3. /\ h.test = f.test /\ h.win = f.win /\ h.pos = f.pos /\ h.from = f.from /\ h.origin = f.origin
        /\ h.way = "tree" /\ h.at = f.at /\ h.i = f.i /\ h.side = f.side /\ h.left = f.left
        /\ h.lpos = f.lpos /\ h.right = f.right /\ h.rpos = f.rpos /\ h.linked = "unknown"
        /\ h.todo = f.todo /\ h.climbed = f.climbed /\ h.kept = f.kept /\ h.levels = ls
    BY DEF CallType
  <2>4. DOMAIN levels = 1..Len(levels) /\ Len(levels) \in Nat
    OBVIOUS
  <2>5. k \in left /\ \A n \in left : k >= n
    <3>1. left \subseteq 0..Len(levels)
      BY <2>4
    <3> HIDE DEF left
    <3> QED  BY <1>4, <2>4, <3>1, MinMaxIn
  <2>6. k \in 1..Len(levels) /\ k \in Nat /\ k >= 1 /\ k <= Len(levels)
    BY <2>4, <2>5
  <2> HIDE DEF h, k
  <2>7. ls \in Seq(LevelType) /\ Len(ls) = k /\ DOMAIN ls = 1..k /\ \A n \in 1..k : ls[n] = levels[n]
    BY <2>6, SMTT(60)
  <2> HIDE DEF ls
  <2>8. /\ ls # <<>> /\ Last(ls) = levels[k] /\ (levels[k].self \/ levels[k].todo # {})
    BY <2>5, <2>6, <2>7 DEF Last
  <2>9. \A n \in DOMAIN levels : levels[n].self => n = Len(levels) /\ n \in left
    BY DEF OnLevels
  <2>10. \A n \in 1..k : n \in DOMAIN levels /\ (n > 1 => n - 1 \in 1..k /\ 1..n - 1 \subseteq 1..k)
    BY <2>4, <2>6
  <2>11. OnLevels(t, f.from, ls)
    <3>1. ~ Deep(t) => Len(ls) <= 1
      <4>1. ~ Deep(t) => Len(levels) <= 1
        BY DEF OnLevels
      <4> QED  BY <2>4, <2>6, <2>7, <4>1
    <3>2. ASSUME NEW n \in DOMAIN ls
          PROVE  /\ ls[n].cur \in Visible(line) /\ ls[n].todo \subseteq Level(t, ls[n].cur).todo
                 /\ ls[n].self => Level(t, ls[n].cur).self /\ n = Len(ls)
                 /\ BarrierIsPlain(t) /\ ~ ls[n].self /\ t.self => Clear(t, ls[n].cur)
                 /\ n = 1 => ls[n].cur = f.from
                 /\ n > 1 =>
                       /\ ls[n].cur \in Level(t, ls[n - 1].cur).todo
                       /\ t.dep = "c*" /\ BarrierIsPlain(t) => Clear(t, ls[n].cur)
                       /\ \A m \in 1..n - 1 : ls[m].cur # ls[n].cur
      <4>1. n \in 1..k /\ n \in DOMAIN levels /\ ls[n] = levels[n]
        BY <2>7, <2>10
      <4>2. levels[n].self => n = Len(ls)
        BY <2>4, <2>5, <2>6, <2>7, <2>9, <4>1
      <4>3. /\ levels[n].cur \in Visible(line) /\ levels[n].todo \subseteq Level(t, levels[n].cur).todo
            /\ levels[n].self => Level(t, levels[n].cur).self
            /\ BarrierIsPlain(t) /\ ~ levels[n].self /\ t.self => Clear(t, levels[n].cur)
            /\ n = 1 => levels[n].cur = f.from
        BY <4>1 DEF OnLevels
      <4>4. n > 1 => /\ levels[n].cur \in Level(t, levels[n - 1].cur).todo
                     /\ t.dep = "c*" /\ BarrierIsPlain(t) => Clear(t, levels[n].cur)
                     /\ \A m \in 1..n - 1 : levels[m].cur # levels[n].cur
        BY <4>1 DEF OnLevels
      <4>5. n > 1 => ls[n - 1] = levels[n - 1] /\ \A m \in 1..n - 1 : ls[m] = levels[m]
        BY <2>7, <2>10, <4>1
      <4> QED  BY <4>1, <4>2, <4>3, <4>4, <4>5
    <3> HIDE DEF left, t
    <3> QED  BY <3>1, <3>2, Zenon DEF OnLevels
  <2>12. SeenBy(h, t, Len(calls), seen)
    BY <2>3, <2>7, <2>10 DEF SeenBy
  <2>13. h \in CallType
    BY <2>2, <2>3, <2>7, IsCall, ZenonT(60)
  <2>14. OnTree(h, t)
    BY <2>3, <2>8, <2>11 DEF OnTree
  <2>15. CallOK(h, t)
    <3>1. t.dep \notin {"pp", "cc"}
      BY DEF Loops
    <3> QED  BY <2>3, <2>14, <3>1 DEF CallOK
  <2>16. CallsOK(cs, seen) /\ cs # <<>>
    BY <2>1, <2>3, <2>12, <2>13, <2>15, UpdateKeeps
  <2> QED  BY <2>1, <2>16
<1> QED  BY <1>3, <1>4

\* A call begins.
LEMMA BeginKeeps ==
    ASSUME Inv, Begin
    PROVE  Inv'
<1> DEFINE t == Test
           b == IF t.mark = "x" THEN mark ELSE Top.from
           w == IF t.mark = "x" THEN Win(mark) ELSE Top.win
           p == IF t.mark = "x" THEN LocalNumber(mark) ELSE Top.pos
           s == Start(t, w, p)
           c == At(s.win, s.pos)
           f == [Top EXCEPT !.win = s.win, !.pos = p, !.at = c, !.from = At(w, p),
                            !.origin = IF t.origin = "o" THEN NoCohort ELSE @,
                            !.left = s.win, !.lpos = s.pos, !.right = s.win, !.rpos = s.pos]
           g == [f EXCEPT !.todo = Iterated(line, RootCohort, t, c)]
           levels == Descend(<<>>, c)
<1>1. /\ calls # <<>> /\ Top.way = "start"
      /\ \/ c = NoCohort /\ \E r : Return(r)
         \/ /\ c # NoCohort /\ BothWays(t)
            /\ Update(IF t.self THEN [f EXCEPT !.way = "self"] ELSE EnterBoth(f))
            /\ UNCHANGED answer
         \/ /\ c # NoCohort /\ t.dep = "none" /\ ~ BothWays(t)
            /\ Update([f EXCEPT !.way = IF t.self THEN "self" ELSE "line"])
            /\ UNCHANGED answer
         \/ /\ c # NoCohort /\ t.dep # "none" /\ ~ Loops(t)
            /\ IF SelfFirst(t) THEN Update([g EXCEPT !.way = "self"]) /\ UNCHANGED answer
               ELSE Proceed(g, FALSE, FALSE)
         \/ /\ c # NoCohort /\ Loops(t) /\ Climbing(f, levels)
      /\ deepSeen' = IF c = NoCohort THEN deepSeen ELSE SeenWith(c)
      /\ UNCHANGED <<given, mark>>
  BY ZenonT(60) DEF Begin
<1>2. /\ GivenOK /\ TestType(t) /\ Top \in CallType /\ CallOK(Top, t) /\ Top.test = Len(calls)
      /\ Len(calls) \in DOMAIN chain /\ calls \in Seq(CallType) /\ answer = "running"
      /\ mark \in Visible(line) /\ deepSeen \subseteq (DOMAIN chain) \X Cohorts
  <2>1. Top \in CallType => Top.test \in DOMAIN chain
    BY DEF CallType
  <2> QED  BY <1>1, <2>1, TopFacts DEF Inv, TypeOK
<1>3. /\ b \in Visible(line) /\ b \in Cohorts /\ w = Win(b) /\ p = LocalNo(line, b) /\ At(w, p) = b
      /\ Top.i = 0 /\ Top.climbed = {} /\ p \in Int
  <2>1. /\ Top.from \in Visible(line) /\ Top.win = Win(Top.from) /\ Top.pos = LocalNo(line, Top.from)
        /\ Top.i = 0 /\ Top.climbed = {}
    BY <1>1, <1>2 DEF CallOK
  <2>2. b \in Visible(line) /\ w = Win(b) /\ p = LocalNo(line, b)
    BY <1>2, <2>1 DEF LocalNumber
  <2> HIDE DEF b, w, p
  <2>3. b \in Cohorts /\ At(w, p) = b /\ LocalNo(line, b) \in Nat
    BY <1>2, <2>2, AtFacts, LineFacts, LocalNoCounts
  <2> QED  BY <2>1, <2>2, <2>3
<1>4. f = [y \in DOMAIN Top |-> f[y]] /\ g = [y \in DOMAIN f |-> g[y]]
  <2>1. f = [y \in DOMAIN Top |-> f[y]]
    <3> HIDE DEF t, w, p, s, c
    <3> QED  OBVIOUS
  <2>2. g = [y \in DOMAIN f |-> g[y]]
    <3> HIDE DEF t, w, p, s, c, f
    <3> QED  OBVIOUS
  <2> QED  BY <2>1, <2>2, Zenon
<1>5. /\ f.test = Top.test /\ f.win = s.win /\ f.pos = p /\ f.at = c /\ f.from = At(w, p)
      /\ f.origin \in {Top.origin, NoCohort}
      /\ f.left = s.win /\ f.lpos = s.pos /\ f.right = s.win /\ f.rpos = s.pos
      /\ f.i = Top.i /\ f.side = Top.side /\ f.linked = Top.linked /\ f.todo = Top.todo
      /\ f.climbed = Top.climbed /\ f.kept = Top.kept /\ f.levels = Top.levels /\ f.way = Top.way
  <2> HIDE DEF t, w, p, s, c
  <2> QED  BY <1>2 DEF CallType
<1>6. /\ g.test = f.test /\ g.win = f.win /\ g.pos = f.pos /\ g.at = f.at /\ g.from = f.from
      /\ g.origin = f.origin /\ g.left = f.left /\ g.lpos = f.lpos /\ g.right = f.right /\ g.rpos = f.rpos
      /\ g.i = f.i /\ g.side = f.side /\ g.linked = f.linked /\ g.climbed = f.climbed
      /\ g.kept = f.kept /\ g.levels = f.levels /\ g.way = f.way
      /\ g.todo = Iterated(line, RootCohort, t, c)
  <2> HIDE DEF t, w, p, s, c
  <2> QED  BY <1>2 DEF CallType
<1> HIDE DEF t, b, w, p, s, c, f, g, levels
<1>7. ASSUME NEW seen, seen = deepSeen', NEW cs, cs = calls', CallsOK(cs, seen), deepSeen \subseteq seen,
             answer' \in {"running", "yes", "no"}, cs = <<>> <=> answer' # "running",
             seen \subseteq (DOMAIN chain) \X Cohorts
      PROVE  Inv'
  <2>1. UNCHANGED given /\ mark' = mark
    BY <1>1
  <2> QED  BY <1>2, <1>7, <2>1, StepKeeps
<1>8. CASE c = NoCohort
  <2>1. deepSeen' = deepSeen /\ \E r : Return(r)
    BY <1>1, <1>8
  <2>2. PICK cs : cs = calls'
    OBVIOUS
  <2>3. CallsOK(cs, deepSeen) /\ answer' \in {"running", "yes", "no"} /\ (cs = <<>> <=> answer' # "running")
    BY <1>1, <2>1, <2>2, ReturnKeeps
  <2> QED  BY <1>2, <1>7, <2>1, <2>2, <2>3
<1>9. CASE c # NoCohort
  <2>1. /\ c \in Visible(line) /\ Spanned(t, b, c) /\ s.win = Win(c) /\ s.pos = LocalNo(line, c)
        /\ OnItsSide(t, b, c) /\ (~ BothWays(t) => ClearFrom(t, b, c))
        /\ t.off = 0 => c = Base(t, b)
        /\ t.dep # "none" => c = b
        /\ t.self /\ t.dep = "none" => s.win = Win(b)
    <3>1. s = Start(t, Win(b), LocalNo(line, b)) /\ c = At(s.win, s.pos)
      BY <1>3 DEF s, c
    <3>2. GivenOK /\ TestType(t) /\ b \in Visible(line)
      BY <1>2, <1>3
    <3> QED  BY <1>9, <3>1, <3>2, StartFacts, SMTT(60)
  <2>2. c \in Cohorts /\ Win(c) \in Nat \ {0} /\ LocalNo(line, c) \in Int
    <3>1. GivenOK /\ c \in Visible(line)
      BY <1>2, <2>1
    <3>2. c \in Cohorts /\ Win(c) \in Nat \ {0}
      BY <3>1, LineFacts
    <3>3. LocalNo(line, c) \in Nat
      BY <3>1, <3>2, LocalNoCounts
    <3> QED  BY <3>2, <3>3
  <2>3. f \in CallType
    <3>1. /\ f.win \in Nat \ {0} /\ f.pos \in Int /\ f.at \in Cohorts /\ f.from \in Cohorts
          /\ f.left \in Nat /\ f.right \in Nat /\ f.lpos \in Int /\ f.rpos \in Int
      BY <1>3, <1>5, <2>1, <2>2
    <3>2. /\ f.test = Top.test /\ f.origin \in {Top.origin, NoCohort} /\ f.way = Top.way /\ f.i = Top.i
          /\ f.side = Top.side /\ f.linked = Top.linked /\ f.todo = Top.todo
          /\ f.climbed = Top.climbed /\ f.kept = Top.kept /\ f.levels = Top.levels
      BY <1>5
    <3>3. Top \in CallType /\ f = [y \in DOMAIN Top |-> f[y]]
      BY <1>2, <1>4
    <3> QED  BY <3>1, <3>2, <3>3, IsCall, ZenonT(60)
  <2>4. PICK cs, seen : cs = calls' /\ seen = deepSeen'
    OBVIOUS
  <2>5. /\ seen = SeenWith(c) /\ deepSeen \subseteq seen /\ seen \subseteq (DOMAIN chain) \X Cohorts
        /\ Deep(t) => <<Len(calls), c>> \in seen
    <3>1. seen = SeenWith(c)
      BY <1>1, <1>9, <2>4
    <3>2. SeenWith(c) = IF Deep(t) THEN deepSeen \cup {<<Len(calls), c>>} ELSE deepSeen
      BY <1>2, Zenon DEF SeenWith, t
    <3>3. <<Len(calls), c>> \in (DOMAIN chain) \X Cohorts /\ deepSeen \subseteq (DOMAIN chain) \X Cohorts
      BY <1>2, <2>2, Zenon
    <3> QED  BY <3>1, <3>2, <3>3
  <2>6. /\ f.from = b /\ f.at = c /\ f.i = 0 /\ f.climbed = {} /\ f.test = Top.test
        /\ f.left = Win(c) /\ f.lpos = LocalNo(line, c) /\ f.right = Win(c) /\ f.rpos = LocalNo(line, c)
        /\ f.win = Win(c) /\ f.pos = LocalNo(line, b)
    BY <1>3, <1>5, <2>1
  <2>7. ASSUME NEW h \in CallType, h.test = Top.test, CallOK(h, t), h.way # "tree",
               calls' = [calls EXCEPT ![Len(calls)] = h], answer' = answer
        PROVE  Inv'
    <3>1. SeenBy(h, t, Len(calls), seen)
      BY <2>7 DEF SeenBy
    <3>2. CallsOK(cs, seen) /\ cs # <<>>
      BY <1>1, <2>4, <2>5, <2>7, <3>1, UpdateKeeps DEF t
    <3> QED  BY <1>2, <1>7, <2>4, <2>5, <2>7, <3>2
  <2>8. CASE BothWays(t) /\ t.self
    <3> DEFINE h == [f EXCEPT !.way = "self"]
    <3>1. calls' = [calls EXCEPT ![Len(calls)] = h] /\ answer' = answer
      BY <1>1, <1>9, <2>8 DEF Update, BothWays, Loops
    <3>2. h = [y \in DOMAIN f |-> h[y]]
      BY Zenon
    <3>3. /\ h.test = f.test /\ h.win = f.win /\ h.pos = f.pos /\ h.from = f.from /\ h.origin = f.origin
          /\ h.way = "self" /\ h.at = f.at /\ h.i = f.i /\ h.side = f.side /\ h.left = f.left
          /\ h.lpos = f.lpos /\ h.right = f.right /\ h.rpos = f.rpos /\ h.linked = f.linked
          /\ h.todo = f.todo /\ h.climbed = f.climbed /\ h.kept = f.kept /\ h.levels = f.levels
      BY <2>3 DEF CallType
    <3> HIDE DEF h
    <3>4. h \in CallType
      BY <2>3, <3>2, <3>3, IsCall, ZenonT(60)
    <3>5. OnSelf(h, t)
      BY <2>1, <2>6, <2>8, <3>3 DEF OnSelf, BothWays
    <3>6. CallOK(h, t)
      BY <1>3, <2>1, <2>6, <2>8, <3>3, <3>5 DEF CallOK, BothWays
    <3> QED  BY <2>6, <2>7, <3>1, <3>3, <3>4, <3>6
  <2>9. CASE BothWays(t) /\ ~ t.self
    <3>1. calls' = [calls EXCEPT ![Len(calls)] = EnterBoth(f)] /\ answer' = answer
      BY <1>1, <1>9, <2>9 DEF Update, BothWays, Loops
    <3>2. f.at = Base(t, f.from)
      BY <2>1, <2>6, <2>9 DEF BothWays
    <3>3. /\ EnterBoth(f) \in CallType /\ EnterBoth(f).way = "both"
          /\ EnterBoth(f).test = f.test /\ EnterBoth(f).from = f.from /\ EnterBoth(f).at = f.at
          /\ OnBoth(EnterBoth(f), t)
      BY <1>2, <1>3, <2>1, <2>3, <2>6, <2>9, <3>2, BothBegins
    <3>4. CallOK(EnterBoth(f), t)
      BY <1>3, <2>1, <2>6, <3>3 DEF CallOK
    <3> QED  BY <2>6, <2>7, <3>1, <3>3, <3>4
  <2>10. CASE t.dep = "none" /\ ~ BothWays(t)
    <3> DEFINE h == [f EXCEPT !.way = IF t.self THEN "self" ELSE "line"]
    <3>1. calls' = [calls EXCEPT ![Len(calls)] = h] /\ answer' = answer
      BY <1>1, <1>9, <2>10 DEF Update, Loops
    <3>2. h = [y \in DOMAIN f |-> h[y]]
      BY Zenon
    <3>3. /\ h.test = f.test /\ h.win = f.win /\ h.pos = f.pos /\ h.from = f.from /\ h.origin = f.origin
          /\ h.way = (IF t.self THEN "self" ELSE "line") /\ h.at = f.at /\ h.i = f.i /\ h.side = f.side
          /\ h.left = f.left
          /\ h.lpos = f.lpos /\ h.right = f.right /\ h.rpos = f.rpos /\ h.linked = f.linked
          /\ h.todo = f.todo /\ h.climbed = f.climbed /\ h.kept = f.kept /\ h.levels = f.levels
      BY <2>3 DEF CallType
    <3> HIDE DEF h
    <3>4. h \in CallType
      <4>1. h.way \in {"self", "line", "both", "tree"}
        BY <3>3
      <4> QED  BY <2>3, <3>2, <3>3, <4>1, IsCall, ZenonT(60)
    <3>5. t.self => OnSelf(h, t)
      <4> SUFFICES ASSUME t.self  PROVE OnSelf(h, t)
        OBVIOUS
      <4>1. At(h.win, h.pos) = h.from
        BY <1>3, <2>1, <2>6, <2>10, <3>3
      <4> QED  BY <2>1, <2>6, <2>10, <3>3, <4>1 DEF OnSelf
    <3>6. ~ t.self => OnLine(h, t)
      <4> SUFFICES ASSUME ~ t.self  PROVE OnLine(h, t)
        OBVIOUS
      <4>1. ClearUpTo(t, h.from, h.at)
        BY <2>1, <2>6, <2>10, <3>3 DEF ClearUpTo, ClearFrom
      <4> QED  BY <2>1, <2>6, <2>10, <3>3, <4>1 DEF OnLine, Loops
    <3>7. CallOK(h, t)
      BY <1>3, <2>1, <2>6, <2>10, <3>3, <3>5, <3>6 DEF CallOK
    <3>8. h.way # "tree"
      BY <3>3
    <3> QED  BY <2>6, <2>7, <3>1, <3>3, <3>4, <3>7, <3>8
  <2>11. CASE t.dep # "none" /\ ~ Loops(t)
    <3>1. t.dep \in {"p", "pp", "cc"} /\ ~ BothWays(t) /\ c = b
      BY <1>2, <2>1, <2>11 DEF TestType, Loops, BothWays
    <3>2. g.todo = Iterated(line, RootCohort, t, b) /\ g.todo \subseteq Cohorts
      <4>1. Iterated(line, RootCohort, t, b) \subseteq Visible(line)
        BY <1>2, <1>3, <3>1, IteratedFacts
      <4> QED  BY <1>2, <1>6, <3>1, <4>1, LineFacts
    <3>3. g \in CallType
      BY <1>4, <1>6, <2>3, <3>2, IsCall, ZenonT(60)
    <3>4. CASE SelfFirst(t)
      <4> DEFINE h == [g EXCEPT !.way = "self"]
      <4>1. calls' = [calls EXCEPT ![Len(calls)] = h] /\ answer' = answer
        BY <1>1, <1>9, <2>11, <3>4, <3>1 DEF Update
      <4>2. h = [y \in DOMAIN g |-> h[y]]
        BY Zenon
      <4>3. /\ h.test = g.test /\ h.win = g.win /\ h.pos = g.pos /\ h.from = g.from /\ h.origin = g.origin
            /\ h.way = "self" /\ h.at = g.at /\ h.i = g.i /\ h.side = g.side /\ h.left = g.left
            /\ h.lpos = g.lpos /\ h.right = g.right /\ h.rpos = g.rpos /\ h.linked = g.linked
            /\ h.todo = g.todo /\ h.climbed = g.climbed /\ h.kept = g.kept /\ h.levels = g.levels
        BY <3>3 DEF CallType
      <4> HIDE DEF h
      <4>4. h \in CallType
        BY <3>3, <4>2, <4>3, IsCall, ZenonT(60)
      <4>5. OnSelf(h, t)
        <5>1. t.self
          BY <3>4 DEF SelfFirst
        <5>2. At(h.win, h.pos) = h.from /\ h.at = h.from /\ h.climbed = {}
          BY <1>3, <1>6, <2>6, <3>1, <4>3
        <5> QED  BY <2>11, <3>1, <5>1, <5>2 DEF OnSelf
      <4>6. CallOK(h, t)
        BY <1>3, <1>6, <2>1, <2>6, <3>2, <4>3, <4>5 DEF CallOK
      <4> QED  BY <1>6, <2>6, <2>7, <4>1, <4>3, <4>4, <4>6
    <3>5. CASE ~ SelfFirst(t)
      <4>1. Proceed(g, FALSE, FALSE)
        BY <1>1, <1>9, <2>11, <3>1, <3>5
      <4>2. /\ g.from = b /\ g.at = b /\ g.climbed = {} /\ g.test = Top.test
            /\ g.todo \subseteq Iterated(line, RootCohort, t, b)
        BY <1>6, <2>6, <3>1, <3>2
      <4>3. Spanned(t, b, b)
        BY <1>2, <1>3, SpannedFacts
      <4>4. /\ CallsOK(cs, seen)
            /\ answer' \in {"running", "yes", "no"} /\ (cs = <<>> <=> answer' # "running")
        <5>1. /\ calls # <<>> /\ g.from \in Visible(line) /\ g.at \in Visible(line)
              /\ Spanned(t, g.from, g.at) /\ g.test = Top.test
          BY <1>1, <1>3, <3>1, <4>2, <4>3
        <5>3. MayProceed(g, t)
          BY <2>11, <3>1, <3>5, <4>2 DEF MayProceed
        <5>2. deepSeen \subseteq seen /\ cs = calls'
          BY <2>4, <2>5
        <5>4. PICK tested, ret : Proceed(g, tested, ret)
          BY <4>1, Zenon
        <5> QED  BY <3>3, <5>1, <5>2, <5>3, <5>4, ProceedKeeps, SMTT(60) DEF t
      <4> QED  BY <1>7, <2>4, <2>5, <4>4
    <3> QED  BY <3>4, <3>5
  <2>12. CASE Loops(t)
    <3>1. t.dep # "none" /\ ~ BothWays(t) /\ c = b
      BY <2>1, <2>12 DEF Loops, BothWays
    <3>2. Climbing(f, levels)
      BY <1>1, <1>9, <2>12, <3>1
    <3>3. levels = <<>> \/ levels = <<Level(t, c)>>
      BY DEF levels, Descend, t
    <3>4. Level(t, c) \in LevelType /\ Level(t, c).cur = c
      <4>1. Level(t, c).todo \subseteq Cohorts /\ Level(t, c).cur = c
        BY <1>2, <2>1, <2>12, LevelFacts, LineFacts
      <4>2. Level(t, c).self \in BOOLEAN
        <5>1. t.self \in BOOLEAN
          BY <1>2 DEF TestType
        <5> QED  BY <5>1 DEF Level
      <4>3. Level(t, c) = [cur |-> Level(t, c).cur, self |-> Level(t, c).self, todo |-> Level(t, c).todo]
        BY DEF Level
      <4> QED  BY <2>2, <4>1, <4>2, <4>3 DEF LevelType
    <3>5. levels \in Seq(LevelType) /\ \A m \in DOMAIN levels : m = 1 /\ levels[m].cur = c
      <4>1. CASE levels = <<>>
        BY <4>1
      <4>2. CASE levels = <<Level(t, c)>>
        <5> DEFINE l == Level(t, c)
        <5>1. l \in LevelType /\ l.cur = c /\ levels = <<l>>
          BY <3>4, <4>2
        <5> HIDE DEF l
        <5> QED  BY <5>1
      <4> QED  BY <3>3, <4>1, <4>2
    <3>6. OnLevels(t, b, levels)
      <4>1. CASE levels = <<>>
        BY <4>1 DEF OnLevels
      <4>2. CASE levels = <<Level(t, c)>>
        <5>1. /\ Len(levels) = 1 /\ DOMAIN levels = {1} /\ levels[1] = Level(t, c)
          BY <4>2
        <5>2. BarrierIsPlain(t) /\ t.self => Level(t, c).self
          BY <2>12 DEF BarrierIsPlain, Loops, Level
        <5> QED  BY <2>1, <3>1, <3>4, <5>1, <5>2 DEF OnLevels
      <4> QED  BY <3>3, <4>1, <4>2
    <3>7. Deep(t) => \A m \in DOMAIN levels : <<Len(calls), levels[m].cur>> \in seen
      BY <2>5, <3>5, Zenon
    <3>8. /\ CallsOK(cs, seen)
          /\ answer' \in {"running", "yes", "no"} /\ (cs = <<>> <=> answer' # "running")
      <4>1. /\ calls # <<>> /\ f.from \in Visible(line) /\ f.at \in Visible(line)
            /\ Spanned(t, f.from, f.at) /\ f.test = Top.test /\ OnLevels(t, f.from, levels)
        BY <1>1, <1>3, <2>1, <2>6, <3>6
      <4>2. deepSeen \subseteq seen /\ cs = calls'
        BY <2>4, <2>5
      <4> QED  BY <2>3, <2>12, <3>2, <3>5, <3>7, <4>1, <4>2, ClimbingKeeps, SMTT(60) DEF t
    <3> QED  BY <1>7, <2>4, <2>5, <3>8
  <2> QED  BY <1>1, <1>2, <2>8, <2>9, <2>10, <2>11, <2>12 DEF TestType
<1> QED  BY <1>8, <1>9

\* A call that has just been made is right.
LEMMA CallFacts ==
    ASSUME GivenOK, NEW k \in DOMAIN chain, NEW b \in Visible(line), NEW o \in Cohorts \cup {NoCohort},
           NEW f, f = Call(k, Win(b), LocalNumber(b), o)
    PROVE  /\ f \in CallType /\ f.test = k /\ CallOK(f, chain[k])
           /\ \A seen : SeenBy(f, chain[k], k, seen)
<1>1. /\ b \in Cohorts /\ Win(b) \in Nat \ {0} /\ LocalNo(line, b) \in Nat
      /\ At(Win(b), LocalNo(line, b)) = b
  BY LineFacts, LocalNoCounts, AtFacts
<1>2. f = [test |-> k, win |-> Win(b), pos |-> LocalNo(line, b), origin |-> o, way |-> "start",
           from |-> b, at |-> NoCohort, i |-> 0, side |-> "left", left |-> 0, lpos |-> 0,
           right |-> 0, rpos |-> 0, linked |-> "unknown", todo |-> {}, climbed |-> {},
           levels |-> <<>>, kept |-> FALSE]
  BY <1>1 DEF Call, LocalNumber
<1>3. /\ f.test = k /\ f.win = Win(b) /\ f.pos = LocalNo(line, b) /\ f.way = "start" /\ f.from = b
      /\ f.i = 0 /\ f.climbed = {}
  BY <1>2
<1>4. f \in CallType
  <2> DEFINE Q == Seq(LevelType)
  <2>1. <<>> \in Q
    OBVIOUS
  <2> HIDE DEF Q
  <2> QED  BY <1>1, <1>2, <2>1, SMTT(60) DEF CallType, Q
<1>5. CallOK(f, chain[k])
  BY <1>3 DEF CallOK
<1>6. \A seen : SeenBy(f, chain[k], k, seen)
  BY <1>3 DEF SeenBy
<1> QED  BY <1>3, <1>4, <1>5, <1>6

\* X sets the mark to a cohort that has been looked at.
LEMMA MarkedFacts ==
    ASSUME Inv, Running
    PROVE  Marked \in Visible(line)
<1>1. mark \in Visible(line)
  BY DEF Inv
<1> QED  BY <1>1, HereFacts DEF Marked

\* The test linked to one that has found a cohort begins there.
LEMMA CallLinkedKeeps ==
    ASSUME Inv, CallLinked
    PROVE  Inv'
<1> DEFINE m == Len(calls)
           o == IF chain[Top.test + 1].origin = "O" THEN Here ELSE Top.origin
           f == Call(Top.test + 1, Win(Here), LocalNumber(Here), o)
<1>1. /\ calls # <<>> /\ Running /\ Here # NoCohort /\ Top.test < Len(chain)
      /\ calls' = Append(calls, f) /\ mark' = Marked /\ deepSeen' = deepSeen /\ answer' = answer
      /\ UNCHANGED given
  BY DEF CallLinked, Running, NeedsLink, HasLink
<1>2. /\ GivenOK /\ calls \in Seq(CallType) /\ m \in Nat /\ Top.test = m /\ Len(chain) \in Nat
      /\ m >= 1 /\ answer = "running" /\ deepSeen \subseteq (DOMAIN chain) \X Cohorts
  BY <1>1, TopFacts DEF Inv, TypeOK
<1>3. Here \in Visible(line) /\ Here \in Cohorts /\ Marked \in Visible(line)
  BY <1>1, <1>2, HereFacts, MarkedFacts, LineFacts
<1>4. m + 1 \in DOMAIN chain /\ m + 1 <= Len(chain)
  <2>1. DOMAIN chain = 1..Len(chain)
    <3> DEFINE R == Range(chain)
    <3>1. chain \in Seq(R)
      BY <1>2 DEF GivenOK
    <3> HIDE DEF R
    <3> QED  BY <3>1
  <2> QED  BY <1>1, <1>2, <2>1
<1>5. o \in Cohorts \cup {NoCohort}
  <2>1. Top \in CallType
    BY <1>1, TopFacts
  <2>2. Top.origin \in Cohorts \cup {NoCohort}
    BY <2>1 DEF CallType
  <2> QED  BY <1>3, <2>2
<1> HIDE DEF o
<1>6. /\ f \in CallType /\ f.test = m + 1 /\ CallOK(f, chain[m + 1])
      /\ \A seen : SeenBy(f, chain[m + 1], m + 1, seen)
  <2>1. f = Call(m + 1, Win(Here), LocalNumber(Here), o)
    BY <1>2
  <2> HIDE DEF f, m
  <2> QED  BY <1>2, <1>3, <1>4, <1>5, <2>1, CallFacts
<1> HIDE DEF f
<1>7. PICK cs, seen : cs = calls' /\ seen = deepSeen'
  OBVIOUS
<1>8. /\ cs \in Seq(CallType) /\ Len(cs) = m + 1 /\ DOMAIN cs = 1..m + 1 /\ cs[m + 1] = f
      /\ \A n \in 1..m : cs[n] = calls[n] /\ n \in DOMAIN calls
  <2>1. cs = Append(calls, f)
    BY <1>1, <1>7
  <2> QED  BY <1>2, <1>6, <2>1
<1>9. CallsOK(cs, seen)
  <2>1. ASSUME NEW n \in DOMAIN cs
        PROVE  cs[n].test = n /\ CallOK(cs[n], chain[n]) /\ SeenBy(cs[n], chain[n], n, seen)
    <3>1. CASE n = m + 1
      BY <1>6, <1>8, <3>1
    <3>2. CASE n # m + 1
      <4>1. n \in 1..m
        BY <1>2, <1>8, <3>2
      <4>2. cs[n] = calls[n] /\ n \in DOMAIN calls
        BY <1>8, <4>1
      <4>3. calls[n].test = n /\ CallOK(calls[n], chain[n]) /\ SeenBy(calls[n], chain[n], n, deepSeen)
        BY <4>2 DEF Inv, CallsOK
      <4> QED  BY <1>1, <1>7, <4>2, <4>3
    <3> QED  BY <3>1, <3>2
  <2> QED  BY <1>4, <1>8, <2>1 DEF CallsOK
<1>10. cs # <<>>
  BY <1>2, <1>8
<1> QED  BY <1>1, <1>2, <1>3, <1>7, <1>9, <1>10, StepKeeps

\* A step that changes the innermost call, or returns from it.
LEMMA TestKeeps ==
    ASSUME Inv, Running, UNCHANGED given, mark' = Marked,
           NEW cs, cs = calls', NEW seen, seen = deepSeen', CallsOK(cs, seen),
           seen \subseteq (DOMAIN chain) \X Cohorts,
           answer' \in {"running", "yes", "no"}, cs = <<>> <=> answer' # "running"
    PROVE  Inv'
BY MarkedFacts, StepKeeps

\* Where the scan is not over the cohort that has just been tested has no barrier.
LEMMA VerdictFacts ==
    ASSUME Inv, Running, NEW v, v = Verdict
    PROVE  /\ v.ret \in BOOLEAN /\ v.break \in BOOLEAN /\ v.barrier \in BOOLEAN
           /\ BarrierIsPlain(Test) /\ ~ Clear(Test, Here) => v.break /\ v.barrier /\ ~ v.default
<1>1. TestType(Test)
  BY TopFacts DEF Running
<1>2. PICK linked : v = Single(Test, Here, Top.origin, linked)
  BY Zenon DEF Verdict
<1> QED  BY <1>1, <1>2, SingleFacts, SMTT(60)

\* The cohort that the test stands on has been tested.
LEMMA TestSelfKeeps ==
    ASSUME Inv, TestSelf
    PROVE  Inv'
<1> DEFINE t    == Test
           v    == Verdict
           over == v.break /\ (v.ret \/ ~ v.default)
           h    == [Fresh(Top) EXCEPT !.way = "line"]
<1>1. /\ calls # <<>> /\ Running /\ Here # NoCohort /\ Top.way = "self"
      /\ mark' = Marked /\ deepSeen' = deepSeen /\ UNCHANGED given
      /\ \/ \E r : Return(r)
         \/ /\ BothWays(t) /\ Update(EnterBoth(Fresh(Top))) /\ UNCHANGED answer
         \/ /\ ~ BothWays(t) /\ ~ over /\ t.dep = "none" /\ Update(h) /\ UNCHANGED answer
         \/ /\ ~ BothWays(t) /\ ~ over /\ t.dep # "none" /\ \E x, r : Proceed(Top, x, r)
  BY Zenon DEF TestSelf, Tested, Running
<1>2. /\ GivenOK /\ TestType(t) /\ Top \in CallType /\ CallOK(Top, t) /\ answer = "running"
      /\ deepSeen \subseteq (DOMAIN chain) \X Cohorts
  BY <1>1, TopFacts DEF Inv, TypeOK
<1>3. /\ Top.from \in Visible(line) /\ Top.at \in Visible(line) /\ Spanned(t, Top.from, Top.at)
      /\ OnSelf(Top, t)
      /\ t.dep \in {"pp", "cc"} => Top.todo \subseteq Iterated(line, RootCohort, t, Top.from)
  BY <1>1, <1>2 DEF CallOK
<1>4. ~ BothWays(t) /\ ~ over /\ BarrierIsPlain(t) => Clear(t, Top.from)
  <2> SUFFICES ASSUME ~ BothWays(t), BarrierIsPlain(t), ~ Clear(t, Top.from)  PROVE over
    OBVIOUS
  <2>1. Here = Top.from
    BY <1>1, <1>3 DEF Here, OnSelf
  <2>2. v.break /\ ~ v.default
    BY <1>1, <2>1, VerdictFacts
  <2> QED  BY <2>2
<1> HIDE DEF v, over
<1>5. PICK cs, seen : cs = calls' /\ seen = deepSeen'
  OBVIOUS
<1>6. /\ Fresh(Top) \in CallType /\ Fresh(Top).test = Top.test /\ Fresh(Top).way = Top.way
      /\ (CallOK(Fresh(Top), t) <=> CallOK(Top, t))
  BY <1>2, LinkedIsFree DEF Fresh
<1>7. ASSUME NEW g \in CallType, g.test = Top.test, CallOK(g, t), g.way # "tree",
             calls' = [calls EXCEPT ![Len(calls)] = g], answer' = answer
      PROVE  Inv'
  <2>1. SeenBy(g, t, Len(calls), seen)
    BY <1>7 DEF SeenBy
  <2>2. CallsOK(cs, seen) /\ cs # <<>>
    BY <1>1, <1>5, <1>7, <2>1, UpdateKeeps
  <2> HIDE DEF t
  <2> QED  BY <1>1, <1>2, <1>5, <1>7, <2>2, TestKeeps
<1>8. CASE \E r : Return(r)
  <2>1. CallsOK(cs, seen) /\ answer' \in {"running", "yes", "no"} /\ (cs = <<>> <=> answer' # "running")
    BY <1>1, <1>5, <1>8, ReturnKeeps
  <2> QED  BY <1>1, <1>2, <1>5, <2>1, TestKeeps
<1>9. CASE BothWays(t) /\ Update(EnterBoth(Fresh(Top))) /\ UNCHANGED answer
  <2> DEFINE f == Fresh(Top)
             g == EnterBoth(f)
  <2>1. calls' = [calls EXCEPT ![Len(calls)] = g] /\ answer' = answer
    BY <1>9 DEF Update
  <2>2. f \in CallType /\ f.test = Top.test /\ f.way = "self" /\ CallOK(f, t)
    BY <1>1, <1>2, <1>6
  <2> HIDE DEF f
  <2>3. /\ f.from \in Visible(line) /\ f.at \in Visible(line) /\ Spanned(t, f.from, f.at)
        /\ f.at = Base(t, f.from) /\ f.i = 0
        /\ f.left = Win(f.at) /\ f.lpos = LocalNo(line, f.at)
        /\ f.right = Win(f.at) /\ f.rpos = LocalNo(line, f.at)
    BY <1>9, <2>2 DEF CallOK, OnSelf
  <2>4. g \in CallType /\ g.way = "both" /\ g.test = f.test /\ g.from = f.from /\ g.at = f.at /\ OnBoth(g, t)
    BY <1>2, <1>9, <2>2, <2>3, BothBegins
  <2> HIDE DEF g
  <2>5. CallOK(g, t)
    <3>1. t.dep \notin {"pp", "cc"}
      BY <1>9 DEF BothWays
    <3> QED  BY <2>3, <2>4, <3>1 DEF CallOK
  <2> QED  BY <1>7, <2>1, <2>2, <2>4, <2>5
<1>10. CASE ~ BothWays(t) /\ ~ over /\ t.dep = "none" /\ Update(h) /\ UNCHANGED answer
  <2> DEFINE f == Fresh(Top)
  <2>1. calls' = [calls EXCEPT ![Len(calls)] = h] /\ answer' = answer
    BY <1>10 DEF Update
  <2>2. f \in CallType /\ f.test = Top.test /\ f.from = Top.from /\ f.at = Top.at
    BY <1>2, <1>6, LinkedIsFree DEF Fresh
  <2>3. h = [f EXCEPT !.way = "line"]
    OBVIOUS
  <2> HIDE DEF f, h
  <2>4. h = [y \in DOMAIN f |-> h[y]]
    BY <2>3
  <2>5. /\ h.test = f.test /\ h.win = f.win /\ h.pos = f.pos /\ h.from = f.from /\ h.origin = f.origin
        /\ h.way = "line" /\ h.at = f.at /\ h.i = f.i /\ h.side = f.side /\ h.left = f.left
        /\ h.lpos = f.lpos /\ h.right = f.right /\ h.rpos = f.rpos /\ h.linked = f.linked
        /\ h.todo = f.todo /\ h.climbed = f.climbed /\ h.kept = f.kept /\ h.levels = f.levels
    BY <2>2, <2>3 DEF CallType
  <2>6. h \in CallType
    BY <2>2, <2>4, <2>5, IsCall, ZenonT(60)
  <2>7. OnItsSide(t, h.from, h.at) /\ ClearUpTo(t, h.from, h.at)
    <3>1. OnItsSide(t, Top.from, Top.at) /\ ClearFrom(t, Top.from, Top.at)
      BY <1>3, <1>10 DEF OnSelf
    <3>2. BarrierIsPlain(t) => Clear(t, Top.from)
      BY <1>4, <1>10
    <3> QED  BY <2>2, <2>5, <3>1, <3>2 DEF ClearUpTo, ClearFrom
  <2>8. OnLine(h, t)
    BY <1>10, <2>7 DEF OnLine, Loops
  <2>9. CallOK(h, t)
    BY <1>3, <1>10, <2>2, <2>5, <2>8 DEF CallOK
  <2> QED  BY <1>7, <2>1, <2>2, <2>5, <2>6, <2>9
<1>11. CASE ~ BothWays(t) /\ ~ over /\ t.dep # "none" /\ \E x, r : Proceed(Top, x, r)
  <2>1. MayProceed(Top, t)
    BY <1>3, <1>4, <1>11 DEF MayProceed, OnSelf
  <2>2. PICK x, r : Proceed(Top, x, r)
    BY <1>11
  <2>3. CallsOK(cs, seen) /\ answer' \in {"running", "yes", "no"} /\ (cs = <<>> <=> answer' # "running")
    BY <1>1, <1>2, <1>3, <1>5, <2>1, <2>2, ProceedKeeps, SMTT(60)
  <2> QED  BY <1>1, <1>2, <1>5, <2>3, TestKeeps
<1> QED  BY <1>1, <1>8, <1>9, <1>10, <1>11

\* A cohort of an iterator has been tested.
LEMMA TestAlongKeeps ==
    ASSUME Inv, TestAlong
    PROVE  Inv'
<1> DEFINE t == Test
           v == Verdict
<1>1. /\ calls # <<>> /\ Running /\ Here # NoCohort /\ Top.way = "line"
      /\ mark' = Marked /\ deepSeen' = deepSeen /\ UNCHANGED given
      /\ (\E r : Return(r)) \/ (~ v.break /\ \E x, r : Proceed(Top, x, r))
  BY Zenon DEF TestAlong, Tested, Running, EndLine
<1>2. /\ GivenOK /\ TestType(t) /\ Top \in CallType /\ CallOK(Top, t) /\ answer = "running"
      /\ deepSeen \subseteq (DOMAIN chain) \X Cohorts
  BY <1>1, TopFacts DEF Inv, TypeOK
<1>3. /\ Top.from \in Visible(line) /\ Top.at \in Visible(line) /\ Spanned(t, Top.from, Top.at)
      /\ OnLine(Top, t)
      /\ t.dep \in {"pp", "cc"} => Top.todo \subseteq Iterated(line, RootCohort, t, Top.from)
  BY <1>1, <1>2 DEF CallOK
<1>4. ~ v.break /\ BarrierIsPlain(t) => Clear(t, Top.at)
  <2>1. Here = Top.at
    BY <1>1 DEF Here
  <2> QED  BY <1>1, <2>1, VerdictFacts
<1> HIDE DEF v
<1>5. PICK cs, seen : cs = calls' /\ seen = deepSeen'
  OBVIOUS
<1>6. CASE \E r : Return(r)
  <2>1. CallsOK(cs, seen) /\ answer' \in {"running", "yes", "no"} /\ (cs = <<>> <=> answer' # "running")
    BY <1>1, <1>5, <1>6, ReturnKeeps
  <2> QED  BY <1>1, <1>2, <1>5, <2>1, TestKeeps
<1>7. CASE ~ v.break /\ \E x, r : Proceed(Top, x, r)
  <2>1. MayProceed(Top, t)
    BY <1>3, <1>4, <1>7 DEF MayProceed, OnLine
  <2>2. PICK x, r : Proceed(Top, x, r)
    BY <1>7
  <2>3. CallsOK(cs, seen) /\ answer' \in {"running", "yes", "no"} /\ (cs = <<>> <=> answer' # "running")
    BY <1>1, <1>2, <1>3, <1>5, <2>1, <2>2, ProceedKeeps, SMTT(60)
  <2> QED  BY <1>1, <1>2, <1>5, <2>3, TestKeeps
<1> QED  BY <1>1, <1>6, <1>7

\* A cohort on one side, or none, has been tested.
LEMMA TestBothKeeps ==
    ASSUME Inv, TestBoth
    PROVE  Inv'
<1> DEFINE t == Test
           v == IF Here = NoCohort THEN [ret |-> FALSE, break |-> TRUE, default |-> FALSE] ELSE Verdict
           f == Fresh(Top)
           p == Passed(f, v.break)
           g == NextBoth(p)
<1>1. /\ calls # <<>> /\ Running /\ Top.way = "both"
      /\ mark' = Marked /\ deepSeen' = deepSeen /\ UNCHANGED given
      /\ \/ \E r : Return(r)
         \/ ~ (p.left = 0 /\ p.right = 0) /\ Update(g) /\ UNCHANGED answer
  BY Zenon DEF TestBoth, Running
<1>2. /\ GivenOK /\ TestType(t) /\ Top \in CallType /\ CallOK(Top, t) /\ answer = "running"
      /\ deepSeen \subseteq (DOMAIN chain) \X Cohorts
  BY <1>1, TopFacts DEF Inv, TypeOK
<1>3. /\ f \in CallType /\ f.test = Top.test /\ f.way = "both" /\ CallOK(f, t) /\ Place(f) = Place(Top)
  BY <1>1, <1>2, LinkedIsFree DEF Fresh
<1>4. v.break \in BOOLEAN
  <2>1. Verdict.break \in BOOLEAN
    BY <1>1, VerdictFacts
  <2> QED  BY <2>1
<1>5. ~ v.break /\ BarrierIsPlain(t) => Place(f) # NoCohort /\ Clear(t, Place(f))
  <2> SUFFICES ASSUME ~ v.break, BarrierIsPlain(t)  PROVE Place(f) # NoCohort /\ Clear(t, Place(f))
    OBVIOUS
  <2>1. Here = Place(f)
    BY <1>1, <1>3 DEF Here
  <2>2. Here # NoCohort
    OBVIOUS
  <2>3. ~ Verdict.break
    BY <2>2
  <2>4. Clear(t, Here)
    BY <1>1, <2>3, VerdictFacts
  <2> QED  BY <2>1, <2>2, <2>4
<1> HIDE DEF v, f
<1>6. PICK cs, seen : cs = calls' /\ seen = deepSeen'
  OBVIOUS
<1>7. CASE \E r : Return(r)
  <2>1. CallsOK(cs, seen) /\ answer' \in {"running", "yes", "no"} /\ (cs = <<>> <=> answer' # "running")
    BY <1>1, <1>6, <1>7, ReturnKeeps
  <2> QED  BY <1>1, <1>2, <1>6, <2>1, TestKeeps
<1>8. CASE ~ (p.left = 0 /\ p.right = 0) /\ Update(g) /\ UNCHANGED answer
  <2>1. calls' = [calls EXCEPT ![Len(calls)] = g] /\ answer' = answer
    BY <1>8 DEF Update
  <2>2. /\ f.from \in Visible(line) /\ f.at \in Visible(line) /\ Spanned(t, f.from, f.at) /\ OnBoth(f, t)
    BY <1>3 DEF CallOK
  <2>3. /\ g \in CallType /\ g.test = f.test /\ g.from = f.from /\ g.at = f.at /\ g.way = f.way /\ OnBoth(g, t)
    <3>1. PICK over \in BOOLEAN : over = v.break
      BY <1>4
    <3>2. PICK q : q = p
      OBVIOUS
    <3>3. PICK h : h = g
      OBVIOUS
    <3>4. /\ ~ over /\ BarrierIsPlain(t) => Place(f) # NoCohort /\ Clear(t, Place(f))
          /\ q = Passed(f, over) /\ ~ (q.left = 0 /\ q.right = 0) /\ h = NextBoth(q)
      BY <1>5, <1>8, <3>1, <3>2, <3>3
    <3> HIDE DEF p, g
    <3> QED  BY <1>2, <1>3, <2>2, <3>1, <3>3, <3>4, BothGoesOn, SMTT(60)
  <2> HIDE DEF g, p
  <2>4. CallOK(g, t) /\ SeenBy(g, t, Len(calls), seen)
    BY <1>3, <2>2, <2>3 DEF CallOK, SeenBy
  <2>5. CallsOK(cs, seen) /\ cs # <<>>
    BY <1>1, <1>3, <1>6, <2>1, <2>3, <2>4, UpdateKeeps, Zenon
  <2> QED  BY <1>1, <1>2, <1>6, <2>1, <2>5, TestKeeps
<1> QED  BY <1>1, <1>7, <1>8


\* The innermost loop has got on, to last, or has ended.
GotOn(t, c, levels, last, outer, rest) ==
    /\ outer \in Seq(LevelType) /\ rest \in Seq(LevelType)
    /\ Len(rest) = Len(levels) /\ rest # <<>> /\ rest[Len(rest)] = last
    /\ DOMAIN rest = DOMAIN levels /\ DOMAIN outer \subseteq DOMAIN levels
    /\ \A n \in DOMAIN levels : rest[n].cur = levels[n].cur /\ ~ rest[n].self
    /\ \A n \in DOMAIN outer : outer[n] = levels[n]
    /\ (BarrierIsPlain(t) /\ t.self => Clear(t, last.cur)) => OnLevels(t, c, rest)
    /\ OnLevels(t, c, outer)

\* There is a loop for d within the innermost one.
WentDown(t, c, levels, d, next) ==
    /\ next \in Seq(LevelType) /\ OnLevels(t, c, next) /\ Len(next) = Len(levels) + 1
    /\ \A n \in DOMAIN levels : next[n] = levels[n]
    /\ next[Len(levels) + 1].cur = d

\* The loops of c, s and r: remain where they may be when the innermost one gets on,
\* or ends.
LEMMA LevelsGetOn ==
    ASSUME NEW t, NEW c, NEW levels \in Seq(LevelType), levels # <<>>, OnLevels(t, c, levels),
           NEW last \in LevelType, last.cur = levels[Len(levels)].cur,
           last.todo \subseteq levels[Len(levels)].todo, ~ last.self,
           NEW outer, outer = Front(levels), NEW rest, rest = Append(outer, last)
    PROVE  GotOn(t, c, levels, last, outer, rest)
<1> DEFINE m == Len(levels)
<1>1. m \in Nat /\ m >= 1 /\ DOMAIN levels = 1..m /\ m - 1 \in Nat
  OBVIOUS
<1>2. /\ outer \in Seq(LevelType) /\ Len(outer) = m - 1 /\ DOMAIN outer = 1..m - 1
      /\ \A n \in 1..m - 1 : outer[n] = levels[n] /\ n \in 1..m /\ n # m
  <2>1. outer = SubSeq(levels, 1, m - 1)
    BY DEF Front
  <2> HIDE DEF m
  <2>2. \A n \in 1..m - 1 : n \in 1..m /\ n # m
    BY <1>1
  <2>3. Len(levels) = m
    BY DEF m
  <2> QED  BY <1>1, <2>1, <2>2, <2>3, SMTT(60)
<1> HIDE DEF m
<1>3. /\ rest \in Seq(LevelType) /\ Len(rest) = m /\ rest # <<>> /\ DOMAIN rest = 1..m
      /\ rest[m] = last /\ \A n \in 1..m - 1 : rest[n] = levels[n]
  BY <1>1, <1>2
<1>4. last.cur = levels[m].cur /\ last.todo \subseteq levels[m].todo
  BY DEF m
<1>5. \A n \in 1..m : n = m \/ n \in 1..m - 1
  BY <1>1
<1>6. ASSUME NEW n \in DOMAIN levels
      PROVE  /\ levels[n].cur \in Visible(line) /\ levels[n].todo \subseteq Level(t, levels[n].cur).todo
             /\ levels[n].self => n = m
             /\ BarrierIsPlain(t) /\ ~ levels[n].self /\ t.self => Clear(t, levels[n].cur)
             /\ n = 1 => levels[n].cur = c
             /\ n > 1 =>
                   /\ levels[n].cur \in Level(t, levels[n - 1].cur).todo
                   /\ t.dep = "c*" /\ BarrierIsPlain(t) => Clear(t, levels[n].cur)
                   /\ \A k \in 1..n - 1 : levels[k].cur # levels[n].cur
  BY <1>6 DEF OnLevels, m
<1>7. ~ Deep(t) => m <= 1
  BY DEF OnLevels, m
<1>8. \A n \in 1..m : rest[n].cur = levels[n].cur /\ ~ rest[n].self
  <2> TAKE n \in 1..m
  <2>1. CASE n = m
    BY <1>3, <1>4, <2>1
  <2>2. CASE n # m
    BY <1>1, <1>3, <1>5, <1>6, <2>2
  <2> QED  BY <2>1, <2>2
<1>9. \A n \in 1..m : n > 1 => n - 1 \in 1..m /\ 1..n - 1 \subseteq 1..m /\ (n - 1) \in 1..m - 1
  BY <1>1
<1>10. ASSUME BarrierIsPlain(t) /\ t.self => Clear(t, last.cur)
       PROVE  OnLevels(t, c, rest)
  <2>1. ASSUME NEW n \in DOMAIN rest
        PROVE  /\ rest[n].cur \in Visible(line) /\ rest[n].todo \subseteq Level(t, rest[n].cur).todo
               /\ rest[n].self => Level(t, rest[n].cur).self /\ n = Len(rest)
               /\ BarrierIsPlain(t) /\ ~ rest[n].self /\ t.self => Clear(t, rest[n].cur)
               /\ n = 1 => rest[n].cur = c
               /\ n > 1 =>
                     /\ rest[n].cur \in Level(t, rest[n - 1].cur).todo
                     /\ t.dep = "c*" /\ BarrierIsPlain(t) => Clear(t, rest[n].cur)
                     /\ \A k \in 1..n - 1 : rest[k].cur # rest[n].cur
    <3>1. n \in 1..m /\ n \in DOMAIN levels /\ rest[n].cur = levels[n].cur /\ ~ rest[n].self
      BY <1>1, <1>3, <1>8, <2>1
    <3>2. rest[n].todo \subseteq levels[n].todo
      BY <1>3, <1>4, <1>5, <3>1
    <3>3. BarrierIsPlain(t) /\ t.self => Clear(t, levels[n].cur)
      BY <1>3, <1>4, <1>5, <1>6, <1>10, <3>1
    <3>4. n > 1 => /\ rest[n - 1].cur = levels[n - 1].cur
                   /\ \A k \in 1..n - 1 : rest[k].cur = levels[k].cur
      BY <1>8, <1>9, <3>1
    <3> QED  BY <1>6, <3>1, <3>2, <3>3, <3>4
  <2>2. ~ Deep(t) => Len(rest) <= 1
    BY <1>3, <1>7
  <2> QED  BY <2>1, <2>2, Zenon DEF OnLevels
<1>11. OnLevels(t, c, outer)
  <2>1. ASSUME NEW n \in DOMAIN outer
        PROVE  /\ outer[n].cur \in Visible(line) /\ outer[n].todo \subseteq Level(t, outer[n].cur).todo
               /\ outer[n].self => Level(t, outer[n].cur).self /\ n = Len(outer)
               /\ BarrierIsPlain(t) /\ ~ outer[n].self /\ t.self => Clear(t, outer[n].cur)
               /\ n = 1 => outer[n].cur = c
               /\ n > 1 =>
                     /\ outer[n].cur \in Level(t, outer[n - 1].cur).todo
                     /\ t.dep = "c*" /\ BarrierIsPlain(t) => Clear(t, outer[n].cur)
                     /\ \A k \in 1..n - 1 : outer[k].cur # outer[n].cur
    <3>1. n \in 1..m - 1 /\ n \in DOMAIN levels /\ outer[n] = levels[n] /\ n # m
      BY <1>1, <1>2, <2>1
    <3>2. n > 1 => /\ outer[n - 1] = levels[n - 1]
                   /\ \A k \in 1..n - 1 : outer[k] = levels[k]
      <4>1. n > 1 => n - 1 \in 1..m - 1 /\ 1..n - 1 \subseteq 1..m - 1
        BY <1>1, <3>1
      <4> QED  BY <1>2, <4>1
    <3> QED  BY <1>6, <3>1, <3>2
  <2>2. ~ Deep(t) => Len(outer) <= 1
    BY <1>1, <1>2, <1>7
  <2> QED  BY <2>1, <2>2, Zenon DEF OnLevels
<1> QED  BY <1>1, <1>2, <1>3, <1>8, <1>10, <1>11 DEF m, GotOn

\* A loop of c* or s* may go on from a cohort it has not been at.
LEMMA LevelsGoDown ==
    ASSUME GivenOK, NEW t, TestType(t), Deep(t), NEW c,
           NEW levels \in Seq(LevelType), levels # <<>>, OnLevels(t, c, levels),
           \A n \in DOMAIN levels : ~ levels[n].self,
           NEW d \in Visible(line), d \in Level(t, levels[Len(levels)].cur).todo,
           t.dep = "c*" /\ BarrierIsPlain(t) => Clear(t, d),
           \A n \in DOMAIN levels : levels[n].cur # d,
           NEW next, next = Append(levels, Level(t, d))
    PROVE  WentDown(t, c, levels, d, next)
<1> DEFINE m == Len(levels)
           last == Level(t, d)
<1>1. m \in Nat /\ m >= 1 /\ DOMAIN levels = 1..m
  OBVIOUS
<1>2. Loops(t) /\ t.dep \in {"c*", "s*"}
  BY DEF Deep, Loops
<1>3. /\ last.cur = d /\ last.todo \subseteq Cohorts /\ last.self \in BOOLEAN
      /\ last = [cur |-> last.cur, self |-> last.self, todo |-> last.todo] /\ d \in Cohorts
  <2>1. last.cur = d /\ last.todo \subseteq Cohorts /\ d \in Cohorts
    BY <1>2, LevelFacts, LineFacts
  <2>2. last.self \in BOOLEAN
    <3>1. t.self \in BOOLEAN
      BY DEF TestType
    <3> QED  BY <3>1 DEF Level
  <2>3. last = [cur |-> last.cur, self |-> last.self, todo |-> last.todo]
    BY DEF Level
  <2> QED  BY <2>1, <2>2, <2>3
<1>4. BarrierIsPlain(t) /\ t.self => last.self
  BY <1>2 DEF BarrierIsPlain, Level
<1>5. last = Level(t, last.cur)
  BY <1>3
<1>6. d \in Level(t, levels[m].cur).todo /\ next = Append(levels, last)
  OBVIOUS
<1> HIDE DEF m, last
<1>7. last \in LevelType
  BY <1>3 DEF LevelType
<1>8. /\ next \in Seq(LevelType) /\ Len(next) = m + 1 /\ DOMAIN next = 1..m + 1
      /\ next[m + 1] = last /\ \A n \in 1..m : next[n] = levels[n]
  <2>1. m = Len(levels)
    BY DEF m
  <2> QED  BY <1>1, <1>6, <1>7, <2>1
<1>9. \A n \in 1..m + 1 : n = m + 1 \/ n \in 1..m
  BY <1>1
<1>10. ASSUME NEW n \in DOMAIN next
       PROVE  /\ next[n].cur \in Visible(line) /\ next[n].todo \subseteq Level(t, next[n].cur).todo
              /\ next[n].self => Level(t, next[n].cur).self /\ n = Len(next)
              /\ BarrierIsPlain(t) /\ ~ next[n].self /\ t.self => Clear(t, next[n].cur)
              /\ n = 1 => next[n].cur = c
              /\ n > 1 =>
                    /\ next[n].cur \in Level(t, next[n - 1].cur).todo
                    /\ t.dep = "c*" /\ BarrierIsPlain(t) => Clear(t, next[n].cur)
                    /\ \A k \in 1..n - 1 : next[k].cur # next[n].cur
  <2>1. CASE n = m + 1
    <3>1. next[n] = last /\ n - 1 = m /\ next[n - 1] = levels[m] /\ n # 1 /\ n = Len(next)
      BY <1>1, <1>8, <2>1
    <3>2. \A k \in 1..n - 1 : next[k] = levels[k] /\ k \in DOMAIN levels
      BY <1>1, <1>8, <3>1
    <3>3. last.self => Level(t, last.cur).self
      BY <1>5
    <3>4. last.todo \subseteq Level(t, last.cur).todo
      BY <1>5
    <3> QED  BY <1>3, <1>4, <1>6, <3>1, <3>2, <3>3, <3>4
  <2>2. CASE n # m + 1
    <3>1. n \in 1..m /\ n \in DOMAIN levels /\ next[n] = levels[n] /\ ~ levels[n].self
      BY <1>1, <1>8, <1>9, <1>10, <2>2
    <3>2. n > 1 => /\ next[n - 1] = levels[n - 1]
                   /\ \A k \in 1..n - 1 : next[k] = levels[k]
      <4>1. n > 1 => n - 1 \in 1..m /\ 1..n - 1 \subseteq 1..m
        BY <1>1, <3>1
      <4> QED  BY <1>8, <4>1
    <3>3. /\ levels[n].cur \in Visible(line) /\ levels[n].todo \subseteq Level(t, levels[n].cur).todo
          /\ BarrierIsPlain(t) /\ ~ levels[n].self /\ t.self => Clear(t, levels[n].cur)
          /\ n = 1 => levels[n].cur = c
          /\ n > 1 =>
                /\ levels[n].cur \in Level(t, levels[n - 1].cur).todo
                /\ t.dep = "c*" /\ BarrierIsPlain(t) => Clear(t, levels[n].cur)
                /\ \A k \in 1..n - 1 : levels[k].cur # levels[n].cur
      BY <3>1 DEF OnLevels
    <3> QED  BY <3>1, <3>2, <3>3
  <2> QED  BY <2>1, <2>2
<1>11. OnLevels(t, c, next)
  BY <1>10, Zenon DEF OnLevels
<1> QED  BY <1>1, <1>3, <1>8, <1>11 DEF m, WentDown


\* A cohort of the loops of c, s and r: has been tested, or has been passed over.
LEMMA TestTreeKeeps ==
    ASSUME Inv, TestTree
    PROVE  Inv'
<1> DEFINE t     == Test
           ls    == Top.levels
           v     == IF IsFar THEN [ret |-> FALSE, break |-> FALSE, barrier |-> FALSE, default |-> FALSE]
                    ELSE Verdict
           all   == t.quant = "ALL" /\ ~ Inner.self
           outer == Front(ls)
           last  == IF Inner.self THEN [Inner EXCEPT !.self = FALSE]
                    ELSE [Inner EXCEPT !.todo = @ \ {Here}]
           rest  == Append(outer, last)
           down  == Deep(t) /\ ~ Inner.self /\ ~ v.ret /\ ~ all /\ ~ v.barrier
           next  == IF Inner.self /\ v.barrier THEN outer
                    ELSE IF down THEN Descend(rest, Here) ELSE rest
           g     == [Top EXCEPT !.kept = TRUE]
<1>1. /\ calls # <<>> /\ Running /\ Here # NoCohort /\ Top.way = "tree"
      /\ mark' = Marked /\ UNCHANGED given
      /\ deepSeen' = IF down THEN SeenWith(Here) ELSE deepSeen
      /\ \/ \E r : Return(r)
         \/ all /\ Climbing(g, rest)
         \/ Climbing(Top, next)
  BY Zenon DEF TestTree, Tested, Running, EndTree
<1>2. /\ GivenOK /\ TestType(t) /\ Top \in CallType /\ CallOK(Top, t) /\ answer = "running"
      /\ deepSeen \subseteq (DOMAIN chain) \X Cohorts /\ Top.test \in DOMAIN chain
      /\ Top.test = Len(calls) /\ SeenBy(Top, t, Len(calls), deepSeen)
  <2>1. Top \in CallType
    BY <1>1, TopFacts
  <2> QED  BY <1>1, <2>1, TopFacts DEF Inv, TypeOK, CallType
<1>3. /\ Top.from \in Visible(line) /\ Top.at \in Visible(line) /\ Spanned(t, Top.from, Top.at)
      /\ Loops(t) /\ ls # <<>> /\ OnLevels(t, Top.from, ls)
  BY <1>1, <1>2 DEF CallOK, OnTree
<1>4. /\ Inner \in LevelType /\ Inner = ls[Len(ls)] /\ ls \in Seq(LevelType)
      /\ Inner.self => Here = Inner.cur
      /\ ~ Inner.self => Here \in Inner.todo
      /\ Here \in Visible(line) /\ Here \in Cohorts
  <2>1. /\ Inner \in LevelType /\ Inner = ls[Len(ls)] /\ ls \in Seq(LevelType)
        /\ Inner.self => Here = Inner.cur
        /\ ~ Inner.self => Here \in Inner.todo
        /\ Here \in Visible(line)
    BY <1>1, HereFacts
  <2>2. Here \in Cohorts
    BY <1>2, <2>1, LineFacts
  <2> QED  BY <2>1, <2>2
<1>5. /\ v.barrier \in BOOLEAN
      /\ BarrierIsPlain(t) /\ ~ IsFar /\ ~ v.barrier => Clear(t, Here)
  <2>1. Verdict.barrier \in BOOLEAN /\ (BarrierIsPlain(t) /\ ~ Clear(t, Here) => Verdict.barrier)
    BY <1>1, VerdictFacts
  <2> QED  BY <2>1, Zenon
<1>6. Inner.self => ~ IsFar
  BY DEF IsFar
<1>7. PICK cs, seen : cs = calls' /\ seen = deepSeen'
  OBVIOUS
<1>8. /\ deepSeen \subseteq seen /\ seen \subseteq (DOMAIN chain) \X Cohorts
      /\ down => <<Len(calls), Here>> \in seen
  BY <1>1, <1>2, <1>4, <1>7 DEF SeenWith
<1> HIDE DEF v
<1>9. /\ last \in LevelType /\ last.cur = Inner.cur /\ last.todo \subseteq Inner.todo /\ ~ last.self
  <2>1. CASE Inner.self
    BY <1>4, <2>1 DEF LevelType
  <2>2. CASE ~ Inner.self
    BY <1>4, <2>2 DEF LevelType
  <2> QED  BY <2>1, <2>2
<1>10. BarrierIsPlain(t) /\ t.self /\ ~ (Inner.self /\ v.barrier) => Clear(t, last.cur)
  <2> SUFFICES ASSUME BarrierIsPlain(t), t.self, ~ (Inner.self /\ v.barrier)  PROVE Clear(t, last.cur)
    OBVIOUS
  <2>1. CASE Inner.self
    BY <1>4, <1>5, <1>6, <1>9, <2>1
  <2>2. CASE ~ Inner.self
    <3>1. Len(ls) \in DOMAIN ls
      BY <1>3, <1>4
    <3> QED  BY <1>3, <1>4, <1>9, <2>2, <3>1 DEF OnLevels
  <2> QED  BY <2>1, <2>2
<1> HIDE DEF last, rest, outer, down, g
<1>11. /\ outer \in Seq(LevelType) /\ rest \in Seq(LevelType)
       /\ Len(rest) = Len(ls) /\ rest # <<>> /\ rest[Len(rest)] = last
       /\ DOMAIN rest = DOMAIN ls /\ DOMAIN outer \subseteq DOMAIN ls
       /\ \A n \in DOMAIN ls : rest[n].cur = ls[n].cur /\ ~ rest[n].self
       /\ \A n \in DOMAIN outer : outer[n] = ls[n]
       /\ (BarrierIsPlain(t) /\ t.self => Clear(t, last.cur)) => OnLevels(t, Top.from, rest)
       /\ OnLevels(t, Top.from, outer)
  <2>1. outer = Front(ls) /\ rest = Append(outer, last)
    BY DEF outer, rest
  <2>2. last.cur = ls[Len(ls)].cur /\ last.todo \subseteq ls[Len(ls)].todo
    BY <1>4, <1>9
  <2>3. ls \in Seq(LevelType) /\ ls # <<>> /\ OnLevels(t, Top.from, ls) /\ last \in LevelType /\ ~ last.self
    BY <1>3, <1>4, <1>9
  <2> HIDE DEF t, ls
  <2>4. GotOn(t, Top.from, ls, last, outer, rest)
    BY <2>1, <2>2, <2>3, LevelsGetOn, Zenon
  <2> QED  BY <2>4 DEF GotOn
<1>12. Deep(t) => \A n \in DOMAIN ls : <<Len(calls), ls[n].cur>> \in deepSeen
  BY <1>1, <1>2 DEF SeenBy
<1>13. Deep(t) => /\ \A n \in DOMAIN rest : <<Len(calls), rest[n].cur>> \in seen
                  /\ \A n \in DOMAIN outer : <<Len(calls), outer[n].cur>> \in seen
  BY <1>8, <1>11, <1>12
<1>14. ASSUME NEW h \in CallType, h.test = Top.test, h.from = Top.from, h.at = Top.at,
              NEW levels \in Seq(LevelType), OnLevels(t, Top.from, levels),
              Deep(t) => \A n \in DOMAIN levels : <<Len(calls), levels[n].cur>> \in seen,
              Climbing(h, levels)
       PROVE  Inv'
  <2>1. h.from \in Visible(line) /\ h.at \in Visible(line) /\ Spanned(t, h.from, h.at) /\ OnLevels(t, h.from, levels)
    BY <1>3, <1>14
  <2>2. CallsOK(cs, seen) /\ answer' \in {"running", "yes", "no"} /\ (cs = <<>> <=> answer' # "running")
    BY <1>1, <1>3, <1>7, <1>8, <1>14, <2>1, ClimbingKeeps, SMTT(60)
  <2> QED  BY <1>1, <1>7, <1>8, <2>2, TestKeeps
<1>15. CASE \E r : Return(r)
  <2>1. CallsOK(cs, seen) /\ answer' \in {"running", "yes", "no"} /\ (cs = <<>> <=> answer' # "running")
    BY <1>1, <1>7, <1>8, <1>15, ReturnKeeps
  <2> QED  BY <1>1, <1>7, <1>8, <2>1, TestKeeps
<1>16. CASE all /\ Climbing(g, rest)
  <2>1. g = [y \in DOMAIN Top |-> g[y]]
    BY Zenon DEF g
  <2>2. /\ g.test = Top.test /\ g.win = Top.win /\ g.pos = Top.pos /\ g.from = Top.from
        /\ g.origin = Top.origin /\ g.way = Top.way /\ g.at = Top.at /\ g.i = Top.i
        /\ g.side = Top.side /\ g.left = Top.left /\ g.lpos = Top.lpos /\ g.right = Top.right
        /\ g.rpos = Top.rpos /\ g.linked = Top.linked /\ g.todo = Top.todo
        /\ g.climbed = Top.climbed /\ g.kept \in BOOLEAN /\ g.levels = Top.levels
    BY <1>2 DEF CallType, g
  <2>3. g \in CallType
    BY <1>2, <2>1, <2>2, IsCall, ZenonT(60)
  <2>4. OnLevels(t, Top.from, rest)
    BY <1>10, <1>11, <1>16
  <2> QED  BY <1>11, <1>13, <1>14, <1>16, <2>2, <2>3, <2>4
<1>17. CASE Climbing(Top, next)
  <2>1. CASE Inner.self /\ v.barrier
    <3>1. next = outer
      BY <2>1
    <3> QED  BY <1>2, <1>11, <1>13, <1>14, <1>17, <3>1
  <2>2. CASE ~ (Inner.self /\ v.barrier) /\ (~ down \/ <<Top.test, Here>> \in deepSeen)
    <3>1. next = rest
      <4>1. down => Deep(t)
        BY DEF down
      <4> QED  BY <2>2, <4>1 DEF Descend
    <3>2. OnLevels(t, Top.from, rest)
      BY <1>10, <1>11, <2>2
    <3> HIDE DEF next
    <3> QED  BY <1>2, <1>11, <1>13, <1>14, <1>17, <3>1, <3>2
  <2>3. CASE ~ (Inner.self /\ v.barrier) /\ down /\ <<Top.test, Here>> \notin deepSeen
    <3>1. Deep(t) /\ ~ Inner.self /\ ~ v.barrier
      BY <2>3 DEF down
    <3>2. next = Append(rest, Level(t, Here))
      BY <2>3 DEF Descend
    <3>3. OnLevels(t, Top.from, rest)
      BY <1>10, <1>11, <2>3
    <3>4. last.cur = Inner.cur /\ Here \in Level(t, Inner.cur).todo /\ Inner.cur \in Visible(line)
      <4>1. Len(ls) \in DOMAIN ls
        BY <1>3, <1>4
      <4>2. Inner.todo \subseteq Level(t, Inner.cur).todo /\ Inner.cur \in Visible(line)
        BY <1>3, <1>4, <4>1 DEF OnLevels
      <4> QED  BY <1>4, <1>9, <3>1, <4>2
    <3>5. t.dep = "c*" /\ BarrierIsPlain(t) => Clear(t, Here)
      <4> SUFFICES ASSUME t.dep = "c*", BarrierIsPlain(t)  PROVE Clear(t, Here)
        OBVIOUS
      <4>1. LinksWithin(t)
        BY DEF BarrierIsPlain
      <4>2. InSpan(line, t, Inner.cur, Here)
        BY <1>2, <1>3, <3>4, <4>1, LevelFacts
      <4>3. ~ IsFar
        BY <4>2 DEF IsFar
      <4> QED  BY <1>5, <3>1, <4>3
    <3>6. \A n \in DOMAIN rest : rest[n].cur # Here /\ ~ rest[n].self
      BY <1>2, <1>11, <1>12, <2>3, <3>1
    <3>7. Here \in Level(t, rest[Len(rest)].cur).todo
      BY <1>11, <3>4
    <3> HIDE DEF next, t
    <3>8. /\ next \in Seq(LevelType) /\ OnLevels(t, Top.from, next) /\ Len(next) = Len(rest) + 1
          /\ \A n \in DOMAIN rest : next[n] = rest[n]
          /\ next[Len(rest) + 1].cur = Here
      <4>1. /\ GivenOK /\ TestType(t) /\ rest \in Seq(LevelType) /\ rest # <<>>
            /\ \A n \in DOMAIN rest : rest[n].cur # Here
            /\ \A n \in DOMAIN rest : ~ rest[n].self
            /\ Here \in Visible(line) /\ Deep(t)
        BY <1>2, <1>4, <1>11, <3>1, <3>6
      <4>2. WentDown(t, Top.from, rest, Here, next)
        BY <3>2, <3>3, <3>5, <3>7, <4>1, LevelsGoDown, Zenon
      <4> QED  BY <4>2 DEF WentDown
    <3>9. \A n \in DOMAIN next : n = Len(rest) + 1 \/ n \in DOMAIN rest
      BY <1>11, <3>8
    <3>10. \A n \in DOMAIN next : <<Len(calls), next[n].cur>> \in seen
      BY <1>8, <1>13, <2>3, <3>1, <3>8, <3>9
    <3> QED  BY <1>2, <1>14, <1>17, <3>8, <3>10
  <2> QED  BY <2>1, <2>2, <2>3
<1> QED  BY <1>1, <1>15, <1>16, <1>17


-----------------------------------------------------------------------------
(* The theorems.                                                           *)

\* The invariant holds when the test of a rule begins.
LEMMA InitHolds ==
    ASSUME Init
    PROVE  Inv
<1> DEFINE o == FirstOrigin
           f == Call(1, Win(target), LocalNumber(target), o)
<1>1. PICK k \in Cases : line \in k.lines /\ chain \in k.chains /\ target \in k.targets
  BY DEF Init
<1>2. /\ LineType(line) /\ target \in Visible(line)
      /\ chain \in Seq(Range(chain)) \ {<<>>} /\ \A n \in DOMAIN chain : TestType(chain[n])
  BY <1>1, CasesAssumption DEF Visible
<1>3. /\ cohorts = [w \in 1..Last(line).win |-> CohortsOf(line, w)]
      /\ mark = target /\ deepSeen = {} /\ calls = <<f>> /\ answer = "running"
  BY DEF Init
<1>4. GivenOK
  BY <1>2, <1>3 DEF GivenOK
<1>5. target \in Cohorts
  BY <1>2, <1>4, LineFacts
<1>6. 1 \in DOMAIN chain /\ 1 <= Len(chain)
  <2> DEFINE R == Range(chain)
  <2>1. chain \in Seq(R) /\ chain # <<>>
    BY <1>2
  <2> HIDE DEF R
  <2> QED  BY <2>1
<1>7. o \in Cohorts \cup {NoCohort}
  BY <1>5 DEF FirstOrigin
<1> HIDE DEF o
<1>8. f \in CallType /\ f.test = 1 /\ CallOK(f, chain[1]) /\ SeenBy(f, chain[1], 1, deepSeen)
  <2>1. PICK n \in DOMAIN chain : n = 1
    BY <1>6
  <2>2. f = Call(n, Win(target), LocalNumber(target), o)
    BY <2>1
  <2> HIDE DEF f
  <2>3. /\ f \in CallType /\ f.test = n /\ CallOK(f, chain[n])
        /\ \A seen : SeenBy(f, chain[n], n, seen)
    BY <1>2, <1>4, <1>7, <2>2, CallFacts, SMTT(60)
  <2> QED  BY <2>1, <2>3
<1> HIDE DEF f
<1>9. calls \in Seq(CallType) /\ Len(calls) = 1 /\ DOMAIN calls = {1} /\ calls[1] = f /\ calls # <<>>
  BY <1>3, <1>8
<1>10. CallsOK(calls, deepSeen)
  BY <1>6, <1>8, <1>9 DEF CallsOK
<1>11. TypeOK
  BY <1>2, <1>3, <1>5, <1>6, <1>8, <1>9 DEF TypeOK
<1> QED  BY <1>2, <1>3, <1>4, <1>10, <1>11 DEF Inv

\* Every step keeps the invariant.
LEMMA NextKeeps ==
    ASSUME Inv, [Next]_vars
    PROVE  Inv'
<1>1. CASE Begin
  BY <1>1, BeginKeeps
<1>2. CASE CallLinked
  BY <1>2, CallLinkedKeeps
<1>3. CASE TestSelf
  BY <1>3, TestSelfKeeps
<1>4. CASE TestAlong
  BY <1>4, TestAlongKeeps
<1>5. CASE TestBoth
  BY <1>5, TestBothKeeps
<1>6. CASE TestTree
  BY <1>6, TestTreeKeeps
<1>7. CASE UNCHANGED vars
  <2>1. /\ UNCHANGED given /\ calls' = calls /\ deepSeen' = deepSeen /\ mark' = mark /\ answer' = answer
    BY <1>7 DEF vars
  <2>2. /\ CallsOK(calls, deepSeen) /\ mark \in Visible(line)
        /\ deepSeen \subseteq (DOMAIN chain) \X Cohorts
        /\ answer \in {"running", "yes", "no"} /\ (calls = <<>> <=> answer # "running")
    BY DEF Inv, TypeOK
  <2>3. PICK cs, seen : cs = calls' /\ seen = deepSeen'
    OBVIOUS
  <2> QED  BY <2>1, <2>2, <2>3, StepKeeps
<1> QED  BY <1>1, <1>2, <1>3, <1>4, <1>5, <1>6, <1>7 DEF Next, Work, Stopped

\* The invariant holds throughout.
LEMMA InvHolds == Spec => []Inv
<1>1. Init => Inv
  BY InitHolds
<1>2. Inv /\ [Next]_vars => Inv'
  BY NextKeeps
<1> QED  BY <1>1, <1>2, PTL DEF Spec

\* The calls of runContextualTest that are open are those of the chain from its
\* first test on, each in a known loop over cohorts of the line, until the outermost
\* one has returned.
THEOREM TypeCorrect == Spec => []TypeOK
<1>1. Inv => TypeOK
  BY DEF Inv
<1> QED  BY <1>1, InvHolds, PTL

\* For every line of cohorts, every chain of tests and every option: a test looks at
\* no enclosed cohort, at none outside the windows its position spans and at none
\* behind a barrier, however far it was led through windows, up and down the tree and
\* along linked tests.
THEOREM TestsStayInReach == Spec => []StaysInReach
<1>1. Inv => StaysInReach
  BY InvReaches
<1> QED  BY <1>1, InvHolds, PTL

=============================================================================
