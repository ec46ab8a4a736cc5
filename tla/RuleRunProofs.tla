--------------------------- MODULE RuleRunProofs ---------------------------
(***************************************************************************)
(* Proofs about what holds throughout a run of RuleEngine: the index of    *)
(* rules misses nothing, <<< stands on the last cohort, a failed attempt   *)
(* would fail again, and a section is left when nothing in it has effect.  *)
(* Where a theorem needs it of the grammars, it says which rules are left  *)
(* out, and why.                                                           *)
(***************************************************************************)
EXTENDS RuleEngineProofs

-----------------------------------------------------------------------------
(* Where the tags of the readings come from.                               *)

\* Every reading of the one list has the tags of a reading of the other.
TagsFrom(rds, old) ==
    \A k \in DOMAIN rds : \E i \in DOMAIN old : rds[k].tags = old[i].tags

\* Keeping, removing and protecting add no tags.
LEMMA TagsStay ==
  ASSUME TypeInv, NEW j \in Rules, NEW c \in DOMAIN readings
  PROVE  /\ TagsFrom(AfterSelect(j, c), readings[c])
         /\ \/ TagsFrom(AfterRemove(j, c), readings[c])
            \/ grammar[j].unsafe /\ AfterRemove(j, c) = <<Magic>>
         /\ \A lock \in BOOLEAN : TagsFrom(AfterLock(j, c, lock), readings[c])
<1> DEFINE old == readings[c]
<1>1. SoundList(old, seen[c])
  BY CohortSound
<1>2. old \in Seq(Reading) /\ DOMAIN old = 1..Len(old)
  BY <1>1 DEF SoundList
<1>3. TagsFrom(AfterSelect(j, c), old)
  <2> DEFINE K == Good(j, c) \cup Held(j, c)  t == Keep(old, K)
  <2>1. t \in Seq(Reading) /\ KeptOf(t, old, K, Len(old))
    <3> HIDE DEF K
    <3> QED BY <1>2, KeepFacts
  <2> HIDE DEF K, t
  <2>2. DOMAIN t = 1..Len(t)
    BY <2>1
  <2>3. \A k \in DOMAIN t : \E i \in DOMAIN old : t[k] = old[i]
    BY <1>2, <2>1, <2>2 DEF KeptOf
  <2>4. AfterSelect(j, c) = t
    BY DEF AfterSelect, t, K
  <2> QED BY <2>3, <2>4 DEF TagsFrom
<1>4. \/ TagsFrom(AfterRemove(j, c), old)
      \/ grammar[j].unsafe /\ AfterRemove(j, c) = <<Magic>>
  <2>1. CASE Removed(j, c) = DOMAIN old
    <3>1. grammar[j].unsafe => AfterRemove(j, c) = <<Magic>>
      BY <2>1 DEF AfterRemove
    <3>2. ~grammar[j].unsafe => AfterRemove(j, c) = old
      BY <2>1 DEF AfterRemove
    <3> QED BY <3>1, <3>2 DEF TagsFrom
  <2>2. CASE Removed(j, c) # DOMAIN old
    <3> DEFINE G == Removed(j, c)  t == SwapOut(old, G)
    <3>1. t \in Seq(Reading) /\ SwappedOf(t, old, G, 1)
      <4> HIDE DEF G
      <4> QED BY <1>2, SwapOutFacts
    <3>2. AfterRemove(j, c) = t
      BY <2>2 DEF AfterRemove
    <3> HIDE DEF t, G
    <3>3. DOMAIN t = 1..Len(t)
      BY <3>1
    <3>4. \A k \in DOMAIN t : \E i \in DOMAIN old : t[k] = old[i]
      BY <1>2, <3>1, <3>3 DEF SwappedOf
    <3> QED BY <3>2, <3>4 DEF TagsFrom
  <2> QED BY <2>1, <2>2
<1>5. ASSUME NEW lock \in BOOLEAN  PROVE TagsFrom(AfterLock(j, c, lock), old)
  <2> DEFINE t == AfterLock(j, c, lock)
  <2>1. DOMAIN t = DOMAIN old
    BY DEF AfterLock
  <2>2. ASSUME NEW k \in DOMAIN t  PROVE t[k].tags = old[k].tags
    <3>1. old[k] \in Reading
      BY <1>2, <2>1
    <3>2. t[k] = IF k \in Good(j, c) THEN [old[k] EXCEPT !.locked = lock] ELSE old[k]
      BY <2>1 DEF AfterLock
    <3> QED BY <3>1, <3>2 DEF Reading
  <2> HIDE DEF t
  <2> QED BY <2>1, <2>2 DEF TagsFrom, t
<1> QED BY <1>3, <1>4, <1>5

\* ADD and SUBSTITUTE, and the end tag, change the tags one by one.
LEMMA TagsChanged ==
  ASSUME TypeInv, NEW j \in Rules, NEW c \in DOMAIN readings
  PROVE  /\ DOMAIN AfterAdd(j, c) = DOMAIN readings[c]
         /\ DOMAIN AfterSubstitute(j, c) = DOMAIN readings[c]
         /\ DOMAIN WithEndTag(readings[c]) = DOMAIN readings[c]
         /\ \A i \in DOMAIN readings[c] :
              /\ \/ AfterAdd(j, c)[i].tags = readings[c][i].tags
                 \/ AfterAdd(j, c)[i].tags = readings[c][i].tags \cup {grammar[j].new}
              /\ \/ AfterSubstitute(j, c)[i].tags = readings[c][i].tags
                 \/ AfterSubstitute(j, c)[i].tags
                       = (readings[c][i].tags \ {grammar[j].old}) \cup {grammar[j].new}
              /\ WithEndTag(readings[c])[i].tags = readings[c][i].tags \cup {EndTag}
<1>1. SoundList(readings[c], seen[c])
  BY CohortSound
<1>2. \A i \in DOMAIN readings[c] : readings[c][i] \in Reading
  BY <1>1 DEF SoundList
<1> QED BY <1>2 DEF AfterAdd, AfterSubstitute, WithEndTag, Reading

-----------------------------------------------------------------------------
(* The index of rules.                                                     *)

\* The target of rule j matches one of the readings.
Matches(g, j, rds) ==
    \E i \in DOMAIN rds : g[j].target \in rds[i].tags /\ g[j].except \cap rds[i].tags = {}

\* The rules whose target matches a cohort of C are valid and have it listed.
Covers(g, cs, v, C, rs) ==
    \A j \in DOMAIN g, c \in C : Matches(g, j, rs[c]) => j \in v /\ c \in cs[j]

\* The index covers the window, and the rules of the section that are valid
\* are among those being run.
IndexInv ==
    /\ pc # "begin" => Covers(grammar, ruleCohorts, valid, Cohorts, readings)
    /\ pc \in {"try", "ended"} => valid \cap RunSection(section) \subseteq active

\* No SUBSTITUTE takes away a tag some rule excludes from its target.
NothingUncovered ==
    \A g \in Grammars : \A j, k \in DOMAIN g :
        g[j].type = "SUBSTITUTE" => g[j].old \notin g[k].except

\* Fewer tags of the same readings match no more.
LEMMA FromMatches ==
  ASSUME NEW g, NEW j, NEW rds, NEW old, TagsFrom(rds, old), Matches(g, j, rds)
  PROVE  Matches(g, j, old)
<1>1. PICK k \in DOMAIN rds : g[j].target \in rds[k].tags /\ g[j].except \cap rds[k].tags = {}
  BY DEF Matches
<1>2. PICK i \in DOMAIN old : rds[k].tags = old[i].tags
  BY <1>1 DEF TagsFrom
<1> QED BY <1>1, <1>2 DEF Matches

\* A reading that stands in for all others matches nothing.
LEMMA MagicMatches ==
  ASSUME NEW g, NEW j
  PROVE  ~Matches(g, j, <<Magic>>)
<1>1. DOMAIN <<Magic>> = {1} /\ <<Magic>>[1] = Magic
  OBVIOUS
<1>2. Magic.tags = {}
  BY DEF Magic
<1> HIDE DEF Magic
<1> QED BY <1>1, <1>2 DEF Matches

\* A tag makes match only rules that are indexed by it.
LEMMA AddedMatches ==
  ASSUME TypeInv, NothingUncovered, NEW j \in Rules, NEW k \in Rules, NEW c \in DOMAIN readings
  PROVE  /\ Matches(grammar, k, AfterAdd(j, c)) =>
               Matches(grammar, k, readings[c]) \/ grammar[j].new \in IndexTags(k)
         /\ grammar[j].type = "SUBSTITUTE" /\ Matches(grammar, k, AfterSubstitute(j, c)) =>
               Matches(grammar, k, readings[c]) \/ grammar[j].new \in IndexTags(k)
         /\ Matches(grammar, k, WithEndTag(readings[c])) =>
               Matches(grammar, k, readings[c]) \/ EndTag \in IndexTags(k)
<1> DEFINE old == readings[c]  t == grammar[k].target  x == grammar[k].except
<1>1. IndexTags(k) = {t} \cup x
  BY DEF IndexTags
<1>2. ASSUME NEW rds, NEW n, NEW O, Matches(grammar, k, rds), DOMAIN rds = DOMAIN old,
             O \cap x = {},
             \A i \in DOMAIN old : \/ rds[i].tags = old[i].tags
                                   \/ rds[i].tags = old[i].tags \cup {n}
                                   \/ rds[i].tags = (old[i].tags \ O) \cup {n}
      PROVE  Matches(grammar, k, old) \/ n \in IndexTags(k)
  <2>1. PICK i \in DOMAIN old : t \in rds[i].tags /\ x \cap rds[i].tags = {}
    BY <1>2 DEF Matches
  <2> DEFINE a == rds[i].tags  b == old[i].tags
  <2>2. a = b \/ a = b \cup {n} \/ a = (b \ O) \cup {n}
    BY <1>2
  <2> HIDE DEF a, b
  <2>3. n \notin {t} \cup x => t \in b /\ x \cap b = {}
    BY <1>2, <2>1, <2>2 DEF a
  <2> QED BY <1>1, <2>3 DEF Matches, b
<1>3. grammar[j].type = "SUBSTITUTE" => {grammar[j].old} \cap x = {}
  BY DEF NothingUncovered, TypeInv, Rules
<1>4. {} \cap x = {}
  OBVIOUS
<1> HIDE DEF x, t
<1>5. Matches(grammar, k, AfterAdd(j, c)) => Matches(grammar, k, old) \/ grammar[j].new \in IndexTags(k)
  <2> DEFINE rds == AfterAdd(j, c)  n == grammar[j].new
  <2>1. /\ DOMAIN rds = DOMAIN old
        /\ \A i \in DOMAIN old : rds[i].tags = old[i].tags \/ rds[i].tags = old[i].tags \cup {n}
    BY TagsChanged
  <2> HIDE DEF rds, n, old
  <2>2. Matches(grammar, k, rds) => Matches(grammar, k, old) \/ n \in IndexTags(k)
    BY <1>2, <1>4, <2>1
  <2> QED BY <2>2 DEF rds, n
<1>6. grammar[j].type = "SUBSTITUTE" /\ Matches(grammar, k, AfterSubstitute(j, c)) =>
         Matches(grammar, k, old) \/ grammar[j].new \in IndexTags(k)
  <2> DEFINE rds == AfterSubstitute(j, c)  n == grammar[j].new  O == {grammar[j].old}
  <2>1. /\ DOMAIN rds = DOMAIN old
        /\ \A i \in DOMAIN old : \/ rds[i].tags = old[i].tags
                                 \/ rds[i].tags = (old[i].tags \ O) \cup {n}
    BY TagsChanged
  <2> HIDE DEF rds, n, old, O
  <2>2. Matches(grammar, k, rds) /\ O \cap x = {} =>
           Matches(grammar, k, old) \/ n \in IndexTags(k)
    BY <1>2, <2>1
  <2> QED BY <1>3, <2>2 DEF rds, n, O
<1>7. Matches(grammar, k, WithEndTag(old)) => Matches(grammar, k, old) \/ EndTag \in IndexTags(k)
  <2> DEFINE rds == WithEndTag(old)
  <2>1. /\ DOMAIN rds = DOMAIN old
        /\ \A i \in DOMAIN old : rds[i].tags = old[i].tags \cup {EndTag}
    BY TagsChanged
  <2> HIDE DEF rds, old
  <2>2. Matches(grammar, k, rds) => Matches(grammar, k, old) \/ EndTag \in IndexTags(k)
    BY <1>2, <1>4, <2>1
  <2> QED BY <2>2 DEF rds
<1> QED BY <1>5, <1>6, <1>7

\* The index covers a window in which the readings of one cohort changed if it
\* lists that cohort for the rules that match now and did not before.
LEMMA CoversUpdate ==
  ASSUME Covers(grammar, ruleCohorts, valid, Cohorts, readings),
         NEW d \in DOMAIN readings, NEW rds, NEW cs, NEW v, NEW C, C \subseteq Cohorts,
         Cohorts \subseteq DOMAIN readings,
         valid \subseteq v, \A j \in Rules, e \in C : e \in ruleCohorts[j] => e \in cs[j],
         \A j \in Rules : Matches(grammar, j, rds) =>
            Matches(grammar, j, readings[d]) \/ (j \in v /\ d \in cs[j])
  PROVE  Covers(grammar, cs, v, C, [readings EXCEPT ![d] = rds])
<1> DEFINE rs == [readings EXCEPT ![d] = rds]
<1>1. ASSUME NEW j \in Rules, NEW c \in C, Matches(grammar, j, rs[c])
      PROVE  j \in v /\ c \in cs[j]
  <2>1. Matches(grammar, j, readings[c]) \/ (j \in v /\ c \in cs[j])
    <3>1. c \in DOMAIN readings
      OBVIOUS
    <3>2. rs[c] = IF c = d THEN rds ELSE readings[c]
      BY <3>1
    <3> HIDE DEF rs
    <3>3. CASE c = d
      BY <1>1, <3>2, <3>3
    <3>4. CASE c # d
      BY <1>1, <3>2, <3>4
    <3> QED BY <3>3, <3>4
  <2>2. Matches(grammar, j, readings[c]) => j \in valid /\ c \in ruleCohorts[j]
    BY DEF Covers, Rules
  <2> QED BY <2>1, <2>2
<1> HIDE DEF rs
<1> QED BY <1>1 DEF Covers, Rules, rs

\* Adding a tag lists the cohort for the rules it concerns, and makes those of
\* the section that become valid active.
LEMMA TagAddedIndex ==
  ASSUME TypeInv, NEW d, NEW t, NEW cs, TagAdded(d, t, cs)
  PROVE  /\ valid \subseteq valid'
         /\ \A j \in Rules : cs[j] \subseteq ruleCohorts'[j]
         /\ \A j \in Rules : t \in IndexTags(j) => j \in valid' /\ d \in ruleCohorts'[j]
         /\ valid \cap RunSection(section) \subseteq active =>
               valid' \cap RunSection(section) \subseteq active'
BY DEF TagAdded

\* The rules of the section stay the same with the grammar and the section.
LEMMA SectionKept ==
  ASSUME UNCHANGED <<grammar, section>>
  PROVE  RunSection(section)' = RunSection(section) /\ Rules' = Rules
BY DEF RunSection, Rules

\* The steps of the run that are not about a cohort keep the index invariant.
LEMMA IndexOfRunSteps ==
  ASSUME TypeInv, IndexInv, Begin \/ EnterSection \/ LeaveSection \/ NextRule \/ EndCohorts
  PROVE  IndexInv'
<1>1. UNCHANGED window => Cohorts' = Cohorts
  BY DEF window, Cohorts
<1>2. CASE Begin
  <2>1. /\ ruleCohorts' = [j \in Rules |-> {c \in Cohorts : MayMatch(j, c)}]
        /\ valid' = {j \in Rules : \E c \in Cohorts : MayMatch(j, c)}
        /\ UNCHANGED grammar /\ UNCHANGED window /\ pc' \in {"done", "enter"}
    BY <1>2 DEF Begin, IndexWindow
  <2>2. ASSUME NEW j \in Rules, NEW c \in Cohorts, Matches(grammar, j, readings[c])
        PROVE  MayMatch(j, c)
    <3>1. PICK i \in DOMAIN readings[c] : grammar[j].target \in readings[c][i].tags
      BY <2>2 DEF Matches
    <3>2. c \in DOMAIN readings
      BY CohortPlaces
    <3>3. readings[c][i].tags \subseteq seen[c]
      BY <3>1, <3>2 DEF TypeInv, WindowT, Sound
    <3> QED BY <3>1, <3>3 DEF MayMatch, IndexTags
  <2>3. Covers(grammar, ruleCohorts', valid', Cohorts, readings)
    BY <2>1, <2>2 DEF Covers, Rules
  <2> QED BY <1>1, <2>1, <2>3 DEF IndexInv, Covers, Matches, window
<1>3. CASE EnterSection
  <2>1. /\ pc = "enter" /\ UNCHANGED <<grammar, readings, ruleCohorts, valid, section>>
        /\ UNCHANGED window /\ active' = valid \cap RunSection(section)
    BY <1>3 DEF EnterSection, window
  <2>2. Covers(grammar, ruleCohorts, valid, Cohorts, readings)
    BY <2>1 DEF IndexInv
  <2>3. (Covers(grammar, ruleCohorts, valid, Cohorts, readings))'
    BY <1>1, <2>1, <2>2 DEF Covers, Matches
  <2>4. valid' \cap RunSection(section)' \subseteq active'
    BY <2>1, SectionKept
  <2> QED BY <2>3, <2>4 DEF IndexInv
<1>4. CASE LeaveSection
  <2>1. /\ pc = "leave" /\ pc' \in {"done", "enter"} /\ UNCHANGED <<grammar, readings, ruleCohorts, valid>>
        /\ UNCHANGED window
    BY <1>4 DEF LeaveSection, window, index
  <2>2. Covers(grammar, ruleCohorts, valid, Cohorts, readings)
    BY <2>1 DEF IndexInv
  <2>3. (Covers(grammar, ruleCohorts, valid, Cohorts, readings))'
    BY <1>1, <2>1, <2>2 DEF Covers, Matches
  <2> QED BY <2>1, <2>3 DEF IndexInv
<1>5. CASE NextRule \/ EndCohorts
  <2>1. /\ pc \in {"try", "ended"} /\ UNCHANGED <<grammar, readings, ruleCohorts, valid, active, section>>
        /\ UNCHANGED window
    BY <1>5 DEF NextRule, EndCohorts, window, index, run
  <2>2. /\ Covers(grammar, ruleCohorts, valid, Cohorts, readings)
        /\ valid \cap RunSection(section) \subseteq active
    BY <2>1 DEF IndexInv
  <2>3. (Covers(grammar, ruleCohorts, valid, Cohorts, readings))'
    BY <1>1, <2>1, <2>2 DEF Covers, Matches
  <2>4. valid' \cap RunSection(section)' \subseteq active'
    BY <2>1, <2>2, SectionKept
  <2> QED BY <2>3, <2>4 DEF IndexInv
<1> QED BY <1>2, <1>3, <1>4, <1>5

\* A rule that misses for want of a target matches no reading of the cohort.
LEMMA MissMatches ==
  ASSUME NEW c, Misses(iter, c), Targets(iter, c) = {}
  PROVE  ~Matches(grammar, iter, readings[c])
<1>1. Immune(iter, c) = {}
  BY DEF Misses, Active
<1>2. \A i \in DOMAIN readings[c] : ~TargetMatches(iter, readings[c][i])
  BY <1>1 DEF Targets
<1> QED BY <1>2 DEF Matches, TargetMatches

\* A cohort that leaves the window is no longer one of it.
LEMMA CohortsLeft ==
  ASSUME TypeInv, NEW c \in Cohorts, order' = Without(Pos(c))
  PROVE  Cohorts' \subseteq Cohorts \ {c}
<1> DEFINE p == Pos(c)  N == Len(order)
<1>1. p \in 1..N /\ N \in Nat /\ order[p] = c /\ DOMAIN order = 1..N
  <2>1. order \in Seq(DOMAIN readings)
    BY DEF TypeInv, WindowT
  <2> QED BY <2>1, CohortPlaces
<1>2. /\ DOMAIN order' = 1..(N - 1)
      /\ \A q \in 1..(N - 1) : order'[q] = IF q < p THEN order[q] ELSE order[q + 1]
  BY <1>1, WithoutFacts
<1>3. \A q, r \in DOMAIN order : order[q] = order[r] => q = r
  BY DEF TypeInv, WindowT, OnePlaceEach
<1> HIDE DEF p, N
<1>4. ASSUME NEW q \in 1..(N - 1)  PROVE order'[q] \in Cohorts \ {c}
  <2>1. PICK r \in 1..N : r # p /\ order'[q] = order[r]
    <3>1. CASE q < p
      <4>1. q \in 1..N /\ q # p
        BY <1>1, <3>1
      <4> QED BY <1>2, <3>1, <4>1
    <3>2. CASE ~(q < p)
      <4>1. q + 1 \in 1..N /\ q + 1 # p
        BY <1>1, <3>2
      <4> QED BY <1>2, <3>2, <4>1
    <3> QED BY <3>1, <3>2
  <2>2. order[r] # c
    BY <1>1, <1>3, <2>1
  <2> QED BY <1>1, <2>1, <2>2 DEF Cohorts
<1> QED BY <1>2, <1>4 DEF Cohorts

\* What a rule does at a cohort keeps the index invariant.
LEMMA IndexOfCohortSteps ==
  ASSUME NothingUncovered, TypeInv, IndexInv, NEW c \in Cohorts, TryCohort(c)
  PROVE  IndexInv'
<1>1. pc = "try" /\ c \in DOMAIN readings /\ iter \in Rules /\ Cohorts \subseteq DOMAIN readings
  BY CohortPlaces DEF TypeInv, LoopT, TryCohort, Skip, Miss, NothingToDo, OnlyProtected, Select,
     Remove, Add, Substitute, Protect, SetVariable, RemCohort, Delimit, Jump, Acts, Tried, Now
<1>2. /\ Covers(grammar, ruleCohorts, valid, Cohorts, readings)
      /\ valid \cap RunSection(section) \subseteq active
  BY <1>1 DEF IndexInv
<1>3. UNCHANGED grammar
  BY DEF TryCohort, Skip, Miss, NothingToDo, OnlyProtected, Select, SetReadings, Done,
     Remove, Add, Substitute, Protect, SetVariable, RemCohort, Delimit, Jump
<1>4. UNCHANGED order => Cohorts' = Cohorts
  BY DEF Cohorts
<1>5. ASSUME UNCHANGED <<valid, active, section>>
      PROVE  valid' \cap RunSection(section)' \subseteq active'
  BY <1>2, <1>3, <1>5, SectionKept
<1>6. ASSUME Covers(grammar, ruleCohorts', valid', Cohorts', readings')
      PROVE  (Covers(grammar, ruleCohorts, valid, Cohorts, readings))'
  BY <1>3, <1>6 DEF Covers, Matches
<1>7. CASE Skip(c) \/ NothingToDo(c) \/ OnlyProtected(c) \/ SetVariable(c) \/ Jump(c)
  <2>1. /\ UNCHANGED <<order, readings, ruleCohorts>> /\ UNCHANGED <<valid, active, section>>
    BY <1>7 DEF Skip, NothingToDo, OnlyProtected, SetVariable, Jump, Done, window, index, run
  <2>2. Covers(grammar, ruleCohorts', valid', Cohorts', readings')
    BY <1>2, <1>4, <2>1
  <2> QED BY <1>5, <1>6, <2>1, <2>2 DEF IndexInv
<1>8. CASE Miss(c)
  <2>1. /\ UNCHANGED <<order, readings>> /\ UNCHANGED <<valid, active, section>>
        /\ Misses(iter, c)
        /\ ruleCohorts' = IF Targets(iter, c) = {} THEN [ruleCohorts EXCEPT ![iter] = @ \ {c}]
                          ELSE ruleCohorts
    BY <1>8 DEF Miss, Done, window
  <2>2. ruleCohorts \in [Rules -> SUBSET DOMAIN readings]
    BY DEF TypeInv, IndexT
  <2>3. ASSUME NEW j \in Rules, NEW e \in Cohorts, Matches(grammar, j, readings[e])
        PROVE  j \in valid /\ e \in ruleCohorts'[j]
    <3>1. j \in valid /\ e \in ruleCohorts[j]
      BY <1>2, <2>3 DEF Covers, Rules
    <3>2. CASE Targets(iter, c) = {}
      <4>1. ~(j = iter /\ e = c)
        BY <2>1, <2>3, <3>2, MissMatches
      <4> QED BY <2>1, <2>2, <3>1, <3>2, <4>1
    <3>3. CASE Targets(iter, c) # {}
      BY <2>1, <3>1, <3>3
    <3> QED BY <3>2, <3>3
  <2>4. Covers(grammar, ruleCohorts', valid', Cohorts', readings')
    BY <1>4, <2>1, <2>3 DEF Covers, Rules
  <2> QED BY <1>5, <1>6, <2>1, <2>4 DEF IndexInv
<1>9. ASSUME NEW rds, readings' = [readings EXCEPT ![c] = rds], UNCHANGED order,
             UNCHANGED index, UNCHANGED section,
             \A j \in Rules : Matches(grammar, j, rds) => Matches(grammar, j, readings[c])
      PROVE  IndexInv'
  <2>1. UNCHANGED <<ruleCohorts, valid, active>>
    BY <1>9 DEF index
  <2>2. Covers(grammar, ruleCohorts, valid, Cohorts, [readings EXCEPT ![c] = rds])
    BY <1>1, <1>2, <1>9, CoversUpdate
  <2>3. Covers(grammar, ruleCohorts', valid', Cohorts', readings')
    BY <1>4, <1>9, <2>1, <2>2
  <2> QED BY <1>5, <1>6, <1>9, <2>1, <2>3 DEF IndexInv
<1>10. ASSUME NEW rds, readings' = [readings EXCEPT ![c] = rds], UNCHANGED order,
              NEW t, TagAdded(c, t, ruleCohorts), UNCHANGED section,
              \A j \in Rules : Matches(grammar, j, rds) =>
                                  Matches(grammar, j, readings[c]) \/ t \in IndexTags(j)
       PROVE  IndexInv'
  <2>1. /\ valid \subseteq valid'
        /\ \A j \in Rules : ruleCohorts[j] \subseteq ruleCohorts'[j]
        /\ \A j \in Rules : t \in IndexTags(j) => j \in valid' /\ c \in ruleCohorts'[j]
        /\ valid' \cap RunSection(section) \subseteq active'
    BY <1>2, <1>10, TagAddedIndex
  <2> DEFINE cs == ruleCohorts'  v == valid'
  <2>2. /\ valid \subseteq v /\ \A j \in Rules, e \in Cohorts : e \in ruleCohorts[j] => e \in cs[j]
        /\ \A j \in Rules : Matches(grammar, j, rds) =>
              Matches(grammar, j, readings[c]) \/ (j \in v /\ c \in cs[j])
    BY <1>10, <2>1
  <2> HIDE DEF cs, v
  <2>3. Covers(grammar, cs, v, Cohorts, [readings EXCEPT ![c] = rds])
    BY <1>1, <1>2, <2>2, CoversUpdate
  <2>4. Covers(grammar, ruleCohorts', valid', Cohorts', readings')
    BY <1>4, <1>10, <2>3 DEF cs, v
  <2>5. valid' \cap RunSection(section)' \subseteq active'
    BY <1>3, <1>10, <2>1, SectionKept
  <2> QED BY <1>6, <2>4, <2>5 DEF IndexInv
<1>11. CASE Select(c) \/ Remove(c) \/ Protect(c)
  <2>1. PICK rds : /\ readings' = [readings EXCEPT ![c] = rds]
                   /\ \/ rds = AfterSelect(iter, c) \/ rds = AfterRemove(iter, c)
                      \/ \E lock \in BOOLEAN : rds = AfterLock(iter, c, lock)
    BY <1>11 DEF Select, Remove, Protect, SetReadings
  <2>2. UNCHANGED order /\ UNCHANGED index /\ UNCHANGED section
    BY <1>11 DEF Select, Remove, Protect, SetReadings, Done
  <2>3. TagsFrom(rds, readings[c]) \/ rds = <<Magic>>
    BY <1>1, <2>1, TagsStay
  <2>4. \A j \in Rules : Matches(grammar, j, rds) => Matches(grammar, j, readings[c])
    BY <2>3, FromMatches, MagicMatches
  <2> QED BY <1>9, <2>1, <2>2, <2>4
<1>12. CASE Add(c)
  <2> DEFINE rds == AfterAdd(iter, c)
  <2>1. readings' = [readings EXCEPT ![c] = rds] /\ UNCHANGED order /\ UNCHANGED section
    BY <1>12 DEF Add, SetReadings, Done
  <2>2. CASE Good(iter, c) # {}
    <3> DEFINE t == grammar[iter].new
    <3>1. TagAdded(c, t, ruleCohorts)
      BY <1>12, <2>2 DEF Add
    <3>2. \A j \in Rules : Matches(grammar, j, rds) =>
                              Matches(grammar, j, readings[c]) \/ t \in IndexTags(j)
      BY <1>1, AddedMatches
    <3> HIDE DEF t, rds
    <3> QED BY <1>10, <2>1, <3>1, <3>2
  <2>3. CASE Good(iter, c) = {}
    <3>1. UNCHANGED index
      BY <1>12, <2>3 DEF Add
    <3>2. rds = readings[c]
      <4>1. readings[c] = [i \in DOMAIN readings[c] |-> readings[c][i]]
        BY <1>1, CohortSound DEF SoundList
      <4> QED BY <2>3, <4>1 DEF AfterAdd
    <3> HIDE DEF rds
    <3> QED BY <1>9, <2>1, <3>1, <3>2
  <2> QED BY <2>2, <2>3
<1>13. CASE Substitute(c)
  <2> DEFINE rds == AfterSubstitute(iter, c)
  <2>1. readings' = [readings EXCEPT ![c] = rds] /\ UNCHANGED order /\ UNCHANGED section
        /\ type = "SUBSTITUTE"
    BY <1>13 DEF Substitute, SetReadings, Done
  <2>2. CASE Substituted(iter, c) # {}
    <3> DEFINE t == grammar[iter].new
    <3>1. TagAdded(c, t, ruleCohorts)
      BY <1>13, <2>2 DEF Substitute
    <3>2. grammar[iter].type = "SUBSTITUTE"
      BY <1>1, <2>1 DEF TypeInv, LoopT
    <3>3. \A j \in Rules : Matches(grammar, j, rds) =>
                              Matches(grammar, j, readings[c]) \/ t \in IndexTags(j)
      BY <1>1, <3>2, AddedMatches
    <3> HIDE DEF t, rds
    <3> QED BY <1>10, <2>1, <3>1, <3>3
  <2>3. CASE Substituted(iter, c) = {}
    <3>1. UNCHANGED index
      BY <1>13, <2>3 DEF Substitute
    <3>2. rds = readings[c]
      <4>1. readings[c] = [i \in DOMAIN readings[c] |-> readings[c][i]]
        BY <1>1, CohortSound DEF SoundList
      <4> QED BY <2>3, <4>1 DEF AfterSubstitute
    <3> HIDE DEF rds
    <3> QED BY <1>9, <2>1, <3>1, <3>2
  <2> QED BY <2>2, <2>3
<1>14. CASE RemCohort(c)
  <2> DEFINE rest == [j \in Rules |-> ruleCohorts[j] \ {c}]  d == order[Len(order) - 1]
  <2>1. UNCHANGED section /\ order' = Without(Pos(c))
    BY <1>14 DEF RemCohort
  <2>2. Cohorts' \subseteq Cohorts \ {c}
    BY <2>1, CohortsLeft
  <2>3. \A j \in Rules, e \in Cohorts' : e \in ruleCohorts[j] => e \in rest[j]
    BY <2>2
  <2>4. \/ ruleCohorts' = rest /\ UNCHANGED <<readings, valid, active>>
        \/ /\ Len(order) > 1
           /\ readings' = [readings EXCEPT ![d] = WithEndTag(readings[d])]
           /\ TagAdded(d, EndTag, rest)
    BY <1>14 DEF RemCohort
  <2> HIDE DEF rest
  <2>5. CASE ruleCohorts' = rest /\ UNCHANGED <<readings, valid, active>>
    <3>1. Covers(grammar, ruleCohorts', valid', Cohorts', readings')
      BY <1>2, <2>2, <2>3, <2>5 DEF Covers, Rules
    <3> QED BY <1>5, <1>6, <2>1, <2>5, <3>1 DEF IndexInv
  <2>6. CASE /\ Len(order) > 1
             /\ readings' = [readings EXCEPT ![d] = WithEndTag(readings[d])]
             /\ TagAdded(d, EndTag, rest)
    <3>1. d \in DOMAIN readings
      <4>1. order \in Seq(DOMAIN readings) /\ Len(order) \in Nat
        BY DEF TypeInv, WindowT
      <4>2. Len(order) - 1 \in 1..Len(order)
        BY <2>6, <4>1
      <4> QED BY <4>1, <4>2
    <3> HIDE DEF d
    <3> DEFINE rds == WithEndTag(readings[d])  cs == ruleCohorts'  v == valid'  C == Cohorts'
    <3>2. /\ valid \subseteq v
          /\ \A j \in Rules : rest[j] \subseteq cs[j]
          /\ \A j \in Rules : EndTag \in IndexTags(j) => j \in v /\ d \in cs[j]
          /\ valid' \cap RunSection(section) \subseteq active'
      BY <1>2, <2>6, TagAddedIndex
    <3>3. \A j \in Rules : Matches(grammar, j, rds) =>
                              Matches(grammar, j, readings[d]) \/ EndTag \in IndexTags(j)
      BY <1>1, <3>1, AddedMatches
    <3>4. C \subseteq Cohorts /\ \A j \in Rules, e \in C : e \in ruleCohorts[j] => e \in cs[j]
      BY <2>2, <2>3, <3>2
    <3>5. readings' = [readings EXCEPT ![d] = rds]
      BY <2>6
    <3> HIDE DEF rds, cs, v, C
    <3>6. Covers(grammar, cs, v, C, [readings EXCEPT ![d] = rds])
      <4>1. \A j \in Rules : Matches(grammar, j, rds) =>
               Matches(grammar, j, readings[d]) \/ (j \in v /\ d \in cs[j])
        BY <3>2, <3>3
      <4> QED BY <1>1, <1>2, <3>1, <3>2, <3>4, <4>1, CoversUpdate
    <3>7. Covers(grammar, ruleCohorts', valid', Cohorts', readings')
      BY <3>5, <3>6 DEF cs, v, C
    <3>8. valid' \cap RunSection(section)' \subseteq active'
      BY <1>3, <2>1, <3>2, SectionKept
    <3> QED BY <1>6, <3>7, <3>8 DEF IndexInv
  <2> QED BY <2>4, <2>5, <2>6
<1>15. CASE Delimit(c)
  BY <1>15 DEF Delimit, IndexInv
<1> QED BY <1>7, <1>8, <1>11, <1>12, <1>13, <1>14, <1>15 DEF TryCohort

\* The index covers the window throughout.
LEMMA IndexHolds ==
  ASSUME NothingUncovered
  PROVE  Spec => []IndexInv
<1>1. Init => IndexInv
  BY DEF Init, IndexInv
<1>2. TypeInv /\ IndexInv /\ [Next]_vars => IndexInv'
  <2> SUFFICES ASSUME TypeInv, IndexInv, [Next]_vars  PROVE IndexInv'
    OBVIOUS
  <2>1. CASE UNCHANGED vars
    <3>1. UNCHANGED <<grammar, order, readings, ruleCohorts, valid, active, section, pc>>
      BY <2>1 DEF vars, window, index, run
    <3>2. Cohorts' = Cohorts
      BY <3>1 DEF Cohorts
    <3> QED BY <3>1, <3>2 DEF IndexInv, Covers, Matches, RunSection, Rules
  <2>2. CASE Begin \/ EnterSection \/ LeaveSection \/ NextRule \/ EndCohorts
    BY <2>2, IndexOfRunSteps
  <2>3. ASSUME NEW c \in Cohorts, TryCohort(c)  PROVE IndexInv'
    BY <2>3, IndexOfCohortSteps
  <2> QED BY <2>1, <2>2, <2>3 DEF Next, Work, Stopped
<1> QED BY <1>1, <1>2, TypesHold, PTL DEF Spec

\* The index of rules misses nothing: whatever tags were added and whatever
\* failed before, a rule of the section whose target matches a reading is among
\* the rules being run and has the cohort on its list. Left out are grammars
\* with a SUBSTITUTE that takes away a tag some target excludes: the cohort may
\* have been taken off the list of that rule before, and only tags that are
\* added put it there again.
THEOREM IndexMissesNothing ==
  ASSUME NothingUncovered
  PROVE  Spec => []IndexIsComplete
<1>1. TypeInv /\ IndexInv => IndexIsComplete
  <2> SUFFICES ASSUME TypeInv, IndexInv, pc \in {"try", "ended"},
                      NEW j \in RunSection(section), NEW c \in Cohorts, Targets(j, c) # {}
               PROVE  j \in active /\ c \in ruleCohorts[j]
    BY DEF IndexIsComplete
  <2>1. j \in Rules
    BY DEF RunSection
  <2>2. Matches(grammar, j, readings[c])
    BY DEF Targets, TargetMatches, Matches
  <2>3. j \in valid /\ c \in ruleCohorts[j]
    BY <2>1, <2>2 DEF IndexInv, Covers, Rules
  <2> QED BY <2>3 DEF IndexInv
<1> QED BY <1>1, IndexHolds, TypesHold, PTL

-----------------------------------------------------------------------------
(* The end of the window.                                                  *)

\* In the window o of the lists rs, <<< is on all readings at the last place
\* and on none before.
EndOn(o, rs) ==
    \A p \in DOMAIN o : \A i \in DOMAIN rs[o[p]] :
        EndTag \in rs[o[p]][i].tags <=> p = Len(o)

\* The input has <<< on the last cohort of a window, no rule adds or takes away
\* the tag by name, and none removes all readings of a cohort.
OnlyWindowsEnd ==
    /\ \A w \in Windows : \A c \in DOMAIN w : \A i \in DOMAIN w[c] :
          EndTag \in w[c][i] <=> c = Len(w)
    /\ \A g \in Grammars : \A j \in DOMAIN g :
         /\ g[j].type \in {"ADD", "SUBSTITUTE"} => g[j].new # EndTag
         /\ g[j].type = "SUBSTITUTE" => g[j].old # EndTag
         /\ g[j].type \in {"REMOVE", "IFF"} => ~g[j].unsafe

\* What a rule leaves at a cohort has <<< where the cohort had it.
LEMMA OutcomeKeepsEnd ==
  ASSUME OnlyWindowsEnd, TypeInv, NEW c \in DOMAIN readings, NEW rds, Outcome(iter, c, rds),
         NEW b \in BOOLEAN, \A i \in DOMAIN readings[c] : EndTag \in readings[c][i].tags <=> b
  PROVE  \A k \in DOMAIN rds : EndTag \in rds[k].tags <=> b
<1> DEFINE old == readings[c]
<1>1. iter \in Rules /\ grammar \in Grammars /\ iter \in DOMAIN grammar
  BY DEF TypeInv, LoopT, Rules
<1>2. /\ grammar[iter].type \in {"ADD", "SUBSTITUTE"} => grammar[iter].new # EndTag
      /\ grammar[iter].type = "SUBSTITUTE" => grammar[iter].old # EndTag
      /\ grammar[iter].type \in {"REMOVE", "IFF"} => ~grammar[iter].unsafe
  BY <1>1 DEF OnlyWindowsEnd
<1>3. CASE TagsFrom(rds, old)
  BY <1>3 DEF TagsFrom
<1>4. CASE TypeFor(iter, c) = "REMOVE" /\ rds = AfterRemove(iter, c)
  <2>1. grammar[iter].type \in {"REMOVE", "IFF"}
    BY <1>4 DEF TypeFor
  <2>2. TagsFrom(rds, old)
    BY <1>1, <1>2, <1>4, <2>1, TagsStay
  <2> QED BY <1>3, <2>2
<1>5. CASE grammar[iter].type = "ADD" /\ rds = AfterAdd(iter, c)
  <2> DEFINE n == grammar[iter].new
  <2>1. /\ DOMAIN rds = DOMAIN old
        /\ \A i \in DOMAIN old : rds[i].tags = old[i].tags \/ rds[i].tags = old[i].tags \cup {n}
    BY <1>1, <1>5, TagsChanged
  <2>2. n # EndTag
    BY <1>2, <1>5
  <2> HIDE DEF n
  <2> QED BY <2>1, <2>2
<1>6. CASE grammar[iter].type = "SUBSTITUTE" /\ rds = AfterSubstitute(iter, c)
  <2> DEFINE n == grammar[iter].new  o == grammar[iter].old
  <2>1. /\ DOMAIN rds = DOMAIN old
        /\ \A i \in DOMAIN old : \/ rds[i].tags = old[i].tags
                                 \/ rds[i].tags = (old[i].tags \ {o}) \cup {n}
    BY <1>1, <1>6, TagsChanged
  <2>2. n # EndTag /\ o # EndTag
    BY <1>2, <1>6
  <2> HIDE DEF n, o
  <2> QED BY <2>1, <2>2
<1>7. CASE rds = AfterSelect(iter, c) \/ \E lock \in BOOLEAN : rds = AfterLock(iter, c, lock)
  BY <1>1, <1>3, <1>7, TagsStay
<1> QED BY <1>4, <1>5, <1>6, <1>7 DEF Outcome

\* A cohort that gets <<< has it on every reading.
LEMMA EndTagGiven ==
  ASSUME TypeInv, NEW d \in DOMAIN readings
  PROVE  \A k \in DOMAIN WithEndTag(readings[d]) : EndTag \in WithEndTag(readings[d])[k].tags
<1>1. iter \in Rules
  BY DEF TypeInv, LoopT
<1> QED BY <1>1, TagsChanged

\* The end tag stays where it is when the readings of one cohort change.
LEMMA EndOfOutcome ==
  ASSUME OnlyWindowsEnd, TypeInv, EndOn(order, readings), NEW c \in Cohorts, NEW rds,
         Outcome(iter, c, rds)
  PROVE  EndOn(order, [readings EXCEPT ![c] = rds])
<1> DEFINE rs == [readings EXCEPT ![c] = rds]  b == (Pos(c) = Len(order))
<1>1. /\ c \in DOMAIN readings /\ Pos(c) \in DOMAIN order /\ order[Pos(c)] = c
      /\ \A p, q \in DOMAIN order : order[p] = order[q] => p = q
      /\ \A p \in DOMAIN order : order[p] \in DOMAIN readings
  BY CohortPlaces DEF TypeInv, WindowT, OnePlaceEach
<1>2. \A i \in DOMAIN readings[c] : EndTag \in readings[c][i].tags <=> b
  BY <1>1 DEF EndOn
<1>3. b \in BOOLEAN
  OBVIOUS
<1>4. \A k \in DOMAIN rds : EndTag \in rds[k].tags <=> b
  <2> HIDE DEF b
  <2> QED BY <1>1, <1>2, <1>3, OutcomeKeepsEnd
<1>5. ASSUME NEW p \in DOMAIN order, NEW i \in DOMAIN rs[order[p]]
      PROVE  EndTag \in rs[order[p]][i].tags <=> p = Len(order)
  <2>1. rs[order[p]] = IF order[p] = c THEN rds ELSE readings[order[p]]
    BY <1>1
  <2> HIDE DEF rs
  <2>2. CASE order[p] = c
    <3>1. p = Pos(c)
      BY <1>1, <2>2
    <3> QED BY <1>4, <1>5, <2>1, <2>2, <3>1
  <2>3. CASE order[p] # c
    BY <1>5, <2>1, <2>3 DEF EndOn
  <2> QED BY <2>2, <2>3
<1> HIDE DEF rs
<1> QED BY <1>5 DEF EndOn, rs

\* When a cohort leaves the window <<< is on the last cohort again.
LEMMA EndOfRemCohort ==
  ASSUME TypeInv, EndOn(order, readings), NEW c \in Cohorts, RemCohort(c)
  PROVE  EndOn(order', readings')
<1> DEFINE p == Pos(c)  N == Len(order)  d == order[N - 1]
<1>1. /\ c \in DOMAIN readings /\ p \in 1..N /\ N \in Nat /\ order[p] = c /\ DOMAIN order = 1..N
      /\ \A q, r \in DOMAIN order : order[q] = order[r] => q = r
      /\ \A q \in DOMAIN order : order[q] \in DOMAIN readings
  <2>1. order \in Seq(DOMAIN readings) /\ OnePlaceEach(order)
    BY DEF TypeInv, WindowT
  <2> QED BY <2>1, CohortPlaces DEF OnePlaceEach
<1>2. order' = Without(p)
  BY DEF RemCohort
<1>3. /\ DOMAIN order' = 1..(N - 1) /\ Len(order') = N - 1
      /\ \A q \in 1..(N - 1) : order'[q] = IF q < p THEN order[q] ELSE order[q + 1]
  BY <1>1, <1>2, WithoutFacts
<1>4. 1 \in DOMAIN readings[c]
  <2>1. SoundList(readings[c], seen[c])
    BY <1>1, CohortSound
  <2> QED BY <2>1 DEF SoundList
<1>5. EndTag \in readings[c][1].tags <=> p = N
  BY <1>1, <1>4 DEF EndOn
<1>6. /\ p = N /\ N > 1 => readings' = [readings EXCEPT ![d] = WithEndTag(readings[d])]
      /\ p # N \/ ~(N > 1) => UNCHANGED readings
  BY <1>5 DEF RemCohort
<1> HIDE DEF p, N, d
<1>7. CASE p # N
  <2>1. UNCHANGED readings
    BY <1>6, <1>7
  <2>2. ASSUME NEW q \in 1..(N - 1), NEW i \in DOMAIN readings[order'[q]]
        PROVE  EndTag \in readings[order'[q]][i].tags <=> q = N - 1
    <3> DEFINE r == IF q < p THEN q ELSE q + 1
    <3>1. r \in 1..N /\ (r = N <=> q = N - 1)
      BY <1>1, <1>7
    <3>2. order'[q] = order[r]
      BY <1>3
    <3> HIDE DEF r
    <3> QED BY <1>1, <2>2, <3>1, <3>2 DEF EndOn, N
  <2> QED BY <1>3, <2>1, <2>2 DEF EndOn
<1>8. CASE p = N
  <2>1. \A q \in 1..(N - 1) : order'[q] = order[q] /\ q \in 1..N /\ q # N
    BY <1>1, <1>3, <1>8
  <2>2. ASSUME NEW q \in 1..(N - 1), NEW i \in DOMAIN readings'[order'[q]]
        PROVE  EndTag \in readings'[order'[q]][i].tags <=> q = N - 1
    <3>1. N > 1 /\ N - 1 \in 1..N
      BY <1>1
    <3>2. readings' = [readings EXCEPT ![d] = WithEndTag(readings[d])] /\ d \in DOMAIN readings
      BY <1>1, <1>6, <1>8, <3>1 DEF d
    <3>3. order'[q] = order[q] /\ order[q] \in DOMAIN readings /\ q \in DOMAIN order
      BY <1>1, <2>1
    <3>4. CASE q = N - 1
      <4>1. readings'[order'[q]] = WithEndTag(readings[d]) /\ order'[q] = d
        BY <3>2, <3>3, <3>4 DEF d
      <4> QED BY <2>2, <3>2, <3>4, <4>1, EndTagGiven
    <3>5. CASE q # N - 1
      <4>1. order[q] # d
        BY <1>1, <3>1, <3>3, <3>5 DEF d
      <4>2. readings'[order'[q]] = readings[order[q]]
        BY <3>2, <3>3, <4>1
      <4> QED BY <2>1, <2>2, <3>3, <3>5, <4>2 DEF EndOn, N
    <3> QED BY <3>4, <3>5
  <2> QED BY <1>3, <2>2 DEF EndOn
<1> QED BY <1>7, <1>8

\* When the window is cut off <<< is on the cohort that is the last one now.
LEMMA EndOfDelimit ==
  ASSUME TypeInv, EndOn(order, readings), NEW c \in Cohorts, Delimit(c)
  PROVE  EndOn(order', readings')
<1> DEFINE p == Pos(c)  N == Len(order)
<1>1. /\ c \in DOMAIN readings /\ p \in 1..N /\ N \in Nat /\ order[p] = c /\ DOMAIN order = 1..N
      /\ \A q, r \in DOMAIN order : order[q] = order[r] => q = r
      /\ \A q \in DOMAIN order : order[q] \in DOMAIN readings
  <2>1. order \in Seq(DOMAIN readings) /\ OnePlaceEach(order)
    BY DEF TypeInv, WindowT
  <2> QED BY <2>1, CohortPlaces DEF OnePlaceEach
<1>2. order' = SubSeq(order, 1, p) /\ readings' = [readings EXCEPT ![c] = WithEndTag(readings[c])]
  BY DEF Delimit
<1>3. DOMAIN order' = 1..p /\ Len(order') = p /\ \A q \in 1..p : order'[q] = order[q]
  BY <1>1, <1>2, CutOffFacts
<1> HIDE DEF p, N
<1>4. ASSUME NEW q \in 1..p, NEW i \in DOMAIN readings'[order'[q]]
      PROVE  EndTag \in readings'[order'[q]][i].tags <=> q = p
  <2>1. q \in 1..N /\ order'[q] = order[q] /\ order[q] \in DOMAIN readings
    BY <1>1, <1>3
  <2>2. CASE q = p
    <3>1. readings'[order'[q]] = WithEndTag(readings[c])
      BY <1>1, <1>2, <2>1, <2>2
    <3> QED BY <1>1, <1>4, <2>2, <3>1, EndTagGiven
  <2>3. CASE q # p
    <3>1. order[q] # c /\ q # N
      BY <1>1, <2>1, <2>3
    <3>2. readings'[order'[q]] = readings[order[q]]
      BY <1>2, <2>1, <3>1
    <3> QED BY <1>1, <1>4, <2>1, <2>3, <3>1, <3>2 DEF EndOn, N
  <2> QED BY <2>2, <2>3
<1> QED BY <1>3, <1>4 DEF EndOn

\* Every reading of the last cohort of the window carries <<<, and no other:
\* rules that take the last cohort out or cut the window off give the tag to
\* the cohort that is last then. Left out are grammars that handle the tag by
\* name, and UNSAFE ones, whose empty cohort has no tags at all.
THEOREM EndTagStaysLast ==
  ASSUME OnlyWindowsEnd
  PROVE  Spec => []EndTagOnLast
<1> DEFINE EndInv == EndOn(order, readings)
<1>1. Init => EndInv
  <2> SUFFICES ASSUME Init  PROVE EndInv
    OBVIOUS
  <2>1. PICK w \in Windows :
           /\ order = [p \in DOMAIN w |-> p]
           /\ readings = [c \in DOMAIN w |->
                  [i \in DOMAIN w[c] |-> [id |-> i, tags |-> w[c][i], locked |-> FALSE]]]
    BY DEF Init
  <2>2. TypeInv
    BY TypeInit
  <2>3. Len(order) = Len(w)
    <3>1. w \in Seq(Seq(SUBSET Tags)) /\ order \in Seq(DOMAIN readings)
      BY <2>2, WindowsAssumption DEF TypeInv, WindowT
    <3>2. DOMAIN w = 1..Len(w) /\ DOMAIN order = 1..Len(order) /\ Len(w) \in Nat /\ Len(order) \in Nat
      BY <3>1
    <3>3. DOMAIN order = DOMAIN w
      BY SMTT(60), <2>1
    <3>4. DOMAIN order = 1..Len(w) /\ Len(w) \in Nat /\ order \in Seq(DOMAIN readings)
      BY <3>1, <3>2, <3>3
    <3> QED BY ONLY <3>4
  <2>4. ASSUME NEW p \in DOMAIN order, NEW i \in DOMAIN readings[order[p]]
        PROVE  EndTag \in readings[order[p]][i].tags <=> p = Len(order)
    <3>1. p \in DOMAIN w /\ order[p] = p /\ readings[p] = [k \in DOMAIN w[p] |->
              [id |-> k, tags |-> w[p][k], locked |-> FALSE]]
      BY <2>1
    <3>2. i \in DOMAIN w[p] /\ readings[p][i].tags = w[p][i]
      BY <2>4, <3>1
    <3> QED BY <2>3, <3>1, <3>2 DEF OnlyWindowsEnd
  <2> QED BY <2>4 DEF EndOn
<1>2. TypeInv /\ EndInv /\ [Next]_vars => EndInv'
  <2> SUFFICES ASSUME TypeInv, EndInv, [Next]_vars  PROVE EndOn(order', readings')
    BY DEF EndOn
  <2>1. CASE UNCHANGED <<order, readings>>
    BY <2>1
  <2>2. ASSUME NEW c \in Cohorts, NEW rds, UNCHANGED order,
               readings' = [readings EXCEPT ![c] = rds], Outcome(iter, c, rds)
        PROVE  EndOn(order', readings')
    <3>1. EndOn(order, [readings EXCEPT ![c] = rds])
      BY <2>2, EndOfOutcome
    <3> QED BY <2>2, <3>1
  <2>3. ASSUME NEW c \in Cohorts, RemCohort(c) \/ Delimit(c)  PROVE EndOn(order', readings')
    BY <2>3, EndOfRemCohort, EndOfDelimit
  <2> QED BY <2>1, <2>2, <2>3, WindowSteps
<1>3. TypeInv /\ EndInv => EndTagOnLast
  <2> SUFFICES ASSUME TypeInv, EndInv, NEW c \in Cohorts, NEW i \in DOMAIN readings[c]
               PROVE  EndTag \in readings[c][i].tags <=> Pos(c) = Len(order)
    BY DEF EndTagOnLast
  <2>1. Pos(c) \in DOMAIN order /\ order[Pos(c)] = c
    BY CohortPlaces
  <2> QED BY <2>1 DEF EndOn
<1> QED BY <1>1, <1>2, <1>3, TypesHold, PTL DEF Spec

-----------------------------------------------------------------------------
(* Failed attempts.                                                        *)

\* No rule protects readings, sets variables or removes cohorts: these change
\* what other rules see without making them try again.
Quiet ==
    \A g \in Grammars : \A j \in DOMAIN g :
        g[j].type \notin {"PROTECT", "UNPROTECT", "SETVARIABLE", "REMVARIABLE", "REMCOHORT"}

\* What a rule would do depends on the window alone.
LEMMA WouldChangeKept ==
  ASSUME UNCHANGED <<grammar, order, readings, flag>>, NEW j, NEW c
  PROVE  WouldChange(j, c)' = WouldChange(j, c)
<1>1. TestHolds(j, c)' = TestHolds(j, c)
  BY DEF TestHolds, HasTag, Pos
<1>2. Immune(j, c)' = Immune(j, c) /\ Targets(j, c)' = Targets(j, c)
  BY DEF Immune, Targets, TargetMatches
<1>3. Good(j, c)' = Good(j, c)
  BY <1>1, <1>2 DEF Good
<1>4. TypeFor(j, c)' = TypeFor(j, c) /\ Active(j, c)' = Active(j, c)
  BY <1>2, <1>3 DEF TypeFor, Active
<1>5. Misses(j, c)' = Misses(j, c) /\ AllActive(j, c)' = AllActive(j, c)
  BY <1>2, <1>4 DEF Misses, AllActive
<1>6. AfterRemove(j, c)' = AfterRemove(j, c)
  BY <1>2, <1>3 DEF AfterRemove, Removed
<1>7. AfterAdd(j, c)' = AfterAdd(j, c)
  BY <1>3 DEF AfterAdd
<1>8. AfterSubstitute(j, c)' = AfterSubstitute(j, c)
  BY <1>3 DEF AfterSubstitute, Substituted
<1>9. Pos(c)' = Pos(c)
  BY DEF Pos
<1> QED BY <1>3, <1>4, <1>5, <1>6, <1>7, <1>8, <1>9 DEF WouldChange

\* What a rule finds at a cohort, and leaves, when it has no effect.
LEMMA NoEffect ==
  ASSUME TypeInv, NEW j \in Rules, NEW c \in DOMAIN readings
  PROVE  /\ Removed(j, c) = {} => AfterRemove(j, c) = readings[c]
         /\ Good(j, c) = {} => AfterAdd(j, c) = readings[c]
         /\ Substituted(j, c) = {} => AfterSubstitute(j, c) = readings[c]
         /\ TypeFor(j, c) = "SELECT" /\ AfterSelect(j, c) = readings[c] => AllActive(j, c)
<1> DEFINE old == readings[c]
<1>1. /\ old \in Seq(Reading) /\ old # <<>> /\ old = [i \in DOMAIN old |-> old[i]]
      /\ DOMAIN old = 1..Len(old) /\ Len(old) \in Nat \ {0}
  BY CohortSound DEF SoundList
<1>2. ASSUME Removed(j, c) = {}  PROVE AfterRemove(j, c) = old
  <2>1. {} # DOMAIN old
    <3> HIDE DEF old
    <3>1. 1 \in DOMAIN old
      BY <1>1
    <3> QED BY <3>1
  <2>2. AfterRemove(j, c) = SwapOut(old, {})
    BY <1>2, <2>1 DEF AfterRemove
  <2>3. SwappedOf(SwapOut(old, {}), old, {}, 1)
    BY <1>1, SwapOutFacts
  <2> QED BY <2>2, <2>3 DEF SwappedOf
<1>3. Good(j, c) = {} => AfterAdd(j, c) = old
  BY <1>1 DEF AfterAdd
<1>4. Substituted(j, c) = {} => AfterSubstitute(j, c) = old
  BY <1>1 DEF AfterSubstitute
<1>5. ASSUME TypeFor(j, c) = "SELECT", AfterSelect(j, c) = old  PROVE AllActive(j, c)
  <2> DEFINE K == Good(j, c) \cup Held(j, c)
  <2>1. Keep(old, K) = old
    BY <1>5 DEF AfterSelect
  <2>2. 1..Len(old) \subseteq K
    <3> HIDE DEF K
    <3>1. KeptOf(old, old, K, Len(old))
      BY <1>1, <2>1, KeepFacts
    <3> QED BY <3>1 DEF KeptOf
  <2>3. K \subseteq Active(j, c) /\ Active(j, c) \subseteq DOMAIN old
    BY DEF Held, Active, Good, Targets, Immune
  <2>4. Active(j, c) = DOMAIN old
    BY <1>1, <2>2, <2>3
  <2> QED BY <1>5, <2>4 DEF AllActive
<1> QED BY <1>2, <1>3, <1>4, <1>5

\* A rule that is tried at a cohort and changes nothing would change nothing.
LEMMA NoChange ==
  ASSUME TypeInv, NEW j \in Rules, NEW c \in DOMAIN readings,
         \/ Misses(j, c) \/ AllActive(j, c)
         \/ Good(j, c) = {} /\ TypeFor(j, c) \in {"ADD", "REMCOHORT", "DELIMIT"}
         \/ TypeFor(j, c) = "SUBSTITUTE" /\ Substituted(j, c) = {}
         \/ TypeFor(j, c) = "REMOVE" /\ Removed(j, c) = {}
         \/ TypeFor(j, c) \in {"JUMP", "PROTECT", "UNPROTECT", "SETVARIABLE", "REMVARIABLE"}
  PROVE  ~WouldChange(j, c)
<1>1. CASE Misses(j, c) \/ AllActive(j, c)
  BY <1>1 DEF WouldChange
<1>2. CASE Good(j, c) = {} /\ TypeFor(j, c) \in {"ADD", "REMCOHORT", "DELIMIT"}
  BY <1>2, NoEffect DEF WouldChange
<1>3. CASE TypeFor(j, c) = "SUBSTITUTE" /\ Substituted(j, c) = {}
  BY <1>3, NoEffect DEF WouldChange
<1>4. CASE TypeFor(j, c) = "REMOVE" /\ Removed(j, c) = {}
  BY <1>4, NoEffect DEF WouldChange
<1>5. CASE TypeFor(j, c) \in {"JUMP", "PROTECT", "UNPROTECT", "SETVARIABLE", "REMVARIABLE"}
  BY <1>5 DEF WouldChange
<1> QED BY <1>1, <1>2, <1>3, <1>4, <1>5

\* Setting the readings of a cohort to what they are changes nothing.
LEMMA SameReadings ==
  ASSUME TypeInv, NEW c \in DOMAIN readings, NEW rds, rds = readings[c],
         readings' = [readings EXCEPT ![c] = rds]
  PROVE  readings' = readings
<1>1. readings \in Seq(Seq(Reading))
  BY DEF TypeInv, WindowT, Sound
<1> DEFINE S == Seq(Reading)
<1> HIDE DEF S
<1>2. readings \in Seq(S)
  BY <1>1 DEF S
<1>3. readings = [e \in DOMAIN readings |-> readings[e]]
  BY <1>2
<1> QED BY <1>3

\* While a rule runs type is its own, except that IFF turns into other types.
LEMMA TypeAtCohort ==
  ASSUME TypeInv, NEW c, Acts(c), type \in {"ADD", "SUBSTITUTE", "PROTECT", "UNPROTECT",
             "SETVARIABLE", "REMVARIABLE", "REMCOHORT", "DELIMIT", "JUMP"}
  PROVE  grammar[iter].type = type /\ TypeFor(iter, c) = type
<1>1. pc = "try"
  BY DEF Acts, Tried, Now
<1>2. \/ type = grammar[iter].type
      \/ grammar[iter].type = "IFF" /\ type \in {"SELECT", "REMOVE", "IFF"}
  BY <1>1 DEF TypeInv, LoopT
<1> QED BY <1>2 DEF TypeFor

\* Failed attempts stay failed when one of a rule that would change nothing is
\* added to them and the window is the same.
LEMMA CacheKept ==
  ASSUME CacheIsSound, pc # "begin", UNCHANGED <<grammar, order, readings, flag>>, NEW c,
         cache' \subseteq cache \/ (cache' \subseteq cache \cup {<<iter, c>>} /\ ~WouldChange(iter, c))
  PROVE  CacheIsSound'
<1>1. ASSUME NEW e \in cache', e[2] \in Cohorts  PROVE ~WouldChange(e[1], e[2])
  <2>1. CASE e \in cache
    BY <1>1, <2>1 DEF CacheIsSound
  <2>2. CASE e = <<iter, c>> /\ ~WouldChange(iter, c)
    BY <2>2
  <2> QED BY <2>1, <2>2
<1>2. Cohorts' = Cohorts
  BY DEF Cohorts
<1>3. \A e \in cache' : WouldChange(e[1], e[2])' = WouldChange(e[1], e[2])
  BY WouldChangeKept
<1> QED BY <1>1, <1>2, <1>3 DEF CacheIsSound

\* What a step at a cohort leaves of the failed attempts.
LEMMA CacheOfCohortSteps ==
  ASSUME Quiet, TypeInv, CacheIsSound, NEW c \in Cohorts, TryCohort(c)
  PROVE  CacheIsSound'
<1>1. c \in DOMAIN readings /\ iter \in Rules /\ pc # "begin"
  BY CohortPlaces DEF TypeInv, LoopT, TryCohort, Skip, Miss, NothingToDo, OnlyProtected, Select,
     Remove, Add, Substitute, Protect, SetVariable, RemCohort, Delimit, Jump, Acts, Tried, Now
<1>2. grammar[iter].type \notin
         {"PROTECT", "UNPROTECT", "SETVARIABLE", "REMVARIABLE", "REMCOHORT"}
  BY <1>1 DEF Quiet, TypeInv, Rules
<1>3. cache' = {} => CacheIsSound'
  BY DEF CacheIsSound
<1>4. ASSUME Failed(c), UNCHANGED <<grammar, order, readings, flag>>, ~WouldChange(iter, c)
      PROVE  CacheIsSound'
  BY <1>1, <1>4, CacheKept DEF Failed
<1>5. CASE Skip(c)
  <2>1. UNCHANGED <<grammar, order, readings, flag>> /\ cache' \subseteq cache
    BY <1>5 DEF Skip, window
  <2> QED BY <1>1, <2>1, CacheKept
<1>6. CASE Miss(c)
  <2>1. UNCHANGED <<grammar, order, readings, flag>> /\ Failed(c) /\ Misses(iter, c)
    BY <1>6 DEF Miss, Done, window
  <2> QED BY <1>1, <1>4, <2>1, NoChange
<1>7. CASE NothingToDo(c)
  <2>1. UNCHANGED <<grammar, order, readings, flag>> /\ Failed(c) /\ AllActive(iter, c)
    BY <1>7 DEF NothingToDo, Done, window
  <2> QED BY <1>1, <1>4, <2>1, NoChange
<1>8. CASE OnlyProtected(c)
  <2>1. /\ UNCHANGED <<grammar, order, readings, flag>> /\ Failed(c) /\ Good(iter, c) = {}
        /\ Acts(c) /\ type \in {"REMCOHORT", "DELIMIT", "JUMP"}
    BY <1>8 DEF OnlyProtected, Done, window
  <2>2. TypeFor(iter, c) \in {"REMCOHORT", "DELIMIT", "JUMP"}
    BY <2>1, TypeAtCohort
  <2> QED BY <1>1, <1>4, <2>1, <2>2, NoChange
<1>9. CASE Select(c)
  BY <1>3, <1>9 DEF Select, Cleared
<1>10. CASE Remove(c)
  <2>1. CASE Removed(iter, c) # {}
    BY <1>3, <1>10, <2>1 DEF Remove, Cleared
  <2>2. CASE Removed(iter, c) = {}
    <3>1. /\ TypeFor(iter, c) = "REMOVE" /\ Failed(c) /\ UNCHANGED <<grammar, order, flag>>
          /\ readings' = [readings EXCEPT ![c] = AfterRemove(iter, c)]
      BY <1>10, <2>2 DEF Remove, SetReadings, Done
    <3>2. AfterRemove(iter, c) = readings[c]
      BY <1>1, <2>2, NoEffect
    <3>3. readings' = readings
      BY ONLY TypeInv, <1>1, <3>1, <3>2, SameReadings
    <3> QED BY <1>1, <1>4, <2>2, <3>1, <3>3, NoChange
  <2> QED BY <2>1, <2>2
<1>11. CASE Add(c)
  <2>1. CASE Good(iter, c) # {}
    BY <1>3, <1>11, <2>1 DEF Add, Cleared
  <2>2. CASE Good(iter, c) = {}
    <3>1. /\ Acts(c) /\ type = "ADD" /\ Failed(c) /\ UNCHANGED <<grammar, order, flag>>
          /\ readings' = [readings EXCEPT ![c] = AfterAdd(iter, c)]
      BY <1>11, <2>2 DEF Add, SetReadings, Done
    <3>2. AfterAdd(iter, c) = readings[c]
      BY <1>1, <2>2, NoEffect
    <3>3. readings' = readings
      BY ONLY TypeInv, <1>1, <3>1, <3>2, SameReadings
    <3>4. TypeFor(iter, c) = "ADD"
      BY <3>1, TypeAtCohort
    <3> QED BY <1>1, <1>4, <2>2, <3>1, <3>3, <3>4, NoChange
  <2> QED BY <2>1, <2>2
<1>12. CASE Substitute(c)
  <2>1. CASE Substituted(iter, c) # {}
    BY <1>3, <1>12, <2>1 DEF Substitute, Cleared
  <2>2. CASE Substituted(iter, c) = {}
    <3>1. /\ Acts(c) /\ type = "SUBSTITUTE" /\ Failed(c) /\ UNCHANGED <<grammar, order, flag>>
          /\ readings' = [readings EXCEPT ![c] = AfterSubstitute(iter, c)]
      BY <1>12, <2>2 DEF Substitute, SetReadings, Done
    <3>2. AfterSubstitute(iter, c) = readings[c]
      BY <1>1, <2>2, NoEffect
    <3>3. readings' = readings
      BY ONLY TypeInv, <1>1, <3>1, <3>2, SameReadings
    <3>4. TypeFor(iter, c) = "SUBSTITUTE"
      BY <3>1, TypeAtCohort
    <3> QED BY <1>1, <1>4, <2>2, <3>1, <3>3, <3>4, NoChange
  <2> QED BY <2>1, <2>2
<1>13. CASE Protect(c) \/ SetVariable(c) \/ RemCohort(c)
  <2>1. Acts(c) /\ type \in {"PROTECT", "UNPROTECT", "SETVARIABLE", "REMVARIABLE", "REMCOHORT"}
    BY <1>13 DEF Protect, SetVariable, RemCohort
  <2> QED BY <1>2, <2>1, TypeAtCohort
<1>14. CASE Delimit(c)
  BY <1>14 DEF Delimit, CacheIsSound
<1>15. CASE Jump(c)
  <2>1. /\ UNCHANGED <<grammar, order, readings, flag>> /\ Failed(c)
        /\ Acts(c) /\ type = "JUMP"
    BY <1>15 DEF Jump, window
  <2>2. TypeFor(iter, c) = "JUMP"
    BY <2>1, TypeAtCohort
  <2> QED BY <1>1, <1>4, <2>1, <2>2, NoChange
<1> QED BY <1>5, <1>6, <1>7, <1>8, <1>9, <1>10, <1>11, <1>12, <1>13, <1>14, <1>15 DEF TryCohort

\* A failed attempt is still a failure: whatever other rules did to the window
\* since, the rule would change nothing if it were tried again. Left out are
\* grammars with rules that change what others see and keep the failed attempts:
\* protection, variables, and taking cohorts out.
THEOREM FailuresStayFailures ==
  ASSUME Quiet
  PROVE  Spec => []CacheIsSound
<1>1. Init => CacheIsSound
  BY DEF Init, CacheIsSound
<1>2. TypeInv /\ CacheIsSound /\ [Next]_vars => CacheIsSound'
  <2> SUFFICES ASSUME TypeInv, CacheIsSound, [Next]_vars  PROVE CacheIsSound'
    OBVIOUS
  <2>1. CASE UNCHANGED vars
    <3>1. /\ UNCHANGED <<grammar, order, readings, flag>> /\ cache' = cache
          /\ pc' = pc
      BY <2>1 DEF vars, window
    <3>2. CASE pc = "begin"
      BY <3>1, <3>2 DEF CacheIsSound
    <3>3. CASE pc # "begin"
      BY <3>1, <3>3, CacheKept
    <3> QED BY <3>2, <3>3
  <2>2. CASE Begin
    BY <2>2 DEF Begin, CacheIsSound
  <2>3. CASE EnterSection \/ LeaveSection \/ NextRule \/ EndCohorts
    <3>1. /\ pc # "begin" /\ UNCHANGED <<grammar, order, readings, flag>>
          /\ cache' \subseteq cache
      BY <2>3 DEF EnterSection, LeaveSection, NextRule, EndCohorts, window
    <3> QED BY <3>1, CacheKept
  <2>4. ASSUME NEW c \in Cohorts, TryCohort(c)  PROVE CacheIsSound'
    BY <2>4, CacheOfCohortSteps
  <2> QED BY <2>1, <2>2, <2>3, <2>4 DEF Next, Work, Stopped
<1> QED BY <1>1, <1>2, TypesHold, PTL DEF Spec

-----------------------------------------------------------------------------
(* Sections that are left.                                                 *)

\* No rule jumps over others, and no IFF is UNSAFE: with one reading left it is
\* not tried, whatever it has turned into.
Orderly ==
    \A g \in Grammars : \A j \in DOMAIN g :
        g[j].type # "JUMP" /\ (g[j].type = "IFF" => ~g[j].unsafe)

\* No reading is protected.
Unlocked == \A c \in DOMAIN readings : \A i \in DOMAIN readings[c] : ~readings[c][i].locked

\* Rule j has been tried at cohort c in the current pass, or will not be.
Behind(j, c) == j < iter \/ (j = iter /\ (pc = "ended" \/ Pos(c) <= cursor))

\* While a pass has done nothing, no rule would change a cohort behind it.
Swept ==
    /\ pc \in {"try", "ended"} /\ ~did =>
          \A j \in RunSection(section), c \in Cohorts : Behind(j, c) => ~WouldChange(j, c)
    /\ pc = "leave" /\ ~did =>
          \A j \in RunSection(section), c \in Cohorts : ~WouldChange(j, c)

\* A rule other than PROTECT leaves readings unprotected.
LEMMA OutcomeUnlocked ==
  ASSUME TypeInv, NEW c \in DOMAIN readings, NEW rds,
         grammar[iter].type \notin {"PROTECT", "UNPROTECT"},
         Outcome(iter, c, rds) \/ rds = WithEndTag(readings[c]),
         \A i \in DOMAIN readings[c] : ~readings[c][i].locked
  PROVE  \A k \in DOMAIN rds : ~rds[k].locked
<1> DEFINE old == readings[c]
<1>1. old \in Seq(Reading) /\ DOMAIN old = 1..Len(old)
  BY CohortSound DEF SoundList
<1>2. ASSUME rds = AfterSelect(iter, c)  PROVE \A k \in DOMAIN rds : ~rds[k].locked
  <2> DEFINE K == Good(iter, c) \cup Held(iter, c)
  <2>1. rds = Keep(old, K)
    BY <1>2 DEF AfterSelect
  <2> HIDE DEF K
  <2>2. rds \in Seq(Reading) /\ KeptOf(rds, old, K, Len(old))
    BY <1>1, <2>1, KeepFacts
  <2>3. DOMAIN rds = 1..Len(rds)
    BY <2>2
  <2> QED BY <1>1, <2>2, <2>3 DEF KeptOf
<1>3. ASSUME rds = AfterRemove(iter, c)  PROVE \A k \in DOMAIN rds : ~rds[k].locked
  <2> DEFINE G == Removed(iter, c)
  <2>1. rds = <<Magic>> \/ rds = old \/ rds = SwapOut(old, G)
    BY <1>3 DEF AfterRemove
  <2> HIDE DEF G
  <2>2. CASE rds = <<Magic>>
    <3>1. DOMAIN rds = {1} /\ rds[1] = Magic
      BY <2>2
    <3> QED BY <3>1 DEF Magic
  <2>3. CASE rds = SwapOut(old, G)
    <3>1. rds \in Seq(Reading) /\ SwappedOf(rds, old, G, 1)
      BY <1>1, <2>3, SwapOutFacts
    <3>2. DOMAIN rds = 1..Len(rds)
      BY <3>1
    <3> QED BY <1>1, <3>1, <3>2 DEF SwappedOf
  <2> QED BY <2>1, <2>2, <2>3
<1>4. ASSUME rds = AfterAdd(iter, c) \/ rds = AfterSubstitute(iter, c) \/ rds = WithEndTag(old),
             NEW k \in DOMAIN rds
      PROVE  ~rds[k].locked
  <2>1. DOMAIN rds = DOMAIN old
    BY <1>4 DEF AfterAdd, AfterSubstitute, WithEndTag
  <2>2. old[k] \in Reading /\ ~old[k].locked
    BY <1>1, <1>4, <2>1
  <2>3. rds[k].locked = old[k].locked
    BY <1>4, <2>1, <2>2 DEF AfterAdd, AfterSubstitute, WithEndTag, Reading
  <2> QED BY <2>2, <2>3
<1> QED BY <1>2, <1>3, <1>4 DEF Outcome

\* Without PROTECT no reading ever is protected.
LEMMA UnlockedHolds ==
  ASSUME Quiet
  PROVE  Spec => []Unlocked
<1>1. Init => Unlocked
  <2> SUFFICES ASSUME Init  PROVE Unlocked
    OBVIOUS
  <2>1. PICK w \in Windows :
           readings = [c \in DOMAIN w |->
               [i \in DOMAIN w[c] |-> [id |-> i, tags |-> w[c][i], locked |-> FALSE]]]
    BY DEF Init
  <2>2. DOMAIN readings = DOMAIN w
    BY <2>1
  <2>3. ASSUME NEW c \in DOMAIN readings, NEW i \in DOMAIN readings[c]  PROVE ~readings[c][i].locked
    <3>1. readings[c] = [n \in DOMAIN w[c] |-> [id |-> n, tags |-> w[c][n], locked |-> FALSE]]
      BY <2>1, <2>2
    <3>2. readings[c][i] = [id |-> i, tags |-> w[c][i], locked |-> FALSE]
      BY <2>3, <3>1
    <3> QED BY <3>2
  <2> QED BY <2>3 DEF Unlocked
<1>2. TypeInv /\ Unlocked /\ [Next]_vars => Unlocked'
  <2> SUFFICES ASSUME TypeInv, Unlocked, [Next]_vars  PROVE Unlocked'
    OBVIOUS
  <2>1. CASE UNCHANGED readings
    BY <2>1 DEF Unlocked
  <2>2. ASSUME NEW c \in DOMAIN readings, NEW rds, readings' = [readings EXCEPT ![c] = rds],
               Outcome(iter, c, rds) \/ rds = WithEndTag(readings[c])
        PROVE  Unlocked'
    <3>1. grammar[iter].type \notin {"PROTECT", "UNPROTECT"}
      BY DEF Quiet, TypeInv, LoopT, Rules
    <3>2. \A k \in DOMAIN rds : ~rds[k].locked
      BY <2>2, <3>1, OutcomeUnlocked DEF Unlocked
    <3>3. DOMAIN readings' = DOMAIN readings
          /\ \A d \in DOMAIN readings : readings'[d] = IF d = c THEN rds ELSE readings[d]
      BY <2>2
    <3> QED BY <3>2, <3>3 DEF Unlocked
  <2> QED BY <2>1, <2>2, ReadingSteps
<1> QED BY <1>1, <1>2, TypesHold, PTL DEF Spec

\* Without JUMP the loop over the rules never comes to stand at the end.
LEMMA NeverStray ==
  ASSUME Orderly
  PROVE  Spec => []~stray
<1>1. Init => ~stray
  BY DEF Init
<1>2. TypeInv /\ ~stray /\ [Next]_vars => ~stray'
  <2> SUFFICES ASSUME TypeInv, ~stray, [Next]_vars  PROVE ~stray'
    OBVIOUS
  <2>1. ASSUME NEW c, Jump(c)  PROVE FALSE
    <3>1. grammar[iter].type = "JUMP"
      BY <2>1, TypeAtCohort DEF Jump
    <3> QED BY <3>1 DEF Orderly, TypeInv, LoopT, Rules
  <2>2. UNCHANGED stray \/ EnterSection
    BY <2>1 DEF vars, Next, Work, Stopped, Begin, LeaveSection, NextRule, EndCohorts, TryCohort,
       Skip, Miss, NothingToDo, OnlyProtected, Select, SetReadings, Done, Remove, Add, Substitute,
       Protect, SetVariable, RemCohort, Delimit
  <2> QED BY <2>2 DEF EnterSection
<1> QED BY <1>1, <1>2, TypesHold, PTL DEF Spec

\* A rule whose target matches no reading of a cohort would not change it.
LEMMA UnmatchedIdle ==
  ASSUME Unlocked, NEW j, NEW c \in DOMAIN readings, ~Matches(grammar, j, readings[c])
  PROVE  ~WouldChange(j, c)
<1>1. Immune(j, c) = {} /\ Targets(j, c) = {}
  BY DEF Unlocked, Immune, Targets, TargetMatches, Matches
<1>2. Good(j, c) = {}
  BY <1>1 DEF Good
<1>3. Misses(j, c)
  BY <1>1, <1>2 DEF Misses, Active
<1> QED BY <1>3 DEF WouldChange

\* A cohort that is not on the list of a rule is one it would not change.
LEMMA UnlistedIdle ==
  ASSUME TypeInv, Unlocked, IndexInv, pc # "begin", NEW j \in Rules, NEW c \in Cohorts,
         j \notin valid \/ c \notin ruleCohorts[j]
  PROVE  ~WouldChange(j, c)
<1>1. c \in DOMAIN readings
  BY CohortPlaces
<1>2. ~Matches(grammar, j, readings[c])
  BY DEF IndexInv, Covers, Rules
<1> QED BY <1>1, <1>2, UnmatchedIdle

\* A rule that is not tried because of what is left of the cohort would not
\* change it.
LEMMA SingleReadingIdle ==
  ASSUME TypeInv, NEW j \in Rules, NEW c \in DOMAIN readings, Len(readings[c]) = 1,
         grammar[j].type \in {"SELECT", "REMOVE", "IFF"},
         grammar[j].type = "SELECT" \/ ~grammar[j].unsafe \/ readings[c][1] = Magic
  PROVE  ~WouldChange(j, c)
<1> DEFINE old == readings[c]
<1>1. old \in Seq(Reading) /\ DOMAIN old = {1}
  BY CohortSound DEF SoundList
<1>2. TypeFor(j, c) \in {"SELECT", "REMOVE"}
  BY DEF TypeFor
<1>3. CASE TypeFor(j, c) = "SELECT"
  BY <1>3 DEF WouldChange
<1>4. CASE TypeFor(j, c) = "REMOVE"
  <2>1. grammar[j].type # "SELECT"
    BY <1>4 DEF TypeFor
  <2>2. Removed(j, c) = {} \/ Removed(j, c) = DOMAIN old
    BY <1>1 DEF Removed, Good, Targets
  <2>3. CASE Removed(j, c) = {}
    BY <1>4, <2>3, NoChange
  <2>4. CASE Removed(j, c) = DOMAIN old /\ ~grammar[j].unsafe
    <3>1. AfterRemove(j, c) = old
      BY <2>4 DEF AfterRemove
    <3> QED BY <1>4, <3>1 DEF WouldChange
  <2>5. CASE old[1] = Magic
    <3>1. ~TargetMatches(j, old[1])
      BY <2>5 DEF TargetMatches, Magic
    <3>2. Removed(j, c) = {}
      BY <1>1, <3>1 DEF Removed, Good, Targets
    <3> QED BY <2>3, <3>2
  <2> QED BY <2>1, <2>2, <2>3, <2>4, <2>5
<1> QED BY <1>2, <1>3, <1>4

\* A cohort the rule skips is one it would not change.
LEMMA SkippedIdle ==
  ASSUME Orderly, TypeInv, Unlocked, CacheIsSound, NEW c \in Cohorts, Skip(c)
  PROVE  ~WouldChange(iter, c)
<1>1. pc = "try" /\ iter \in Rules /\ c \in DOMAIN readings
  BY CohortPlaces DEF Skip, Now, TypeInv, LoopT
<1>2. \/ type = grammar[iter].type
      \/ grammar[iter].type = "IFF" /\ type \in {"SELECT", "REMOVE"}
  BY <1>1 DEF TypeInv, LoopT
<1>3. CASE <<iter, c>> \in cache
  BY <1>1, <1>3 DEF CacheIsSound
<1>4. CASE ~MayMatch(iter, c)
  <2>1. \A i \in DOMAIN readings[c] : readings[c][i].tags \subseteq seen[c]
    BY <1>1, CohortSound DEF SoundList
  <2>2. ~Matches(grammar, iter, readings[c])
    BY <1>4, <2>1 DEF Matches, MayMatch, IndexTags
  <2> QED BY <1>1, <2>2, UnmatchedIdle
<1>5. CASE /\ Len(readings[c]) = 1
           /\ \/ type = "SELECT"
              \/ /\ type \in {"REMOVE", "IFF"}
                 /\ ~grammar[iter].unsafe \/ readings[c][1] = Magic
  <2>1. grammar[iter].type = "IFF" => ~grammar[iter].unsafe
    BY <1>1 DEF Orderly, TypeInv, Rules
  <2>2. /\ grammar[iter].type \in {"SELECT", "REMOVE", "IFF"}
        /\ grammar[iter].type = "SELECT" \/ ~grammar[iter].unsafe \/ readings[c][1] = Magic
    BY <1>2, <1>5, <2>1
  <2> QED BY <1>1, <1>5, <2>2, SingleReadingIdle
<1>6. CASE type = "DELIMIT" /\ Pos(c) = Len(order)
  <2>1. TypeFor(iter, c) = "DELIMIT"
    BY <1>2, <1>6 DEF TypeFor
  <2>2. ~(Pos(c) < Len(order))
    BY <1>6, CohortPlaces
  <2> QED BY <2>1, <2>2 DEF WouldChange
<1> QED BY <1>3, <1>4, <1>5, <1>6 DEF Skip, NotTried

\* A cohort passed without an effect is one the rule would not change, and the
\* window is as it was.
LEMMA PassedIdle ==
  ASSUME Quiet, Orderly, TypeInv, Unlocked, CacheIsSound, NEW c \in Cohorts, TryCohort(c), ~did'
  PROVE  /\ ~WouldChange(iter, c) /\ ~did /\ Now(c) /\ cursor' = Pos(c)
         /\ UNCHANGED <<grammar, order, readings, flag>>
         /\ UNCHANGED <<iter, section, pc>>
<1> DEFINE Goal == /\ ~WouldChange(iter, c) /\ ~did /\ Now(c) /\ cursor' = Pos(c)
                   /\ UNCHANGED <<grammar, order, readings, flag>>
                   /\ UNCHANGED <<iter, section, pc>>
<1>1. pc = "try" /\ iter \in Rules /\ c \in DOMAIN readings
  BY CohortPlaces DEF TypeInv, LoopT, TryCohort, Skip, Miss, NothingToDo, OnlyProtected, Select,
     Remove, Add, Substitute, Protect, SetVariable, RemCohort, Delimit, Jump, Acts, Tried, Now
<1>2. grammar[iter].type \notin
         {"PROTECT", "UNPROTECT", "SETVARIABLE", "REMVARIABLE", "REMCOHORT", "JUMP"}
  BY <1>1 DEF Quiet, Orderly, TypeInv, Rules
<1>3. ASSUME NEW rds, SetReadings(c, rds)
      PROVE  /\ rds = readings[c] /\ ~did /\ cursor' = Pos(c) /\ readings' = readings
             /\ UNCHANGED <<grammar, iter, section, pc>>
  <2>1. /\ readings' = [readings EXCEPT ![c] = rds] /\ did' = (did \/ rds # readings[c])
        /\ cursor' = Pos(c) /\ UNCHANGED <<grammar, iter, section, pc>>
    BY <1>3 DEF SetReadings, Done
  <2>2. rds = readings[c] /\ ~did
    BY <2>1
  <2>3. readings' = readings
    BY ONLY TypeInv, <1>1, <2>1, <2>2, SameReadings
  <2> QED BY <2>1, <2>2, <2>3
<1>4. CASE Skip(c)
  BY <1>4, SkippedIdle DEF Skip, window, run
<1>5. CASE Miss(c)
  <2>1. /\ Misses(iter, c) /\ Now(c) /\ ~did /\ cursor' = Pos(c)
        /\ UNCHANGED <<grammar, order, readings, flag>> /\ UNCHANGED <<iter, section, pc>>
    BY <1>5 DEF Miss, Done, Tried, window
  <2> QED BY <1>1, <2>1, NoChange
<1>6. CASE NothingToDo(c)
  <2>1. /\ AllActive(iter, c) /\ Now(c) /\ ~did /\ cursor' = Pos(c)
        /\ UNCHANGED <<grammar, order, readings, flag>> /\ UNCHANGED <<iter, section, pc>>
    BY <1>6 DEF NothingToDo, Done, Tried, window
  <2> QED BY <1>1, <2>1, NoChange
<1>7. CASE OnlyProtected(c)
  <2>1. /\ Acts(c) /\ type \in {"REMCOHORT", "DELIMIT", "JUMP"} /\ Good(iter, c) = {}
        /\ Now(c) /\ ~did /\ cursor' = Pos(c)
        /\ UNCHANGED <<grammar, order, readings, flag>> /\ UNCHANGED <<iter, section, pc>>
    BY <1>7 DEF OnlyProtected, Done, Acts, Tried, window
  <2>2. TypeFor(iter, c) \in {"REMCOHORT", "DELIMIT", "JUMP"}
    BY <2>1, TypeAtCohort
  <2> QED BY <1>1, <2>1, <2>2, NoChange
<1>8. CASE Select(c)
  <2>1. /\ Now(c) /\ TypeFor(iter, c) = "SELECT" /\ ~AllActive(iter, c)
        /\ SetReadings(c, AfterSelect(iter, c))
    BY <1>8 DEF Select, Acts, Tried
  <2>2. AfterSelect(iter, c) = readings[c]
    BY <1>3, <2>1
  <2> QED BY <1>1, <2>1, <2>2, NoEffect
<1>9. CASE Remove(c)
  <2>1. /\ Now(c) /\ TypeFor(iter, c) = "REMOVE" /\ UNCHANGED <<order, flag>>
        /\ SetReadings(c, AfterRemove(iter, c))
    BY <1>9 DEF Remove, Acts, Tried
  <2>2. AfterRemove(iter, c) = readings[c]
    BY <1>3, <2>1
  <2>3. ~WouldChange(iter, c)
    BY <2>1, <2>2 DEF WouldChange
  <2> QED BY <1>3, <2>1, <2>3
<1>10. CASE Add(c)
  <2>1. /\ Now(c) /\ type = "ADD" /\ Acts(c) /\ UNCHANGED <<order, flag>>
        /\ SetReadings(c, AfterAdd(iter, c))
    BY <1>10 DEF Add, Acts, Tried
  <2>2. AfterAdd(iter, c) = readings[c] /\ TypeFor(iter, c) = "ADD"
    BY <1>3, <2>1, TypeAtCohort
  <2>3. ~WouldChange(iter, c)
    BY <2>2 DEF WouldChange
  <2> QED BY <1>3, <2>1, <2>3
<1>11. CASE Substitute(c)
  <2>1. /\ Now(c) /\ type = "SUBSTITUTE" /\ Acts(c) /\ UNCHANGED <<order, flag>>
        /\ SetReadings(c, AfterSubstitute(iter, c))
    BY <1>11 DEF Substitute, Acts, Tried
  <2>2. AfterSubstitute(iter, c) = readings[c] /\ TypeFor(iter, c) = "SUBSTITUTE"
    BY <1>3, <2>1, TypeAtCohort
  <2>3. ~WouldChange(iter, c)
    BY <2>2 DEF WouldChange
  <2> QED BY <1>3, <2>1, <2>3
<1>12. CASE Protect(c) \/ SetVariable(c) \/ RemCohort(c) \/ Jump(c)
  <2>1. Acts(c) /\ type \in {"PROTECT", "UNPROTECT", "SETVARIABLE", "REMVARIABLE", "REMCOHORT", "JUMP"}
    BY <1>12 DEF Protect, SetVariable, RemCohort, Jump
  <2> QED BY <1>2, <2>1, TypeAtCohort
<1>13. CASE Delimit(c)
  BY <1>13 DEF Delimit
<1> QED BY <1>4, <1>5, <1>6, <1>7, <1>8, <1>9, <1>10, <1>11, <1>12, <1>13 DEF TryCohort

\* Steps at the cohorts keep what has been tried swept.
LEMMA SweptByCohorts ==
  ASSUME Quiet, Orderly, TypeInv, Unlocked, CacheIsSound, IndexInv, Swept,
         NEW c \in Cohorts, TryCohort(c)
  PROVE  Swept'
<1>1. CASE did'
  BY <1>1 DEF Swept
<1>2. CASE ~did'
  <2>1. /\ ~WouldChange(iter, c) /\ ~did /\ Now(c) /\ cursor' = Pos(c)
        /\ UNCHANGED <<grammar, order, readings, flag>>
        /\ UNCHANGED <<iter, section, pc>>
    BY <1>2, PassedIdle
  <2>2. pc = "try" /\ pc' = "try"
    BY <2>1 DEF Now
  <2>3. ASSUME NEW j \in RunSection(section), NEW d \in Cohorts, Behind(j, d)'
        PROVE  ~WouldChange(j, d)
    <3>1. j \in Rules /\ j \in Nat /\ iter \in Nat /\ iter \in Rules
      BY RuleFacts DEF RunSection, TypeInv, LoopT
    <3>2. Pos(d)' = Pos(d)
      BY <2>1 DEF Pos
    <3>3. j < iter \/ (j = iter /\ Pos(d) <= Pos(c))
      BY <2>1, <2>2, <2>3, <3>2 DEF Behind
    <3>4. Pos(d) \in Nat /\ Pos(c) \in Nat /\ cursor \in Nat
      BY CohortPlaces DEF TypeInv, LoopT
    <3>5. CASE Behind(j, d)
      BY <2>1, <2>2, <3>5 DEF Swept
    <3>6. CASE d = c
      BY <2>1, <3>1, <3>3, <3>5, <3>6 DEF Behind
    <3>7. CASE j = iter /\ Pos(d) > cursor /\ d # c
      <4>1. Pos(d) # Pos(c)
        BY <3>7, CohortPlaces
      <4>2. Pos(d) < Pos(c)
        BY <3>1, <3>3, <3>4, <3>7, <4>1
      <4>3. d \notin Left
        BY <2>1, <3>4, <4>2 DEF Now
      <4>4. d \notin ruleCohorts[iter]
        BY <3>7, <4>3 DEF Left
      <4> QED BY <2>2, <3>1, <3>7, <4>4, UnlistedIdle
    <3> QED BY <3>1, <3>3, <3>4, <3>5, <3>6, <3>7 DEF Behind
  <2>4. RunSection(section)' = RunSection(section) /\ Cohorts' = Cohorts
    BY <2>1, SectionKept DEF Cohorts
  <2>5. \A j, d : WouldChange(j, d)' = WouldChange(j, d)
    BY <2>1, WouldChangeKept
  <2> QED BY <2>2, <2>3, <2>4, <2>5 DEF Swept
<1> QED BY <1>1, <1>2

\* Rules before the first one of those being run, between one and the next, and
\* after the last, are rules no cohort of the window is listed for.
LEMMA PassedOver ==
  ASSUME TypeInv, Unlocked, IndexInv, pc # "begin", NEW j \in RunSection(section),
         NEW c \in Cohorts, j \notin valid \cap RunSection(section)
  PROVE  ~WouldChange(j, c)
<1>1. j \in Rules /\ j \notin valid
  BY DEF RunSection
<1> QED BY <1>1, UnlistedIdle

\* The steps of the run that are not about a cohort keep what has been tried swept.
LEMMA SweptByRun ==
  ASSUME TypeInv, Unlocked, IndexInv, ~stray, Swept,
         Begin \/ EnterSection \/ LeaveSection \/ NextRule \/ EndCohorts
  PROVE  Swept'
<1>1. CASE Begin \/ LeaveSection
  <2>1. pc' \in {"enter", "done"}
    BY <1>1 DEF Begin, LeaveSection
  <2> QED BY <2>1 DEF Swept
<1> SUFFICES ASSUME EnterSection \/ NextRule \/ EndCohorts  PROVE Swept'
  BY <1>1
<1>2. /\ UNCHANGED <<grammar, order, readings, flag, section>> /\ pc # "begin"
  BY DEF EnterSection, NextRule, EndCohorts, window, run
<1>3. RunSection(section)' = RunSection(section) /\ Cohorts' = Cohorts
  BY <1>2, SectionKept DEF Cohorts
<1>4. \A j, d : WouldChange(j, d)' = WouldChange(j, d)
  BY <1>2, WouldChangeKept
<1>5. /\ RunSection(section) \subseteq Nat /\ iter \in Nat /\ active \subseteq Nat
      /\ valid \cap RunSection(section) \subseteq Nat
  BY RulesFinite DEF RunSection, TypeInv, LoopT, IndexT
<1>6. ASSUME NEW d \in Cohorts  PROVE Pos(d)' = Pos(d) /\ Pos(d) \in Nat /\ Pos(d) > 0
  BY <1>2, CohortPlaces DEF Pos
<1>7. CASE EnterSection
  <2> DEFINE A == valid \cap RunSection(section)
  <2>1. CASE A = {}
    <3>1. pc' = "leave"
      BY <1>7, <2>1 DEF EnterSection
    <3>2. \A j \in RunSection(section), d \in Cohorts : ~WouldChange(j, d)
      BY <1>2, <2>1, PassedOver
    <3> QED BY <1>3, <1>4, <3>1, <3>2 DEF Swept
  <2>2. CASE A # {}
    <3>1. pc' = "try" /\ iter' = Least(A) /\ cursor' = 0
      BY <1>7, <2>2 DEF EnterSection, StartRule
    <3>2. iter' \in Nat /\ \A y \in A : iter' <= y
      BY <1>5, <2>2, <3>1, LeastElement
    <3>3. ASSUME NEW j \in RunSection(section), NEW d \in Cohorts, Behind(j, d)'
          PROVE  ~WouldChange(j, d)
      <4>1. j < iter'
        BY <1>6, <3>1, <3>3 DEF Behind
      <4>2. j \notin A
        BY <1>5, <3>2, <4>1
      <4> QED BY <1>2, <4>2, PassedOver
    <3> QED BY <1>3, <1>4, <3>1, <3>3 DEF Swept
  <2> QED BY <2>1, <2>2
<1>8. CASE NextRule
  <2>1. pc = "ended" /\ did' = did
    BY <1>8 DEF NextRule, run
  <2>2. ASSUME ~did, NEW j \in RunSection(section), NEW d \in Cohorts, j <= iter
        PROVE  ~WouldChange(j, d)
    BY <1>5, <2>1, <2>2 DEF Swept, Behind
  <2>3. \A j \in RunSection(section) : j \notin active => j \notin valid \cap RunSection(section)
    BY <2>1 DEF IndexInv
  <2> DEFINE after == {j \in active : j > iter}
  <2>4. CASE ruleDid /\ grammar[iter].repeat
    <3>1. pc' = "try" /\ iter' = iter /\ cursor' = 0
      BY <1>8, <2>4 DEF NextRule, StartRule
    <3>2. ASSUME ~did, NEW j \in RunSection(section), NEW d \in Cohorts, Behind(j, d)'
          PROVE  ~WouldChange(j, d)
      <4>1. j < iter
        BY <1>6, <3>1, <3>2 DEF Behind
      <4> QED BY <1>5, <2>2, <3>2, <4>1
    <3> QED BY <1>3, <1>4, <2>1, <3>1, <3>2 DEF Swept
  <2>5. CASE ~(ruleDid /\ grammar[iter].repeat) /\ after # {}
    <3>1. pc' = "try" /\ iter' = Least(after) /\ cursor' = 0
      BY <1>8, <2>5 DEF NextRule, StartRule
    <3>2. iter' \in Nat /\ \A y \in after : iter' <= y
      <4>1. after \subseteq Nat
        BY <1>5
      <4> HIDE DEF after
      <4> QED BY <2>5, <3>1, <4>1, LeastElement
    <3>3. ASSUME ~did, NEW j \in RunSection(section), NEW d \in Cohorts, Behind(j, d)'
          PROVE  ~WouldChange(j, d)
      <4>1. j < iter'
        BY <1>6, <3>1, <3>3 DEF Behind
      <4>2. CASE j <= iter
        BY <2>2, <3>3, <4>2
      <4>3. CASE j > iter
        <5>1. j \notin active
          BY <1>5, <3>2, <4>1, <4>3
        <5> QED BY <1>2, <2>3, <5>1, PassedOver
      <4> QED BY <1>5, <4>2, <4>3
    <3> QED BY <1>3, <1>4, <2>1, <3>1, <3>3 DEF Swept
  <2>6. CASE ~(ruleDid /\ grammar[iter].repeat) /\ after = {}
    <3>1. pc' = "leave"
      BY <1>8, <2>6 DEF NextRule
    <3>2. ASSUME ~did, NEW j \in RunSection(section), NEW d \in Cohorts
          PROVE  ~WouldChange(j, d)
      <4>1. CASE j <= iter
        BY <2>2, <3>2, <4>1
      <4>2. CASE j > iter
        <5>1. j \notin active
          BY <2>6, <4>2
        <5> QED BY <1>2, <2>3, <5>1, PassedOver
      <4> QED BY <1>5, <4>1, <4>2
    <3> QED BY <1>3, <1>4, <2>1, <3>1, <3>2 DEF Swept
  <2> QED BY <2>4, <2>5, <2>6
<1>9. CASE EndCohorts
  <2>1. pc = "try" /\ pc' = "ended" /\ Left = {} /\ UNCHANGED <<iter, did, cursor>>
    BY <1>9 DEF EndCohorts, run
  <2>2. ASSUME ~did, NEW j \in RunSection(section), NEW d \in Cohorts, Behind(j, d)'
        PROVE  ~WouldChange(j, d)
    <3>1. j < iter \/ j = iter
      BY <2>1, <2>2 DEF Behind
    <3>2. CASE Behind(j, d)
      BY <2>1, <2>2, <3>2 DEF Swept
    <3>3. CASE j = iter /\ ~(Pos(d) <= cursor)
      <4>1. Pos(d) > cursor
        BY <1>6, <3>3 DEF TypeInv, LoopT
      <4>2. d \notin ruleCohorts[iter]
        BY <2>1, <4>1 DEF Left
      <4>3. iter \in Rules
        BY DEF TypeInv, LoopT
      <4> QED BY <2>1, <3>3, <4>2, <4>3, UnlistedIdle
    <3> QED BY <3>1, <3>2, <3>3 DEF Behind
  <2> QED BY <1>3, <1>4, <2>1, <2>2 DEF Swept
<1> QED BY <1>7, <1>8, <1>9

\* A section is left for the next one only when no rule of it, or of an earlier
\* section, could change anything in the window: a pass that did nothing tried
\* every rule wherever it could have an effect, or had failed there before.
\* Left out are the grammars of the two theorems about the index and the
\* failed attempts, jumps, which pass rules over, and IFF with UNSAFE.
THEOREM SectionsAreSettled ==
  ASSUME Quiet, Orderly, NothingUncovered
  PROVE  Spec => []SectionsSettle
<1>1. Init => Swept
  BY DEF Init, Swept
<1>2. TypeInv /\ Unlocked /\ CacheIsSound /\ IndexInv /\ ~stray /\ Swept /\ [Next]_vars => Swept'
  <2> SUFFICES ASSUME TypeInv, Unlocked, CacheIsSound, IndexInv, ~stray, Swept, [Next]_vars
               PROVE  Swept'
    OBVIOUS
  <2>1. CASE UNCHANGED vars
    <3>1. /\ UNCHANGED <<grammar, order, readings, flag>>
          /\ UNCHANGED <<section, did, iter, cursor, pc>>
      BY <2>1 DEF vars, window, run
    <3>2. RunSection(section)' = RunSection(section) /\ Cohorts' = Cohorts
      BY <3>1, SectionKept DEF Cohorts
    <3>3. \A j, d : WouldChange(j, d)' = WouldChange(j, d)
      BY <3>1, WouldChangeKept
    <3>4. \A j, d : Behind(j, d)' = Behind(j, d)
      BY <3>1 DEF Behind, Pos
    <3> QED BY <3>1, <3>2, <3>3, <3>4 DEF Swept
  <2>2. CASE Begin \/ EnterSection \/ LeaveSection \/ NextRule \/ EndCohorts
    BY <2>2, SweptByRun
  <2>3. ASSUME NEW c \in Cohorts, TryCohort(c)  PROVE Swept'
    BY <2>3, SweptByCohorts
  <2> QED BY <2>1, <2>2, <2>3 DEF Next, Work, Stopped
<1>3. Swept => SectionsSettle
  BY DEF Swept, SectionsSettle
<1>4. Spec => []Unlocked /\ []CacheIsSound
  BY UnlockedHolds, FailuresStayFailures
<1>5. Spec => []IndexInv /\ []~stray
  BY IndexHolds, NeverStray
<1> QED BY <1>1, <1>2, <1>3, <1>4, <1>5, TypesHold, PTL DEF Spec

=============================================================================
