--------------------------- MODULE ReadingsProofs ---------------------------
(***************************************************************************)
(* Proofs about Readings, for every cohort, every number of readings and   *)
(* sub-readings, every set of mapping tags and every number in a tag: what *)
(* joining readings for printing keeps, and what numeric tags compare.     *)
(***************************************************************************)
EXTENDS Readings, FiniteSetTheorems, WellFoundedInduction, TLAPS

\* The readings of a cohort are sequences of parts, none of them empty.
AreReadings(rds) == \E Part : rds \in Seq(Seq(Part) \ {<<>>})

-----------------------------------------------------------------------------
(* Numeric tags.                                                           *)

\* Which operators fit below a number, at it and above it.
LEMMA FitsWhere ==
    ASSUME NEW op \in Operators, NEW x \in Int, NEW v \in Int
    PROVE  /\ v < 2 * x => (Fits(op, x, v) <=> op \in {"!=", "<", "<="})
           /\ v = 2 * x => (Fits(op, x, v) <=> op \in {"=", "<=", ">="})
           /\ v > 2 * x => (Fits(op, x, v) <=> op \in {"!=", ">", ">="})
<1>1. CASE op = "="   BY <1>1 DEF Fits
<1>2. CASE op = "!="  BY <1>2 DEF Fits
<1>3. CASE op = "<"   BY <1>3 DEF Fits
<1>4. CASE op = "<="  BY <1>4 DEF Fits
<1>5. CASE op = ">"   BY <1>5 DEF Fits
<1>6. CASE op = ">="  BY <1>6 DEF Fits
<1>7. QED  BY <1>1, <1>2, <1>3, <1>4, <1>5, <1>6 DEF Operators

\* doesTagMatchReading's cases for T_NUMERICAL are the manual's table for all
\* operators and all numbers; of the values only those next to the two numbers
\* matter.
THEOREM NumericTagsCompare ==
    ASSUME NEW op \in Operators, NEW iop \in Operators, NEW x \in Int, NEW y \in Int,
           NEW V \in SUBSET Int,
           \A n \in {x, y} : {2 * n - 1, 2 * n, 2 * n + 1} \subseteq V
    PROVE  ComparesAsTable(op, x, iop, y, V)
<1> DEFINE F(v) == Fits(op, x, v) /\ Fits(iop, y, v)
           Near == \/ F(2 * x - 1) \/ F(2 * x) \/ F(2 * x + 1)
                   \/ F(2 * y - 1) \/ F(2 * y) \/ F(2 * y + 1)
<1>1. ASSUME NEW v \in V, F(v)  PROVE Near
  <2>1. CASE v < 2 * x /\ v < 2 * y
    <3>1. CASE x <= y
      <4>1. F(2 * x - 1)
        BY <1>1, <2>1, <3>1, FitsWhere
      <4>2. QED  BY <4>1
    <3>2. CASE y < x
      <4>1. F(2 * y - 1)
        BY <1>1, <2>1, <3>2, FitsWhere
      <4>2. QED  BY <4>1
    <3>3. QED  BY <3>1, <3>2
  <2>2. CASE v > 2 * x /\ v > 2 * y
    <3>1. CASE x >= y
      <4>1. F(2 * x + 1)
        BY <1>1, <2>2, <3>1, FitsWhere
      <4>2. QED  BY <4>1
    <3>2. CASE y > x
      <4>1. F(2 * y + 1)
        BY <1>1, <2>2, <3>2, FitsWhere
      <4>2. QED  BY <4>1
    <3>3. QED  BY <3>1, <3>2
  <2>3. CASE v < 2 * x /\ v > 2 * y
    <3>1. F(2 * y + 1)
      BY <1>1, <2>3, FitsWhere
    <3>2. QED  BY <3>1
  <2>4. CASE v > 2 * x /\ v < 2 * y
    <3>1. F(2 * x + 1)
      BY <1>1, <2>4, FitsWhere
    <3>2. QED  BY <3>1
  <2>5. CASE v = 2 * x \/ v = 2 * y
    BY <1>1, <2>5
  <2>6. QED
    BY <2>1, <2>2, <2>3, <2>4, <2>5
<1>2. (\E v \in V : F(v)) <=> Near
  <2>1. /\ 2 * x - 1 \in V /\ 2 * x \in V /\ 2 * x + 1 \in V
        /\ 2 * y - 1 \in V /\ 2 * y \in V /\ 2 * y + 1 \in V
    OBVIOUS
  <2> HIDE DEF F
  <2>2. QED
    BY <1>1, <2>1
<1> DEFINE Below == {"!=", "<", "<="}
           At    == {"=", "<=", ">="}
           Above == {"!=", ">", ">="}
<1>3. CASE x < y
  <2>1. Near <=> \/ op \in Below /\ iop \in Below
                 \/ op \in At /\ iop \in Below
                 \/ op \in Above /\ iop \in Below
                 \/ op \in Above /\ iop \in At
                 \/ op \in Above /\ iop \in Above
    <3>1. F(2 * x - 1) <=> op \in Below /\ iop \in Below
      BY <1>3, FitsWhere
    <3>2. F(2 * x) <=> op \in At /\ iop \in Below
      BY <1>3, FitsWhere
    <3>3. F(2 * x + 1) <=> op \in Above /\ iop \in Below
      BY <1>3, FitsWhere
    <3>4. F(2 * y - 1) <=> op \in Above /\ iop \in Below
      BY <1>3, FitsWhere
    <3>5. F(2 * y) <=> op \in Above /\ iop \in At
      BY <1>3, FitsWhere
    <3>6. F(2 * y + 1) <=> op \in Above /\ iop \in Above
      BY <1>3, FitsWhere
    <3>7. QED
      BY <3>1, <3>2, <3>3, <3>4, <3>5, <3>6
  <2> HIDE DEF Near, F
  <2>2. (\E v \in V : Fits(op, x, v) /\ Fits(iop, y, v)) <=> Near
    BY <1>2 DEF F
  <2>3. QED
    BY <1>3, <2>1, <2>2 DEF ComparesAsTable, Compare, Operators
<1>4. CASE x = y
  <2>1. Near <=> \/ op \in Below /\ iop \in Below
                 \/ op \in At /\ iop \in At
                 \/ op \in Above /\ iop \in Above
    <3>1. F(2 * x - 1) <=> op \in Below /\ iop \in Below
      BY <1>4, FitsWhere
    <3>2. F(2 * x) <=> op \in At /\ iop \in At
      BY <1>4, FitsWhere
    <3>3. F(2 * x + 1) <=> op \in Above /\ iop \in Above
      BY <1>4, FitsWhere
    <3>4. F(2 * y - 1) <=> op \in Below /\ iop \in Below
      BY <1>4, FitsWhere
    <3>5. F(2 * y) <=> op \in At /\ iop \in At
      BY <1>4, FitsWhere
    <3>6. F(2 * y + 1) <=> op \in Above /\ iop \in Above
      BY <1>4, FitsWhere
    <3>7. QED
      BY <3>1, <3>2, <3>3, <3>4, <3>5, <3>6
  <2> HIDE DEF Near, F
  <2>2. (\E v \in V : Fits(op, x, v) /\ Fits(iop, y, v)) <=> Near
    BY <1>2 DEF F
  <2>3. QED
    BY <1>4, <2>1, <2>2 DEF ComparesAsTable, Compare, Operators
<1>5. CASE x > y
  <2>1. Near <=> \/ op \in Below /\ iop \in Above
                 \/ op \in At /\ iop \in Above
                 \/ op \in Above /\ iop \in Above
                 \/ op \in Below /\ iop \in Below
                 \/ op \in Below /\ iop \in At
    <3>1. F(2 * x - 1) <=> op \in Below /\ iop \in Above
      BY <1>5, FitsWhere
    <3>2. F(2 * x) <=> op \in At /\ iop \in Above
      BY <1>5, FitsWhere
    <3>3. F(2 * x + 1) <=> op \in Above /\ iop \in Above
      BY <1>5, FitsWhere
    <3>4. F(2 * y - 1) <=> op \in Below /\ iop \in Below
      BY <1>5, FitsWhere
    <3>5. F(2 * y) <=> op \in Below /\ iop \in At
      BY <1>5, FitsWhere
    <3>6. F(2 * y + 1) <=> op \in Below /\ iop \in Above
      BY <1>5, FitsWhere
    <3>7. QED
      BY <3>1, <3>2, <3>3, <3>4, <3>5, <3>6
  <2> HIDE DEF Near, F
  <2>2. (\E v \in V : Fits(op, x, v) /\ Fits(iop, y, v)) <=> Near
    BY <1>2 DEF F
  <2>3. QED
    BY <1>5, <2>1, <2>2 DEF ComparesAsTable, Compare, Operators
<1>6. QED
  BY <1>3, <1>4, <1>5

-----------------------------------------------------------------------------
(* Printing.                                                               *)

\* A nonempty set of natural numbers has a least element.
LEMMA LeastNumber ==
    ASSUME NEW T, T \subseteq Nat, T # {}
    PROVE  \E x \in T : \A y \in T : x <= y
<1> DEFINE R == OpToRel(<, Nat)
<1>1. IsWellFoundedOn(R, Nat)
  BY NatLessThanWellFounded
<1>2. \A x, y \in Nat : x < y => <<x, y>> \in R
  BY DEF OpToRel
<1> HIDE DEF R
<1>3. PICK x \in T : \A y \in T : ~ (<<y, x>> \in R)
  BY <1>1, WFMin
<1>4. \A y \in T : x <= y
  <2> TAKE y \in T
  <2>1. x \in Nat /\ y \in Nat /\ ~ (y < x)
    BY <1>2, <1>3
  <2> QED  BY <2>1
<1> QED  BY <1>4

\* Min and Max of some numbers among 1..n.
LEMMA LeastAndGreatest ==
    ASSUME NEW n \in Nat, NEW S \in SUBSET (1..n), S # {}
    PROVE  Min(S) \in S /\ Max(S) \in S
<1>1. S \subseteq Nat
  OBVIOUS
<1>2. Min(S) \in S
  <2>1. \E x \in S : \A y \in S : x =< y
    BY <1>1, LeastNumber
  <2> QED  BY <2>1 DEF Min
<1>3. Max(S) \in S
  <2> DEFINE T == {n - x : x \in S}
  <2>1. T \subseteq Nat /\ T # {}
    <3>1. \A x \in S : n - x \in Nat
      OBVIOUS
    <3> QED  BY <3>1
  <2> HIDE DEF T
  <2>2. PICK z \in T : \A y \in T : z <= y
    BY <2>1, LeastNumber
  <2>3. PICK x \in S : z = n - x
    BY DEF T
  <2>4. \A y \in S : x >= y
    <3> TAKE y \in S
    <3>1. n - y \in T /\ x \in Int /\ y \in Int
      BY DEF T
    <3> QED  BY <2>2, <2>3, <3>1
  <2> QED  BY <2>4 DEF Max
<1> QED  BY <1>2, <1>3

\* Readings with the same plain hashes have the same tags of their own, but for
\* the mapping tag.
LEMMA SamePlainTags ==
    ASSUME NEW Part, NEW a \in Seq(Part) \ {<<>>}, NEW b \in Seq(Part) \ {<<>>},
           PlainHashes(a) = PlainHashes(b)
    PROVE  HashPlain(a[1]) = HashPlain(b[1])
<1>1. 1 \in DOMAIN a /\ 1 \in DOMAIN b
  OBVIOUS
<1>2. PlainHashes(a)[1] = HashPlain(a[1]) /\ PlainHashes(b)[1] = HashPlain(b[1])
  BY <1>1 DEF PlainHashes
<1> QED  BY <1>2

\* A reading that is hidden has no mapping tag, and there is one like it that has.
LEMMA HiddenHasAnother ==
    ASSUME NEW Part, NEW rds \in Seq(Seq(Part) \ {<<>>}), NEW i \in Hidden(rds)
    PROVE  /\ i \in DOMAIN rds /\ Mappings(rds[i]) = 0
           /\ \E j \in DOMAIN rds : /\ PlainHashes(rds[j]) = PlainHashes(rds[i])
                                    /\ Mappings(rds[j]) # 0
<1> DEFINE Before == {j \in 1..(i - 1) : PlainHashes(rds[j]) = PlainHashes(rds[i])}
           After  == {j \in (i + 1)..Len(rds) : PlainHashes(rds[j]) = PlainHashes(rds[i])}
<1>1. /\ i \in DOMAIN rds /\ Mappings(rds[i]) = 0
      /\ \/ Before # {} /\ Mappings(rds[Max(Before)]) # 0
         \/ After # {} /\ Mappings(rds[Min(After)]) # 0
  BY DEF Hidden
<1>2. Len(rds) \in Nat /\ DOMAIN rds = 1..Len(rds)
  OBVIOUS
<1>3. Before \in SUBSET (1..Len(rds)) /\ After \in SUBSET (1..Len(rds))
  BY <1>1, <1>2
<1>4. CASE Before # {} /\ Mappings(rds[Max(Before)]) # 0
  <2>1. Max(Before) \in Before
    BY <1>2, <1>3, <1>4, LeastAndGreatest
  <2> QED  BY <1>1, <1>2, <1>3, <1>4, <2>1
<1>5. CASE After # {} /\ Mappings(rds[Min(After)]) # 0
  <2>1. Min(After) \in After
    BY <1>2, <1>3, <1>5, LeastAndGreatest
  <2> QED  BY <1>1, <1>2, <1>3, <1>5, <2>1
<1> QED  BY <1>1, <1>4, <1>5

\* Joining readings for printing loses none of them, and what is printed was
\* there, with the mapping tags of the sub-readings (mergeReadings): for every
\* sequence of readings, however many of them have the same parts, with and
\* without mapping tags, if no two are told apart by the mapping tag of a
\* sub-reading only. Of such two, one is lost.
THEOREM PrintingLosesNothing ==
    ASSUME NEW rds, AreReadings(rds), SubMappingsAgree(rds)
    PROVE  LosesNothing(rds)
<1>1. PICK Part : rds \in Seq(Seq(Part) \ {<<>>})
  BY DEF AreReadings
<1> DEFINE D == DOMAIN rds
           keys == {MergeKey(rds[i]) : i \in D}
           Of(key) == {i \in D : MergeKey(rds[i]) = key}
           Joined(key) ==
               LET first == rds[Min(Of(key))]
                   maps  == {rds[i][1].mapping : i \in Of(key)} \ {NoTag}
               IN [tags   |-> HashPlain(first[1]), maps |-> maps,
                   subs   |-> Tail(first), hidden |-> Min(Of(key)) \in Hidden(rds)]
           Single(i) == [tags |-> HashPlain(rds[i][1]), maps |-> {rds[i][1].mapping} \ {NoTag},
                         subs |-> Tail(rds[i]), hidden |-> i \in Hidden(rds)]
           Like(i, j) == PlainHashes(rds[i]) = PlainHashes(rds[j])
<1>2. Len(rds) \in Nat /\ D = 1..Len(rds) /\ \A i \in D : rds[i] \in Seq(Part) \ {<<>>}
  BY <1>1
<1>3. ASSUME NEW i \in D, NEW j \in D, Like(i, j),
             Mappings(rds[i]) = Mappings(rds[j]) \/ Mappings(rds[i]) = 0
      PROVE  /\ HashPlain(rds[i][1]) = HashPlain(rds[j][1])
             /\ FullHashes(Tail(rds[i])) = FullHashes(Tail(rds[j]))
  <2>1. HashPlain(rds[i][1]) = HashPlain(rds[j][1])
    BY <1>2, <1>3, SamePlainTags
  <2>2. rds[i] \in ToSet(rds) /\ rds[j] \in ToSet(rds)
    BY DEF ToSet
  <2>3. FullHashes(Tail(rds[i])) = FullHashes(Tail(rds[j]))
    BY <1>3, <2>2 DEF SubMappingsAgree
  <2> QED  BY <2>1, <2>3
<1>4. \A i, j \in D : MergeKey(rds[i]) = MergeKey(rds[j]) =>
          Like(i, j) /\ Mappings(rds[i]) = Mappings(rds[j])
  BY DEF MergeKey
<1>5. ASSUME NEW i \in D
      PROVE  Min(Of(MergeKey(rds[i]))) \in Of(MergeKey(rds[i]))
  <2>1. Of(MergeKey(rds[i])) \in SUBSET (1..Len(rds)) /\ Of(MergeKey(rds[i])) # {}
    BY <1>2
  <2> QED  BY <1>2, <2>1, LeastAndGreatest
\* a reading that is not hidden and prints like i, with a mapping tag if i has one
<1>6. ASSUME NEW i \in D
      PROVE  \E j \in D : /\ Like(i, j) /\ j \notin Hidden(rds)
                          /\ i \notin Hidden(rds) => j = i
                          /\ i \in Hidden(rds) => Mappings(rds[j]) # 0 /\ Mappings(rds[i]) = 0
  <2>1. CASE i \notin Hidden(rds)
    BY <2>1
  <2>2. CASE i \in Hidden(rds)
    <3>1. /\ Mappings(rds[i]) = 0
          /\ \E j \in D : Like(i, j) /\ Mappings(rds[j]) # 0
      BY <1>1, <2>2, HiddenHasAnother
    <3>2. \A j \in Hidden(rds) : Mappings(rds[j]) = 0
      BY <1>1, HiddenHasAnother
    <3> QED  BY <2>2, <3>1, <3>2
  <2> QED  BY <2>1, <2>2
<1>7. ASSUME NEW i \in D, Mappings(rds[i]) = 0
      PROVE  {rds[i][1].mapping} \ {NoTag} = {}
  <2> DEFINE K == {k \in DOMAIN rds[i] : rds[i][k].mapping # NoTag}
  <2>1. 1 \in DOMAIN rds[i] /\ Len(rds[i]) \in Nat /\ DOMAIN rds[i] = 1..Len(rds[i])
    BY <1>2
  <2>2. IsFiniteSet(K)
    <3>1. IsFiniteSet(DOMAIN rds[i])
      BY <2>1, FS_Interval
    <3> QED  BY <3>1, FS_Subset
  <2>3. K = {}
    BY <1>7, <2>2, FS_EmptySet DEF Mappings
  <2> QED  BY <2>1, <2>3
<1>8. CASE Cardinality(keys) = Len(rds)
  <2>1. Merged(rds) = {Single(i) : i \in D}
    BY <1>8 DEF Merged
  <2>2. ASSUME NEW i \in D
        PROVE  \E m \in Merged(rds) :
                  ~ m.hidden /\ Prints(m, rds[i]) /\ {rds[i][1].mapping} \ {NoTag} \subseteq m.maps
    <3>1. PICK j \in D : /\ Like(i, j) /\ j \notin Hidden(rds)
                         /\ i \notin Hidden(rds) => j = i
                         /\ i \in Hidden(rds) => Mappings(rds[i]) = 0
      BY <1>6
    <3>2. Prints(Single(j), rds[i]) /\ ~ Single(j).hidden
      <4>1. /\ HashPlain(rds[i][1]) = HashPlain(rds[j][1])
            /\ FullHashes(Tail(rds[i])) = FullHashes(Tail(rds[j]))
        BY <1>3, <3>1
      <4> QED  BY <3>1, <4>1 DEF Prints
    <3>3. {rds[i][1].mapping} \ {NoTag} \subseteq Single(j).maps
      BY <1>7, <3>1
    <3> QED  BY <2>1, <3>2, <3>3
  <2>3. ASSUME NEW m \in Merged(rds), NEW t \in PrintedMaps(m)
        PROVE  \E i \in D : Prints(m, rds[i]) /\ rds[i][1].mapping = t
    <3>1. PICK i \in D : m = Single(i)
      BY <2>1
    <3>2. m.maps = {rds[i][1].mapping} \ {NoTag} /\ Prints(m, rds[i])
      BY <3>1 DEF Prints
    <3>3. rds[i][1].mapping = t
      BY <2>3, <3>2 DEF PrintedMaps
    <3> QED  BY <3>2, <3>3
  <2> QED  BY <2>2, <2>3 DEF LosesNothing, ToSet
<1>9. CASE Cardinality(keys) # Len(rds)
  <2>1. Merged(rds) = {Joined(key) : key \in keys}
    BY <1>9 DEF Merged
  <2>2. ASSUME NEW i \in D
        PROVE  /\ Joined(MergeKey(rds[i])) \in Merged(rds)
               /\ Prints(Joined(MergeKey(rds[i])), rds[i])
               /\ {rds[i][1].mapping} \ {NoTag} \subseteq Joined(MergeKey(rds[i])).maps
               /\ Mappings(rds[i]) # 0 => ~ Joined(MergeKey(rds[i])).hidden
    <3> DEFINE k == Min(Of(MergeKey(rds[i])))
    <3>1. k \in D /\ MergeKey(rds[k]) = MergeKey(rds[i])
      BY <1>5
    <3>2. Like(k, i) /\ Mappings(rds[k]) = Mappings(rds[i])
      BY <1>4, <3>1
    <3>3. Prints(Joined(MergeKey(rds[i])), rds[i])
      <4> HIDE DEF k
      <4>1. /\ HashPlain(rds[k][1]) = HashPlain(rds[i][1])
            /\ FullHashes(Tail(rds[k])) = FullHashes(Tail(rds[i]))
        BY <1>3, <3>1, <3>2
      <4> QED  BY <4>1 DEF Prints, k
    <3>4. Mappings(rds[i]) # 0 => k \notin Hidden(rds)
      BY <1>1, <3>2, HiddenHasAnother
    <3> QED  BY <2>1, <3>3, <3>4
  <2>3. ASSUME NEW i \in D
        PROVE  \E m \in Merged(rds) :
                  ~ m.hidden /\ Prints(m, rds[i]) /\ {rds[i][1].mapping} \ {NoTag} \subseteq m.maps
    <3>1. CASE ~ Joined(MergeKey(rds[i])).hidden
      BY <2>2, <3>1
    <3>2. CASE Joined(MergeKey(rds[i])).hidden
      <4> DEFINE k == Min(Of(MergeKey(rds[i])))
      <4>1. k \in D /\ k \in Hidden(rds) /\ Like(k, i) /\ Mappings(rds[k]) = Mappings(rds[i])
        BY <1>4, <1>5, <3>2
      <4> HIDE DEF k
      <4>2. PICK j \in D : Like(k, j) /\ Mappings(rds[j]) # 0 /\ Mappings(rds[k]) = 0
        BY <1>6, <4>1
      <4> DEFINE m == Joined(MergeKey(rds[j]))
      <4>3. m \in Merged(rds) /\ Prints(m, rds[j]) /\ ~ m.hidden
        BY <2>2, <4>2
      <4>4. Prints(m, rds[i])
        <5> HIDE DEF m
        <5>1. Like(i, j) /\ Mappings(rds[i]) = 0
          BY <4>1, <4>2
        <5>2. /\ HashPlain(rds[j][1]) = HashPlain(rds[i][1])
              /\ FullHashes(Tail(rds[j])) = FullHashes(Tail(rds[i]))
          BY <1>3, <5>1
        <5> QED  BY <4>3, <5>2 DEF Prints
      <4>5. {rds[i][1].mapping} \ {NoTag} = {}
        BY <1>7, <4>1, <4>2
      <4> HIDE DEF m
      <4> QED  BY <4>3, <4>4, <4>5
    <3> QED  BY <3>1, <3>2
  <2>4. ASSUME NEW m \in Merged(rds), NEW t \in PrintedMaps(m)
        PROVE  \E i \in D : Prints(m, rds[i]) /\ rds[i][1].mapping = t
    <3>1. PICK key \in keys : m = Joined(key)
      BY <2>1
    <3>2. PICK i \in Of(key) : rds[i][1].mapping = t
      <4>1. m.maps = {rds[i][1].mapping : i \in Of(key)} \ {NoTag}
        BY <3>1
      <4>2. Of(key) # {}
        OBVIOUS
      <4> HIDE DEF Of
      <4> QED  BY <2>4, <4>1, <4>2 DEF PrintedMaps
    <3>3. key = MergeKey(rds[i]) /\ i \in D
      OBVIOUS
    <3> QED  BY <2>2, <3>1, <3>2, <3>3
  <2> QED  BY <2>3, <2>4 DEF LosesNothing, ToSet
<1> QED  BY <1>8, <1>9

=============================================================================
