-------------------------- MODULE RuleEngineProofs --------------------------
(***************************************************************************)
(* Proofs about RuleEngine, for every grammar over any tags, every window  *)
(* and every bound on passes and restarts: its types, and what safe rules  *)
(* and protection leave in a cohort. First come lemmas about its           *)
(* operators: least and greatest elements, the lists that keeping,         *)
(* removing and changing readings returns, and places in a window.         *)
(***************************************************************************)
EXTENDS RuleEngine, FiniteSetTheorems, SequenceTheorems, WellFoundedInduction, TLAPS

-----------------------------------------------------------------------------
(* Least and greatest elements.                                            *)

\* A nonempty set of natural numbers has a least element.
LEMMA LeastElement ==
  ASSUME NEW T, T \subseteq Nat, T # {}
  PROVE  Least(T) \in T /\ \A y \in T : Least(T) <= y
<1> DEFINE R == OpToRel(<, Nat)
<1>1. IsWellFoundedOn(R, Nat)
  BY NatLessThanWellFounded
<1>2. \A x, y \in Nat : x < y => <<x, y>> \in R
  BY DEF OpToRel
<1> HIDE DEF R
<1>3. PICK x \in T : \A y \in T : ~ (<<y, x>> \in R)
  BY <1>1, WFMin
<1>4. \A y \in T : x <= y
  <2> TAKE y \in T
  <2>1. x \in Nat /\ y \in Nat /\ ~ (y < x)
    BY <1>2, <1>3
  <2> QED BY <2>1
<1> QED BY <1>4 DEF Least

\* A list of integers has a greatest element: no prefix could be the first
\* without one.
LEMMA GreatestOfList ==
  ASSUME NEW n \in Nat, n >= 1, NEW f \in [1..n -> Int]
  PROVE  \E k \in 1..n : \A i \in 1..n : f[i] <= f[k]
<1> DEFINE T == {m \in 1..n : ~ \E k \in 1..m : \A i \in 1..m : f[i] <= f[k]}
<1>1. CASE T = {}
  <2>1. n \in 1..n
    OBVIOUS
  <2>2. n \notin T
    BY <1>1
  <2> QED BY <2>1, <2>2
<1>2. CASE T # {}
  <2>1. T \subseteq Nat
    OBVIOUS
  <2>2. PICK m \in T : \A y \in T : m <= y
    <3> HIDE DEF T
    <3>1. Least(T) \in T /\ \A y \in T : Least(T) <= y
      BY <1>2, <2>1, LeastElement
    <3> QED BY <3>1
  <2>3. m \in 1..n /\ ~ \E k \in 1..m : \A i \in 1..m : f[i] <= f[k]
    <3>1. m \in T
      BY <2>2
    <3> QED BY <3>1, Zenon
  <2>4. m # 1
    <3>1. ASSUME m = 1  PROVE \A i \in 1..m : f[i] <= f[1]
      BY <3>1
    <3> QED BY <2>3, <3>1
  <2>5. m - 1 \in 1..n /\ m - 1 \notin T
    <3>1. m - 1 \in 1..n /\ ~(m <= m - 1)
      BY <2>3, <2>4
    <3> QED BY <2>2, <3>1
  <2>6. PICK k \in 1..(m - 1) : \A i \in 1..(m - 1) : f[i] <= f[k]
    BY <2>5
  <2>7. k \in 1..n /\ k \in 1..m /\ m \in 1..m /\ f[k] \in Int /\ f[m] \in Int
    BY <2>3
  <2>8. ASSUME NEW i \in 1..m, i # m  PROVE f[i] <= f[k] /\ f[i] \in Int
    <3>1. i \in 1..(m - 1) /\ i \in 1..n
      BY <2>3, <2>8
    <3> QED BY <2>6, <3>1
  <2>9. CASE f[m] <= f[k]
    <3>1. \A i \in 1..m : f[i] <= f[k]
      BY <2>8, <2>9
    <3> QED BY <2>3, <2>7, <3>1
  <2>10. CASE f[k] <= f[m]
    <3>1. ASSUME NEW i \in 1..m  PROVE f[i] <= f[m]
      <4>1. CASE i = m
        BY <2>7, <4>1
      <4>2. CASE i # m
        <5> DEFINE x == f[i]  y == f[k]  z == f[m]
        <5>1. x <= y /\ x \in Int /\ y \in Int /\ z \in Int /\ y <= z
          BY <2>7, <2>8, <2>10, <4>2
        <5> HIDE DEF x, y, z
        <5>2. x <= z
          BY <5>1
        <5> QED BY <5>2 DEF x, z
      <4> QED BY <4>1, <4>2
    <3> QED BY <2>3, <2>7, <3>1
  <2> QED BY <2>7, <2>9, <2>10
<1> QED BY <1>1, <1>2

\* A nonempty finite set of integers has a greatest element.
LEMMA GreatestElement ==
  ASSUME NEW S, IsFiniteSet(S), S \subseteq Int, S # {}
  PROVE  Greatest(S) \in S /\ \A y \in S : Greatest(S) >= y
<1>1. PICK n \in Nat : ExistsSurjection(1..n, S)
  BY FS_NatSurjection
<1>2. PICK f \in Surjection(1..n, S) : TRUE
  BY <1>1 DEF ExistsSurjection
<1>3. f \in [1..n -> S] /\ \A y \in S : \E i \in 1..n : f[i] = y
  BY <1>2 DEF Surjection
<1>4. n >= 1 /\ f \in [1..n -> Int]
  <2>1. PICK y \in S : TRUE
    OBVIOUS
  <2>2. PICK i \in 1..n : f[i] = y
    BY <1>3, <2>1
  <2>3. n >= 1
    BY <2>2
  <2>4. \A j \in 1..n : f[j] \in Int
    BY <1>3
  <2> QED BY <1>3, <2>3, <2>4
<1>5. PICK k \in 1..n : \A i \in 1..n : f[i] <= f[k]
  BY <1>4, GreatestOfList
<1>6. ASSUME NEW y \in S  PROVE f[k] >= y
  <2>1. PICK i \in 1..n : f[i] = y
    BY <1>3
  <2>2. f[i] <= f[k] /\ f[i] \in Int /\ f[k] \in Int
    BY <1>4, <1>5
  <2> QED BY <2>1, <2>2
<1>7. f[k] \in S
  BY <1>3
<1> QED BY <1>6, <1>7 DEF Greatest

\* Induction on a set of numbers up to N.
LEMMA UpTo ==
  ASSUME NEW N \in Nat, NEW T, 0 \in T,
         \A n \in 0..(N - 1) : n \in T => n + 1 \in T
  PROVE  0..N \subseteq T
<1> SUFFICES ASSUME 0..N \ T # {}  PROVE FALSE
  OBVIOUS
<1> DEFINE U == 0..N \ T
<1>1. U \subseteq Nat /\ U # {}
  OBVIOUS
<1>2. PICK m \in U : \A y \in U : m <= y
  <2> HIDE DEF U
  <2>1. Least(U) \in U /\ \A y \in U : Least(U) <= y
    BY <1>1, LeastElement
  <2> QED BY <2>1
<1>3. m \in 1..N /\ m \notin T
  BY <1>2
<1>4. m - 1 \in 0..(N - 1) /\ (m - 1) + 1 = m
  BY <1>3
<1>5. m - 1 \in T
  <2>1. m - 1 \in 0..N /\ ~(m <= m - 1)
    BY <1>3
  <2> QED BY <1>2, <2>1
<1> QED BY <1>3, <1>4, <1>5

-----------------------------------------------------------------------------
(* What Keep and SwapOut return.                                           *)

\* g is the table Keep fills in, up to m.
Keeping(s, K, g, m) ==
    g = [n \in 0..m |-> IF n = 0 THEN <<>>
                        ELSE IF n \in K THEN Append(g[n - 1], s[n]) ELSE g[n - 1]]

\* There is such a table for every list.
LEMMA KeepingExists ==
  ASSUME NEW s, NEW K, NEW N \in Nat
  PROVE  \E g : Keeping(s, K, g, N)
<1> DEFINE T == {m \in 0..N : \E g : Keeping(s, K, g, m)}
<1>1. 0 \in T
  <2> DEFINE g == [n \in 0..0 |-> <<>>]
  <2>1. Keeping(s, K, g, 0)
    BY DEF Keeping
  <2> HIDE DEF g
  <2> QED BY <2>1
<1>2. ASSUME NEW m \in 0..(N - 1), m \in T  PROVE m + 1 \in T
  <2>1. PICK g : Keeping(s, K, g, m)
    BY <1>2
  <2> DEFINE last == IF m + 1 \in K THEN Append(g[m], s[m + 1]) ELSE g[m]
             h == [n \in 0..(m + 1) |-> IF n = m + 1 THEN last ELSE g[n]]
  <2>2. \A n \in 0..m : h[n] = g[n]
    OBVIOUS
  <2>3. h[m + 1] = last
    OBVIOUS
  <2>4. ASSUME NEW n \in 0..(m + 1)
        PROVE  h[n] = IF n = 0 THEN <<>>
                      ELSE IF n \in K THEN Append(h[n - 1], s[n]) ELSE h[n - 1]
    <3>1. CASE n = m + 1
      <4>1. n # 0 /\ n - 1 = m /\ m \in 0..m
        BY <3>1
      <4>2. h[n - 1] = g[m]
        BY <2>2, <4>1
      <4> HIDE DEF h
      <4> QED BY <2>3, <3>1, <4>1, <4>2
    <3>2. CASE n # m + 1
      <4>1. n \in 0..m
        BY <3>2
      <4>2. g[n] = IF n = 0 THEN <<>>
                   ELSE IF n \in K THEN Append(g[n - 1], s[n]) ELSE g[n - 1]
        BY <2>1, <4>1 DEF Keeping
      <4>3. n # 0 => n - 1 \in 0..m
        BY <4>1
      <4> HIDE DEF h
      <4> QED BY <2>2, <4>1, <4>2, <4>3
    <3> QED BY <3>1, <3>2
  <2>5. Keeping(s, K, h, m + 1)
    <3>1. h = [n \in 0..(m + 1) |-> h[n]]
      OBVIOUS
    <3> HIDE DEF h
    <3> QED BY <2>4, <3>1 DEF Keeping
  <2>6. m + 1 \in 0..N
    OBVIOUS
  <2> HIDE DEF h
  <2> QED BY <2>5, <2>6
<1>3. 0..N \subseteq T
  <2> HIDE DEF T
  <2> QED BY <1>1, <1>2, UpTo
<1> QED BY <1>3

\* Keep returns the last entry of the table.
LEMMA KeepUnfolds ==
  ASSUME NEW S, NEW s \in Seq(S), NEW K
  PROVE  \E g : Keeping(s, K, g, Len(s)) /\ Keep(s, K) = g[Len(s)]
<1> DEFINE at[n \in 0..Len(s)] ==
             IF n = 0 THEN <<>>
             ELSE IF n \in K THEN Append(at[n - 1], s[n]) ELSE at[n - 1]
<1>1. Len(s) \in Nat
  OBVIOUS
<1>2. \E g : Keeping(s, K, g, Len(s))
  BY <1>1, KeepingExists
<1>3. Keeping(s, K, at, Len(s))
  BY <1>2 DEF Keeping
<1>4. Keep(s, K) = at[Len(s)]
  BY DEF Keep
<1> HIDE DEF at
<1> QED BY <1>3, <1>4

\* t holds, of the first m elements of s, those at positions in K, and is as
\* long as m only if K has all of these.
KeptOf(t, s, K, m) ==
    /\ \A i \in 1..m : i \in K => \E k \in 1..Len(t) : t[k] = s[i]
    /\ \A k \in 1..Len(t) : \E i \in 1..m : i \in K /\ t[k] = s[i]
    /\ Len(t) <= m
    /\ Len(t) = m => 1..m \subseteq K

\* Keep returns a list of the elements at the positions kept, shorter than s
\* unless all of them are.
LEMMA KeepFacts ==
  ASSUME NEW S, NEW s \in Seq(S), NEW K
  PROVE  Keep(s, K) \in Seq(S) /\ KeptOf(Keep(s, K), s, K, Len(s))
<1>1. PICK g : Keeping(s, K, g, Len(s)) /\ Keep(s, K) = g[Len(s)]
  BY KeepUnfolds
<1> DEFINE N == Len(s)
<1>2. N \in Nat /\ \A i \in 1..N : s[i] \in S
  OBVIOUS
<1>3. \A n \in 0..N : g[n] = IF n = 0 THEN <<>>
                             ELSE IF n \in K THEN Append(g[n - 1], s[n]) ELSE g[n - 1]
  BY <1>1 DEF Keeping
<1> DEFINE T == {n \in 0..N : g[n] \in Seq(S) /\ KeptOf(g[n], s, K, n)}
<1>4. 0 \in T
  <2>1. g[0] = <<>>
    BY <1>2, <1>3
  <2>2. <<>> \in Seq(S) /\ Len(<<>>) = 0
    OBVIOUS
  <2>3. KeptOf(<<>>, s, K, 0)
    BY <2>2 DEF KeptOf
  <2>4. 0 \in 0..N
    BY <1>2
  <2> QED BY <2>1, <2>2, <2>3, <2>4
<1>5. ASSUME NEW n \in 0..(N - 1), n \in T  PROVE n + 1 \in T
  <2> DEFINE t == g[n]  u == g[n + 1]  x == s[n + 1]
  <2>1. t \in Seq(S) /\ KeptOf(t, s, K, n)
    BY <1>5
  <2>2. n + 1 \in 1..N /\ n + 1 \in 0..N /\ n + 1 # 0 /\ (n + 1) - 1 = n /\ n \in Nat
    BY <1>2
  <2>3. u = IF n + 1 \in K THEN Append(t, x) ELSE t
    BY <1>3, <2>2
  <2>4. x \in S /\ x = s[n + 1]
    BY <1>2, <2>2
  <2>5. \A i \in 1..(n + 1) : i \in 1..n \/ i = n + 1
    BY <2>2
  <2>6. \A i \in 1..n : i \in 1..(n + 1)
    BY <2>2
  <2> HIDE DEF t, u, x
  <2>7. u \in Seq(S) /\ KeptOf(u, s, K, n + 1)
    <3>1. CASE n + 1 \in K
      <4>1. /\ u \in Seq(S) /\ Len(u) = Len(t) + 1 /\ u[Len(t) + 1] = x
            /\ \A k \in 1..Len(t) : u[k] = t[k]
        BY <2>1, <2>3, <2>4, <3>1
      <4>2. Len(t) \in Nat /\ Len(t) <= n
        BY <2>1 DEF KeptOf
      <4>3. ASSUME NEW i \in 1..(n + 1), i \in K
            PROVE  \E k \in 1..Len(u) : u[k] = s[i]
        <5>1. CASE i = n + 1
          <6>1. Len(t) + 1 \in 1..Len(u)
            BY <4>1, <4>2
          <6> QED BY <2>4, <4>1, <5>1, <6>1
        <5>2. CASE i \in 1..n
          <6>1. PICK k \in 1..Len(t) : t[k] = s[i]
            BY <2>1, <4>3, <5>2 DEF KeptOf
          <6>2. k \in 1..Len(u)
            BY <4>1, <4>2
          <6> QED BY <4>1, <6>1, <6>2
        <5> QED BY <2>5, <5>1, <5>2
      <4>4. ASSUME NEW k \in 1..Len(u)
            PROVE  \E i \in 1..(n + 1) : i \in K /\ u[k] = s[i]
        <5>1. CASE k = Len(t) + 1
          <6>1. n + 1 \in 1..(n + 1)
            BY <2>2
          <6> QED BY <2>4, <3>1, <4>1, <5>1, <6>1
        <5>2. CASE k # Len(t) + 1
          <6>1. k \in 1..Len(t)
            BY <4>1, <4>2, <5>2
          <6>2. PICK i \in 1..n : i \in K /\ t[k] = s[i]
            BY <2>1, <6>1 DEF KeptOf
          <6> QED BY <2>6, <4>1, <6>1, <6>2
        <5> QED BY <5>1, <5>2
      <4>5. Len(u) <= n + 1 /\ (Len(u) = n + 1 => Len(t) = n)
        BY <2>2, <4>1, <4>2
      <4>6. Len(u) = n + 1 => 1..(n + 1) \subseteq K
        BY <2>1, <2>5, <3>1, <4>5 DEF KeptOf
      <4> QED BY <4>1, <4>3, <4>4, <4>5, <4>6 DEF KeptOf
    <3>2. CASE n + 1 \notin K
      <4>1. u = t /\ Len(t) \in Nat /\ Len(t) <= n
        BY <2>1, <2>3, <3>2 DEF KeptOf
      <4>2. \A i \in 1..(n + 1) : i \in K => \E k \in 1..Len(u) : u[k] = s[i]
        BY <2>1, <2>5, <3>2, <4>1 DEF KeptOf
      <4>3. \A k \in 1..Len(u) : \E i \in 1..(n + 1) : i \in K /\ u[k] = s[i]
        BY <2>1, <2>6, <4>1 DEF KeptOf
      <4>4. Len(u) <= n + 1 /\ Len(u) # n + 1
        BY <2>2, <4>1
      <4> QED BY <2>1, <4>1, <4>2, <4>3, <4>4 DEF KeptOf
    <3> QED BY <3>1, <3>2
  <2> QED BY <2>2, <2>7 DEF u
<1>6. 0..N \subseteq T
  <2> HIDE DEF T, N
  <2> QED BY <1>2, <1>4, <1>5, UpTo
<1>7. N \in T
  BY <1>2, <1>6
<1> QED BY <1>1, <1>7

\* g is the table SwapOut fills in, from behind, down to m.
Swapping(s, G, g, m) ==
    g = [n \in m..(Len(s) + 1) |->
            IF n = Len(s) + 1 THEN s
            ELSE IF n \in G
                   THEN SubSeq([g[n + 1] EXCEPT ![n] = g[n + 1][Len(g[n + 1])]],
                               1, Len(g[n + 1]) - 1)
                   ELSE g[n + 1]]

\* There is such a table for every list.
LEMMA SwappingExists ==
  ASSUME NEW S, NEW s \in Seq(S), NEW G
  PROVE  \E g : Swapping(s, G, g, 1)
<1> DEFINE N == Len(s)
           T == {d \in 0..N : \E g : Swapping(s, G, g, N + 1 - d)}
<1>0. N \in Nat
  OBVIOUS
<1>1. 0 \in T
  <2> DEFINE g == [n \in (N + 1)..(N + 1) |-> s]
  <2>1. \A n \in (N + 1)..(N + 1) : n = N + 1
    BY <1>0
  <2>2. Swapping(s, G, g, N + 1)
    BY <2>1 DEF Swapping
  <2>3. N + 1 - 0 = N + 1 /\ 0 \in 0..N
    BY <1>0
  <2> HIDE DEF g
  <2> QED BY <2>2, <2>3
<1>2. ASSUME NEW d \in 0..(N - 1), d \in T  PROVE d + 1 \in T
  <2> DEFINE m == N + 1 - d
  <2>1. PICK g : Swapping(s, G, g, m)
    BY <1>2
  <2>2. m \in 2..(N + 1) /\ N + 1 - (d + 1) = m - 1 /\ (m - 1) + 1 = m /\ m - 1 # N + 1
    BY <1>0
  <2> HIDE DEF m
  <2> DEFINE t == g[m]
             first == IF m - 1 \in G
                        THEN SubSeq([t EXCEPT ![m - 1] = t[Len(t)]], 1, Len(t) - 1)
                        ELSE t
             h == [n \in (m - 1)..(N + 1) |-> IF n = m - 1 THEN first ELSE g[n]]
  <2>3. \A n \in m..(N + 1) : h[n] = g[n]
    BY <1>0, <2>2
  <2>4. h[m - 1] = first
    BY SMTT(60), <1>0, <2>2
  <2>5. ASSUME NEW n \in (m - 1)..(N + 1)
        PROVE  h[n] = IF n = N + 1 THEN s
                      ELSE IF n \in G
                        THEN SubSeq([h[n + 1] EXCEPT ![n] = h[n + 1][Len(h[n + 1])]],
                                    1, Len(h[n + 1]) - 1)
                        ELSE h[n + 1]
    <3>1. CASE n = m - 1
      <4>1. n # N + 1 /\ n + 1 = m /\ m \in m..(N + 1)
        BY <2>2, <3>1
      <4>2. h[n + 1] = t
        BY <2>3, <4>1
      <4> HIDE DEF h, t
      <4> QED BY <2>4, <3>1, <4>1, <4>2
    <3>2. CASE n # m - 1
      <4>1. n \in m..(N + 1)
        BY <1>0, <2>2, <3>2
      <4>2. g[n] = IF n = N + 1 THEN s
                   ELSE IF n \in G
                     THEN SubSeq([g[n + 1] EXCEPT ![n] = g[n + 1][Len(g[n + 1])]],
                                 1, Len(g[n + 1]) - 1)
                     ELSE g[n + 1]
        BY <2>1, <4>1 DEF Swapping
      <4>3. n # N + 1 => n + 1 \in m..(N + 1)
        BY <1>0, <2>2, <4>1
      <4>4. h[n] = g[n] /\ (n # N + 1 => h[n + 1] = g[n + 1])
        BY <2>3, <4>1, <4>3
      <4> HIDE DEF h
      <4> QED BY <4>2, <4>4
    <3> QED BY <3>1, <3>2
  <2>6. Swapping(s, G, h, m - 1)
    <3>1. h = [n \in (m - 1)..(N + 1) |-> h[n]]
      OBVIOUS
    <3> HIDE DEF h
    <3> QED BY <2>5, <3>1 DEF Swapping
  <2>7. d + 1 \in 0..N
    BY <1>0
  <2> HIDE DEF h
  <2> QED BY <2>2, <2>6, <2>7
<1>3. N \in 0..N /\ N + 1 - N = 1
  BY <1>0
<1>4. 0..N \subseteq T
  <2> HIDE DEF T, N
  <2> QED BY <1>0, <1>1, <1>2, UpTo
<1> QED BY <1>3, <1>4

\* SwapOut returns the first entry of the table.
LEMMA SwapOutUnfolds ==
  ASSUME NEW S, NEW s \in Seq(S), NEW G
  PROVE  \E g : Swapping(s, G, g, 1) /\ SwapOut(s, G) = g[1]
<1> DEFINE from[n \in 1..(Len(s) + 1)] ==
             IF n = Len(s) + 1 THEN s
             ELSE LET t == from[n + 1] IN
                  IF n \in G THEN SubSeq([t EXCEPT ![n] = t[Len(t)]], 1, Len(t) - 1) ELSE t
<1>1. \E g : Swapping(s, G, g, 1)
  BY SwappingExists
<1>2. Swapping(s, G, from, 1)
  BY <1>1 DEF Swapping
<1>3. SwapOut(s, G) = from[1]
  BY DEF SwapOut
<1> HIDE DEF from
<1> QED BY <1>2, <1>3

\* t is s before position n, and from there on has the elements of s whose
\* positions are not in G; it is s if G has none of them.
SwappedOf(t, s, G, n) ==
    /\ Len(t) >= n - 1
    /\ \A i \in 1..(n - 1) : t[i] = s[i]
    /\ \A i \in n..Len(s) : i \notin G => \E k \in n..Len(t) : t[k] = s[i]
    /\ \A k \in n..Len(t) : \E i \in n..Len(s) : i \notin G /\ t[k] = s[i]
    /\ (\A i \in n..Len(s) : i \notin G) => t = s

\* One entry of the table from the next.
LEMMA SwapStep ==
  ASSUME NEW S, NEW s \in Seq(S), NEW G, NEW n \in 1..Len(s), NEW t \in Seq(S),
         SwappedOf(t, s, G, n + 1), n \in G
  PROVE  LET u == SubSeq([t EXCEPT ![n] = t[Len(t)]], 1, Len(t) - 1) IN
         u \in Seq(S) /\ SwappedOf(u, s, G, n)
<1> DEFINE N == Len(s)  L == Len(t)  x == t[Len(t)]
           v == [t EXCEPT ![n] = x]
           u == SubSeq(v, 1, L - 1)
<1>1. N \in Nat /\ n \in Nat /\ n >= 1 /\ n <= N /\ L \in Nat /\ L >= n
  <2>1. L \in Nat /\ L >= (n + 1) - 1
    BY DEF SwappedOf
  <2> QED BY <2>1
<1>2. x \in S
  <2>1. L \in 1..L
    BY <1>1
  <2> QED BY <2>1
<1>3. /\ v \in Seq(S) /\ Len(v) = L
      /\ \A j \in 1..L : v[j] = IF j = n THEN x ELSE t[j]
  <2>1. n \in 1..L
    BY <1>1
  <2> HIDE DEF x
  <2> QED BY <1>2, <2>1
<1>4. u \in Seq(S) /\ Len(u) = L - 1 /\ \A i \in 1..(L - 1) : u[i] = v[i]
  <2>1. \A i \in 1..(L - 1) : v[i] \in S
    <3> HIDE DEF v
    <3> QED BY <1>1, <1>3
  <2>2. L - 1 \in Nat
    BY <1>1
  <2> HIDE DEF v, L
  <2> QED BY <2>1, <2>2, SubSeqProperties
<1>5. \A i \in 1..(L - 1) : u[i] = IF i = n THEN x ELSE t[i]
  <2> HIDE DEF u, v, x
  <2> QED BY <1>1, <1>3, <1>4
<1>6. /\ \A i \in 1..n : t[i] = s[i]
      /\ \A i \in (n + 1)..N : i \notin G => \E k \in (n + 1)..L : t[k] = s[i]
      /\ \A k \in (n + 1)..L : \E i \in (n + 1)..N : i \notin G /\ t[k] = s[i]
  <2>1. (n + 1) - 1 = n
    OBVIOUS
  <2> QED BY <2>1 DEF SwappedOf
<1> HIDE DEF u, v
<1>7. \A i \in 1..(n - 1) : u[i] = s[i]
  <2> TAKE i \in 1..(n - 1)
  <2>1. i \in 1..(L - 1) /\ i \in 1..n /\ i # n
    BY <1>1
  <2> QED BY <1>5, <1>6, <2>1
<1>8. ASSUME NEW i \in n..N, i \notin G  PROVE \E k \in n..Len(u) : u[k] = s[i]
  <2>1. i \in (n + 1)..N
    BY <1>1, <1>8
  <2>2. PICK k \in (n + 1)..L : t[k] = s[i]
    BY <1>6, <1>8, <2>1
  <2>3. CASE k = L
    <3>1. n \in n..(L - 1) /\ n \in 1..(L - 1)
      BY <1>1, <2>3
    <3>2. u[n] = x
      BY <1>5, <3>1
    <3> QED BY <1>4, <2>2, <2>3, <3>1, <3>2
  <2>4. CASE k # L
    <3>1. k \in n..(L - 1) /\ k \in 1..(L - 1) /\ k # n
      BY <1>1, <2>4
    <3>2. u[k] = t[k]
      BY <1>5, <3>1
    <3> QED BY <1>4, <2>2, <3>1, <3>2
  <2> QED BY <2>3, <2>4
<1>9. ASSUME NEW k \in n..Len(u)  PROVE \E i \in n..N : i \notin G /\ u[k] = s[i]
  <2>1. k \in n..(L - 1) /\ k \in 1..(L - 1) /\ L \in (n + 1)..L
    BY <1>1, <1>4
  <2>2. \A i \in (n + 1)..N : i \in n..N
    BY <1>1
  <2>3. CASE k = n
    <3>1. u[k] = t[L]
      BY <1>5, <2>1, <2>3
    <3> QED BY <1>6, <2>1, <2>2, <3>1
  <2>4. CASE k # n
    <3>1. u[k] = t[k] /\ k \in (n + 1)..L
      BY <1>1, <1>5, <2>1, <2>4
    <3> QED BY <1>6, <2>2, <3>1
  <2> QED BY <2>3, <2>4
<1>10. Len(u) >= n - 1
  BY <1>1, <1>4
<1>11. n \in n..N
  BY <1>1
<1>12. SwappedOf(u, s, G, n)
  BY <1>7, <1>8, <1>9, <1>10, <1>11 DEF SwappedOf
<1> QED BY <1>4, <1>12 DEF u, v

\* SwapOut returns a list of the elements at the positions not in G.
LEMMA SwapOutFacts ==
  ASSUME NEW S, NEW s \in Seq(S), NEW G
  PROVE  SwapOut(s, G) \in Seq(S) /\ SwappedOf(SwapOut(s, G), s, G, 1)
<1>1. PICK g : Swapping(s, G, g, 1) /\ SwapOut(s, G) = g[1]
  BY SwapOutUnfolds
<1> DEFINE N == Len(s)
           T == {d \in 0..N : g[N + 1 - d] \in Seq(S) /\ SwappedOf(g[N + 1 - d], s, G, N + 1 - d)}
<1>2. N \in Nat
  OBVIOUS
<1>3. \A n \in 1..(N + 1) :
         g[n] = IF n = N + 1 THEN s
                ELSE IF n \in G
                  THEN SubSeq([g[n + 1] EXCEPT ![n] = g[n + 1][Len(g[n + 1])]],
                              1, Len(g[n + 1]) - 1)
                  ELSE g[n + 1]
  BY <1>1 DEF Swapping
<1>4. 0 \in T
  <2>1. N + 1 - 0 = N + 1 /\ N + 1 \in 1..(N + 1) /\ 0 \in 0..N
    BY <1>2
  <2>2. g[N + 1] = s
    BY <1>3, <2>1
  <2>3. SwappedOf(s, s, G, N + 1)
    <3>1. Len(s) >= (N + 1) - 1 /\ \A i : i \notin (N + 1)..N
      BY <1>2
    <3> QED BY <3>1 DEF SwappedOf
  <2> QED BY <2>1, <2>2, <2>3
<1>5. ASSUME NEW d \in 0..(N - 1), d \in T  PROVE d + 1 \in T
  <2> DEFINE n == N - d  t == g[n + 1]
  <2>1. n \in 1..N /\ n \in 1..(N + 1) /\ n # N + 1 /\ N + 1 - d = n + 1 /\ N + 1 - (d + 1) = n
        /\ d + 1 \in 0..N
    BY <1>2
  <2>2. t \in Seq(S) /\ SwappedOf(t, s, G, n + 1)
    BY <1>5, <2>1
  <2> HIDE DEF n, t
  <2>3. g[n] = IF n \in G THEN SubSeq([t EXCEPT ![n] = t[Len(t)]], 1, Len(t) - 1) ELSE t
    BY <1>3, <2>1 DEF t
  <2>4. g[n] \in Seq(S) /\ SwappedOf(g[n], s, G, n)
    <3>1. CASE n \in G
      BY <2>1, <2>2, <2>3, <3>1, SwapStep
    <3>2. CASE n \notin G
      <4>1. \A i \in n..N : i = n \/ i \in (n + 1)..N
        BY <1>2, <2>1
      <4>2. \A i \in (n + 1)..N : i \in n..N
        BY <1>2, <2>1
      <4>3. n \in Nat /\ n >= 1 /\ (n + 1) - 1 = n /\ Len(t) \in Nat /\ n \in n..N
        BY <2>1, <2>2
      <4>4. Len(t) >= n /\ \A i \in 1..n : t[i] = s[i]
        BY <2>2, <4>3 DEF SwappedOf
      <4>5. /\ n \in n..Len(t) /\ n \in 1..n
            /\ \A i \in 1..(n - 1) : i \in 1..n
            /\ \A k \in n..Len(t) : k = n \/ k \in (n + 1)..Len(t)
            /\ \A k \in (n + 1)..Len(t) : k \in n..Len(t)
            /\ Len(t) >= n - 1
        BY <4>3, <4>4
      <4>6. t[n] = s[n]
        BY <4>4, <4>5
      <4>7. ASSUME NEW i \in n..N, i \notin G  PROVE \E k \in n..Len(t) : t[k] = s[i]
        BY <2>2, <4>1, <4>5, <4>6, <4>7 DEF SwappedOf
      <4>8. ASSUME NEW k \in n..Len(t)  PROVE \E i \in n..N : i \notin G /\ t[k] = s[i]
        BY <2>2, <3>2, <4>2, <4>3, <4>5, <4>6 DEF SwappedOf
      <4>9. (\A i \in n..N : i \notin G) => t = s
        BY <2>2, <4>2 DEF SwappedOf
      <4>10. SwappedOf(t, s, G, n)
        BY <4>4, <4>5, <4>7, <4>8, <4>9 DEF SwappedOf
      <4> QED BY <2>2, <2>3, <3>2, <4>10
    <3> QED BY <3>1, <3>2
  <2> QED BY <2>1, <2>4
<1>6. 0..N \subseteq T
  <2> HIDE DEF T, N
  <2> QED BY <1>2, <1>4, <1>5, UpTo
<1>7. N \in T /\ N + 1 - N = 1
  BY <1>2, <1>6
<1> QED BY <1>1, <1>7

-----------------------------------------------------------------------------
(* Sections of a grammar and places in a window.                           *)

\* The last section is a number from -1 on.
LEMMA SectionsBounded ==
  ASSUME NEW g \in Grammars
  PROVE  /\ Greatest({g[j].section : j \in DOMAIN g} \cup {-1}) \in Int
         /\ Greatest({g[j].section : j \in DOMAIN g} \cup {-1}) >= -1
<1> DEFINE D == DOMAIN g  V == {g[j].section : j \in D}  f == [j \in D |-> g[j].section]
<1>1. IsFiniteSet(D) /\ \A j \in D : g[j].section \in Int
  BY GrammarsAssumption
<1>2. f \in Surjection(D, V)
  BY DEF Surjection
<1>3. V \subseteq Int
  BY <1>1
<1>4. IsFiniteSet(V)
  <2> HIDE DEF V, f, D
  <2> QED BY <1>1, <1>2, FS_Surjection
<1> DEFINE W == V \cup {-1}
<1>5. IsFiniteSet(W) /\ W \subseteq Int /\ W # {} /\ -1 \in W
  <2> HIDE DEF V
  <2> QED BY <1>3, <1>4, FS_AddElement
<1>6. Greatest(W) \in W /\ \A y \in W : Greatest(W) >= y
  <2> HIDE DEF W
  <2> QED BY <1>5, GreatestElement
<1> HIDE DEF W
<1>7. Greatest(W) \in Int /\ Greatest(W) >= -1
  BY <1>5, <1>6
<1> QED BY <1>7 DEF W

\* Every cohort stands at one place of the window only.
OnePlaceEach(o) == \A p, q \in DOMAIN o : o[p] = o[q] => p = q

\* The place of c in the window o.
PlaceIn(o, c) == CHOOSE p \in DOMAIN o : o[p] = c

\* The place of a cohort is the one it stands at.
LEMMA PlaceFacts ==
  ASSUME NEW o, OnePlaceEach(o)
  PROVE  /\ \A p \in DOMAIN o : PlaceIn(o, o[p]) = p
         /\ \A c \in {o[p] : p \in DOMAIN o} :
               PlaceIn(o, c) \in DOMAIN o /\ o[PlaceIn(o, c)] = c
<1>1. \A c \in {o[p] : p \in DOMAIN o} :
         PlaceIn(o, c) \in DOMAIN o /\ o[PlaceIn(o, c)] = c
  BY DEF PlaceIn
<1>2. \A p \in DOMAIN o : PlaceIn(o, o[p]) = p
  BY <1>1 DEF OnePlaceEach
<1> QED BY <1>1, <1>2

\* Changing the list of one cohort of a window and adding to its tags, in
\* terms of a window of lists rs with the tags sn.
Sound(rs, sn) ==
    /\ rs \in Seq(Seq(Reading)) /\ sn \in [DOMAIN rs -> SUBSET Tags]
    /\ \A c \in DOMAIN rs :
         /\ rs[c] # <<>>
         /\ \A i \in DOMAIN rs[c] : rs[c][i].tags \subseteq sn[c]

\* A list of readings a cohort with the tags T may have.
SoundList(rds, T) ==
    /\ rds \in Seq(Reading) /\ rds # <<>>
    /\ \A i \in DOMAIN rds : rds[i].tags \subseteq T

\* A window stays sound when a cohort gets a sound list, and perhaps more tags.
LEMMA SoundUpdate ==
  ASSUME NEW rs, NEW sn, Sound(rs, sn), NEW c \in DOMAIN rs,
         NEW T, T \subseteq Tags, sn[c] \subseteq T, NEW rds, SoundList(rds, T)
  PROVE  /\ Sound([rs EXCEPT ![c] = rds], [sn EXCEPT ![c] = T])
         /\ DOMAIN [rs EXCEPT ![c] = rds] = DOMAIN rs
         /\ Len([rs EXCEPT ![c] = rds]) = Len(rs)
<1> DEFINE us == [rs EXCEPT ![c] = rds]  un == [sn EXCEPT ![c] = T]
<1>1. rs \in Seq(Seq(Reading)) /\ rds \in Seq(Reading) /\ c \in 1..Len(rs)
  BY DEF Sound, SoundList
<1>2. us \in Seq(Seq(Reading)) /\ Len(us) = Len(rs) /\ DOMAIN us = DOMAIN rs
  BY <1>1
<1>3. sn \in [DOMAIN rs -> SUBSET Tags]
  BY DEF Sound
<1>4. un \in [DOMAIN us -> SUBSET Tags]
  BY <1>2, <1>3
<1>5. ASSUME NEW d \in DOMAIN us
      PROVE  us[d] # <<>> /\ \A i \in DOMAIN us[d] : us[d][i].tags \subseteq un[d]
  <2>1. d \in DOMAIN rs /\ d \in DOMAIN sn
    BY <1>2, <1>3
  <2>2. CASE d = c
    <3>1. us[d] = rds /\ un[d] = T
      BY <2>1, <2>2
    <3> QED BY <3>1 DEF SoundList
  <2>3. CASE d # c
    <3>1. us[d] = rs[d] /\ un[d] = sn[d]
      BY <2>1, <2>3
    <3> QED BY <2>1, <3>1 DEF Sound
  <2> QED BY <2>2, <2>3
<1> HIDE DEF us, un
<1>6. Sound(us, un)
  BY <1>2, <1>4, <1>5 DEF Sound
<1> QED BY <1>2, <1>6 DEF us, un

-----------------------------------------------------------------------------
(* The lists of readings a rule leaves behind.                             *)

\* Keeping some of the readings leaves a sound list.
LEMMA KeepSound ==
  ASSUME NEW rds, NEW T, SoundList(rds, T), NEW K, NEW i \in DOMAIN rds, i \in K
  PROVE  /\ SoundList(Keep(rds, K), T)
         /\ \E k \in DOMAIN Keep(rds, K) : Keep(rds, K)[k] = rds[i]
<1> DEFINE t == Keep(rds, K)
<1>1. rds \in Seq(Reading)
  BY DEF SoundList
<1>2. t \in Seq(Reading) /\ KeptOf(t, rds, K, Len(rds))
  BY <1>1, KeepFacts
<1> HIDE DEF t
<1>3. DOMAIN t = 1..Len(t) /\ DOMAIN rds = 1..Len(rds)
  BY <1>1, <1>2
<1>4. PICK k \in DOMAIN t : t[k] = rds[i]
  BY ZenonT(60), <1>2, <1>3 DEF KeptOf
<1>5. \A k2 \in DOMAIN t : \E i2 \in DOMAIN rds : t[k2] = rds[i2]
  BY <1>2, <1>3 DEF KeptOf
<1>6. t # <<>>
  BY <1>4
<1>7. \A k2 \in DOMAIN t : t[k2].tags \subseteq T
  BY <1>5 DEF SoundList
<1>8. SoundList(t, T)
  BY <1>2, <1>6, <1>7 DEF SoundList
<1> QED BY <1>4, <1>8 DEF t

\* Removing some, but not all, of the readings leaves a sound list.
LEMMA SwapOutSound ==
  ASSUME NEW rds, NEW T, SoundList(rds, T), NEW G, NEW i \in DOMAIN rds, i \notin G
  PROVE  /\ SoundList(SwapOut(rds, G), T)
         /\ \E k \in DOMAIN SwapOut(rds, G) : SwapOut(rds, G)[k] = rds[i]
<1> DEFINE t == SwapOut(rds, G)
<1>1. rds \in Seq(Reading)
  BY DEF SoundList
<1>2. t \in Seq(Reading) /\ SwappedOf(t, rds, G, 1)
  BY <1>1, SwapOutFacts
<1> HIDE DEF t
<1>3. DOMAIN t = 1..Len(t) /\ DOMAIN rds = 1..Len(rds)
  BY <1>1, <1>2
<1>4. PICK k \in DOMAIN t : t[k] = rds[i]
  BY <1>2, <1>3 DEF SwappedOf
<1>5. \A k2 \in DOMAIN t : \E i2 \in DOMAIN rds : t[k2] = rds[i2]
  BY <1>2, <1>3 DEF SwappedOf
<1>6. t # <<>>
  BY <1>4
<1>7. \A k2 \in DOMAIN t : t[k2].tags \subseteq T
  BY <1>5 DEF SoundList
<1>8. SoundList(t, T)
  BY <1>2, <1>6, <1>7 DEF SoundList
<1> QED BY <1>4, <1>8 DEF t

\* The reading that stands in for all readings makes a sound list.
LEMMA MagicSound ==
  ASSUME NEW T
  PROVE  SoundList(<<Magic>>, T)
<1>1. Magic \in Reading /\ Magic.tags = {}
  BY DEF Magic, Reading
<1>2. <<Magic>> \in Seq(Reading) /\ <<Magic>> # <<>> /\ DOMAIN <<Magic>> = {1} /\ <<Magic>>[1] = Magic
  BY <1>1
<1> HIDE DEF Magic
<1>3. \A i \in DOMAIN <<Magic>> : <<Magic>>[i].tags \subseteq T
  BY <1>1, <1>2
<1> QED BY <1>2, <1>3 DEF SoundList

\* A list of as many readings, with tags of T, is sound.
LEMMA ChangedSound ==
  ASSUME NEW rds, NEW S, SoundList(rds, S), NEW T, NEW f, f = [i \in DOMAIN rds |-> f[i]],
         \A i \in DOMAIN rds : f[i] \in Reading /\ f[i].tags \subseteq T
  PROVE  SoundList(f, T)
<1>1. rds \in Seq(Reading) /\ rds # <<>> /\ DOMAIN rds = 1..Len(rds) /\ Len(rds) \in Nat \ {0}
  BY DEF SoundList
<1>2. DOMAIN f = 1..Len(rds) /\ f \in [1..Len(rds) -> Reading]
  BY <1>1
<1>3. f \in Seq(Reading) /\ Len(f) = Len(rds) /\ f # <<>>
  <2>1. f \in Seq(Reading)
    BY <1>1, <1>2, SeqDef
  <2>2. Len(f) = Len(rds)
    BY <1>1, <1>2, <2>1
  <2> QED BY <1>1, <2>1, <2>2
<1> QED BY <1>1, <1>2, <1>3 DEF SoundList

\* ADD leaves a sound list, with the tag added to the cohort's.
LEMMA AfterAddSound ==
  ASSUME NEW j, NEW c, NEW S, SoundList(readings[c], S), S \subseteq Tags,
         grammar[j].new \in Tags
  PROVE  SoundList(AfterAdd(j, c), S \cup {grammar[j].new})
<1> DEFINE rds == readings[c]  t == grammar[j].new  f == AfterAdd(j, c)
<1>1. f = [i \in DOMAIN rds |-> f[i]]
  BY DEF AfterAdd
<1>2. ASSUME NEW i \in DOMAIN rds
      PROVE  f[i] \in Reading /\ f[i].tags \subseteq S \cup {t}
  <2>1. rds[i] \in Reading /\ rds[i].tags \subseteq S
    BY DEF SoundList
  <2>2. f[i] = IF i \in Good(j, c) THEN [rds[i] EXCEPT !.tags = @ \cup {t}] ELSE rds[i]
    BY DEF AfterAdd
  <2> HIDE DEF f, rds, t
  <2> QED BY <2>1, <2>2 DEF Reading, t
<1> HIDE DEF f, t
<1> QED BY <1>1, <1>2, ChangedSound DEF f, t

\* SUBSTITUTE leaves a sound list, with the tag added to the cohort's.
LEMMA AfterSubstituteSound ==
  ASSUME NEW j, NEW c, NEW S, SoundList(readings[c], S), S \subseteq Tags,
         grammar[j].new \in Tags
  PROVE  SoundList(AfterSubstitute(j, c), S \cup {grammar[j].new})
<1> DEFINE rds == readings[c]  t == grammar[j].new  f == AfterSubstitute(j, c)
<1>1. f = [i \in DOMAIN rds |-> f[i]]
  BY DEF AfterSubstitute
<1>2. ASSUME NEW i \in DOMAIN rds
      PROVE  f[i] \in Reading /\ f[i].tags \subseteq S \cup {t}
  <2>1. rds[i] \in Reading /\ rds[i].tags \subseteq S
    BY DEF SoundList
  <2>2. f[i] = IF i \in Substituted(j, c)
                 THEN [rds[i] EXCEPT !.tags = (@ \ {grammar[j].old}) \cup {t}]
                 ELSE rds[i]
    BY DEF AfterSubstitute
  <2> HIDE DEF f, rds, t
  <2> QED BY <2>1, <2>2 DEF Reading, t
<1> HIDE DEF f, t
<1> QED BY <1>1, <1>2, ChangedSound DEF f, t

\* PROTECT and UNPROTECT leave a sound list.
LEMMA AfterLockSound ==
  ASSUME NEW j, NEW c, NEW S, SoundList(readings[c], S), NEW lock \in BOOLEAN
  PROVE  SoundList(AfterLock(j, c, lock), S)
<1> DEFINE rds == readings[c]  f == AfterLock(j, c, lock)
<1>1. f = [i \in DOMAIN rds |-> f[i]]
  BY DEF AfterLock
<1>2. ASSUME NEW i \in DOMAIN rds
      PROVE  f[i] \in Reading /\ f[i].tags \subseteq S
  <2>1. rds[i] \in Reading /\ rds[i].tags \subseteq S
    BY DEF SoundList
  <2>2. f[i] = IF i \in Good(j, c) THEN [rds[i] EXCEPT !.locked = lock] ELSE rds[i]
    BY DEF AfterLock
  <2> HIDE DEF f, rds
  <2> QED BY <2>1, <2>2 DEF Reading
<1> HIDE DEF f
<1> QED BY <1>1, <1>2, ChangedSound DEF f

\* A list stays sound when every reading gets <<<.
LEMMA WithEndTagSound ==
  ASSUME NEW rds, NEW S, SoundList(rds, S), S \subseteq Tags
  PROVE  SoundList(WithEndTag(rds), S \cup {EndTag})
<1> DEFINE f == WithEndTag(rds)
<1>1. f = [i \in DOMAIN rds |-> f[i]]
  BY DEF WithEndTag
<1>2. ASSUME NEW i \in DOMAIN rds
      PROVE  f[i] \in Reading /\ f[i].tags \subseteq S \cup {EndTag}
  <2>1. rds[i] \in Reading /\ rds[i].tags \subseteq S /\ EndTag \in Tags
    BY WindowsAssumption DEF SoundList
  <2>2. f[i] = [rds[i] EXCEPT !.tags = @ \cup {EndTag}]
    BY DEF WithEndTag
  <2> HIDE DEF f
  <2> QED BY <2>1, <2>2 DEF Reading
<1> HIDE DEF f
<1> QED BY <1>1, <1>2, ChangedSound DEF f

-----------------------------------------------------------------------------
(* Types. The parts of the invariant are what the actions keep together.   *)

WindowT ==
    /\ Sound(readings, seen)
    /\ order \in Seq(DOMAIN readings) /\ OnePlaceEach(order) /\ Len(order) <= Len(readings)
    /\ flag \in BOOLEAN

IndexT ==
    /\ ruleCohorts \in [Rules -> SUBSET DOMAIN readings]
    /\ valid \subseteq Rules /\ active \subseteq valid
    /\ cache \subseteq Rules \X DOMAIN readings

\* Before the last sections the passes are counted up to the limit only.
RunT ==
    /\ section \in -2..LastSection /\ pass \in 0..(MaxPasses + 1)
    /\ section # -2 => pass <= MaxPasses
    /\ restarts \in 0..(MaxRestarts + 1)
    /\ pc # "done" => restarts <= MaxRestarts
    /\ did \in BOOLEAN

AnyType == RuleType \cup {""}

\* In the cohort loop type is that of the rule, or what IFF may become.
LoopT ==
    /\ pc \in {"begin", "enter", "try", "ended", "leave", "done"}
    /\ iter \in Rules /\ cursor \in 0..Len(readings)
    /\ type \in AnyType
    /\ stray \in BOOLEAN /\ ruleDid \in BOOLEAN
    /\ pc \in {"try", "ended"} =>
          \/ type = grammar[iter].type
          \/ grammar[iter].type = "IFF" /\ type \in {"SELECT", "REMOVE"}

TypeInv == grammar \in Grammars /\ WindowT /\ IndexT /\ RunT /\ LoopT

\* The parts make up the type invariant of the module.
LEMMA TypesImplied == TypeInv => TypeOK
<1> SUFFICES ASSUME TypeInv  PROVE TypeOK
  OBVIOUS
<1>1. type \in RuleType \cup {""}
  BY DEF TypeInv, LoopT, AnyType
<1> QED BY <1>1 DEF TypeInv, WindowT, IndexT, RunT, LoopT, TypeOK, Sound

\* What an assignment to a cohort's place relies on.
LEMMA CohortPlaces ==
  ASSUME TypeInv, NEW c \in Cohorts
  PROVE  /\ c \in DOMAIN readings /\ DOMAIN readings = 1..Len(readings) /\ Len(readings) \in Nat
         /\ Pos(c) \in 1..Len(order) /\ Pos(c) \in DOMAIN order /\ order[Pos(c)] = c
         /\ Len(order) \in Nat /\ Len(order) <= Len(readings)
         /\ Pos(c) \in 0..Len(readings)
<1>1. /\ order \in Seq(DOMAIN readings) /\ OnePlaceEach(order) /\ Len(order) <= Len(readings)
      /\ readings \in Seq(Seq(Reading))
  BY DEF TypeInv, WindowT, Sound
<1>2. Pos(c) \in DOMAIN order /\ order[Pos(c)] = c
  <2>1. Pos(c) = PlaceIn(order, c)
    BY DEF Pos, PlaceIn
  <2> QED BY <1>1, <2>1, PlaceFacts DEF Cohorts
<1>3. DOMAIN order = 1..Len(order) /\ Len(order) \in Nat /\ Len(readings) \in Nat
      /\ DOMAIN readings = 1..Len(readings)
  BY <1>1
<1>4. order[Pos(c)] \in DOMAIN readings
  BY <1>1, <1>2, <1>3
<1> QED BY <1>1, <1>2, <1>3, <1>4

\* The list of a cohort is sound.
LEMMA CohortSound ==
  ASSUME TypeInv, NEW c \in DOMAIN readings
  PROVE  SoundList(readings[c], seen[c]) /\ seen[c] \subseteq Tags
BY DEF TypeInv, WindowT, Sound, SoundList

\* What the grammar says of its rules.
LEMMA RuleFacts ==
  ASSUME TypeInv, NEW j \in Rules
  PROVE  /\ j \in Nat /\ grammar[j].type \in RuleType
         /\ grammar[j].target \in Tags /\ grammar[j].except \subseteq Tags
         /\ grammar[j].type \in {"ADD", "SUBSTITUTE"} => grammar[j].new \in Tags
         /\ grammar[j].section \in Int
BY GrammarsAssumption DEF TypeInv, Rules

\* The rules are a finite set of numbers with 0.
LEMMA RulesFinite ==
  ASSUME TypeInv
  PROVE  IsFiniteSet(Rules) /\ Rules \subseteq Nat /\ 0 \in Rules
BY GrammarsAssumption DEF TypeInv, Rules

\* The last section is a number.
LEMMA LastSectionType ==
  ASSUME TypeInv
  PROVE  LastSection \in Int /\ LastSection >= -1
BY SectionsBounded DEF TypeInv, LastSection, Rules

\* IFF becomes SELECT or REMOVE, other types stay.
LEMMA TypeForFacts ==
  ASSUME TypeInv, NEW j \in Rules, NEW c
  PROVE  /\ TypeFor(j, c) \in RuleType
         /\ \/ TypeFor(j, c) = grammar[j].type
            \/ grammar[j].type = "IFF" /\ TypeFor(j, c) \in {"SELECT", "REMOVE"}
BY RuleFacts DEF TypeFor, RuleType

\* The cohort the loop has come to is one of the window.
LEMMA NowFacts ==
  ASSUME TypeInv, NEW c, Now(c)
  PROVE  /\ pc = "try" /\ c \in Cohorts /\ iter \in Rules
         /\ c \in ruleCohorts[iter] /\ Pos(c) > cursor
BY DEF Now, Left, TypeInv, LoopT

\* A step that finishes a cohort keeps the types of the run and of the loop.
LEMMA DoneTypes ==
  ASSUME TypeInv, NEW c, Now(c), NEW b \in BOOLEAN, Done(c, b),
         Len(readings') = Len(readings)
  PROVE  grammar' \in Grammars /\ RunT' /\ LoopT'
<1>1. pc = "try" /\ c \in Cohorts /\ iter \in Rules
  BY NowFacts
<1>2. Pos(c) \in 0..Len(readings)
  BY <1>1, CohortPlaces
<1>3. /\ TypeFor(iter, c) \in RuleType
      /\ \/ TypeFor(iter, c) = grammar[iter].type
         \/ grammar[iter].type = "IFF" /\ TypeFor(iter, c) \in {"SELECT", "REMOVE"}
  BY <1>1, TypeForFacts
<1>4. /\ UNCHANGED <<grammar, section, pass, restarts, iter, stray, pc>>
      /\ cursor' = Pos(c) /\ type' = TypeFor(iter, c)
      /\ ruleDid' = (ruleDid \/ b) /\ did' = (did \/ b)
  BY DEF Done
<1>5. grammar' \in Grammars
  BY <1>4 DEF TypeInv
<1>6. RunT'
  <2>1. LastSection' = LastSection
    BY <1>4 DEF LastSection, Rules
  <2> QED BY <1>4, <2>1 DEF TypeInv, RunT
<1>7. LoopT'
  <2>1. type' \in AnyType
    BY <1>3, <1>4 DEF AnyType
  <2> QED BY <1>1, <1>2, <1>3, <1>4, <2>1 DEF TypeInv, LoopT, Rules
<1> QED BY <1>5, <1>6, <1>7

\* Nothing about the index changes but the failed attempts.
LEMMA IndexKept ==
  ASSUME TypeInv, UNCHANGED <<grammar, ruleCohorts, valid, active>>,
         DOMAIN readings' = DOMAIN readings, cache' \subseteq Rules \X DOMAIN readings
  PROVE  IndexT'
BY DEF TypeInv, IndexT, Rules

\* A failed attempt is one of a rule at a cohort.
LEMMA FailedTypes ==
  ASSUME TypeInv, NEW c \in DOMAIN readings, Failed(c) \/ Cleared
  PROVE  cache' \subseteq Rules \X DOMAIN readings
<1>1. cache \subseteq Rules \X DOMAIN readings /\ iter \in Rules
  BY DEF TypeInv, LoopT, IndexT
<1>2. <<iter, c>> \in Rules \X DOMAIN readings
  BY <1>1
<1>3. cache' = cache \cup {<<iter, c>>} \/ cache' = {}
  BY DEF Failed, Cleared
<1> QED BY <1>1, <1>2, <1>3

\* A tag that is added makes rules valid, and at most those active.
LEMMA TagAddedTypes ==
  ASSUME TypeInv, NEW c \in DOMAIN readings, NEW t, NEW cs,
         cs \in [Rules -> SUBSET DOMAIN readings], TagAdded(c, t, cs), grammar' = grammar,
         DOMAIN readings' = DOMAIN readings, cache' \subseteq Rules \X DOMAIN readings
  PROVE  IndexT'
<1> DEFINE touched == {j \in Rules : t \in IndexTags(j)}
<1>1. /\ ruleCohorts' = [j \in Rules |-> IF j \in touched THEN cs[j] \cup {c} ELSE cs[j]]
      /\ valid' = valid \cup touched
      /\ active' = active \cup ((touched \ valid) \cap RunSection(section))
  BY DEF TagAdded
<1>2. touched \subseteq Rules /\ valid \subseteq Rules /\ active \subseteq valid
  BY DEF TypeInv, IndexT
<1>3. Rules' = Rules
  BY DEF Rules
<1> HIDE DEF touched
<1>4. ruleCohorts' \in [Rules -> SUBSET DOMAIN readings]
  BY <1>1
<1>5. valid' \subseteq Rules /\ active' \subseteq valid'
  BY <1>1, <1>2
<1> QED BY <1>3, <1>4, <1>5 DEF IndexT

\* The window keeps its types when one cohort gets a sound list.
LEMMA ReadingsTypes ==
  ASSUME TypeInv, NEW c \in DOMAIN readings, NEW T, T \subseteq Tags, seen[c] \subseteq T,
         NEW rds, SoundList(rds, T), readings' = [readings EXCEPT ![c] = rds],
         seen' = [seen EXCEPT ![c] = T], UNCHANGED order, flag' \in BOOLEAN
  PROVE  WindowT' /\ DOMAIN readings' = DOMAIN readings /\ Len(readings') = Len(readings)
<1>1. Sound(readings, seen)
  BY DEF TypeInv, WindowT
<1> DEFINE us == [readings EXCEPT ![c] = rds]  un == [seen EXCEPT ![c] = T]
<1>a. Sound(us, un) /\ DOMAIN us = DOMAIN readings /\ Len(us) = Len(readings)
  <2>1. c \in DOMAIN readings /\ T \subseteq Tags /\ seen[c] \subseteq T /\ SoundList(rds, T)
    OBVIOUS
  <2> QED BY ONLY <1>1, <2>1, SoundUpdate
<1>b. readings' = us /\ seen' = un
  OBVIOUS
<1> HIDE DEF us, un
<1>2. /\ Sound(readings', seen')
      /\ DOMAIN readings' = DOMAIN readings /\ Len(readings') = Len(readings)
  BY <1>a, <1>b
<1>3. /\ order' \in Seq(DOMAIN readings') /\ OnePlaceEach(order)'
      /\ Len(order') <= Len(readings')
  BY <1>2 DEF TypeInv, WindowT, OnePlaceEach
<1>4. (Sound(readings, seen))'
  BY <1>2 DEF Sound
<1> QED BY <1>2, <1>3, <1>4 DEF WindowT

\* Likewise when the tags of the cohort stay.
LEMMA ReadingsOnlyTypes ==
  ASSUME TypeInv, NEW c \in DOMAIN readings, NEW rds, SoundList(rds, seen[c]),
         readings' = [readings EXCEPT ![c] = rds], UNCHANGED <<order, seen>>, flag' \in BOOLEAN
  PROVE  WindowT' /\ DOMAIN readings' = DOMAIN readings /\ Len(readings') = Len(readings)
<1>1. seen \in [DOMAIN readings -> SUBSET Tags]
  BY DEF TypeInv, WindowT, Sound
<1>2. seen' = [seen EXCEPT ![c] = seen[c]] /\ seen[c] \subseteq Tags /\ seen[c] \subseteq seen[c]
  BY <1>1
<1>3. UNCHANGED order
  OBVIOUS
<1> QED BY <1>2, <1>3, ReadingsTypes

\* The window keeps its types when it does not change.
LEMMA WindowKept ==
  ASSUME TypeInv, UNCHANGED window
  PROVE  WindowT' /\ DOMAIN readings' = DOMAIN readings /\ Len(readings') = Len(readings)
BY DEF TypeInv, WindowT, window, Sound, OnePlaceEach

\* Starting a rule keeps the types of the loop.
LEMMA StartTypes ==
  ASSUME TypeInv, NEW j \in Rules, StartRule(j), grammar' = grammar,
         Len(readings') = Len(readings), stray' \in BOOLEAN
  PROVE  LoopT'
<1>1. grammar[j].type \in RuleType
  BY RuleFacts
<1>2. iter' = j /\ cursor' = 0 /\ ruleDid' = FALSE /\ type' = grammar[j].type /\ pc' = "try"
  BY DEF StartRule
<1>3. 0 \in 0..Len(readings')
  BY DEF TypeInv, WindowT, Sound
<1>4. type' \in AnyType
  BY <1>1, <1>2 DEF AnyType
<1> QED BY <1>2, <1>3, <1>4 DEF LoopT, Rules

\* A step to a place of the run other than a rule keeps the types of the loop.
LEMMA LoopKept ==
  ASSUME TypeInv, UNCHANGED <<grammar, iter, stray, cursor, type, ruleDid>>,
         Len(readings') = Len(readings),
         pc' \in {"begin", "enter", "leave", "done"} \/ (pc' = "ended" /\ pc = "try")
  PROVE  LoopT'
BY DEF TypeInv, LoopT, Rules

\* The run keeps its types when its counters stay.
LEMMA RunKept ==
  ASSUME TypeInv, UNCHANGED <<grammar, section, pass, restarts>>, did' \in BOOLEAN,
         pc # "done"
  PROVE  RunT'
<1>1. LastSection' = LastSection
  BY DEF LastSection, Rules
<1> QED BY <1>1 DEF TypeInv, RunT

\* The initial states have the types.
LEMMA TypeInit == Init => TypeInv
<1> SUFFICES ASSUME Init  PROVE TypeInv
  OBVIOUS
<1>1. grammar \in Grammars
  BY DEF Init
<1>2. PICK w \in Windows :
         /\ order = [p \in DOMAIN w |-> p]
         /\ readings = [c \in DOMAIN w |->
                [i \in DOMAIN w[c] |-> [id |-> i, tags |-> w[c][i], locked |-> FALSE]]]
         /\ seen = [c \in DOMAIN w |-> UNION {w[c][i] : i \in DOMAIN w[c]}]
  BY DEF Init
<1>3. w \in Seq(Seq(SUBSET Tags)) /\ \A c \in DOMAIN w : w[c] # <<>>
  BY WindowsAssumption
<1>4. Len(w) \in Nat /\ DOMAIN w = 1..Len(w) /\ \A c \in 1..Len(w) : w[c] \in Seq(SUBSET Tags)
  BY <1>3
<1>5. ASSUME NEW c \in 1..Len(w)
      PROVE  /\ readings[c] \in Seq(Reading) /\ readings[c] # <<>>
             /\ DOMAIN readings[c] = DOMAIN w[c]
             /\ \A i \in DOMAIN w[c] : readings[c][i].tags = w[c][i]
  <2> DEFINE v == w[c]  rds == [i \in DOMAIN v |-> [id |-> i, tags |-> v[i], locked |-> FALSE]]
  <2>1. v \in Seq(SUBSET Tags) /\ v # <<>> /\ readings[c] = rds
    BY <1>2, <1>3, <1>4
  <2> HIDE DEF v
  <2>2. Len(v) \in Nat \ {0} /\ DOMAIN v = 1..Len(v) /\ \A i \in 1..Len(v) : v[i] \in SUBSET Tags
    BY <2>1
  <2>3. rds \in [1..Len(v) -> Reading]
    BY <2>2 DEF Reading
  <2>4. DOMAIN rds = DOMAIN v /\ \A i \in DOMAIN v : rds[i].tags = v[i]
    OBVIOUS
  <2> HIDE DEF rds
  <2>5. rds \in Seq(Reading)
    BY <2>2, <2>3, SeqDef
  <2>6. rds # <<>>
    BY <2>2, <2>4
  <2> QED BY <2>1, <2>4, <2>5, <2>6 DEF v
<1>6. DOMAIN readings = 1..Len(w) /\ DOMAIN order = 1..Len(w) /\ DOMAIN seen = 1..Len(w)
  BY <1>2, <1>4
<1>7. readings \in Seq(Seq(Reading))
  <2>1. readings \in [1..Len(w) -> Seq(Reading)]
    BY <1>2, <1>4, <1>5
  <2> QED BY <1>4, <2>1, SeqDef
<1>8. Len(readings) = Len(w)
  BY <1>4, <1>6, <1>7
<1>9. ASSUME NEW c \in 1..Len(w)
      PROVE  seen[c] = UNION {w[c][i] : i \in DOMAIN w[c]} /\ seen[c] \in SUBSET Tags
  <2>1. seen[c] = UNION {w[c][i] : i \in DOMAIN w[c]}
    BY <1>2, <1>4
  <2> DEFINE v == w[c]
  <2>2. \A i \in DOMAIN v : v[i] \in SUBSET Tags
    <3>1. v \in Seq(SUBSET Tags)
      BY <1>4
    <3> HIDE DEF v
    <3> QED BY <3>1
  <2> QED BY <2>1, <2>2
<1>10. seen \in [DOMAIN readings -> SUBSET Tags]
  BY <1>2, <1>4, <1>6, <1>9
<1>11. Sound(readings, seen)
  <2>1. ASSUME NEW c \in DOMAIN readings
        PROVE  readings[c] # <<>> /\ \A i \in DOMAIN readings[c] : readings[c][i].tags \subseteq seen[c]
    BY <1>5, <1>6, <1>9
  <2> QED BY <1>7, <1>10, <2>1 DEF Sound
<1>12. order \in Seq(DOMAIN readings) /\ Len(order) = Len(w)
  <2>1. order \in [1..Len(w) -> DOMAIN readings]
    <3>1. order = [p \in 1..Len(w) |-> p]
      BY <1>2, <1>4
    <3> QED BY <1>6, <3>1
  <2>2. order \in Seq(DOMAIN readings)
    BY <1>4, <2>1, SeqDef
  <2> QED BY <1>4, <1>6, <2>2
<1>13. OnePlaceEach(order)
  BY <1>2 DEF OnePlaceEach
<1>14. WindowT
  <2>1. flag \in BOOLEAN
    BY DEF Init
  <2> QED BY <1>4, <1>8, <1>11, <1>12, <1>13, <2>1 DEF WindowT
<1>15. 0 \in Rules
  BY <1>1, GrammarsAssumption DEF Rules
<1>16. LastSection \in Int /\ LastSection >= -1
  BY <1>1, SectionsBounded DEF LastSection, Rules
<1>17. IndexT
  BY DEF IndexT, Init, Rules
<1>0. /\ section = -1 /\ pass = 0 /\ restarts = 0
      /\ iter = 0 /\ cursor = 0 /\ pc = "begin"
  BY DEF Init
<1>t. type \in AnyType
  BY DEF Init, AnyType
<1>b. did \in BOOLEAN /\ stray \in BOOLEAN /\ ruleDid \in BOOLEAN
  BY DEF Init
<1>18. RunT
  <2>1. section \in -2..LastSection /\ pass \in 0..(MaxPasses + 1) /\ pass <= MaxPasses
    BY <1>0, <1>16, BoundsAssumption
  <2>2. restarts \in 0..(MaxRestarts + 1) /\ restarts <= MaxRestarts
    BY <1>0, BoundsAssumption
  <2> QED BY <1>b, <2>1, <2>2 DEF RunT
<1>19. LoopT
  <2>1. iter \in Rules /\ cursor \in 0..Len(readings)
    BY <1>0, <1>4, <1>8, <1>15
  <2>2. pc \notin {"try", "ended"}
        /\ pc \in {"begin", "enter", "try", "ended", "leave", "done"}
    BY <1>0
  <2> QED BY <1>b, <1>t, <2>1, <2>2 DEF LoopT
<1> QED BY <1>1, <1>14, <1>17, <1>18, <1>19 DEF TypeInv

\* Every step of the run that is not about a cohort keeps the types.
LEMMA TypeOfRunSteps ==
  ASSUME TypeInv, Begin \/ EnterSection \/ LeaveSection \/ NextRule \/ EndCohorts
  PROVE  TypeInv'
<1>1. /\ grammar \in Grammars /\ IsFiniteSet(Rules) /\ Rules \subseteq Nat
      /\ LastSection \in Int /\ LastSection >= -1
  BY RulesFinite, LastSectionType DEF TypeInv
<1>2. /\ valid \subseteq Rules /\ active \subseteq valid /\ cache \subseteq Rules \X DOMAIN readings
      /\ ruleCohorts \in [Rules -> SUBSET DOMAIN readings] /\ did \in BOOLEAN
      /\ stray \in BOOLEAN /\ iter \in Rules
  BY DEF TypeInv, IndexT, RunT, LoopT
<1>3. /\ section \in -2..LastSection /\ pass \in 0..(MaxPasses + 1)
      /\ section # -2 => pass <= MaxPasses
      /\ restarts \in 0..(MaxRestarts + 1)
      /\ pc # "done" => restarts <= MaxRestarts
  BY DEF TypeInv, RunT
<1>4. UNCHANGED grammar => grammar' \in Grammars /\ LastSection' = LastSection /\ Rules' = Rules
  BY <1>1 DEF LastSection, Rules
<1>5. UNCHANGED window => WindowT' /\ DOMAIN readings' = DOMAIN readings /\ Len(readings') = Len(readings)
  BY WindowKept
<1>6. CASE Begin
  <2>1. UNCHANGED grammar /\ UNCHANGED window /\ UNCHANGED <<iter, stray, cursor, type, ruleDid, did>>
    BY <1>6 DEF Begin
  <2>2. IndexT'
    <3>1. /\ ruleCohorts' = [j \in Rules |-> {c \in Cohorts : MayMatch(j, c)}]
          /\ valid' = {j \in Rules : \E c \in Cohorts : MayMatch(j, c)}
          /\ active' = {} /\ cache' = {}
      BY <1>6 DEF Begin, IndexWindow
    <3>2. Cohorts \subseteq DOMAIN readings
      BY CohortPlaces
    <3>3. ruleCohorts' \in [Rules -> SUBSET DOMAIN readings] /\ valid' \subseteq Rules
      BY <3>1, <3>2
    <3> QED BY <1>4, <1>5, <2>1, <3>1, <3>3 DEF IndexT
  <2>3. /\ pc = "begin" /\ restarts' = restarts + 1 /\ section' = -1 /\ pass' = 0
        /\ pc' = IF restarts' > MaxRestarts THEN "done" ELSE "enter"
    BY <1>6 DEF Begin
  <2>4. RunT'
    <3>1. section' \in -2..LastSection' /\ pass' \in 0..(MaxPasses + 1) /\ pass' <= MaxPasses
      BY <1>1, <1>4, <2>1, <2>3, BoundsAssumption
    <3>2. restarts' \in 0..(MaxRestarts + 1) /\ (pc' # "done" => restarts' <= MaxRestarts)
      BY <1>3, <2>3, BoundsAssumption
    <3> QED BY <1>2, <2>1, <3>1, <3>2 DEF RunT
  <2>5. LoopT'
    BY <1>5, <2>1, <2>3, LoopKept
  <2> QED BY <1>4, <1>5, <2>1, <2>2, <2>4, <2>5 DEF TypeInv
<1>7. CASE EnterSection
  <2>1. /\ pc = "enter" /\ UNCHANGED grammar /\ UNCHANGED window
        /\ UNCHANGED <<ruleCohorts, valid, cache>> /\ UNCHANGED <<section, pass, restarts>>
        /\ active' = valid \cap RunSection(section) /\ did' = FALSE /\ stray' = FALSE
    BY <1>7 DEF EnterSection
  <2>2. IndexT'
    BY <1>2, <1>4, <1>5, <2>1 DEF IndexT
  <2>3. RunT'
    BY <2>1, RunKept
  <2>4. LoopT'
    <3>1. CASE active' # {} /\ StartRule(Least(active'))
      <4> DEFINE A == active'
      <4>1. A \subseteq Rules /\ A # {}
        BY <1>2, <2>1, <3>1
      <4> HIDE DEF A
      <4>2. Least(A) \in Rules
        BY <1>1, <4>1, LeastElement
      <4> QED BY <1>5, <2>1, <3>1, <4>2, StartTypes DEF A
    <3>2. CASE pc' = "leave" /\ UNCHANGED <<iter, cursor, ruleDid, type>>
      BY <1>5, <2>1, <3>2 DEF TypeInv, LoopT, Rules
    <3> QED BY <1>7, <3>1, <3>2 DEF EnterSection
  <2> QED BY <1>4, <1>5, <2>1, <2>2, <2>3, <2>4 DEF TypeInv
<1>8. CASE LeaveSection
  <2>1. /\ pc = "leave" /\ UNCHANGED grammar /\ UNCHANGED window /\ UNCHANGED index
        /\ UNCHANGED <<restarts, did>> /\ UNCHANGED <<iter, stray, cursor, type, ruleDid>>
        /\ UNCHANGED cache
    BY <1>8 DEF LeaveSection
  <2>2. IndexT'
    BY <1>2, <1>4, <1>5, <2>1 DEF IndexT, index
  <2>3. \/ pc' = "done" /\ UNCHANGED <<section, pass>>
        \/ /\ section' = IF LastSection >= 0 THEN 0 ELSE -2
           /\ pass' = 0 /\ pc' = "enter"
        \/ /\ section >= 0
           /\ section' = IF section < LastSection THEN section + 1 ELSE -2
           /\ pass' = 1 /\ pc' = "enter"
        \/ /\ section' = IF pass >= MaxPasses THEN -2 ELSE section
           /\ section # -2
           /\ pass' = pass + 1 /\ pc' = "enter"
    BY <1>8 DEF LeaveSection
  <2>4. /\ section' \in -2..LastSection /\ pass' \in 0..(MaxPasses + 1)
        /\ section' # -2 => pass' <= MaxPasses
    BY <1>1, <1>3, <2>3, BoundsAssumption
  <2>5. RunT'
    BY <1>2, <1>3, <1>4, <2>1, <2>4 DEF RunT
  <2>6. LoopT'
    BY <1>5, <2>1, <2>3, LoopKept
  <2> QED BY <1>4, <1>5, <2>1, <2>2, <2>5, <2>6 DEF TypeInv
<1>9. CASE NextRule
  <2>1. /\ pc = "ended" /\ UNCHANGED grammar /\ UNCHANGED window /\ UNCHANGED index
        /\ UNCHANGED <<section, pass, restarts, did>> /\ UNCHANGED stray
        /\ cache' = {} \/ cache' = cache
    BY <1>9 DEF NextRule, run
  <2>2. IndexT'
    BY <1>2, <1>4, <1>5, <2>1 DEF IndexT, index
  <2>3. RunT'
    BY <1>2, <2>1, RunKept
  <2> DEFINE after == {j \in active : j > iter}
  <2>4. LoopT'
    <3>1. CASE StartRule(iter)
      BY <1>2, <1>5, <2>1, <3>1, StartTypes
    <3>2. CASE after # {} /\ StartRule(Least(after))
      <4>1. after \subseteq Rules
        BY <1>2
      <4> HIDE DEF after
      <4>2. Least(after) \in Rules
        BY <1>1, <3>2, <4>1, LeastElement
      <4> QED BY <1>2, <1>5, <2>1, <3>2, <4>2, StartTypes
    <3>3. CASE pc' = "leave" /\ UNCHANGED <<iter, cursor, ruleDid, type>>
      BY <1>5, <2>1, <3>3, LoopKept
    <3> QED BY <1>9, <3>1, <3>2, <3>3 DEF NextRule
  <2> QED BY <1>4, <1>5, <2>1, <2>2, <2>3, <2>4 DEF TypeInv
<1>10. CASE EndCohorts
  <2>1. /\ pc = "try" /\ pc' = "ended" /\ UNCHANGED grammar /\ UNCHANGED window /\ UNCHANGED index
        /\ UNCHANGED <<section, pass, restarts, did>>
        /\ UNCHANGED <<iter, stray, cursor, type, ruleDid>> /\ UNCHANGED cache
    BY <1>10 DEF EndCohorts, run
  <2>2. IndexT'
    BY <1>2, <1>4, <1>5, <2>1 DEF IndexT, index
  <2>3. RunT'
    BY <1>2, <2>1, RunKept
  <2>4. LoopT'
    BY <1>5, <2>1, LoopKept
  <2> QED BY <1>4, <1>5, <2>1, <2>2, <2>3, <2>4 DEF TypeInv
<1> QED BY <1>6, <1>7, <1>8, <1>9, <1>10

\* Without takes one place out and leaves the others in their order.
LEMMA WithoutFacts ==
  ASSUME TypeInv, NEW p \in 1..Len(order)
  PROVE  /\ Without(p) \in Seq(DOMAIN readings) /\ Len(Without(p)) = Len(order) - 1
         /\ DOMAIN Without(p) = 1..(Len(order) - 1)
         /\ OnePlaceEach(Without(p))
         /\ \A q \in 1..(Len(order) - 1) : Without(p)[q] = IF q < p THEN order[q] ELSE order[q + 1]
<1> DEFINE N == Len(order)  o == Without(p)
<1>1. /\ N \in Nat /\ N - 1 \in Nat /\ DOMAIN order = 1..N /\ \A q \in 1..N : order[q] \in DOMAIN readings
      /\ \A q, r \in 1..N : order[q] = order[r] => q = r
  BY DEF TypeInv, WindowT, OnePlaceEach
<1>2. o = [q \in 1..(N - 1) |-> IF q < p THEN order[q] ELSE order[q + 1]]
  BY DEF Without
<1> HIDE DEF o
<1>3. \A q \in 1..(N - 1) : q \in 1..N /\ q + 1 \in 1..N
  BY <1>1
<1> HIDE DEF N
<1>4. o \in [1..(N - 1) -> DOMAIN readings]
  BY <1>1, <1>2, <1>3
<1>5. o \in Seq(DOMAIN readings)
  BY <1>1, <1>4, SeqDef
<1>6. DOMAIN o = 1..(N - 1) /\ Len(o) = N - 1
  BY <1>1, <1>4, <1>5
<1>7. ASSUME NEW q \in 1..(N - 1), NEW r \in 1..(N - 1), o[q] = o[r]  PROVE q = r
  <2> DEFINE a == IF q < p THEN q ELSE q + 1
             b == IF r < p THEN r ELSE r + 1
  <2>1. a \in 1..N /\ b \in 1..N
    BY <1>3
  <2>2. order[a] = order[b]
    BY <1>2, <1>7
  <2>3. a = b
    BY <1>1, <2>1, <2>2
  <2>4. q \in Nat /\ r \in Nat /\ p \in Nat
    BY <1>1 DEF N
  <2> QED BY <2>3, <2>4
<1>8. OnePlaceEach(o)
  BY <1>6, <1>7 DEF OnePlaceEach
<1> QED BY <1>2, <1>5, <1>6, <1>8 DEF o, N

\* Cutting the window off after a place leaves the places up to it.
LEMMA CutOffFacts ==
  ASSUME TypeInv, NEW p \in 1..Len(order)
  PROVE  /\ SubSeq(order, 1, p) \in Seq(DOMAIN readings) /\ Len(SubSeq(order, 1, p)) = p
         /\ DOMAIN SubSeq(order, 1, p) = 1..p
         /\ OnePlaceEach(SubSeq(order, 1, p))
         /\ \A q \in 1..p : SubSeq(order, 1, p)[q] = order[q]
<1> DEFINE o == SubSeq(order, 1, p)
<1>1. /\ order \in Seq(DOMAIN readings) /\ Len(order) \in Nat /\ p \in Nat /\ p <= Len(order)
      /\ DOMAIN order = 1..Len(order)
  BY DEF TypeInv, WindowT
<1>2. o \in Seq(DOMAIN readings) /\ Len(o) = p /\ \A q \in 1..p : o[q] = order[q]
  BY <1>1
<1>3. DOMAIN o = 1..p /\ \A q \in 1..p : q \in DOMAIN order
  BY <1>1, <1>2
<1>4. OnePlaceEach(order)
  BY DEF TypeInv, WindowT
<1> HIDE DEF o
<1>5. OnePlaceEach(o)
  BY <1>2, <1>3, <1>4 DEF OnePlaceEach
<1> QED BY <1>2, <1>3, <1>5 DEF o

\* The readings SELECT leaves are a sound list.
LEMMA AfterSelectSound ==
  ASSUME TypeInv, NEW j \in Rules, NEW c \in DOMAIN readings,
         ~Misses(j, c), TypeFor(j, c) = "SELECT"
  PROVE  SoundList(AfterSelect(j, c), seen[c])
<1>1. SoundList(readings[c], seen[c])
  BY CohortSound
<1>2. PICK i \in DOMAIN readings[c] : i \in Good(j, c) \cup Held(j, c)
  <2>1. CASE grammar[j].type = "IFF"
    <3>1. Good(j, c) # {}
      BY <2>1 DEF TypeFor
    <3> QED BY <3>1 DEF Good, Targets
  <2>2. CASE grammar[j].type # "IFF"
    <3>1. grammar[j].type = "SELECT" /\ Active(j, c) # {}
      BY <2>2 DEF TypeFor, Misses
    <3> QED BY <3>1 DEF Active, Good, Targets, Held, Immune
  <2> QED BY <2>1, <2>2
<1> QED BY <1>1, <1>2, KeepSound DEF AfterSelect

\* The readings REMOVE leaves are a sound list.
LEMMA AfterRemoveSound ==
  ASSUME TypeInv, NEW j \in Rules, NEW c \in DOMAIN readings
  PROVE  SoundList(AfterRemove(j, c), seen[c])
<1> DEFINE G == Removed(j, c)
<1>1. SoundList(readings[c], seen[c])
  BY CohortSound
<1>2. CASE G = DOMAIN readings[c]
  BY <1>1, <1>2, MagicSound DEF AfterRemove
<1>3. CASE G # DOMAIN readings[c]
  <2>1. G \subseteq DOMAIN readings[c]
    BY DEF Removed, Good, Targets
  <2>2. PICK i \in DOMAIN readings[c] : i \notin G
    BY <1>3, <2>1
  <2>3. AfterRemove(j, c) = SwapOut(readings[c], G)
    BY <1>3 DEF AfterRemove
  <2> HIDE DEF G
  <2> QED BY <1>1, <2>2, <2>3, SwapOutSound
<1> QED BY <1>2, <1>3

\* A cohort is done and the window and its index stay, up to what failed.
LEMMA TypeOfIdleSteps ==
  ASSUME TypeInv, NEW c, Skip(c) \/ NothingToDo(c) \/ OnlyProtected(c) \/ Miss(c)
  PROVE  TypeInv'
<1>1. Now(c)
  BY DEF Skip, NothingToDo, OnlyProtected, Miss, Acts, Tried
<1>2. pc = "try" /\ c \in Cohorts /\ iter \in Rules /\ c \in DOMAIN readings /\ Pos(c) \in 0..Len(readings)
  BY <1>1, NowFacts, CohortPlaces
<1>3. UNCHANGED window
  BY DEF Skip, NothingToDo, OnlyProtected, Miss
<1>4. WindowT' /\ DOMAIN readings' = DOMAIN readings /\ Len(readings') = Len(readings)
  BY <1>3, WindowKept
<1>5. CASE Skip(c)
  <2>1. /\ cursor' = Pos(c) /\ UNCHANGED grammar /\ UNCHANGED index /\ UNCHANGED cache
        /\ UNCHANGED <<section, pass, restarts, did>> /\ UNCHANGED <<iter, stray, type, ruleDid, pc>>
    BY <1>5 DEF Skip, run
  <2>2. grammar' \in Grammars
    BY <2>1 DEF TypeInv
  <2>3. IndexT'
    BY <1>4, <2>1 DEF TypeInv, IndexT, index, Rules
  <2>4. RunT'
    <3>1. did' \in BOOLEAN
      BY <2>1 DEF TypeInv, RunT
    <3> QED BY <1>2, <2>1, <3>1, RunKept
  <2>5. LoopT'
    BY <1>2, <1>4, <2>1 DEF TypeInv, LoopT, Rules
  <2> QED BY <1>4, <2>2, <2>3, <2>4, <2>5 DEF TypeInv
<1>6. CASE NothingToDo(c) \/ OnlyProtected(c) \/ Miss(c)
  <2>1. Done(c, FALSE) /\ Failed(c) /\ UNCHANGED grammar
    BY <1>6 DEF NothingToDo, OnlyProtected, Miss, Done
  <2>2. grammar' \in Grammars /\ RunT' /\ LoopT'
    BY <1>1, <1>4, <2>1, DoneTypes
  <2>3. cache' \subseteq Rules \X DOMAIN readings
    BY <1>2, <2>1, FailedTypes
  <2>4. /\ ruleCohorts \in [Rules -> SUBSET DOMAIN readings]
        /\ valid \subseteq Rules /\ active \subseteq valid
    BY DEF TypeInv, IndexT
  <2>5. /\ valid' = valid /\ active' = active
        /\ ruleCohorts' = ruleCohorts \/ ruleCohorts' = [ruleCohorts EXCEPT ![iter] = @ \ {c}]
    BY <1>6 DEF NothingToDo, OnlyProtected, Miss, index
  <2>6. ruleCohorts' \in [Rules -> SUBSET DOMAIN readings]
    BY <1>2, <2>4, <2>5
  <2>7. IndexT'
    BY <1>4, <2>1, <2>3, <2>4, <2>5, <2>6 DEF IndexT, Rules
  <2> QED BY <1>4, <2>2, <2>7 DEF TypeInv
<1> QED BY <1>5, <1>6

\* The rules that change readings of the cohort alone.
LEMMA TypeOfReadingSteps ==
  ASSUME TypeInv, NEW c,
         Select(c) \/ Remove(c) \/ Add(c) \/ Substitute(c) \/ Protect(c) \/ SetVariable(c)
  PROVE  TypeInv'
<1>1. Now(c) /\ ~Misses(iter, c)
  BY DEF Select, Remove, Add, Substitute, Protect, SetVariable, Acts, Tried
<1>2. pc = "try" /\ c \in Cohorts /\ iter \in Rules /\ c \in DOMAIN readings
  BY <1>1, NowFacts, CohortPlaces
<1>3. SoundList(readings[c], seen[c]) /\ seen[c] \subseteq Tags /\ flag \in BOOLEAN
  BY <1>2, CohortSound DEF TypeInv, WindowT
<1>4. /\ ruleCohorts \in [Rules -> SUBSET DOMAIN readings]
      /\ valid \subseteq Rules /\ active \subseteq valid
  BY DEF TypeInv, IndexT
<1>5. \/ type = grammar[iter].type
      \/ grammar[iter].type = "IFF" /\ type \in {"SELECT", "REMOVE"}
  BY <1>2 DEF TypeInv, LoopT
<1>6. ASSUME NEW rds, SetReadings(c, rds)
      PROVE  /\ readings' = [readings EXCEPT ![c] = rds] /\ UNCHANGED grammar
             /\ Len(readings') = Len(readings) => grammar' \in Grammars /\ RunT' /\ LoopT'
  <2>1. Done(c, rds # readings[c]) /\ (rds # readings[c]) \in BOOLEAN
    BY <1>6 DEF SetReadings
  <2>2. Len(readings') = Len(readings) => grammar' \in Grammars /\ RunT' /\ LoopT'
    BY <1>1, <2>1, DoneTypes
  <2> QED BY <1>6, <2>1, <2>2 DEF SetReadings, Done
<1>7. Failed(c) \/ Cleared => cache' \subseteq Rules \X DOMAIN readings
  BY <1>2, FailedTypes
<1>8. ASSUME NEW rds, SetReadings(c, rds), SoundList(rds, seen[c]), Failed(c) \/ Cleared,
             UNCHANGED <<order, seen, flag>>, UNCHANGED index
      PROVE  TypeInv'
  <2>1. readings' = [readings EXCEPT ![c] = rds] /\ UNCHANGED grammar
    BY <1>6, <1>8
  <2>2. WindowT' /\ DOMAIN readings' = DOMAIN readings /\ Len(readings') = Len(readings)
    <3>1. UNCHANGED <<order, seen>> /\ flag' \in BOOLEAN
      BY <1>3, <1>8
    <3> QED BY ONLY TypeInv, <1>2, <1>8, <2>1, <3>1, ReadingsOnlyTypes
  <2>3. IndexT'
    BY <1>4, <1>7, <1>8, <2>1, <2>2 DEF IndexT, index, Rules
  <2> QED BY <1>6, <1>8, <2>2, <2>3 DEF TypeInv
<1>9. ASSUME NEW rds, SetReadings(c, rds), NEW t, t \in Tags, SoundList(rds, seen[c] \cup {t}),
             Cleared, TagAdded(c, t, ruleCohorts), UNCHANGED <<order, flag>>
      PROVE  TypeInv'
  <2>1. readings' = [readings EXCEPT ![c] = rds] /\ UNCHANGED grammar
    BY <1>6, <1>9
  <2>2. seen' = [seen EXCEPT ![c] = seen[c] \cup {t}]
    BY <1>9 DEF TagAdded
  <2>3. WindowT' /\ DOMAIN readings' = DOMAIN readings /\ Len(readings') = Len(readings)
    <3>1. /\ UNCHANGED order /\ flag' \in BOOLEAN
          /\ seen[c] \cup {t} \subseteq Tags /\ seen[c] \subseteq seen[c] \cup {t}
      BY <1>3, <1>9
    <3> DEFINE T == seen[c] \cup {t}
    <3>2. T \subseteq Tags /\ seen[c] \subseteq T /\ SoundList(rds, T) /\ seen' = [seen EXCEPT ![c] = T]
      BY <1>9, <2>2, <3>1
    <3> HIDE DEF T
    <3> QED BY ONLY TypeInv, <1>2, <2>1, <3>1, <3>2, ReadingsTypes
  <2>4. IndexT'
    <3>1. cache' \subseteq Rules \X DOMAIN readings /\ grammar' = grammar
      BY <1>7, <1>9, <2>1
    <3> QED BY ONLY TypeInv, <1>2, <1>4, <1>9, <2>3, <3>1, TagAddedTypes
  <2> QED BY <1>6, <1>9, <2>3, <2>4 DEF TypeInv
<1>10. CASE Select(c)
  <2>1. /\ SetReadings(c, AfterSelect(iter, c)) /\ Cleared
        /\ UNCHANGED <<order, seen, flag>> /\ UNCHANGED index
        /\ TypeFor(iter, c) = "SELECT"
    BY <1>10 DEF Select
  <2>2. SoundList(AfterSelect(iter, c), seen[c])
    BY <1>1, <1>2, <2>1, AfterSelectSound
  <2> QED BY <1>8, <2>1, <2>2
<1>11. CASE Remove(c)
  <2>1. /\ SetReadings(c, AfterRemove(iter, c)) /\ (Failed(c) \/ Cleared)
        /\ UNCHANGED <<order, seen, flag>> /\ UNCHANGED index
    BY <1>11 DEF Remove
  <2>2. SoundList(AfterRemove(iter, c), seen[c])
    BY <1>2, AfterRemoveSound
  <2> QED BY <1>8, <2>1, <2>2
<1>12. CASE Add(c)
  <2>1. type = "ADD" /\ SetReadings(c, AfterAdd(iter, c)) /\ UNCHANGED <<order, flag>>
    BY <1>12 DEF Add
  <2>2. grammar[iter].new \in Tags
    BY <1>2, <1>5, <2>1, RuleFacts
  <2>3. CASE Good(iter, c) # {}
    <3>1. Cleared /\ TagAdded(c, grammar[iter].new, ruleCohorts)
      BY <1>12, <2>3 DEF Add
    <3>2. SoundList(AfterAdd(iter, c), seen[c] \cup {grammar[iter].new})
      BY <1>3, <2>2, AfterAddSound
    <3> QED BY <1>9, <2>1, <2>2, <3>1, <3>2
  <2>4. CASE Good(iter, c) = {}
    <3>1. Failed(c) /\ UNCHANGED <<order, seen, flag>> /\ UNCHANGED index
      BY <1>12, <2>4 DEF Add
    <3>2. AfterAdd(iter, c) = readings[c]
      BY <1>3, <2>4 DEF AfterAdd, SoundList
    <3> QED BY <1>3, <1>8, <2>1, <3>1, <3>2
  <2> QED BY <2>3, <2>4
<1>13. CASE Substitute(c)
  <2>1. type = "SUBSTITUTE" /\ SetReadings(c, AfterSubstitute(iter, c)) /\ UNCHANGED <<order, flag>>
    BY <1>13 DEF Substitute
  <2>2. grammar[iter].new \in Tags
    BY <1>2, <1>5, <2>1, RuleFacts
  <2>3. CASE Substituted(iter, c) # {}
    <3>1. Cleared /\ TagAdded(c, grammar[iter].new, ruleCohorts)
      BY <1>13, <2>3 DEF Substitute
    <3>2. SoundList(AfterSubstitute(iter, c), seen[c] \cup {grammar[iter].new})
      BY <1>3, <2>2, AfterSubstituteSound
    <3> QED BY <1>9, <2>1, <2>2, <3>1, <3>2
  <2>4. CASE Substituted(iter, c) = {}
    <3>1. Failed(c) /\ UNCHANGED <<order, seen, flag>> /\ UNCHANGED index
      BY <1>13, <2>4 DEF Substitute
    <3>2. AfterSubstitute(iter, c) = readings[c]
      BY <1>3, <2>4 DEF AfterSubstitute, SoundList
    <3> QED BY <1>3, <1>8, <2>1, <3>1, <3>2
  <2> QED BY <2>3, <2>4
<1>14. CASE Protect(c)
  <2>1. /\ readings' = [readings EXCEPT ![c] = AfterLock(iter, c, type = "PROTECT")]
        /\ Done(c, FALSE) /\ Failed(c) /\ UNCHANGED <<order, seen, flag>> /\ UNCHANGED index
    BY <1>14 DEF Protect
  <2> DEFINE rds == AfterLock(iter, c, type = "PROTECT")
  <2>2. SoundList(rds, seen[c])
    <3>1. (type = "PROTECT") \in BOOLEAN
      OBVIOUS
    <3> QED BY <1>3, <3>1, AfterLockSound
  <2>3. readings' = [readings EXCEPT ![c] = rds]
    BY <2>1
  <2> HIDE DEF rds
  <2>4. WindowT' /\ DOMAIN readings' = DOMAIN readings /\ Len(readings') = Len(readings)
    <3>1. UNCHANGED <<order, seen>> /\ flag' \in BOOLEAN
      BY <1>3, <2>1
    <3> QED BY ONLY TypeInv, <1>2, <2>2, <2>3, <3>1, ReadingsOnlyTypes
  <2>5. grammar' \in Grammars /\ RunT' /\ LoopT' /\ UNCHANGED grammar
    BY <1>1, <2>1, <2>4, DoneTypes DEF Done
  <2>6. IndexT'
    BY <1>4, <1>7, <2>1, <2>4, <2>5 DEF IndexT, index, Rules
  <2> QED BY <2>4, <2>5, <2>6 DEF TypeInv
<1>15. CASE SetVariable(c)
  <2>1. Done(c, FALSE) /\ Failed(c) /\ UNCHANGED <<order, readings, seen>> /\ UNCHANGED index
    BY <1>15 DEF SetVariable
  <2>2. flag' \in BOOLEAN
    BY <1>3, <1>15 DEF SetVariable
  <2>3. WindowT'
    BY <2>1, <2>2 DEF TypeInv, WindowT, Sound, OnePlaceEach
  <2>4. grammar' \in Grammars /\ RunT' /\ LoopT' /\ UNCHANGED grammar
    BY <1>1, <2>1, DoneTypes DEF Done
  <2>5. IndexT'
    BY <1>4, <1>7, <2>1, <2>4 DEF IndexT, index, Rules
  <2> QED BY <2>3, <2>4, <2>5 DEF TypeInv
<1> QED BY <1>10, <1>11, <1>12, <1>13, <1>14, <1>15

\* A cohort leaves the window.
LEMMA TypeOfRemCohort ==
  ASSUME TypeInv, NEW c, RemCohort(c)
  PROVE  TypeInv'
<1>1. Now(c)
  BY DEF RemCohort, Acts, Tried
<1>2. pc = "try" /\ c \in Cohorts /\ iter \in Rules /\ c \in DOMAIN readings
      /\ DOMAIN readings = 1..Len(readings) /\ Len(readings) \in Nat
      /\ Pos(c) \in 1..Len(order) /\ Len(order) \in Nat /\ Len(order) <= Len(readings)
  BY <1>1, NowFacts, CohortPlaces
<1>3. /\ order' = Without(Pos(c)) /\ did' = TRUE /\ ruleDid' = TRUE
      /\ UNCHANGED <<grammar, flag, section, pass, restarts, iter, stray, type, pc>>
  BY DEF RemCohort
<1>4. /\ order' \in Seq(DOMAIN readings) /\ Len(order') = Len(order) - 1 /\ OnePlaceEach(order')
  BY <1>2, <1>3, WithoutFacts
<1>5. /\ ruleCohorts \in [Rules -> SUBSET DOMAIN readings] /\ flag \in BOOLEAN
      /\ valid \subseteq Rules /\ active \subseteq valid /\ Sound(readings, seen)
  BY DEF TypeInv, IndexT, WindowT
<1> DEFINE rest == [j \in Rules |-> ruleCohorts[j] \ {c}]
           d == order[Len(order) - 1]
<1>6. rest \in [Rules -> SUBSET DOMAIN readings]
  BY <1>5
<1>7. Failed(c) \/ Cleared
  BY DEF RemCohort
<1>8. cache' \subseteq Rules \X DOMAIN readings
  BY <1>2, <1>7, FailedTypes
<1>9. \/ /\ ruleCohorts' = rest /\ UNCHANGED <<readings, seen, valid, active>>
      \/ /\ Len(order) > 1
         /\ readings' = [readings EXCEPT ![d] = WithEndTag(readings[d])]
         /\ TagAdded(d, EndTag, rest)
  BY DEF RemCohort
<1>10. cursor' \in 0..Len(readings)
  <2>1. cursor' = Len(order) \/ cursor' = Pos(c) - 1
    BY DEF RemCohort
  <2> QED BY <1>2, <2>1
<1> HIDE DEF rest
<1>11. /\ DOMAIN readings' = DOMAIN readings /\ Len(readings') = Len(readings)
       /\ Sound(readings', seen') /\ IndexT'
  <2>1. CASE ruleCohorts' = rest /\ UNCHANGED <<readings, seen, valid, active>>
    <3>1. IndexT'
      BY <1>3, <1>5, <1>6, <1>8, <2>1 DEF IndexT, Rules
    <3>2. Sound(readings', seen')
      BY <1>5, <2>1
    <3> QED BY <2>1, <3>1, <3>2
  <2>2. CASE /\ Len(order) > 1
             /\ readings' = [readings EXCEPT ![d] = WithEndTag(readings[d])]
             /\ TagAdded(d, EndTag, rest)
    <3>1. d \in DOMAIN readings
      <4>1. order \in Seq(DOMAIN readings) /\ Len(order) - 1 \in 1..Len(order)
        BY <1>2, <2>2 DEF TypeInv, WindowT
      <4> QED BY <4>1
    <3> HIDE DEF d
    <3> DEFINE rds == WithEndTag(readings[d])  T == seen[d] \cup {EndTag}
    <3>2. SoundList(readings[d], seen[d]) /\ seen[d] \subseteq Tags /\ EndTag \in Tags
      BY <3>1, CohortSound, WindowsAssumption
    <3>3. SoundList(rds, T) /\ T \subseteq Tags /\ seen[d] \subseteq T
      BY <3>2, WithEndTagSound
    <3>4. readings' = [readings EXCEPT ![d] = rds] /\ seen' = [seen EXCEPT ![d] = T]
      BY <2>2 DEF TagAdded
    <3> DEFINE us == [readings EXCEPT ![d] = rds]  un == [seen EXCEPT ![d] = T]
    <3> HIDE DEF rds, T
    <3>5. Sound(us, un) /\ DOMAIN us = DOMAIN readings /\ Len(us) = Len(readings)
      BY ONLY <1>5, <3>1, <3>3, SoundUpdate
    <3>6. readings' = us /\ seen' = un
      BY <3>4
    <3> HIDE DEF us, un
    <3>7. IndexT'
      <4>1. grammar' = grammar /\ DOMAIN readings' = DOMAIN readings /\ TagAdded(d, EndTag, rest)
        BY <1>3, <2>2, <3>5, <3>6
      <4> QED BY ONLY TypeInv, <1>6, <1>8, <3>1, <4>1, TagAddedTypes
    <3> QED BY <3>5, <3>6, <3>7
  <2> QED BY <1>9, <2>1, <2>2
<1>12. WindowT'
  <2>1. (Sound(readings, seen))'
    BY <1>11 DEF Sound
  <2>2. (OnePlaceEach(order))'
    BY <1>4 DEF OnePlaceEach
  <2>3. /\ order' \in Seq(DOMAIN readings') /\ Len(order') <= Len(readings')
        /\ flag' \in BOOLEAN
    BY <1>2, <1>3, <1>4, <1>5, <1>11
  <2> QED BY <2>1, <2>2, <2>3 DEF WindowT
<1>13. RunT'
  BY <1>2, <1>3, RunKept
<1>14. LoopT'
  BY <1>2, <1>3, <1>10, <1>11 DEF TypeInv, LoopT, Rules
<1>15. grammar' \in Grammars
  BY <1>3 DEF TypeInv
<1> QED BY <1>11, <1>12, <1>13, <1>14, <1>15 DEF TypeInv

\* The window is cut off after a cohort.
LEMMA TypeOfDelimit ==
  ASSUME TypeInv, NEW c, Delimit(c)
  PROVE  TypeInv'
<1>1. Now(c)
  BY DEF Delimit, Acts, Tried
<1>2. pc = "try" /\ c \in Cohorts /\ iter \in Rules /\ c \in DOMAIN readings
      /\ DOMAIN readings = 1..Len(readings) /\ Len(readings) \in Nat
      /\ Pos(c) \in 1..Len(order) /\ Len(order) \in Nat /\ Len(order) <= Len(readings)
  BY <1>1, NowFacts, CohortPlaces
<1> DEFINE rds == WithEndTag(readings[c])  T == seen[c] \cup {EndTag}
<1>3. /\ order' = SubSeq(order, 1, Pos(c)) /\ did' = TRUE /\ ruleDid' = TRUE /\ Failed(c)
      /\ readings' = [readings EXCEPT ![c] = rds] /\ seen' = [seen EXCEPT ![c] = T]
      /\ pc' = "begin"
      /\ UNCHANGED <<grammar, flag, section, pass, restarts, iter, stray, cursor, type>>
      /\ UNCHANGED index
  BY DEF Delimit
<1>4. /\ order' \in Seq(DOMAIN readings) /\ Len(order') = Pos(c) /\ OnePlaceEach(order')
  BY <1>2, <1>3, CutOffFacts
<1>5. /\ ruleCohorts \in [Rules -> SUBSET DOMAIN readings] /\ flag \in BOOLEAN
      /\ valid \subseteq Rules /\ active \subseteq valid /\ Sound(readings, seen)
  BY DEF TypeInv, IndexT, WindowT
<1>6. SoundList(readings[c], seen[c]) /\ seen[c] \subseteq Tags /\ EndTag \in Tags
  BY <1>2, CohortSound, WindowsAssumption
<1>7. SoundList(rds, T) /\ T \subseteq Tags /\ seen[c] \subseteq T
  BY <1>6, WithEndTagSound
<1>8. cache' \subseteq Rules \X DOMAIN readings
  BY <1>2, <1>3, FailedTypes
<1> DEFINE us == [readings EXCEPT ![c] = rds]  un == [seen EXCEPT ![c] = T]
<1> HIDE DEF rds, T
<1>9. Sound(us, un) /\ DOMAIN us = DOMAIN readings /\ Len(us) = Len(readings)
  <2>1. c \in DOMAIN readings /\ Sound(readings, seen)
    BY <1>2, <1>5
  <2> QED BY ONLY <1>7, <2>1, SoundUpdate
<1>10. readings' = us /\ seen' = un
  BY <1>3
<1> HIDE DEF us, un
<1>11. WindowT'
  <2>1. (Sound(readings, seen))'
    BY <1>9, <1>10 DEF Sound
  <2>2. (OnePlaceEach(order))'
    BY <1>4 DEF OnePlaceEach
  <2>3. /\ order' \in Seq(DOMAIN readings') /\ Len(order') <= Len(readings')
        /\ flag' \in BOOLEAN
    BY <1>2, <1>3, <1>4, <1>5, <1>9, <1>10
  <2> QED BY <2>1, <2>2, <2>3 DEF WindowT
<1>12. IndexT'
  BY <1>3, <1>5, <1>8, <1>9, <1>10 DEF IndexT, index, Rules
<1>13. RunT'
  <2>1. UNCHANGED <<grammar, section, pass, restarts>> /\ did' \in BOOLEAN /\ pc # "done"
    BY <1>2, <1>3
  <2> QED BY <2>1, RunKept
<1>14. LoopT'
  <2>1. stray \in BOOLEAN /\ cursor \in 0..Len(readings) /\ type \in AnyType
    BY DEF TypeInv, LoopT
  <2> QED BY <1>2, <1>3, <1>9, <1>10, <2>1 DEF LoopT, Rules
<1>15. grammar' \in Grammars
  BY <1>3 DEF TypeInv
<1> QED BY <1>11, <1>12, <1>13, <1>14, <1>15 DEF TypeInv

\* A jump lands on a rule of the section, or on rule 0.
LEMMA TypeOfJump ==
  ASSUME TypeInv, NEW c, Jump(c)
  PROVE  TypeInv'
<1>1. Now(c)
  BY DEF Jump, Acts, Tried
<1>2. pc = "try" /\ c \in Cohorts /\ iter \in Rules /\ c \in DOMAIN readings
  BY <1>1, NowFacts, CohortPlaces
<1>3. PICK b : b = {j \in active : LowerBound(active, grammar[iter].to) = NoRule
                                   \/ j < LowerBound(active, grammar[iter].to)}
  OBVIOUS
<1>4. /\ StartRule(IF b = {} THEN 0 ELSE Greatest(b)) /\ stray' = (b = {})
      /\ Failed(c) /\ UNCHANGED grammar /\ UNCHANGED window /\ UNCHANGED index /\ UNCHANGED run
  BY <1>3 DEF Jump
<1>5. WindowT' /\ DOMAIN readings' = DOMAIN readings /\ Len(readings') = Len(readings)
  BY <1>4, WindowKept
<1>6. /\ ruleCohorts \in [Rules -> SUBSET DOMAIN readings]
      /\ valid \subseteq Rules /\ active \subseteq valid
      /\ cache' \subseteq Rules \X DOMAIN readings
  BY <1>2, <1>4, FailedTypes DEF TypeInv, IndexT
<1>7. IndexT'
  BY <1>4, <1>5, <1>6 DEF IndexT, index, Rules
<1>8. RunT'
  <2>1. UNCHANGED <<grammar, section, pass, restarts>> /\ did' \in BOOLEAN /\ pc # "done"
    BY <1>2, <1>4 DEF TypeInv, RunT, run
  <2> QED BY <2>1, RunKept
<1>9. LoopT'
  <2> DEFINE k == IF b = {} THEN 0 ELSE Greatest(b)
  <2>1. k \in Rules
    <3>1. IsFiniteSet(Rules) /\ Rules \subseteq Nat /\ 0 \in Rules
      BY RulesFinite
    <3>2. b \subseteq Rules
      BY <1>3, <1>6
    <3>3. IsFiniteSet(b)
      BY ONLY <3>1, <3>2, FS_Subset
    <3>5. b \subseteq Int
      BY <3>1, <3>2
    <3>4. b # {} => Greatest(b) \in b
      BY <3>3, <3>5, GreatestElement
    <3> QED BY <3>1, <3>2, <3>4
  <2>2. StartRule(k) /\ grammar' = grammar /\ stray' \in BOOLEAN
    BY <1>4
  <2> HIDE DEF k
  <2> QED BY <1>5, <2>1, <2>2, StartTypes
<1>10. grammar' \in Grammars
  BY <1>4 DEF TypeInv
<1> QED BY <1>5, <1>7, <1>8, <1>9, <1>10 DEF TypeInv

\* Every step keeps the types.
LEMMA TypeNext ==
  ASSUME TypeInv, [Next]_vars
  PROVE  TypeInv'
<1>1. CASE UNCHANGED vars
  <2>1. /\ UNCHANGED window /\ UNCHANGED index /\ UNCHANGED <<section, pass, restarts, did>>
        /\ UNCHANGED <<grammar, iter, stray, cursor, type, cache, ruleDid, pc>>
    BY <1>1 DEF vars, run
  <2>2. WindowT' /\ DOMAIN readings' = DOMAIN readings /\ Len(readings') = Len(readings)
    BY <2>1, WindowKept
  <2>3. IndexT'
    BY <2>1, <2>2 DEF TypeInv, IndexT, index, Rules
  <2>4. RunT'
    BY <2>1 DEF TypeInv, RunT, LastSection, Rules
  <2>5. LoopT'
    BY <2>1, <2>2 DEF TypeInv, LoopT, Rules
  <2>6. grammar' \in Grammars
    BY <2>1 DEF TypeInv
  <2> QED BY <2>2, <2>3, <2>4, <2>5, <2>6 DEF TypeInv
<1>2. CASE Begin \/ EnterSection \/ LeaveSection \/ NextRule \/ EndCohorts
  BY <1>2, TypeOfRunSteps
<1>3. ASSUME NEW c \in Cohorts, TryCohort(c)  PROVE TypeInv'
  BY <1>3, TypeOfIdleSteps, TypeOfReadingSteps, TypeOfRemCohort, TypeOfDelimit, TypeOfJump
     DEF TryCohort
<1> QED BY <1>1, <1>2, <1>3 DEF Next, Work, Stopped

\* Every reachable state has the types.
LEMMA TypesHold == Spec => []TypeInv
<1>1. Init => TypeInv
  BY TypeInit
<1>2. TypeInv /\ [Next]_vars => TypeInv'
  BY TypeNext
<1> QED BY <1>1, <1>2, PTL DEF Spec

\* The state of a run has its types throughout: the lists of readings are never
\* empty, the sets of tags a cohort is indexed by cover its readings, the index
\* names rules and cohorts there are, and the counters of passes and restarts
\* stay within the limits.
THEOREM TypeCorrect == Spec => []TypeOK
<1>1. TypeInv => TypeOK
  BY TypesImplied
<1> QED BY <1>1, TypesHold, PTL

-----------------------------------------------------------------------------
(* What a step leaves of the readings of a cohort.                         *)

\* The lists of readings rule j may leave at cohort c.
Outcome(j, c, rds) ==
    \/ ~Misses(j, c) /\ TypeFor(j, c) = "SELECT" /\ rds = AfterSelect(j, c)
    \/ TypeFor(j, c) = "REMOVE" /\ rds = AfterRemove(j, c)
    \/ grammar[j].type = "ADD" /\ rds = AfterAdd(j, c)
    \/ grammar[j].type = "SUBSTITUTE" /\ rds = AfterSubstitute(j, c)
    \/ /\ grammar[j].type \in {"PROTECT", "UNPROTECT"}
       /\ \E lock \in BOOLEAN : rds = AfterLock(j, c, lock)

\* What a step does to the window: nothing, or to one cohort of it what a rule
\* does, or it takes a cohort out, or cuts the window off after a cohort.
LEMMA WindowSteps ==
  ASSUME TypeInv, [Next]_vars
  PROVE  \/ UNCHANGED <<order, readings>>
         \/ /\ UNCHANGED order
            /\ \E c \in Cohorts : \E rds :
                  pc = "try" /\ readings' = [readings EXCEPT ![c] = rds] /\ Outcome(iter, c, rds)
         \/ \E c \in Cohorts : RemCohort(c) \/ Delimit(c)
<1> DEFINE Goal ==
       \/ UNCHANGED <<order, readings>>
       \/ /\ UNCHANGED order
          /\ \E c \in Cohorts : \E rds :
                pc = "try" /\ readings' = [readings EXCEPT ![c] = rds] /\ Outcome(iter, c, rds)
       \/ \E c \in Cohorts : RemCohort(c) \/ Delimit(c)
<1>1. CASE UNCHANGED vars
  BY <1>1 DEF vars, window
<1>2. CASE Begin \/ EnterSection \/ LeaveSection \/ NextRule \/ EndCohorts
  BY <1>2 DEF Begin, EnterSection, LeaveSection, NextRule, EndCohorts, window
<1>3. ASSUME NEW c \in Cohorts, TryCohort(c)  PROVE Goal
  <2>1. CASE Skip(c) \/ NothingToDo(c) \/ OnlyProtected(c) \/ Miss(c) \/ SetVariable(c) \/ Jump(c)
    BY <2>1 DEF Skip, NothingToDo, OnlyProtected, Miss, SetVariable, Jump, window
  <2>2. CASE RemCohort(c) \/ Delimit(c)
    BY <2>2
  <2>3. CASE Select(c)
    <3> DEFINE rds == AfterSelect(iter, c)
    <3>1. readings' = [readings EXCEPT ![c] = rds] /\ UNCHANGED order /\ pc = "try"
      BY <2>3 DEF Select, SetReadings, Acts, Tried, Now
    <3>2. Outcome(iter, c, rds)
      BY <2>3 DEF Outcome, Select, Acts
    <3> HIDE DEF rds
    <3> QED BY <3>1, <3>2
  <2>4. CASE Remove(c)
    <3> DEFINE rds == AfterRemove(iter, c)
    <3>1. readings' = [readings EXCEPT ![c] = rds] /\ UNCHANGED order /\ pc = "try"
      BY <2>4 DEF Remove, SetReadings, Acts, Tried, Now
    <3>2. Outcome(iter, c, rds)
      BY <2>4 DEF Outcome, Remove
    <3> HIDE DEF rds
    <3> QED BY <3>1, <3>2
  <2>5. CASE Add(c)
    <3> DEFINE rds == AfterAdd(iter, c)
    <3>1. readings' = [readings EXCEPT ![c] = rds] /\ UNCHANGED order /\ type = "ADD" /\ pc = "try"
      BY <2>5 DEF Add, SetReadings, Acts, Tried, Now
    <3>2. grammar[iter].type = "ADD"
      BY <3>1 DEF TypeInv, LoopT
    <3>3. Outcome(iter, c, rds)
      BY <3>2 DEF Outcome
    <3> HIDE DEF rds
    <3> QED BY <3>1, <3>3
  <2>6. CASE Substitute(c)
    <3> DEFINE rds == AfterSubstitute(iter, c)
    <3>1. readings' = [readings EXCEPT ![c] = rds] /\ UNCHANGED order /\ type = "SUBSTITUTE"
          /\ pc = "try"
      BY <2>6 DEF Substitute, SetReadings, Acts, Tried, Now
    <3>2. grammar[iter].type = "SUBSTITUTE"
      BY <3>1 DEF TypeInv, LoopT
    <3>3. Outcome(iter, c, rds)
      BY <3>2 DEF Outcome
    <3> HIDE DEF rds
    <3> QED BY <3>1, <3>3
  <2>7. CASE Protect(c)
    <3> DEFINE lock == (type = "PROTECT")  rds == AfterLock(iter, c, lock)
    <3>1. readings' = [readings EXCEPT ![c] = rds] /\ UNCHANGED order /\ pc = "try"
      BY <2>7 DEF Protect, Acts, Tried, Now
    <3>2. lock \in BOOLEAN
      OBVIOUS
    <3> HIDE DEF lock
    <3>4. grammar[iter].type \in {"PROTECT", "UNPROTECT"}
      BY <2>7, <3>1 DEF TypeInv, LoopT, Protect
    <3>3. Outcome(iter, c, rds)
      BY <3>2, <3>4 DEF Outcome
    <3> HIDE DEF rds
    <3> QED BY <3>1, <3>3
  <2> QED BY <1>3, <2>1, <2>2, <2>3, <2>4, <2>5, <2>6, <2>7 DEF TryCohort
<1> QED BY <1>1, <1>2, <1>3 DEF Next, Work, Stopped

\* So the readings of at most one cohort change, the way its rule does or in
\* that they get <<<.
LEMMA ReadingSteps ==
  ASSUME TypeInv, [Next]_vars
  PROVE  \/ UNCHANGED readings
         \/ \E c \in DOMAIN readings : \E rds :
               /\ readings' = [readings EXCEPT ![c] = rds]
               /\ pc = "try"
               /\ Outcome(iter, c, rds) \/ rds = WithEndTag(readings[c])
<1> DEFINE Goal ==
       \/ UNCHANGED readings
       \/ \E c \in DOMAIN readings : \E rds :
             /\ readings' = [readings EXCEPT ![c] = rds]
             /\ pc = "try"
             /\ Outcome(iter, c, rds) \/ rds = WithEndTag(readings[c])
<1>1. Cohorts \subseteq DOMAIN readings
  BY CohortPlaces
<1>2. ASSUME NEW c \in Cohorts, RemCohort(c)  PROVE Goal
  <2> DEFINE d == order[Len(order) - 1]
  <2>1. CASE UNCHANGED readings
    BY <2>1
  <2>2. CASE Len(order) > 1 /\ readings' = [readings EXCEPT ![d] = WithEndTag(readings[d])]
    <3>1. d \in DOMAIN readings
      <4>1. order \in Seq(DOMAIN readings)
        BY DEF TypeInv, WindowT
      <4>2. Len(order) - 1 \in 1..Len(order)
        BY <2>2, <4>1
      <4> QED BY <4>1, <4>2
    <3>2. pc = "try"
      BY <1>2 DEF RemCohort, Acts, Tried, Now
    <3> HIDE DEF d
    <3> QED BY <2>2, <3>1, <3>2
  <2> QED BY <1>2, <2>1, <2>2 DEF RemCohort
<1>3. ASSUME NEW c \in Cohorts, Delimit(c)  PROVE Goal
  <2>1. readings' = [readings EXCEPT ![c] = WithEndTag(readings[c])] /\ pc = "try"
    BY <1>3 DEF Delimit, Acts, Tried, Now
  <2> QED BY <1>1, <2>1
<1>4. \/ UNCHANGED readings
      \/ \E c \in Cohorts : \E rds :
            pc = "try" /\ readings' = [readings EXCEPT ![c] = rds] /\ Outcome(iter, c, rds)
      \/ \E c \in Cohorts : RemCohort(c) \/ Delimit(c)
  BY WindowSteps
<1> QED BY <1>1, <1>2, <1>3, <1>4

\* A safe rule, whatever it is, leaves a reading of the cohort.
LEMMA OutcomeKeepsAReading ==
  ASSUME TypeInv, NEW c \in DOMAIN readings, NEW rds, ~grammar[iter].unsafe,
         Outcome(iter, c, rds) \/ rds = WithEndTag(readings[c])
  PROVE  \E i \in DOMAIN readings[c], k \in DOMAIN rds : readings[c][i].id = rds[k].id
<1> DEFINE old == readings[c]
<1>1. SoundList(old, seen[c]) /\ iter \in Rules
  BY CohortSound DEF TypeInv, LoopT
<1>2. old \in Seq(Reading) /\ old # <<>> /\ 1 \in DOMAIN old
  BY <1>1 DEF SoundList
<1>3. ASSUME ~Misses(iter, c), TypeFor(iter, c) = "SELECT", rds = AfterSelect(iter, c)
      PROVE  \E i \in DOMAIN old, k \in DOMAIN rds : old[i].id = rds[k].id
  <2>1. SoundList(rds, seen[c])
    BY <1>1, <1>3, AfterSelectSound
  <2>2. 1 \in DOMAIN rds /\ DOMAIN rds = 1..Len(rds)
    BY <2>1 DEF SoundList
  <2>3. KeptOf(rds, old, Good(iter, c) \cup Held(iter, c), Len(old))
    BY <1>2, <1>3, KeepFacts DEF AfterSelect
  <2>4. PICK i \in 1..Len(old) : rds[1] = old[i]
    BY <2>2, <2>3 DEF KeptOf
  <2>5. i \in DOMAIN old
    BY <1>2, <2>4
  <2> QED BY <2>2, <2>4, <2>5
<1>4. ASSUME rds = AfterRemove(iter, c)
      PROVE  \E i \in DOMAIN old, k \in DOMAIN rds : old[i].id = rds[k].id
  <2> DEFINE G == Removed(iter, c)
  <2>1. CASE G = DOMAIN old
    <3>1. rds = old
      BY <1>4, <2>1 DEF AfterRemove
    <3> QED BY <1>2, <3>1
  <2>2. CASE G # DOMAIN old
    <3>1. G \subseteq DOMAIN old /\ rds = SwapOut(old, G)
      BY <1>4, <2>2 DEF AfterRemove, Removed, Good, Targets
    <3>2. PICK i \in DOMAIN old : i \notin G
      BY <2>2, <3>1
    <3> HIDE DEF G
    <3>3. \E k \in DOMAIN rds : rds[k] = old[i]
      BY <1>1, <3>1, <3>2, SwapOutSound
    <3> QED BY <3>3
  <2> QED BY <2>1, <2>2
<1>5. ASSUME rds = AfterAdd(iter, c) \/ rds = AfterSubstitute(iter, c)
             \/ (\E lock \in BOOLEAN : rds = AfterLock(iter, c, lock)) \/ rds = WithEndTag(old)
      PROVE  \E i \in DOMAIN old, k \in DOMAIN rds : old[i].id = rds[k].id
  <2>1. old[1] \in Reading
    BY <1>2
  <2>2. DOMAIN rds = DOMAIN old /\ rds[1].id = old[1].id
    BY <1>2, <1>5, <2>1 DEF AfterAdd, AfterSubstitute, AfterLock, WithEndTag, Reading
  <2> QED BY <1>2, <2>2
<1> QED BY <1>3, <1>4, <1>5 DEF Outcome

\* Rules without UNSAFE leave every cohort at least one of the readings it had:
\* SELECT keeps a reading it matched or a protected one, REMOVE gives up when
\* it would remove all, and IFF is one of them.
THEOREM SafeRulesLeaveAReading == Spec => SafeRulesKeepAReading
<1> DEFINE Kept == \A c \in Cohorts : ~grammar[iter].unsafe =>
                      \E i \in DOMAIN readings[c], k \in DOMAIN readings'[c] :
                          readings[c][i].id = readings'[c][k].id
<1>1. ASSUME TypeInv, [Next]_vars  PROVE Kept
  <2> SUFFICES ASSUME NEW c \in Cohorts, ~grammar[iter].unsafe
               PROVE  \E i \in DOMAIN readings[c], k \in DOMAIN readings'[c] :
                          readings[c][i].id = readings'[c][k].id
    OBVIOUS
  <2>1. c \in DOMAIN readings
    BY <1>1, CohortPlaces
  <2>2. readings[c] \in Seq(Reading) /\ readings[c] # <<>>
    BY <1>1, <2>1, CohortSound DEF SoundList
  <2>3. CASE readings'[c] = readings[c]
    <3>1. 1 \in DOMAIN readings[c]
      BY <2>2
    <3> QED BY <2>3, <3>1
  <2>4. ASSUME NEW rds, readings' = [readings EXCEPT ![c] = rds],
               Outcome(iter, c, rds) \/ rds = WithEndTag(readings[c])
        PROVE  \E i \in DOMAIN readings[c], k \in DOMAIN readings'[c] :
                   readings[c][i].id = readings'[c][k].id
    <3>1. readings'[c] = rds
      BY <2>1, <2>4
    <3>2. \E i \in DOMAIN readings[c], k \in DOMAIN rds : readings[c][i].id = rds[k].id
      BY <1>1, <2>1, <2>4, OutcomeKeepsAReading
    <3> QED BY <3>1, <3>2
  <2>5. \/ UNCHANGED readings
        \/ \E d \in DOMAIN readings : \E rds :
              /\ readings' = [readings EXCEPT ![d] = rds]
              /\ Outcome(iter, d, rds) \/ rds = WithEndTag(readings[d])
    BY <1>1, ReadingSteps
  <2>6. CASE \E d \in DOMAIN readings : \E rds :
              /\ readings' = [readings EXCEPT ![d] = rds]
              /\ Outcome(iter, d, rds) \/ rds = WithEndTag(readings[d])
    <3>0. PICK d \in DOMAIN readings : \E rds :
              /\ readings' = [readings EXCEPT ![d] = rds]
              /\ Outcome(iter, d, rds) \/ rds = WithEndTag(readings[d])
      BY <2>6
    <3>1. PICK rds :
              /\ readings' = [readings EXCEPT ![d] = rds]
              /\ Outcome(iter, d, rds) \/ rds = WithEndTag(readings[d])
      BY <3>0
    <3>2. CASE d = c
      BY <2>4, <3>1, <3>2
    <3>3. CASE d # c
      <4>1. readings'[c] = readings[c]
        BY <2>1, <3>1, <3>3
      <4> QED BY <2>3, <4>1
    <3> QED BY <3>2, <3>3
  <2> QED BY <2>3, <2>5, <2>6
<1> QED BY <1>1, TypesHold, PTL DEF Spec, SafeRulesKeepAReading

\* A rule that is not UNPROTECT, nor IFF, keeps the protected readings.
LEMMA OutcomeKeepsProtected ==
  ASSUME TypeInv, NEW c \in DOMAIN readings, NEW rds,
         grammar[iter].type # "UNPROTECT", grammar[iter].type # "IFF",
         Outcome(iter, c, rds) \/ rds = WithEndTag(readings[c]),
         NEW i \in DOMAIN readings[c], readings[c][i].locked
  PROVE  \E k \in DOMAIN rds :
            /\ rds[k].id = readings[c][i].id
            /\ rds[k].tags \ {EndTag} = readings[c][i].tags \ {EndTag}
<1> DEFINE old == readings[c]
           Kept == \E k \in DOMAIN rds :
                      rds[k].id = old[i].id /\ rds[k].tags \ {EndTag} = old[i].tags \ {EndTag}
<1>1. SoundList(old, seen[c]) /\ iter \in Rules
  BY CohortSound DEF TypeInv, LoopT
<1>2. i \in Immune(iter, c) /\ i \notin Good(iter, c) /\ i \notin Removed(iter, c)
  <2>1. i \in Immune(iter, c)
    BY DEF Immune
  <2> QED BY <2>1 DEF Removed, Good, Targets
<1>3. ASSUME TypeFor(iter, c) = "SELECT", rds = AfterSelect(iter, c)  PROVE Kept
  <2>1. i \in Good(iter, c) \cup Held(iter, c)
    BY <1>2, <1>3 DEF Held, TypeFor
  <2> DEFINE K == Good(iter, c) \cup Held(iter, c)
  <2>2. \E k \in DOMAIN rds : rds[k] = old[i]
    <3>1. i \in K /\ rds = Keep(old, K)
      BY <1>3, <2>1 DEF AfterSelect
    <3> HIDE DEF K
    <3> QED BY <1>1, <3>1, KeepSound
  <2> QED BY <2>2
<1>4. ASSUME rds = AfterRemove(iter, c)  PROVE Kept
  <2>1. rds = SwapOut(old, Removed(iter, c))
    BY <1>2, <1>4 DEF AfterRemove
  <2>2. \E k \in DOMAIN rds : rds[k] = old[i]
    BY <1>1, <1>2, <2>1, SwapOutSound
  <2> QED BY <2>2
<1>5. ASSUME rds = AfterAdd(iter, c) \/ rds = AfterSubstitute(iter, c)
             \/ (\E lock \in BOOLEAN : rds = AfterLock(iter, c, lock))
      PROVE  Kept
  <2>1. DOMAIN rds = DOMAIN old /\ rds[i] = old[i]
    BY <1>2, <1>5 DEF AfterAdd, AfterSubstitute, AfterLock, Substituted
  <2> QED BY <2>1
<1>6. ASSUME rds = WithEndTag(old)  PROVE Kept
  <2>1. old[i] \in Reading
    BY <1>1 DEF SoundList
  <2>2. DOMAIN rds = DOMAIN old /\ rds[i] = [old[i] EXCEPT !.tags = @ \cup {EndTag}]
    BY <1>6 DEF WithEndTag
  <2>3. rds[i].id = old[i].id /\ rds[i].tags = old[i].tags \cup {EndTag}
    BY <2>1, <2>2 DEF Reading
  <2> QED BY <2>2, <2>3
<1> QED BY <1>3, <1>4, <1>5, <1>6 DEF Outcome

\* In a grammar without IFF a protected reading stays, with its tags, under
\* every rule but UNPROTECT. IFF is left out because it keeps, when it turns
\* into SELECT, only the protected readings after the first one it matches.
THEOREM ProtectedReadingsStay ==
  ASSUME \A g \in Grammars : \A j \in DOMAIN g : g[j].type # "IFF"
  PROVE  Spec => ProtectedKept
<1> DEFINE Stays(c, i) == \E k \in DOMAIN readings'[c] :
               /\ readings'[c][k].id = readings[c][i].id
               /\ readings'[c][k].tags \ {EndTag} = readings[c][i].tags \ {EndTag}
           Kept == \A c \in Cohorts : \A i \in DOMAIN readings[c] :
                      readings[c][i].locked /\ type # "UNPROTECT" => Stays(c, i)
<1>1. ASSUME TypeInv, [Next]_vars  PROVE Kept
  <2> SUFFICES ASSUME NEW c \in Cohorts, NEW i \in DOMAIN readings[c],
                      readings[c][i].locked, type # "UNPROTECT"
               PROVE  Stays(c, i)
    OBVIOUS
  <2>1. c \in DOMAIN readings
    BY <1>1, CohortPlaces
  <2>2. CASE readings'[c] = readings[c]
    BY <2>2
  <2>3. pc = "try" => grammar[iter].type # "UNPROTECT" /\ grammar[iter].type # "IFF"
    <3>1. grammar \in Grammars /\ iter \in DOMAIN grammar
      BY <1>1 DEF TypeInv, LoopT, Rules
    <3>2. grammar[iter].type # "IFF"
      BY <3>1
    <3>3. pc = "try" => \/ type = grammar[iter].type
                        \/ grammar[iter].type = "IFF" /\ type \in {"SELECT", "REMOVE"}
      BY <1>1 DEF TypeInv, LoopT
    <3> QED BY <3>2, <3>3
  <2>4. ASSUME NEW rds, readings' = [readings EXCEPT ![c] = rds], pc = "try",
               Outcome(iter, c, rds) \/ rds = WithEndTag(readings[c])
        PROVE  Stays(c, i)
    <3>1. readings'[c] = rds
      BY <2>1, <2>4
    <3>2. \E k \in DOMAIN rds :
             /\ rds[k].id = readings[c][i].id
             /\ rds[k].tags \ {EndTag} = readings[c][i].tags \ {EndTag}
      BY <1>1, <2>1, <2>3, <2>4, OutcomeKeepsProtected
    <3> QED BY <3>1, <3>2
  <2>5. \/ UNCHANGED readings
        \/ \E d \in DOMAIN readings : \E rds :
              /\ readings' = [readings EXCEPT ![d] = rds] /\ pc = "try"
              /\ Outcome(iter, d, rds) \/ rds = WithEndTag(readings[d])
    BY <1>1, ReadingSteps
  <2>6. CASE \E d \in DOMAIN readings : \E rds :
              /\ readings' = [readings EXCEPT ![d] = rds] /\ pc = "try"
              /\ Outcome(iter, d, rds) \/ rds = WithEndTag(readings[d])
    <3>0. PICK d \in DOMAIN readings : \E rds :
              /\ readings' = [readings EXCEPT ![d] = rds] /\ pc = "try"
              /\ Outcome(iter, d, rds) \/ rds = WithEndTag(readings[d])
      BY <2>6
    <3>1. PICK rds :
              /\ readings' = [readings EXCEPT ![d] = rds] /\ pc = "try"
              /\ Outcome(iter, d, rds) \/ rds = WithEndTag(readings[d])
      BY <3>0
    <3>2. CASE d = c
      BY <2>4, <3>1, <3>2
    <3>3. CASE d # c
      <4>1. readings'[c] = readings[c]
        BY <2>1, <3>1, <3>3
      <4> QED BY <2>2, <4>1
    <3> QED BY <3>2, <3>3
  <2> QED BY <2>2, <2>5, <2>6
<1> QED BY <1>1, TypesHold, PTL DEF Spec, ProtectedKept

=============================================================================
