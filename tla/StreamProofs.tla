---------------------------- MODULE StreamProofs ----------------------------
(***************************************************************************)
(* Proofs about StreamFormats, for every stream, every format and all      *)
(* limits: windows keep to the hard limit and have their end tags, and a   *)
(* split multiword keeps all parts of its readings.                        *)
(***************************************************************************)
EXTENDS StreamFormats, FiniteSetTheorems, SequenceTheorems, WellFoundedInduction, TLAPS

IsSeq(q) == \E T : q \in Seq(T)

-----------------------------------------------------------------------------
(* The invariant of the readers. t is what s holds.                        *)

Fields == {"cohorts", "windows", "cSWindow", "cCohort", "lSWindow", "lCohort", "didLookback",
           "previous", "current", "next", "output", "reader", "crashed"}
CohortFields == {"word", "static", "readings", "class", "text", "endtag"}

QueuesOK(t) == t.previous \in Seq(Nat) /\ t.next \in Seq(Nat) /\ t.current \in Nat

CohortsOK(t) ==
    IsSeq(t.cohorts) /\ \A c \in 1..Len(t.cohorts) : DOMAIN t.cohorts[c] = CohortFields

\* A window begins with its zero cohort, which is in no set of delimiters.
WindowsOK(t) ==
    /\ IsSeq(t.windows)
    /\ \A w \in 1..Len(t.windows) :
         /\ DOMAIN t.windows[w] = {"cohorts", "text"}
         /\ t.windows[w].cohorts \in Seq(1..Len(t.cohorts))
         /\ SizeOf(t, w) >= 1
         /\ t.cohorts[t.windows[w].cohorts[1]].class = "none"

\* The window being filled is the last one.
PointersOK(t) ==
    /\ t.cSWindow \in {0, Len(t.windows)} /\ t.lSWindow \in 0..Len(t.windows)
    /\ t.cCohort \in 0..Len(t.cohorts) /\ t.lCohort \in 0..Len(t.cohorts)

Typed(t) ==
    DOMAIN t = Fields /\ QueuesOK(t) /\ CohortsOK(t) /\ WindowsOK(t) /\ PointersOK(t)

\* No cohort is in two places.
Once(t) ==
    \A v, w \in 1..Len(t.windows) : \A i \in 1..SizeOf(t, v), j \in 1..SizeOf(t, w) :
        t.windows[v].cohorts[i] = t.windows[w].cohorts[j] => v = w /\ i = j

\* There is room in the window being filled for the cohort that ends it.
Fitting(t) ==
    /\ \A w \in 1..Len(t.windows) : SizeOf(t, w) <= HardLimit + 1
    /\ t.cSWindow # 0 => SizeOf(t, t.cSWindow) <= HardLimit

\* The windows up to n have the end tag where they end, if they do.
Marks(t, n) ==
    \A w \in 1..n : \A i \in 1..SizeOf(t, w) :
        t.cohorts[t.windows[w].cohorts[i]].endtag <=>
            (w # t.cSWindow /\ SizeOf(t, w) > 1 /\ i = SizeOf(t, w))

Placed(t) == Typed(t) /\ Once(t) /\ Fitting(t) /\ Marks(t, Len(t.windows))

\* The cohort just read is in no window yet.
Pending(t) ==
    t.cCohort # 0 =>
        /\ t.cSWindow # 0 /\ ~ t.cohorts[t.cCohort].endtag
        /\ \A w \in 1..Len(t.windows) : \A i \in 1..SizeOf(t, w) :
              t.windows[w].cohorts[i] # t.cCohort

Good(t) == Placed(t) /\ Pending(t)

-----------------------------------------------------------------------------
(* Sequences.                                                              *)

\* Elements of a set are elements of a larger one.
LEMMA SeqOfMore ==
    ASSUME NEW S, NEW T, S \subseteq T, NEW q \in Seq(S)
    PROVE  q \in Seq(T)
OBVIOUS

\* A sequence with something appended.
LEMMA AppendSeq ==
    ASSUME NEW q, IsSeq(q), NEW x
    PROVE  /\ IsSeq(q) /\ Len(q) \in Nat /\ DOMAIN q = 1..Len(q)
           /\ IsSeq(Append(q, x)) /\ Len(Append(q, x)) = Len(q) + 1
           /\ \A i \in 1..Len(q) : Append(q, x)[i] = q[i]
           /\ Append(q, x)[Len(q) + 1] = x
<1>1. PICK T : q \in Seq(T)
  BY DEF IsSeq
<1>2. q \in Seq(T \cup {x})
  BY <1>1
<1>3. Append(q, x) \in Seq(T \cup {x})
  BY <1>2
<1> QED  BY <1>1, <1>2, <1>3 DEF IsSeq

\* A sequence with one element replaced.
LEMMA ReplaceInSeq ==
    ASSUME NEW q, IsSeq(q), NEW i \in 1..Len(q), NEW x
    PROVE  /\ Len(q) \in Nat /\ DOMAIN q = 1..Len(q)
           /\ IsSeq([q EXCEPT ![i] = x]) /\ Len([q EXCEPT ![i] = x]) = Len(q)
           /\ [q EXCEPT ![i] = x][i] = x
           /\ \A j \in 1..Len(q) : j # i => [q EXCEPT ![i] = x][j] = q[j]
<1> DEFINE r == [q EXCEPT ![i] = x]
<1>1. /\ Len(q) \in Nat /\ DOMAIN q = 1..Len(q)
      /\ IsSeq(r) /\ Len(r) = Len(q)
      /\ r[i] = x
      /\ \A j \in 1..Len(q) : j # i => r[j] = q[j]
  <2>1. PICK T : q \in Seq(T)
    BY DEF IsSeq
  <2>2. q \in Seq(T \cup {x})
    BY <2>1
  <2>3. r \in Seq(T \cup {x})
    BY <2>2
  <2>4. Len(q) \in Nat /\ DOMAIN q = 1..Len(q)
    BY <2>1
  <2>5. Len(r) = Len(q)
    BY <2>2, <2>4
  <2>6. IsSeq(r)
    BY <2>3 DEF IsSeq
  <2>7. r[i] = x /\ \A j \in 1..Len(q) : j # i => r[j] = q[j]
    BY <2>4
  <2> QED  BY <2>4, <2>5, <2>6, <2>7
<1> QED  BY <1>1

\* The same, with a name for the result.
With(q, i, x) == [q EXCEPT ![i] = x]

\* What it is.
LEMMA ReplacedSeq ==
    ASSUME NEW q, IsSeq(q), NEW i \in 1..Len(q), NEW x, NEW r, r = With(q, i, x)
    PROVE  /\ IsSeq(r) /\ Len(r) = Len(q) /\ r[i] = x
           /\ \A j \in 1..Len(q) : j # i => r[j] = q[j]
BY ReplaceInSeq DEF With

-----------------------------------------------------------------------------
(* What leaves the windows as they are.                                    *)

\* u differs from t in text, readings, queues, output and the reader only.
Alike(t, u) ==
    /\ DOMAIN u = Fields /\ QueuesOK(u)
    /\ CohortsOK(u) /\ Len(u.cohorts) = Len(t.cohorts)
    /\ \A c \in 1..Len(t.cohorts) :
         u.cohorts[c].class = t.cohorts[c].class /\ u.cohorts[c].endtag = t.cohorts[c].endtag
    /\ IsSeq(u.windows) /\ Len(u.windows) = Len(t.windows)
    /\ \A w \in 1..Len(t.windows) :
         DOMAIN u.windows[w] = {"cohorts", "text"} /\ u.windows[w].cohorts = t.windows[w].cohorts
    /\ u.cSWindow = t.cSWindow /\ u.lSWindow = t.lSWindow /\ u.cCohort = t.cCohort
    /\ u.lCohort \in 0..Len(t.cohorts)

\* What the types say of the places of a window.
LEMMA PlaceFacts ==
    ASSUME NEW t, Typed(t)
    PROVE  /\ Len(t.windows) \in Nat /\ DOMAIN t.windows = 1..Len(t.windows)
           /\ Len(t.cohorts) \in Nat /\ DOMAIN t.cohorts = 1..Len(t.cohorts)
           /\ \A w \in 1..Len(t.windows) :
                /\ SizeOf(t, w) \in Nat /\ SizeOf(t, w) >= 1
                /\ DOMAIN t.windows[w].cohorts = 1..SizeOf(t, w)
                /\ \A i \in 1..SizeOf(t, w) : t.windows[w].cohorts[i] \in 1..Len(t.cohorts)
<1>1. IsSeq(t.windows) /\ IsSeq(t.cohorts)
  BY DEF Typed, WindowsOK, CohortsOK
<1>2. /\ Len(t.windows) \in Nat /\ DOMAIN t.windows = 1..Len(t.windows)
      /\ Len(t.cohorts) \in Nat /\ DOMAIN t.cohorts = 1..Len(t.cohorts)
  BY <1>1, AppendSeq
<1>3. ASSUME NEW w \in 1..Len(t.windows)
      PROVE  /\ SizeOf(t, w) \in Nat /\ SizeOf(t, w) >= 1
             /\ DOMAIN t.windows[w].cohorts = 1..SizeOf(t, w)
             /\ \A i \in 1..SizeOf(t, w) : t.windows[w].cohorts[i] \in 1..Len(t.cohorts)
  <2>1. t.windows[w].cohorts \in Seq(1..Len(t.cohorts)) /\ SizeOf(t, w) >= 1
    BY DEF Typed, WindowsOK
  <2> QED  BY SMTT(60), <2>1 DEF SizeOf
<1> QED  BY <1>2, <1>3

\* Such a change keeps the invariant.
LEMMA AlikePlaced ==
    ASSUME NEW t, NEW u, Placed(t), Alike(t, u)
    PROVE  Placed(u)
<1>1. \A w : w \in 1..Len(t.windows) => SizeOf(u, w) = SizeOf(t, w)
  BY DEF Alike, SizeOf
<1>2. Typed(t)
  BY DEF Placed
<1>3. WindowsOK(u)
  <2> SUFFICES ASSUME NEW w \in 1..Len(u.windows)
               PROVE  /\ DOMAIN u.windows[w] = {"cohorts", "text"}
                      /\ u.windows[w].cohorts \in Seq(1..Len(u.cohorts))
                      /\ SizeOf(u, w) >= 1
                      /\ u.cohorts[u.windows[w].cohorts[1]].class = "none"
    BY DEF WindowsOK, Alike
  <2>1. /\ w \in 1..Len(t.windows) /\ u.windows[w].cohorts = t.windows[w].cohorts
        /\ DOMAIN u.windows[w] = {"cohorts", "text"} /\ Len(u.cohorts) = Len(t.cohorts)
        /\ \A c \in 1..Len(t.cohorts) : u.cohorts[c].class = t.cohorts[c].class
    BY DEF Alike
  <2>2. /\ t.windows[w].cohorts \in Seq(1..Len(t.cohorts)) /\ SizeOf(t, w) >= 1
        /\ t.cohorts[t.windows[w].cohorts[1]].class = "none"
    BY <1>2, <2>1 DEF Typed, WindowsOK
  <2>3. t.windows[w].cohorts[1] \in 1..Len(t.cohorts)
    BY <1>2, <2>1, PlaceFacts
  <2> QED  BY <1>1, <2>1, <2>2, <2>3
<1>4. Typed(u)
  BY <1>2, <1>3 DEF Alike, Typed, PointersOK
<1>5. Once(u)
  BY SMTT(60), <1>1 DEF Placed, Alike, Once
<1>6. Fitting(u)
  BY SMTT(60), <1>1 DEF Placed, Alike, Fitting, Typed, PointersOK
<1>7. Marks(u, Len(u.windows))
  <2> SUFFICES ASSUME NEW w \in 1..Len(t.windows), NEW i \in 1..SizeOf(t, w)
               PROVE  u.cohorts[u.windows[w].cohorts[i]].endtag <=>
                          (w # t.cSWindow /\ SizeOf(t, w) > 1 /\ i = SizeOf(t, w))
    BY <1>1 DEF Alike, Marks
  <2>1. t.windows[w].cohorts[i] \in 1..Len(t.cohorts)
    BY <1>2, PlaceFacts
  <2>2. u.windows[w].cohorts = t.windows[w].cohorts
    BY DEF Alike
  <2>3. u.cohorts[t.windows[w].cohorts[i]].endtag = t.cohorts[t.windows[w].cohorts[i]].endtag
    BY <2>1 DEF Alike
  <2>4. t.cohorts[t.windows[w].cohorts[i]].endtag <=>
            (w # t.cSWindow /\ SizeOf(t, w) > 1 /\ i = SizeOf(t, w))
    BY DEF Placed, Marks
  <2> QED  BY <2>2, <2>3, <2>4
<1> QED  BY <1>4, <1>5, <1>6, <1>7 DEF Placed

\* And what is pending stays pending.
LEMMA AlikeGood ==
    ASSUME NEW t, NEW u, Good(t), Alike(t, u)
    PROVE  Good(u)
<1>1. Placed(u)
  BY AlikePlaced DEF Good
<1>2. \A w : w \in 1..Len(t.windows) => SizeOf(u, w) = SizeOf(t, w)
  BY DEF Alike, SizeOf
<1>3. Pending(u)
  BY SMTT(60), <1>2 DEF Good, Placed, Alike, Pending, Typed, PointersOK
<1> QED  BY <1>1, <1>3 DEF Good


-----------------------------------------------------------------------------
(* Windows are opened, filled and closed.                                  *)

\* What OpenWindow does.
LEMMA OpenFacts ==
    ASSUME NEW t, DOMAIN t = Fields, NEW x, NEW o, o = OpenWindow(t, x)
    PROVE  /\ DOMAIN o = Fields
           /\ o.cohorts = Append(t.cohorts, ZeroCohort)
           /\ o.windows = Append(t.windows, [cohorts |-> <<Len(t.cohorts) + 1>>, text |-> x])
           /\ o.next = Append(t.next, Len(t.windows) + 1)
           /\ o.cSWindow = Len(t.windows) + 1 /\ o.lSWindow = Len(t.windows) + 1 /\ o.cCohort = 0
           /\ o.previous = t.previous /\ o.current = t.current /\ o.lCohort = t.lCohort
           /\ o.reader = t.reader /\ o.crashed = t.crashed
BY DEF OpenWindow, Fields

\* The zero cohort is in no set of delimiters.
LEMMA ZeroFacts ==
    DOMAIN ZeroCohort = CohortFields /\ ZeroCohort.class = "none" /\ ~ ZeroCohort.endtag
<1>1. ZeroCohort = [word |-> ZeroCohort.word, static |-> <<>>, readings |-> <<>>, class |-> "none",
                    text |-> <<>>, endtag |-> FALSE]
  BY Zenon DEF ZeroCohort, NewCohort
<1> QED  BY <1>1 DEF CohortFields

\* A window that is opened when there is none to be filled.
LEMMA OpenGood ==
    ASSUME NEW t, Placed(t), t.cSWindow = 0, NEW x, NEW o, o = OpenWindow(t, x)
    PROVE  /\ Good(o) /\ o.cSWindow # 0 /\ o.cCohort = 0
           /\ Len(o.windows) = Len(t.windows) + 1 /\ SizeOf(o, o.cSWindow) = 1
           /\ o.reader = t.reader /\ o.crashed = t.crashed
<1> DEFINE n == Len(t.windows)
           z == Len(t.cohorts) + 1
<1>1. Typed(t)
  BY DEF Placed
<1>2. /\ DOMAIN o = Fields /\ o.cohorts = Append(t.cohorts, ZeroCohort)
      /\ o.windows = Append(t.windows, [cohorts |-> <<z>>, text |-> x])
      /\ o.next = Append(t.next, n + 1)
      /\ o.cSWindow = n + 1 /\ o.lSWindow = n + 1 /\ o.cCohort = 0
      /\ o.previous = t.previous /\ o.current = t.current /\ o.lCohort = t.lCohort
      /\ o.reader = t.reader /\ o.crashed = t.crashed
  BY <1>1, OpenFacts, SMTT(60) DEF Typed
<1>3. /\ n \in Nat /\ Len(t.cohorts) \in Nat
      /\ \A w \in 1..n : /\ SizeOf(t, w) \in Nat /\ SizeOf(t, w) >= 1
                         /\ \A i \in 1..SizeOf(t, w) : t.windows[w].cohorts[i] \in 1..Len(t.cohorts)
  BY <1>1, PlaceFacts
<1>4. IsSeq(t.windows) /\ IsSeq(t.cohorts)
  BY <1>1 DEF Typed, WindowsOK, CohortsOK
<1>5. /\ IsSeq(o.cohorts) /\ Len(o.cohorts) = z
      /\ \A c \in 1..Len(t.cohorts) : o.cohorts[c] = t.cohorts[c]
      /\ o.cohorts[z] = ZeroCohort
  BY <1>2, <1>4, AppendSeq
<1>6. /\ IsSeq(o.windows) /\ Len(o.windows) = n + 1
      /\ \A w \in 1..n : o.windows[w] = t.windows[w]
      /\ o.windows[n + 1] = [cohorts |-> <<z>>, text |-> x]
  BY <1>2, <1>4, AppendSeq
<1>7. /\ \A w \in 1..n : SizeOf(o, w) = SizeOf(t, w)
      /\ SizeOf(o, n + 1) = 1
  BY <1>6 DEF SizeOf
<1>0. o.windows[n + 1].cohorts = <<z>> /\ DOMAIN o.windows[n + 1] = {"cohorts", "text"}
  BY <1>6
<1> HIDE DEF n, z
<1>8. CohortsOK(o)
  <2>1. \A c \in 1..Len(t.cohorts) : DOMAIN t.cohorts[c] = CohortFields
    BY <1>1 DEF Typed, CohortsOK
  <2> QED  BY <1>3, <1>5, <2>1, ZeroFacts, SMTT(60) DEF CohortsOK, z
<1>9. WindowsOK(o)
  <2> SUFFICES ASSUME NEW w \in 1..n + 1
               PROVE  /\ DOMAIN o.windows[w] = {"cohorts", "text"}
                      /\ o.windows[w].cohorts \in Seq(1..Len(o.cohorts))
                      /\ SizeOf(o, w) >= 1
                      /\ o.cohorts[o.windows[w].cohorts[1]].class = "none"
    BY <1>6 DEF WindowsOK
  <2>1. CASE w = n + 1
    <3>1. <<z>> \in Seq(1..z) /\ <<z>>[1] = z
      BY <1>3 DEF z
    <3>2. o.windows[w].cohorts \in Seq(1..Len(o.cohorts))
      BY <1>0, <1>5, <2>1, <3>1
    <3>3. o.cohorts[o.windows[w].cohorts[1]].class = "none"
      BY <1>0, <1>5, <2>1, <3>1, ZeroFacts
    <3> QED  BY <1>0, <1>7, <2>1, <3>2, <3>3
  <2>2. CASE w \in 1..n
    <3>1. /\ DOMAIN t.windows[w] = {"cohorts", "text"}
          /\ t.windows[w].cohorts \in Seq(1..Len(t.cohorts))
          /\ SizeOf(t, w) >= 1
          /\ t.cohorts[t.windows[w].cohorts[1]].class = "none"
      BY <1>1, <2>2 DEF Typed, WindowsOK, n
    <3>2. t.windows[w].cohorts[1] \in 1..Len(t.cohorts)
      BY <1>3, <2>2, <3>1
    <3>3. t.windows[w].cohorts \in Seq(1..z)
      BY <1>3, <3>1 DEF z
    <3> QED  BY ZenonT(60), <1>5, <1>6, <1>7, <2>2, <3>1, <3>2, <3>3
  <2> QED  BY <1>3, <2>1, <2>2
<1>10. Typed(o)
  <2>1. t.previous \in Seq(Nat) /\ t.next \in Seq(Nat) /\ t.current \in Nat
    BY <1>1 DEF Typed, QueuesOK
  <2>2. QueuesOK(o)
    BY <1>2, <1>3, <2>1 DEF QueuesOK
  <2>3. PointersOK(o)
    BY <1>1, <1>2, <1>3, <1>5, <1>6 DEF PointersOK, Typed, z
  <2> QED  BY <1>2, <1>8, <1>9, <2>2, <2>3 DEF Typed
<1>11. Once(o)
  <2> SUFFICES ASSUME NEW v \in 1..n + 1, NEW w \in 1..n + 1,
                      NEW i \in 1..SizeOf(o, v), NEW j \in 1..SizeOf(o, w),
                      o.windows[v].cohorts[i] = o.windows[w].cohorts[j]
               PROVE  v = w /\ i = j
    BY <1>6 DEF Once
  <2>1. \A u \in 1..n : \A k \in 1..SizeOf(o, u) : o.windows[u].cohorts[k] \in 1..z - 1
    <3> TAKE u \in 1..n
    <3> TAKE k \in 1..SizeOf(o, u)
    <3>1. o.windows[u].cohorts[k] = t.windows[u].cohorts[k] /\ k \in 1..SizeOf(t, u)
      BY <1>6, <1>7
    <3>2. t.windows[u].cohorts[k] \in 1..Len(t.cohorts)
      BY <1>3, <3>1
    <3> QED  BY <1>3, <3>1, <3>2 DEF z
  <2>2. \A k \in 1..SizeOf(o, n + 1) : o.windows[n + 1].cohorts[k] = z
    BY <1>0, <1>7
  <2>3. CASE v \in 1..n /\ w \in 1..n
    BY SMTT(60), <1>6, <1>7, <2>3 DEF Placed, Once, n
  <2>4. CASE v = n + 1 /\ w = n + 1
    BY <1>7, <2>4
  <2>5. CASE (v = n + 1 /\ w \in 1..n) \/ (v \in 1..n /\ w = n + 1)
    <3>1. \A m \in 1..z - 1 : m # z
      BY <1>3 DEF z
    <3>2. CASE v = n + 1 /\ w \in 1..n
      <4>1. o.windows[v].cohorts[i] = z
        BY <2>2, <3>2
      <4>2. o.windows[w].cohorts[j] \in 1..z - 1
        BY <2>1, <3>2
      <4> QED  BY <3>1, <4>1, <4>2
    <3>3. CASE v \in 1..n /\ w = n + 1
      <4>1. o.windows[w].cohorts[j] = z
        BY <2>2, <3>3
      <4>2. o.windows[v].cohorts[i] \in 1..z - 1
        BY <2>1, <3>3
      <4> QED  BY <3>1, <4>1, <4>2
    <3> QED  BY <2>5, <3>2, <3>3
  <2> QED  BY <1>3, <2>3, <2>4, <2>5
<1>12. Fitting(o)
  BY SMTT(60), <1>2, <1>3, <1>6, <1>7, StreamLimits DEF Placed, Fitting, n
<1>13. Marks(o, Len(o.windows))
  <2> SUFFICES ASSUME NEW w \in 1..n + 1, NEW i \in 1..SizeOf(o, w)
               PROVE  o.cohorts[o.windows[w].cohorts[i]].endtag <=>
                          (w # o.cSWindow /\ SizeOf(o, w) > 1 /\ i = SizeOf(o, w))
    BY <1>6 DEF Marks
  <2>1. CASE w = n + 1
    <3>1. i = 1 /\ o.windows[w].cohorts[i] = z
      BY SMTT(60), <1>0, <1>7, <2>1
    <3> QED  BY <1>2, <1>5, <1>7, <2>1, <3>1, ZeroFacts DEF n
  <2>2. CASE w \in 1..n
    <3>1. t.cohorts[t.windows[w].cohorts[i]].endtag <=>
              (w # t.cSWindow /\ SizeOf(t, w) > 1 /\ i = SizeOf(t, w))
      BY <1>7, <2>2 DEF Placed, Marks, n
    <3>2. o.cohorts[o.windows[w].cohorts[i]] = t.cohorts[t.windows[w].cohorts[i]]
      BY ZenonT(60), <1>3, <1>5, <1>6, <1>7, <2>2
    <3> QED  BY <1>2, <1>3, <1>7, <2>2, <3>1, <3>2
  <2> QED  BY <1>3, <2>1, <2>2
<1>14. Pending(o)
  BY <1>2 DEF Pending
<1> QED  BY <1>2, <1>3, <1>6, <1>7, <1>10, <1>11, <1>12, <1>13, <1>14 DEF Good, Placed, n

\* u is t with the pending cohort in the window being filled; its end tag may
\* have been given, too.
Filled(t, u) ==
    /\ DOMAIN u = Fields /\ QueuesOK(u)
    /\ CohortsOK(u) /\ Len(u.cohorts) = Len(t.cohorts)
    /\ \A c \in 1..Len(t.cohorts) :
         /\ u.cohorts[c].class = t.cohorts[c].class
         /\ c # t.cCohort => u.cohorts[c].endtag = t.cohorts[c].endtag
    /\ IsSeq(u.windows) /\ Len(u.windows) = Len(t.windows)
    /\ \A w \in 1..Len(t.windows) : w # t.cSWindow => u.windows[w] = t.windows[w]
    /\ DOMAIN u.windows[t.cSWindow] = {"cohorts", "text"}
    /\ u.windows[t.cSWindow].cohorts = Append(t.windows[t.cSWindow].cohorts, t.cCohort)
    /\ u.cCohort = t.cCohort /\ u.lCohort = t.lCohort

\* Then it is the last of that window and nowhere else.
LEMMA FilledShape ==
    ASSUME NEW t, NEW u, Good(t), t.cCohort # 0, Filled(t, u)
    PROVE  /\ WindowsOK(u) /\ Once(u)
           /\ t.cSWindow \in 1..Len(t.windows) /\ t.cSWindow = Len(t.windows)
           /\ t.cCohort \in 1..Len(t.cohorts)
           /\ SizeOf(u, t.cSWindow) = SizeOf(t, t.cSWindow) + 1
           /\ u.windows[t.cSWindow].cohorts[SizeOf(u, t.cSWindow)] = t.cCohort
           /\ \A w \in 1..Len(t.windows) :
                /\ w # t.cSWindow => SizeOf(u, w) = SizeOf(t, w)
                /\ \A i \in 1..SizeOf(t, w) :
                      /\ u.windows[w].cohorts[i] = t.windows[w].cohorts[i]
                      /\ u.windows[w].cohorts[i] \in 1..Len(t.cohorts)
                      /\ u.windows[w].cohorts[i] # t.cCohort
<1> DEFINE n == t.cSWindow
           c == t.cCohort
<1>1. Typed(t)
  BY DEF Good, Placed
<1>2. /\ n \in 1..Len(t.windows) /\ n = Len(t.windows) /\ c \in 1..Len(t.cohorts)
      /\ \A w \in 1..Len(t.windows) : \A i \in 1..SizeOf(t, w) : t.windows[w].cohorts[i] # c
  <2>1. n # 0 /\ \A w \in 1..Len(t.windows) : \A i \in 1..SizeOf(t, w) : t.windows[w].cohorts[i] # c
    BY DEF Good, Pending
  <2>2. n \in {0, Len(t.windows)} /\ c \in 0..Len(t.cohorts)
    BY <1>1 DEF Typed, PointersOK
  <2>3. Len(t.windows) \in Nat /\ Len(t.cohorts) \in Nat
    BY <1>1, PlaceFacts
  <2> QED  BY <2>1, <2>2, <2>3
<1>3. /\ Len(t.cohorts) \in Nat /\ Len(t.windows) \in Nat
      /\ \A w \in 1..Len(t.windows) :
           /\ SizeOf(t, w) \in Nat /\ SizeOf(t, w) >= 1
           /\ \A i \in 1..SizeOf(t, w) : t.windows[w].cohorts[i] \in 1..Len(t.cohorts)
  BY SMTT(60), <1>1, PlaceFacts
<1>4. /\ u.windows[n].cohorts = Append(t.windows[n].cohorts, c)
      /\ t.windows[n].cohorts \in Seq(1..Len(t.cohorts))
  BY ZenonT(60), <1>1, <1>2 DEF Filled, Typed, WindowsOK
<1>5. /\ u.windows[n].cohorts \in Seq(1..Len(t.cohorts))
      /\ SizeOf(u, n) = SizeOf(t, n) + 1 /\ u.windows[n].cohorts[SizeOf(u, n)] = c
      /\ \A i \in 1..SizeOf(t, n) : u.windows[n].cohorts[i] = t.windows[n].cohorts[i]
  BY SMTT(60), <1>2, <1>4 DEF SizeOf
<1>6. \A w \in 1..Len(t.windows) : w # n => u.windows[w] = t.windows[w] /\ SizeOf(u, w) = SizeOf(t, w)
  BY DEF Filled, SizeOf
<1> HIDE DEF n, c
<1>7. \A w \in 1..Len(t.windows) :
         /\ w # n => SizeOf(u, w) = SizeOf(t, w)
         /\ \A i \in 1..SizeOf(t, w) :
               /\ u.windows[w].cohorts[i] = t.windows[w].cohorts[i]
               /\ u.windows[w].cohorts[i] \in 1..Len(t.cohorts)
               /\ u.windows[w].cohorts[i] # c
  <2> TAKE w \in 1..Len(t.windows)
  <2>1. w # n => SizeOf(u, w) = SizeOf(t, w)
    BY <1>6
  <2>2. \A i \in 1..SizeOf(t, w) :
               /\ u.windows[w].cohorts[i] = t.windows[w].cohorts[i]
               /\ u.windows[w].cohorts[i] \in 1..Len(t.cohorts)
               /\ u.windows[w].cohorts[i] # c
    <3> TAKE i \in 1..SizeOf(t, w)
    <3>1. u.windows[w].cohorts[i] = t.windows[w].cohorts[i]
      BY <1>5, <1>6
    <3> QED  BY <1>2, <1>3, <3>1
  <2> QED  BY <2>1, <2>2
<1>8. WindowsOK(u)
  <2> SUFFICES ASSUME NEW w \in 1..Len(t.windows)
               PROVE  /\ DOMAIN u.windows[w] = {"cohorts", "text"}
                      /\ u.windows[w].cohorts \in Seq(1..Len(u.cohorts))
                      /\ SizeOf(u, w) >= 1
                      /\ u.cohorts[u.windows[w].cohorts[1]].class = "none"
    BY Zenon DEF WindowsOK, Filled
  <2>1. /\ DOMAIN t.windows[w] = {"cohorts", "text"} /\ SizeOf(t, w) >= 1
        /\ t.windows[w].cohorts \in Seq(1..Len(t.cohorts))
        /\ t.cohorts[t.windows[w].cohorts[1]].class = "none"
    BY <1>1 DEF Typed, WindowsOK
  <2>2. /\ u.windows[w].cohorts[1] = t.windows[w].cohorts[1]
        /\ u.windows[w].cohorts[1] \in 1..Len(t.cohorts)
    BY SMTT(60), <1>3, <1>7, <2>1
  <2>3. Len(u.cohorts) = Len(t.cohorts) /\ \A d \in 1..Len(t.cohorts) : u.cohorts[d].class = t.cohorts[d].class
    BY SMTT(60) DEF Filled
  <2>4. DOMAIN u.windows[w] = {"cohorts", "text"} /\ u.windows[w].cohorts \in Seq(1..Len(t.cohorts))
    BY Zenon, <1>5, <1>6, <2>1 DEF Filled, n
  <2>5. SizeOf(u, w) >= 1
    <3>1. CASE w = n
      BY <1>3, <1>5, <3>1
    <3>2. CASE w # n
      BY <1>3, <1>6, <3>2
    <3> QED  BY <3>1, <3>2
  <2>6. u.cohorts[u.windows[w].cohorts[1]].class = "none"
    BY <2>1, <2>2, <2>3
  <2>7. u.windows[w].cohorts \in Seq(1..Len(u.cohorts))
    BY <2>3, <2>4
  <2> QED  BY <2>4, <2>5, <2>6, <2>7
<1>9. Once(u)
  <2> SUFFICES ASSUME NEW v \in 1..Len(t.windows), NEW w \in 1..Len(t.windows),
                      NEW i \in 1..SizeOf(u, v), NEW j \in 1..SizeOf(u, w),
                      u.windows[v].cohorts[i] = u.windows[w].cohorts[j]
               PROVE  v = w /\ i = j
    BY DEF Once, Filled
  <2>1. \A x \in 1..Len(t.windows) : \A k \in 1..SizeOf(u, x) :
            \/ k \in 1..SizeOf(t, x)
            \/ x = n /\ k = SizeOf(u, n)
    <3> TAKE x \in 1..Len(t.windows)
    <3> TAKE k \in 1..SizeOf(u, x)
    <3>1. CASE x = n
      <4>1. SizeOf(u, n) = SizeOf(t, n) + 1 /\ SizeOf(t, n) \in Nat /\ k \in 1..SizeOf(u, n)
        BY <1>3, <1>5, <3>1
      <4> QED  BY <3>1, <4>1
    <3>2. CASE x # n
      BY <1>6, <3>2
    <3> QED  BY <3>1, <3>2
  <2>2. CASE i \in 1..SizeOf(t, v) /\ j \in 1..SizeOf(t, w)
    <3>1. t.windows[v].cohorts[i] = t.windows[w].cohorts[j]
      BY <1>7, <2>2
    <3> QED  BY <2>2, <3>1 DEF Good, Placed, Once
  <2>3. CASE i \notin 1..SizeOf(t, v) /\ j \notin 1..SizeOf(t, w)
    BY <2>1, <2>3
  <2>4. CASE i \in 1..SizeOf(t, v) /\ j \notin 1..SizeOf(t, w)
    <3>1. w = n /\ j = SizeOf(u, n)
      BY <2>1, <2>4
    <3>2. u.windows[w].cohorts[j] = c /\ u.windows[v].cohorts[i] # c
      BY <1>5, <1>7, <2>4, <3>1
    <3> QED  BY <3>2
  <2>5. CASE i \notin 1..SizeOf(t, v) /\ j \in 1..SizeOf(t, w)
    <3>1. v = n /\ i = SizeOf(u, n)
      BY <2>1, <2>5
    <3>2. u.windows[v].cohorts[i] = c /\ u.windows[w].cohorts[j] # c
      BY SMTT(60), <1>5, <1>7, <2>5, <3>1
    <3> QED  BY <3>2
  <2> QED  BY <2>2, <2>3, <2>4, <2>5
<1> QED  BY <1>2, <1>5, <1>7, <1>8, <1>9 DEF n, c

\* What Put does to the windows.
LEMMA PutFacts ==
    ASSUME NEW t, Good(t), t.cCohort # 0, NEW u, u = Put(t, t.cSWindow, t.cCohort)
    PROVE  /\ Filled(t, u) /\ u.cSWindow = t.cSWindow /\ u.lSWindow = t.lSWindow
           /\ u.cohorts = t.cohorts /\ u.previous = t.previous /\ u.current = t.current
           /\ u.next = t.next /\ u.reader = t.reader /\ u.crashed = t.crashed
<1> DEFINE n == t.cSWindow
           x == [t.windows[n] EXCEPT !.cohorts = Append(@, t.cCohort)]
<1>1. Typed(t)
  BY DEF Good, Placed
<1>2. DOMAIN t = Fields
  BY <1>1 DEF Typed
<1>3. n \in 1..Len(t.windows) /\ IsSeq(t.windows) /\ DOMAIN t.windows[n] = {"cohorts", "text"}
  <2>1. n # 0 /\ n \in {0, Len(t.windows)} /\ IsSeq(t.windows)
    BY <1>1 DEF Good, Pending, Typed, PointersOK, WindowsOK
  <2>2. Len(t.windows) \in Nat
    BY <1>1, PlaceFacts
  <2>3. n \in 1..Len(t.windows)
    BY <2>1, <2>2
  <2> QED  BY <1>1, <2>1, <2>3 DEF Typed, WindowsOK
<1>4. /\ DOMAIN u = Fields
      /\ u.windows = With(t.windows, n, x)
      /\ u.cSWindow = t.cSWindow /\ u.lSWindow = t.lSWindow /\ u.cCohort = t.cCohort
      /\ u.lCohort = t.lCohort
      /\ u.cohorts = t.cohorts /\ u.previous = t.previous /\ u.current = t.current
      /\ u.next = t.next /\ u.reader = t.reader /\ u.crashed = t.crashed
  BY <1>2 DEF Put, Fields, With
<1>5. DOMAIN x = {"cohorts", "text"} /\ x.cohorts = Append(t.windows[n].cohorts, t.cCohort)
  BY <1>3
<1> HIDE DEF x
<1>6. /\ IsSeq(u.windows) /\ Len(u.windows) = Len(t.windows) /\ u.windows[n] = x
      /\ \A w \in 1..Len(t.windows) : w # n => u.windows[w] = t.windows[w]
  BY <1>3, <1>4, ReplacedSeq
<1> QED  BY <1>1, <1>4, <1>5, <1>6 DEF Filled, Typed, QueuesOK, CohortsOK

\* A cohort that does not end its window is put there.
LEMMA AppendPlaced ==
    ASSUME NEW t, Good(t), t.cCohort # 0, SizeOf(t, t.cSWindow) < HardLimit,
           NEW u, u = AppendCurrent(t)
    PROVE  /\ Placed(u) /\ u.cSWindow = t.cSWindow /\ u.cSWindow # 0
           /\ Len(u.windows) = Len(t.windows)
           /\ u.reader = t.reader /\ u.crashed = t.crashed
<1>1. u = Put(t, t.cSWindow, t.cCohort)
  BY DEF AppendCurrent
<1>2. /\ Filled(t, u) /\ u.cSWindow = t.cSWindow /\ u.lSWindow = t.lSWindow
      /\ u.cohorts = t.cohorts /\ u.reader = t.reader /\ u.crashed = t.crashed
  BY <1>1, PutFacts
<1>3. /\ WindowsOK(u) /\ Once(u) /\ t.cSWindow \in 1..Len(t.windows) /\ t.cSWindow = Len(t.windows)
      /\ t.cCohort \in 1..Len(t.cohorts)
      /\ SizeOf(u, t.cSWindow) = SizeOf(t, t.cSWindow) + 1
      /\ u.windows[t.cSWindow].cohorts[SizeOf(u, t.cSWindow)] = t.cCohort
      /\ \A w \in 1..Len(t.windows) :
            /\ w # t.cSWindow => SizeOf(u, w) = SizeOf(t, w)
            /\ \A i \in 1..SizeOf(t, w) : u.windows[w].cohorts[i] = t.windows[w].cohorts[i]
  BY <1>2, FilledShape
<1>4. Typed(t)
  BY DEF Good, Placed
<1>5. Len(t.windows) \in Nat /\ \A w \in 1..Len(t.windows) : SizeOf(t, w) \in Nat
  BY <1>4, PlaceFacts
<1>6. Len(u.windows) = Len(t.windows)
  BY SMTT(60), <1>2 DEF Filled
<1>7. Typed(u)
  BY <1>2, <1>3, <1>4 DEF Typed, Filled, PointersOK
<1>8. Fitting(u)
  BY SMTT(60), <1>2, <1>3, <1>5, <1>6, StreamLimits DEF Good, Placed, Fitting
<1>9. Marks(u, Len(u.windows))
  <2> SUFFICES ASSUME NEW w \in 1..Len(t.windows), NEW i \in 1..SizeOf(u, w)
               PROVE  t.cohorts[u.windows[w].cohorts[i]].endtag <=>
                          (w # t.cSWindow /\ SizeOf(u, w) > 1 /\ i = SizeOf(u, w))
    BY SMTT(60), <1>2, <1>6 DEF Marks
  <2>1. CASE i \in 1..SizeOf(t, w)
    <3>1. u.windows[w].cohorts[i] = t.windows[w].cohorts[i]
      BY <1>3, <2>1
    <3>2. t.cohorts[t.windows[w].cohorts[i]].endtag <=>
              (w # t.cSWindow /\ SizeOf(t, w) > 1 /\ i = SizeOf(t, w))
      BY SMTT(60), <2>1 DEF Good, Placed, Marks
    <3> QED  BY <1>3, <3>1, <3>2
  <2>2. CASE i \notin 1..SizeOf(t, w)
    <3>1. w = t.cSWindow /\ i = SizeOf(u, w)
      BY <1>3, <1>5, <2>2
    <3>2. ~ t.cohorts[t.cCohort].endtag
      BY DEF Good, Pending
    <3> QED  BY <1>3, <3>1, <3>2
  <2> QED  BY <2>1, <2>2
<1> QED  BY <1>2, <1>3, <1>5, <1>6, <1>7, <1>8, <1>9 DEF Placed

\* The cohort that ends its window is put there with the end tag.
LEMMA ClosePlaced ==
    ASSUME NEW t, Good(t), t.cCohort # 0, NEW u, u = CloseWindow(t)
    PROVE  /\ Placed(u) /\ u.cSWindow = 0 /\ u.cCohort = t.cCohort
           /\ Len(u.windows) = Len(t.windows)
           /\ u.reader = t.reader /\ u.crashed = t.crashed
<1> DEFINE n == t.cSWindow
           c == t.cCohort
           p == Put(t, n, c)
           y == [t.cohorts[c] EXCEPT !.endtag = TRUE]
<1>1. /\ Filled(t, p) /\ p.cohorts = t.cohorts /\ p.previous = t.previous /\ p.current = t.current
      /\ p.next = t.next /\ p.reader = t.reader /\ p.crashed = t.crashed
  BY SMTT(60), PutFacts
<1>2. DOMAIN p = Fields
  BY Zenon, <1>1 DEF Filled
<1> HIDE DEF p
<1>3. /\ DOMAIN u = Fields
      /\ u.cohorts = With(t.cohorts, c, y) /\ u.windows = p.windows
      /\ u.cSWindow = 0 /\ u.lSWindow = n /\ u.cCohort = p.cCohort /\ u.lCohort = p.lCohort
      /\ u.previous = t.previous /\ u.current = t.current /\ u.next = t.next
      /\ u.reader = t.reader /\ u.crashed = t.crashed
  <2>1. u = [p EXCEPT !.cohorts[c].endtag = TRUE, !.lSWindow = n, !.cSWindow = 0, !.didLookback = FALSE]
    BY DEF CloseWindow, p
  <2> QED  BY <1>1, <1>2, <2>1 DEF Fields, With
<1>4. Typed(t)
  BY DEF Good, Placed
<1>5. /\ Len(t.windows) \in Nat /\ Len(t.cohorts) \in Nat
      /\ \A w \in 1..Len(t.windows) : SizeOf(t, w) \in Nat /\ SizeOf(t, w) >= 1
  BY <1>4, PlaceFacts
<1>6. c \in 1..Len(t.cohorts) /\ n \in 1..Len(t.windows) /\ n = Len(t.windows)
  BY <1>1, FilledShape
<1>7. IsSeq(t.cohorts) /\ \A d \in 1..Len(t.cohorts) : DOMAIN t.cohorts[d] = CohortFields
  BY <1>4 DEF Typed, CohortsOK
<1>8. y.class = t.cohorts[c].class /\ y.endtag = TRUE /\ DOMAIN y = CohortFields
  BY <1>6, <1>7 DEF CohortFields
<1> HIDE DEF y, n, c
<1>9. /\ IsSeq(u.cohorts) /\ Len(u.cohorts) = Len(t.cohorts) /\ u.cohorts[c] = y
      /\ \A d \in 1..Len(t.cohorts) : d # c => u.cohorts[d] = t.cohorts[d]
  BY SMTT(60), <1>3, <1>6, <1>7, ReplacedSeq
<1>10. Filled(t, u)
  <2>1. CohortsOK(u)
    BY <1>7, <1>8, <1>9 DEF CohortsOK
  <2>2. \A d \in 1..Len(t.cohorts) :
          /\ u.cohorts[d].class = t.cohorts[d].class
          /\ d # c => u.cohorts[d].endtag = t.cohorts[d].endtag
    BY <1>8, <1>9
  <2>3. QueuesOK(u)
    BY <1>3, <1>4 DEF Typed, QueuesOK
  <2> QED  BY ZenonT(60), <1>1, <1>3, <1>9, <2>1, <2>2, <2>3 DEF Filled, c
<1>11. /\ WindowsOK(u) /\ Once(u)
       /\ SizeOf(u, n) = SizeOf(t, n) + 1 /\ u.windows[n].cohorts[SizeOf(u, n)] = c
       /\ \A w \in 1..Len(t.windows) :
            /\ w # n => SizeOf(u, w) = SizeOf(t, w)
            /\ \A i \in 1..SizeOf(t, w) :
                  /\ u.windows[w].cohorts[i] = t.windows[w].cohorts[i]
                  /\ u.windows[w].cohorts[i] \in 1..Len(t.cohorts)
                  /\ u.windows[w].cohorts[i] # c
  BY <1>10, FilledShape DEF n, c
<1>12. Len(u.windows) = Len(t.windows) /\ u.cCohort = c
  BY SMTT(60), <1>10 DEF Filled, c
<1>13. Typed(u)
  <2>1. PointersOK(u)
    BY <1>3, <1>4, <1>5, <1>6, <1>9, <1>10, <1>12 DEF PointersOK, Typed, Filled
  <2> QED  BY ZenonT(60), <1>10, <1>11, <2>1 DEF Typed, Filled
<1>14. Fitting(u)
  <2> SUFFICES ASSUME NEW w \in 1..Len(t.windows)
               PROVE  SizeOf(u, w) <= HardLimit + 1
    BY <1>3, <1>12 DEF Fitting
  <2>1. CASE w = n
    <3>1. SizeOf(t, n) <= HardLimit
      BY <1>5, <1>6 DEF Good, Placed, Fitting, n
    <3> QED  BY <1>5, <1>6, <1>11, <2>1, <3>1, StreamLimits
  <2>2. CASE w # n
    BY <1>11, <2>2 DEF Good, Placed, Fitting
  <2> QED  BY <2>1, <2>2
<1>15. Marks(u, Len(u.windows))
  <2> SUFFICES ASSUME NEW w \in 1..Len(t.windows), NEW i \in 1..SizeOf(u, w)
               PROVE  u.cohorts[u.windows[w].cohorts[i]].endtag <=>
                          (w # 0 /\ SizeOf(u, w) > 1 /\ i = SizeOf(u, w))
    BY <1>3, <1>12 DEF Marks
  <2>1. CASE i \in 1..SizeOf(t, w)
    <3>1. /\ u.windows[w].cohorts[i] = t.windows[w].cohorts[i]
          /\ u.windows[w].cohorts[i] \in 1..Len(t.cohorts) /\ u.windows[w].cohorts[i] # c
      BY <1>11, <2>1
    <3>2. u.cohorts[u.windows[w].cohorts[i]] = t.cohorts[t.windows[w].cohorts[i]]
      BY <1>9, <3>1
    <3>3. t.cohorts[t.windows[w].cohorts[i]].endtag <=>
              (w # n /\ SizeOf(t, w) > 1 /\ i = SizeOf(t, w))
      BY SMTT(60), <2>1 DEF Good, Placed, Marks, n
    <3>4. CASE w = n
      BY SMTT(60), <1>5, <1>11, <2>1, <3>2, <3>3, <3>4
    <3>5. CASE w # n
      BY <1>5, <1>11, <3>2, <3>3, <3>5
    <3> QED  BY <3>4, <3>5
  <2>2. CASE i \notin 1..SizeOf(t, w)
    <3>1. w = n
      BY <1>11, <2>2
    <3>2. i = SizeOf(u, w) /\ SizeOf(u, w) > 1
      BY <1>5, <1>11, <2>2, <3>1
    <3> QED  BY <1>5, <1>8, <1>9, <1>11, <3>1, <3>2
  <2> QED  BY <2>1, <2>2
<1> QED  BY <1>3, <1>11, <1>12, <1>13, <1>14, <1>15 DEF Placed, c

-----------------------------------------------------------------------------
(* The look-back.                                                          *)

\* A sequence cut after place k; the second half begins with z.
LEMMA CutSeq ==
    ASSUME NEW T, NEW q \in Seq(T), NEW k \in 1..Len(q), NEW z, NEW a, NEW b,
           a = SubSeq(q, 1, k), b = <<z>> \o SubSeq(q, k + 1, Len(q))
    PROVE  /\ a \in Seq(T) /\ Len(a) = k /\ \A i \in 1..k : a[i] = q[i]
           /\ b \in Seq(T \cup {z}) /\ Len(b) = Len(q) - k + 1 /\ b[1] = z
           /\ \A j \in 2..Len(b) : b[j] = q[k + j - 1]
<1>1. Len(q) \in Nat /\ k \in Nat /\ k >= 1 /\ k <= Len(q)
  OBVIOUS
<1>2. \A i \in 1..Len(q) : q[i] \in T
  OBVIOUS
<1>3. a = [i \in 1..k |-> q[i]]
  BY <1>1 DEF SubSeq
<1> DEFINE e == SubSeq(q, k + 1, Len(q))
<1>4. e \in Seq(T) /\ Len(e) = Len(q) - k /\ \A i \in 1..Len(q) - k : e[i] = q[k + i]
  <2>1. CASE k < Len(q)
    <3>1. e = [i \in 1..(1 + Len(q) - (k + 1)) |-> q[i + (k + 1) - 1]]
      BY <1>1, <2>1 DEF SubSeq
    <3>2. e \in Seq(T) /\ Len(e) = Len(q) - k
      BY <1>1, <1>2, <3>1
    <3> QED  BY SMTT(60), <1>1, <3>1, <3>2
  <2>2. CASE k = Len(q)
    <3>1. e = << >>
      BY <1>1, <2>2 DEF SubSeq
    <3> QED  BY <1>1, <2>2, <3>1
  <2> QED  BY <1>1, <2>1, <2>2
<1> HIDE DEF e
<1>5. b = <<z>> \o e
  BY DEF e
<1>6. e \in Seq(T \cup {z}) /\ <<z>> \in Seq(T \cup {z})
  BY <1>4
<1>7. b \in Seq(T \cup {z}) /\ Len(b) = Len(e) + 1 /\ b[1] = z
  BY <1>5, <1>6
<1>8. \A j \in 2..Len(b) : b[j] = q[k + j - 1]
  <2> TAKE j \in 2..Len(b)
  <2>0. \A i \in 1..(Len(<<z>>) + Len(e)) :
           (<<z>> \o e)[i] = IF i <= Len(<<z>>) THEN <<z>>[i] ELSE e[i - Len(<<z>>)]
    BY <1>6, ConcatProperties
  <2>1. b[j] = e[j - 1]
    <3>1. Len(<<z>>) = 1 /\ Len(e) \in Nat
      BY <1>6
    <3>2. j \in 1..(Len(<<z>>) + Len(e)) /\ ~(j <= Len(<<z>>)) /\ j - Len(<<z>>) = j - 1
      BY <1>7, <3>1
    <3> QED  BY <1>5, <2>0, <3>2
  <2>2. j - 1 \in 1..Len(q) - k
    BY <1>1, <1>4, <1>7
  <2>3. e[j - 1] = q[k + (j - 1)]
    BY Zenon, <1>4, <2>2
  <2>4. k + (j - 1) = k + j - 1
    BY <1>1
  <2> QED  BY <2>1, <2>3, <2>4
<1> QED  BY <1>1, <1>2, <1>3, <1>4, <1>7, <1>8

\* u is t with its last window n cut after place k, z the new zero cohort.
Delimited(t, k, u, n, z) ==
    /\ n \in Nat /\ n >= 1 /\ t.cSWindow = n /\ z \in Nat
    /\ DOMAIN u = Fields
    /\ IsSeq(u.cohorts) /\ Len(u.cohorts) = z /\ u.cohorts[z] = ZeroCohort
    /\ \A c \in 1..Len(t.cohorts) :
         /\ DOMAIN u.cohorts[c] = CohortFields
         /\ u.cohorts[c].class = t.cohorts[c].class
         /\ (u.cohorts[c].endtag <=> (t.cohorts[c].endtag \/ c = t.windows[n].cohorts[k]))
    /\ IsSeq(u.windows) /\ Len(u.windows) = n + 1
    /\ \A w \in 1..n - 1 : u.windows[w] = t.windows[w]
    /\ DOMAIN u.windows[n] = {"cohorts", "text"}
    /\ DOMAIN u.windows[n + 1] = {"cohorts", "text"}
    /\ u.windows[n].cohorts = SubSeq(t.windows[n].cohorts, 1, k)
    /\ u.windows[n + 1].cohorts = <<z>> \o SubSeq(t.windows[n].cohorts, k + 1, SizeOf(t, n))
    /\ u.next = Append(t.next, n + 1) /\ u.previous = t.previous /\ u.current = t.current
    /\ u.cSWindow = n + 1 /\ u.lSWindow = t.lSWindow
    /\ u.cCohort = t.cCohort /\ u.lCohort = t.lCohort
    /\ u.reader = t.reader /\ u.crashed = t.crashed

\* What DelimitAt does.
LEMMA DelimitFacts ==
    ASSUME NEW t, Good(t), t.cSWindow # 0, NEW k \in 2..SizeOf(t, t.cSWindow),
           NEW u, u = DelimitAt(t, k), NEW n, n = Len(t.windows), NEW z, z = Len(t.cohorts) + 1
    PROVE  Delimited(t, k, u, n, z)
<1> DEFINE o == OpenWindow(t, <<>>)
           all == t.windows[n].cohorts
           A == SubSeq(all, 1, k)
           B == SubSeq(all, k + 1, Len(all))
           c0 == all[k]
<1>1. Typed(t)
  BY DEF Good, Placed
<1>2. n \in Nat /\ n >= 1 /\ t.cSWindow = n /\ z \in Nat
  <2>1. n \in Nat /\ Len(t.cohorts) \in Nat /\ t.cSWindow \in {0, n}
    BY <1>1, PlaceFacts DEF Typed, PointersOK
  <2> QED  BY <2>1
<1>3. /\ DOMAIN o = Fields
      /\ o.cohorts = Append(t.cohorts, ZeroCohort)
      /\ o.windows = Append(t.windows, [cohorts |-> <<z>>, text |-> <<>>])
      /\ o.next = Append(t.next, n + 1)
      /\ o.cSWindow = n + 1
      /\ o.previous = t.previous /\ o.current = t.current /\ o.lCohort = t.lCohort
      /\ o.reader = t.reader /\ o.crashed = t.crashed
  BY SMTT(60), <1>1, OpenFacts DEF Typed
<1> HIDE DEF o
<1> DEFINE x == [o.windows[n] EXCEPT !.cohorts = A]
           v == With(o.windows, n, x)
           y == [v[n + 1] EXCEPT !.cohorts = o.windows[n + 1].cohorts \o B]
           d == [o.cohorts[c0] EXCEPT !.endtag = TRUE]
<1>4. /\ DOMAIN u = Fields /\ u.windows = With(v, n + 1, y) /\ u.cohorts = With(o.cohorts, c0, d)
      /\ u.next = o.next /\ u.previous = o.previous /\ u.current = o.current
      /\ u.cSWindow = o.cSWindow /\ u.lSWindow = t.lSWindow
      /\ u.cCohort = t.cCohort /\ u.lCohort = o.lCohort
      /\ u.reader = o.reader /\ u.crashed = o.crashed
  <2>1. u = [o EXCEPT
            !.windows[n].cohorts = A,
            !.windows[o.cSWindow].cohorts = @ \o B,
            !.cohorts[c0].endtag = TRUE,
            !.cCohort = t.cCohort, !.lSWindow = t.lSWindow]
    BY <1>2 DEF DelimitAt, o
  <2> HIDE DEF A, B, c0
  <2>2. DOMAIN u = Fields
    BY <1>3, <2>1 DEF Fields
  <2>3. u.windows = With(v, n + 1, y)
    <3> DEFINE ws == [o.windows EXCEPT ![n].cohorts = A]
    <3>1. u.windows = [ws EXCEPT ![o.cSWindow].cohorts = o.windows[o.cSWindow].cohorts \o B]
      BY <1>3, <2>1, ZenonT(60) DEF Fields
    <3>2. ws = v
      BY DEF With
    <3> HIDE DEF ws, v
    <3>3. u.windows = [v EXCEPT ![n + 1].cohorts = o.windows[n + 1].cohorts \o B]
      BY <1>3, <3>1, <3>2
    <3> QED  BY SMTT(60), <3>3 DEF With
  <2>4. u.cohorts = With(o.cohorts, c0, d)
    BY <1>3, <2>1 DEF Fields, With
  <2>5. /\ u.next = o.next /\ u.previous = o.previous /\ u.current = o.current
        /\ u.cSWindow = o.cSWindow /\ u.lSWindow = t.lSWindow
        /\ u.cCohort = t.cCohort /\ u.lCohort = o.lCohort
        /\ u.reader = o.reader /\ u.crashed = o.crashed
    BY <1>3, <2>1 DEF Fields
  <2> QED  BY <2>2, <2>3, <2>4, <2>5
<1>5. IsSeq(t.windows) /\ IsSeq(t.cohorts)
  BY <1>1 DEF Typed, WindowsOK, CohortsOK
<1>6. /\ IsSeq(o.windows) /\ Len(o.windows) = n + 1
      /\ \A w \in 1..n : o.windows[w] = t.windows[w]
      /\ o.windows[n + 1] = [cohorts |-> <<z>>, text |-> <<>>]
  BY <1>3, <1>5, AppendSeq
<1>7. /\ IsSeq(o.cohorts) /\ Len(o.cohorts) = z
      /\ \A c \in 1..Len(t.cohorts) : o.cohorts[c] = t.cohorts[c]
      /\ o.cohorts[z] = ZeroCohort
  BY <1>3, <1>5, AppendSeq
<1>8. /\ DOMAIN t.windows[n] = {"cohorts", "text"}
      /\ SizeOf(t, n) \in Nat /\ c0 \in 1..Len(t.cohorts) /\ SizeOf(t, n) = Len(all)
  <2>1. n \in 1..Len(t.windows)
    BY <1>2
  <2>2. DOMAIN t.windows[n] = {"cohorts", "text"}
    BY <1>1, <2>1 DEF Typed, WindowsOK
  <2>3. SizeOf(t, n) \in Nat /\ \A i \in 1..SizeOf(t, n) : all[i] \in 1..Len(t.cohorts)
    BY <1>1, <2>1, PlaceFacts
  <2>4. k \in 1..SizeOf(t, n)
    BY <1>2, <2>3
  <2> QED  BY <2>2, <2>3, <2>4 DEF SizeOf
<1>9. n \in 1..Len(o.windows) /\ n + 1 \in 1..Len(o.windows)
  BY <1>2, <1>6
<1> HIDE DEF A
<1>10. DOMAIN x = {"cohorts", "text"} /\ x.cohorts = A
  <2>1. o.windows[n] = t.windows[n]
    BY <1>2, <1>6
  <2> QED  BY <1>8, <2>1
<1> HIDE DEF x
<1>11. /\ IsSeq(v) /\ Len(v) = n + 1 /\ v[n] = x /\ v[n + 1] = o.windows[n + 1]
       /\ \A w \in 1..n - 1 : v[w] = t.windows[w]
  <2>1. /\ IsSeq(v) /\ Len(v) = n + 1 /\ v[n] = x
        /\ \A w \in 1..n + 1 : w # n => v[w] = o.windows[w]
    BY SMTT(60), <1>6, <1>9, ReplacedSeq
  <2> QED  BY SMTT(60), <1>2, <1>6, <2>1
<1> HIDE DEF v
<1>12. DOMAIN y = {"cohorts", "text"} /\ y.cohorts = <<z>> \o B
  <2>1. v[n + 1] = [cohorts |-> <<z>>, text |-> <<>>] /\ o.windows[n + 1].cohorts = <<z>>
    BY <1>6, <1>11
  <2> HIDE DEF B
  <2> QED  BY <2>1
<1> HIDE DEF y
<1>13. /\ IsSeq(u.windows) /\ Len(u.windows) = n + 1
       /\ u.windows[n + 1] = y /\ u.windows[n] = x
       /\ \A w \in 1..n - 1 : u.windows[w] = t.windows[w]
  <2>1. /\ IsSeq(u.windows) /\ Len(u.windows) = n + 1 /\ u.windows[n + 1] = y
        /\ \A w \in 1..n + 1 : w # n + 1 => u.windows[w] = v[w]
    BY <1>4, <1>6, <1>9, <1>11, ReplacedSeq, SMTT(60)
  <2>2. n \in 1..n + 1 /\ n # n + 1 /\ \A w \in 1..n - 1 : w \in 1..n + 1 /\ w # n + 1
    BY <1>2
  <2> QED  BY <1>11, <2>1, <2>2
<1>14. /\ IsSeq(u.cohorts) /\ Len(u.cohorts) = z /\ u.cohorts[z] = ZeroCohort
       /\ u.cohorts[c0] = d /\ \A c \in 1..Len(t.cohorts) : c # c0 => u.cohorts[c] = t.cohorts[c]
  <2>1. Len(t.cohorts) \in Nat /\ c0 \in 1..Len(o.cohorts)
    BY <1>1, <1>7, <1>8, PlaceFacts
  <2> HIDE DEF c0, d
  <2>2. /\ IsSeq(u.cohorts) /\ Len(u.cohorts) = z
        /\ u.cohorts[c0] = d /\ \A c \in 1..z : c # c0 => u.cohorts[c] = o.cohorts[c]
    BY <1>4, <1>7, <2>1, ReplacedSeq
  <2> QED  BY SMTT(60), <1>7, <1>8, <2>1, <2>2
<1>15. DOMAIN d = CohortFields /\ d.class = t.cohorts[c0].class /\ d.endtag = TRUE
  <2>1. o.cohorts[c0] = t.cohorts[c0] /\ DOMAIN t.cohorts[c0] = CohortFields
    BY <1>1, <1>7, <1>8 DEF Typed, CohortsOK
  <2> HIDE DEF c0
  <2> QED  BY <2>1 DEF CohortFields
<1> HIDE DEF d, c0
<1>16. \A c \in 1..Len(t.cohorts) :
          /\ DOMAIN u.cohorts[c] = CohortFields
          /\ u.cohorts[c].class = t.cohorts[c].class
          /\ (u.cohorts[c].endtag <=> (t.cohorts[c].endtag \/ c = c0))
  <2> TAKE c \in 1..Len(t.cohorts)
  <2>1. CASE c = c0
    BY <1>14, <1>15, <2>1
  <2>2. CASE c # c0
    <3>1. DOMAIN t.cohorts[c] = CohortFields /\ u.cohorts[c] = t.cohorts[c]
      BY SMTT(60), <1>1, <1>14, <2>2 DEF Typed, CohortsOK
    <3> QED  BY <2>2, <3>1
  <2> QED  BY <2>1, <2>2
<1> QED  BY Zenon, <1>2, <1>3, <1>4, <1>8, <1>10, <1>12, <1>13, <1>14, <1>16 DEF Delimited, A, c0

\* Where a cohort of the cut windows was before the cut: all but the new zero
\* cohort were in a place of their own.
CutPlaces(t, k, u, n, z) ==
    /\ SizeOf(u, n) = k /\ SizeOf(u, n + 1) = SizeOf(t, n) - k + 1
    /\ SizeOf(t, n) \in Nat /\ k \in Nat /\ k >= 2 /\ k <= SizeOf(t, n)
    /\ u.windows[n].cohorts \in Seq(1..Len(t.cohorts))
    /\ u.windows[n + 1].cohorts \in Seq(1..z)
    /\ \A w \in 1..n - 1 : SizeOf(u, w) = SizeOf(t, w) /\ u.windows[w] = t.windows[w]
    /\ \A i \in 1..k : u.windows[n].cohorts[i] = t.windows[n].cohorts[i]
    /\ u.windows[n + 1].cohorts[1] = z
    /\ \A j \in 2..SizeOf(u, n + 1) :
         k + j - 1 \in 1..SizeOf(t, n) /\ u.windows[n + 1].cohorts[j] = t.windows[n].cohorts[k + j - 1]

\* That is so after DelimitAt.
LEMMA DelimitPlaces ==
    ASSUME NEW t, Good(t), t.cSWindow # 0, NEW k \in 2..SizeOf(t, t.cSWindow),
           NEW u, u = DelimitAt(t, k), NEW n, n = Len(t.windows), NEW z, z = Len(t.cohorts) + 1
    PROVE  CutPlaces(t, k, u, n, z)
<1> DEFINE all == t.windows[n].cohorts
           T == 1..Len(t.cohorts)
<1>1. /\ n \in Nat /\ n >= 1 /\ t.cSWindow = n /\ z \in Nat
      /\ \A w \in 1..n - 1 : u.windows[w] = t.windows[w]
      /\ u.windows[n].cohorts = SubSeq(all, 1, k)
      /\ u.windows[n + 1].cohorts = <<z>> \o SubSeq(all, k + 1, SizeOf(t, n))
  <2>1. Delimited(t, k, u, n, z)
    BY DelimitFacts
  <2> QED  BY <2>1 DEF Delimited
<1>2. Typed(t) /\ n \in 1..Len(t.windows)
  BY <1>1 DEF Good, Placed
<1>3. all \in Seq(T) /\ SizeOf(t, n) = Len(all) /\ Len(all) \in Nat /\ Len(t.cohorts) \in Nat
  <2>1. all \in Seq(T)
    BY <1>2 DEF Typed, WindowsOK
  <2> QED  BY <1>2, <2>1, PlaceFacts DEF SizeOf
<1> HIDE DEF all, T
<1>4. k \in 1..Len(all) /\ k \in Nat /\ k >= 2 /\ k <= Len(all)
  BY SMTT(60), <1>1, <1>3
<1>5. u.windows[n + 1].cohorts = <<z>> \o SubSeq(all, k + 1, Len(all))
  BY <1>1, <1>3
<1> DEFINE a == u.windows[n].cohorts
           b == u.windows[n + 1].cohorts
<1>6. /\ a \in Seq(T) /\ Len(a) = k /\ \A i \in 1..k : a[i] = all[i]
      /\ b \in Seq(T \cup {z}) /\ Len(b) = Len(all) - k + 1 /\ b[1] = z
      /\ \A j \in 2..Len(b) : b[j] = all[k + j - 1]
  <2>1. a = SubSeq(all, 1, k) /\ b = <<z>> \o SubSeq(all, k + 1, Len(all))
    BY <1>1, <1>5
  <2> HIDE DEF a, b
  <2> QED  BY <1>3, <1>4, <2>1, CutSeq
<1>7. T \cup {z} = 1..z
  BY <1>3 DEF T
<1>8. SizeOf(u, n) = Len(a) /\ SizeOf(u, n + 1) = Len(b)
  BY DEF SizeOf
<1> HIDE DEF a, b
<1>9. \A j \in 2..Len(b) : k + j - 1 \in 1..Len(all)
  BY <1>3, <1>4, <1>6
<1>10. \A w \in 1..n - 1 : SizeOf(u, w) = SizeOf(t, w)
  BY <1>1 DEF SizeOf
<1>11. b \in Seq(1..z)
  BY <1>6, <1>7
<1> QED  BY ZenonT(60), <1>1, <1>3, <1>4, <1>6, <1>8, <1>9, <1>10, <1>11 DEF CutPlaces, a, b, all, T

\* Cutting a window in the look-back keeps the invariant.
LEMMA DelimitGood ==
    ASSUME NEW t, Good(t), t.cSWindow # 0, NEW k \in 2..SizeOf(t, t.cSWindow),
           NEW u, u = DelimitAt(t, k)
    PROVE  /\ Good(u) /\ u.cSWindow # 0 /\ u.cCohort = t.cCohort
           /\ u.reader = t.reader /\ u.crashed = t.crashed
<1> DEFINE n == Len(t.windows)
           z == Len(t.cohorts) + 1
           all == t.windows[n].cohorts
<1>1. Delimited(t, k, u, n, z)
  BY DelimitFacts
<1>2. CutPlaces(t, k, u, n, z)
  BY DelimitPlaces
<1>3. Typed(t)
  BY SMTT(60) DEF Good, Placed
<1>4. /\ n \in Nat /\ n >= 1 /\ t.cSWindow = n /\ z \in Nat
      /\ SizeOf(u, n) = k /\ SizeOf(u, n + 1) = SizeOf(t, n) - k + 1
      /\ SizeOf(t, n) \in Nat /\ k \in Nat /\ k >= 2 /\ k <= SizeOf(t, n)
      /\ Len(u.windows) = n + 1
  BY <1>1, <1>2 DEF Delimited, CutPlaces
<1>5. \A w \in 1..n : /\ SizeOf(t, w) \in Nat /\ SizeOf(t, w) >= 1
                      /\ \A i \in 1..SizeOf(t, w) : t.windows[w].cohorts[i] \in 1..z - 1
  <2>1. Len(t.cohorts) = z - 1
    BY <1>3, PlaceFacts
  <2> QED  BY <1>3, <2>1, PlaceFacts
<1>6. /\ \A w \in 1..n - 1 : SizeOf(u, w) = SizeOf(t, w) /\ u.windows[w] = t.windows[w]
      /\ \A i \in 1..k : u.windows[n].cohorts[i] = all[i]
      /\ u.windows[n + 1].cohorts[1] = z
      /\ \A j \in 2..SizeOf(u, n + 1) :
            k + j - 1 \in 1..SizeOf(t, n) /\ u.windows[n + 1].cohorts[j] = all[k + j - 1]
  BY SMTT(60), <1>2 DEF CutPlaces
<1>7. /\ Len(u.cohorts) = z /\ u.cohorts[z] = ZeroCohort
      /\ \A c \in 1..z - 1 :
           /\ DOMAIN u.cohorts[c] = CohortFields
           /\ u.cohorts[c].class = t.cohorts[c].class
           /\ (u.cohorts[c].endtag <=> (t.cohorts[c].endtag \/ c = all[k]))
  <2>1. Len(t.cohorts) = z - 1
    BY <1>3, PlaceFacts
  <2> QED  BY <1>1, <2>1 DEF Delimited
<1>8. t.cCohort \in 0..z - 1
  <2>1. Len(t.cohorts) = z - 1
    BY <1>3, PlaceFacts
  <2> QED  BY <1>3, <2>1 DEF Typed, PointersOK
<1>9. z # 0 /\ z \notin 1..z - 1 /\ z \in 1..z /\ \A c \in 1..z : c \in 1..z - 1 \/ c = z
  <2>1. z >= 1
    BY <1>3, PlaceFacts
  <2> QED  BY SMTT(60), <1>4, <2>1
<1>10. n \in 1..n /\ \A w \in 1..n + 1 : w \in 1..n - 1 \/ w = n \/ w = n + 1
  BY SMTT(60), <1>4
<1> HIDE DEF n, z, all
\* The place a cohort had before the cut
<1> DEFINE Was(w, i, v, m) ==
             /\ v \in 1..n /\ m \in 1..SizeOf(t, v)
             /\ u.windows[w].cohorts[i] = t.windows[v].cohorts[m]
             /\ \/ w \in 1..n - 1 /\ v = w /\ m = i
                \/ w = n /\ v = n /\ m = i /\ i <= k
                \/ w = n + 1 /\ v = n /\ m = k + i - 1 /\ i >= 2
<1>11. ASSUME NEW w \in 1..n + 1, NEW i \in 1..SizeOf(u, w)
       PROVE  \/ w = n + 1 /\ i = 1 /\ u.windows[w].cohorts[i] = z
              \/ \E v, m : Was(w, i, v, m)
  <2>1. CASE w \in 1..n - 1
    <3>1. Was(w, i, w, i)
      BY SMTT(60), <1>4, <1>6, <2>1
    <3> QED  BY <3>1
  <2>2. CASE w = n
    <3>1. Was(w, i, n, i)
      BY <1>4, <1>6, <1>10, <2>2 DEF all
    <3> QED  BY <3>1
  <2>3. CASE w = n + 1 /\ i = 1
    BY <1>6, <2>3
  <2>4. CASE w = n + 1 /\ i # 1
    <3>1. i \in 2..SizeOf(u, n + 1)
      BY <1>4, <2>4
    <3>2. Was(w, i, n, k + i - 1)
      BY <1>6, <1>10, <2>4, <3>1 DEF all
    <3> QED  BY <3>2
  <2> QED  BY <1>10, <2>1, <2>2, <2>3, <2>4
<1> HIDE DEF Was
<1>12. ASSUME NEW w, NEW i, NEW v, NEW m, Was(w, i, v, m)
       PROVE  /\ v \in 1..n /\ m \in 1..SizeOf(t, v)
              /\ u.windows[w].cohorts[i] = t.windows[v].cohorts[m]
              /\ u.windows[w].cohorts[i] \in 1..z - 1
  <2>1. v \in 1..n /\ m \in 1..SizeOf(t, v) /\ u.windows[w].cohorts[i] = t.windows[v].cohorts[m]
    BY <1>12 DEF Was
  <2> QED  BY <1>5, <2>1
<1>13. \A v, w \in 1..n : \A i \in 1..SizeOf(t, v), j \in 1..SizeOf(t, w) :
           t.windows[v].cohorts[i] = t.windows[w].cohorts[j] => v = w /\ i = j
  BY DEF Good, Placed, Once, n
<1>14. Once(u)
  <2> SUFFICES ASSUME NEW v \in 1..n + 1, NEW w \in 1..n + 1,
                      NEW i \in 1..SizeOf(u, v), NEW j \in 1..SizeOf(u, w),
                      u.windows[v].cohorts[i] = u.windows[w].cohorts[j]
               PROVE  v = w /\ i = j
    BY ZenonT(60), <1>4 DEF Once
  <2>1. CASE v = n + 1 /\ i = 1 /\ u.windows[v].cohorts[i] = z
    <3>1. \A x, m : ~ Was(w, j, x, m)
      BY <1>9, <1>12, <2>1
    <3> QED  BY <1>11, <2>1, <3>1
  <2>2. CASE w = n + 1 /\ j = 1 /\ u.windows[w].cohorts[j] = z
    <3>1. \A x, m : ~ Was(v, i, x, m)
      BY <1>9, <1>12, <2>2
    <3> QED  BY <1>11, <2>2, <3>1
  <2>3. ASSUME NEW x, NEW m, Was(v, i, x, m), NEW y, NEW l, Was(w, j, y, l)
        PROVE  v = w /\ i = j
    <3>1. x = y /\ m = l
      BY <1>12, <1>13, <2>3
    <3>2. i \in Int /\ j \in Int /\ k \in Int /\ n \in Int
      BY <1>4
    <3> QED  BY <2>3, <3>1, <3>2 DEF Was
  <2> QED  BY <1>11, <2>1, <2>2, <2>3
<1>15. CohortsOK(u)
  BY <1>1, <1>7, <1>9, ZeroFacts DEF CohortsOK, Delimited
<1>16. WindowsOK(u)
  <2> SUFFICES ASSUME NEW w \in 1..n + 1
               PROVE  /\ DOMAIN u.windows[w] = {"cohorts", "text"}
                      /\ u.windows[w].cohorts \in Seq(1..Len(u.cohorts))
                      /\ SizeOf(u, w) >= 1
                      /\ u.cohorts[u.windows[w].cohorts[1]].class = "none"
    BY <1>1, <1>4 DEF WindowsOK, Delimited
  <2>1. ASSUME NEW v \in 1..n
        PROVE  /\ DOMAIN t.windows[v] = {"cohorts", "text"}
               /\ t.windows[v].cohorts \in Seq(1..Len(t.cohorts))
               /\ t.cohorts[t.windows[v].cohorts[1]].class = "none"
               /\ t.windows[v].cohorts[1] \in 1..z - 1
    BY <1>3, <1>5 DEF Typed, WindowsOK, n
  <2>3. 1..Len(t.cohorts) \subseteq 1..z
    BY <1>3, PlaceFacts DEF z
  <2>2. \A q : q \in Seq(1..Len(t.cohorts)) => q \in Seq(1..z)
    BY <2>3, SeqOfMore, Zenon
  <2>7. \A c \in 1..z - 1 : u.cohorts[c].class = t.cohorts[c].class
    BY <1>7
  <2>4. CASE w \in 1..n - 1
    <3>1. w \in 1..n /\ u.windows[w] = t.windows[w] /\ SizeOf(u, w) = SizeOf(t, w)
      BY <1>4, <1>6, <2>4
    <3>2. u.windows[w].cohorts \in Seq(1..z)
      BY <2>1, <2>2, <3>1
    <3>3. SizeOf(u, w) >= 1
      BY <1>5, <3>1
    <3>4. u.cohorts[u.windows[w].cohorts[1]].class = "none"
      BY <2>1, <2>7, <3>1
    <3> QED  BY <1>7, <2>1, <3>1, <3>2, <3>3, <3>4
  <2>5. CASE w = n
    <3>1. u.windows[n].cohorts \in Seq(1..Len(t.cohorts)) /\ DOMAIN u.windows[n] = {"cohorts", "text"}
      BY <1>1, <1>2 DEF Delimited, CutPlaces
    <3>2. u.windows[n].cohorts \in Seq(1..z)
      BY <2>2, <3>1
    <3>3. 1 \in 1..k
      BY <1>4
    <3>4. u.windows[n].cohorts[1] = t.windows[n].cohorts[1]
      BY <1>6, <3>3 DEF all
    <3>5. u.cohorts[u.windows[n].cohorts[1]].class = "none"
      BY <1>10, <2>1, <2>7, <3>4
    <3> QED  BY <1>4, <1>7, <2>5, <3>1, <3>2, <3>5
  <2>6. CASE w = n + 1
    <3>1. u.windows[n + 1].cohorts \in Seq(1..z) /\ DOMAIN u.windows[n + 1] = {"cohorts", "text"}
      BY <1>1, <1>2 DEF Delimited, CutPlaces
    <3>2. SizeOf(u, n + 1) >= 1
      BY <1>4
    <3> QED  BY <1>6, <1>7, <2>6, <3>1, <3>2, ZeroFacts
  <2> QED  BY <1>10, <2>4, <2>5, <2>6
<1>17. Typed(u)
  <2>1. t.previous \in Seq(Nat) /\ t.next \in Seq(Nat) /\ t.current \in Nat
    BY <1>3 DEF Typed, QueuesOK
  <2>2. u.next = Append(t.next, n + 1) /\ u.previous = t.previous /\ u.current = t.current
    BY <1>1 DEF Delimited
  <2>3. n + 1 \in Nat
    BY <1>4
  <2>4. QueuesOK(u)
    BY <2>1, <2>2, <2>3 DEF QueuesOK
  <2>5. /\ t.lSWindow \in 0..n /\ t.cCohort \in 0..Len(t.cohorts) /\ t.lCohort \in 0..Len(t.cohorts)
        /\ Len(t.cohorts) \in Nat
    BY <1>3, PlaceFacts DEF Typed, PointersOK, n
  <2>6. /\ u.cSWindow = n + 1 /\ u.lSWindow = t.lSWindow
        /\ u.cCohort = t.cCohort /\ u.lCohort = t.lCohort
    BY <1>1 DEF Delimited
  <2>7. PointersOK(u)
    BY SMTT(60), <1>4, <1>7, <2>5, <2>6 DEF PointersOK, z
  <2>8. DOMAIN u = Fields
    BY <1>1 DEF Delimited
  <2> QED  BY <1>15, <1>16, <2>4, <2>7, <2>8 DEF Typed
<1>18. u.cSWindow = n + 1 /\ u.cCohort = t.cCohort /\ u.reader = t.reader /\ u.crashed = t.crashed
  BY <1>1 DEF Delimited
<1>19. Fitting(u)
  <2>1. /\ \A w \in 1..n : SizeOf(t, w) <= HardLimit + 1
        /\ SizeOf(t, n) <= HardLimit /\ HardLimit \in Nat
    BY <1>4, StreamLimits DEF Good, Placed, Fitting, n
  <2>2. SizeOf(u, n) <= HardLimit + 1 /\ SizeOf(u, n + 1) <= HardLimit
    BY <1>4, <2>1
  <2>3. \A w \in 1..n - 1 : SizeOf(u, w) <= HardLimit + 1
    BY <1>4, <1>6, <2>1
  <2>4. SizeOf(u, n + 1) <= HardLimit + 1
    BY <1>4, <2>1
  <2>5. \A w \in 1..n + 1 : SizeOf(u, w) <= HardLimit + 1
    BY SMTT(60), <1>10, <2>2, <2>3, <2>4
  <2> QED  BY <1>4, <1>18, <2>2, <2>5 DEF Fitting
<1>20. Marks(u, Len(u.windows))
  <2>0. Len(u.windows) = n + 1 /\ u.cSWindow = n + 1
    BY <1>4, <1>18
  <2> SUFFICES ASSUME NEW w \in 1..n + 1, NEW i \in 1..SizeOf(u, w)
               PROVE  u.cohorts[u.windows[w].cohorts[i]].endtag <=>
                          (w # n + 1 /\ SizeOf(u, w) > 1 /\ i = SizeOf(u, w))
    BY <2>0, ZenonT(60) DEF Marks
  <2>1. CASE w = n + 1 /\ i = 1 /\ u.windows[w].cohorts[i] = z
    BY <1>7, <2>1, ZeroFacts
  <2>2. ASSUME NEW v, NEW m, Was(w, i, v, m)
        PROVE  u.cohorts[u.windows[w].cohorts[i]].endtag <=>
                   (w # n + 1 /\ SizeOf(u, w) > 1 /\ i = SizeOf(u, w))
    <3> DEFINE c == u.windows[w].cohorts[i]
    <3>1. /\ v \in 1..n /\ m \in 1..SizeOf(t, v)
          /\ c = t.windows[v].cohorts[m] /\ c \in 1..z - 1
      BY <1>12, <2>2
    <3>2. /\ \/ w \in 1..n - 1 /\ v = w /\ m = i
             \/ w = n /\ v = n /\ m = i /\ i <= k
             \/ w = n + 1 /\ v = n /\ m = k + i - 1 /\ i >= 2
      BY <2>2 DEF Was
    <3> HIDE DEF c
    <3>3. u.cohorts[c].endtag <=> (t.cohorts[c].endtag \/ c = all[k])
      BY <1>7, <3>1
    <3>4. t.cohorts[c].endtag <=> (v # n /\ SizeOf(t, v) > 1 /\ m = SizeOf(t, v))
      <4>1. t.cohorts[t.windows[v].cohorts[m]].endtag <=> (v # n /\ SizeOf(t, v) > 1 /\ m = SizeOf(t, v))
        BY <1>4, <3>1 DEF Good, Placed, Marks, n
      <4> QED  BY <3>1, <4>1
    <3>5. c = all[k] <=> v = n /\ m = k
      <4>1. k \in 1..SizeOf(t, n)
        BY SMTT(60), <1>4
      <4> QED  BY <1>10, <1>13, <3>1, <4>1 DEF all
    <3>6. CASE w \in 1..n - 1
      <4>1. w # n /\ w # n + 1 /\ SizeOf(u, w) = SizeOf(t, w) /\ v = w /\ m = i
        BY SMTT(60), <1>4, <1>6, <3>2, <3>6
      <4> QED  BY <3>3, <3>4, <3>5, <4>1 DEF c
    <3>7. CASE w = n
      <4>1. v = n /\ m = i /\ n # n + 1 /\ SizeOf(u, w) = k /\ k > 1
        BY SMTT(60), <1>4, <3>2, <3>7
      <4> QED  BY <3>3, <3>4, <3>5, <3>7, <4>1 DEF c
    <3>8. CASE w = n + 1
      <4>1. v = n /\ m # k
        BY <1>4, <3>2, <3>8
      <4> QED  BY <3>3, <3>4, <3>5, <3>8, <4>1 DEF c
    <3> QED  BY <1>10, <3>6, <3>7, <3>8
  <2> QED  BY <1>11, <2>1, <2>2
<1>21. Pending(u)
  <2> SUFFICES ASSUME t.cCohort # 0
               PROVE  /\ u.cSWindow # 0 /\ ~ u.cohorts[t.cCohort].endtag
                      /\ \A w \in 1..n + 1 : \A i \in 1..SizeOf(u, w) :
                            u.windows[w].cohorts[i] # t.cCohort
    BY <1>4, <1>18 DEF Pending
  <2>1. /\ ~ t.cohorts[t.cCohort].endtag
        /\ \A w \in 1..n : \A i \in 1..SizeOf(t, w) : t.windows[w].cohorts[i] # t.cCohort
    BY DEF Good, Pending, n
  <2>2. t.cCohort \in 1..z - 1 /\ t.cCohort # z
    BY <1>4, <1>8, <1>9
  <2>3. t.cCohort # all[k]
    <3>1. k \in 1..SizeOf(t, n)
      BY <1>4
    <3> QED  BY <1>10, <2>1, <3>1 DEF all
  <2>4. ~ u.cohorts[t.cCohort].endtag
    BY <1>7, <2>1, <2>2, <2>3
  <2>5. u.cSWindow # 0
    BY <1>4, <1>18
  <2>6. ASSUME NEW w \in 1..n + 1, NEW i \in 1..SizeOf(u, w)
        PROVE  u.windows[w].cohorts[i] # t.cCohort
    BY <1>11, <1>12, <2>1, <2>2
  <2> QED  BY <2>4, <2>5, <2>6
<1>22. u.cSWindow # 0
  BY <1>4, <1>18
<1> QED  BY <1>14, <1>17, <1>18, <1>19, <1>20, <1>21, <1>22 DEF Good, Placed

\* A set of numbers that is not empty has a least one.
LEMMA LeastNumber ==
    ASSUME NEW T, T \subseteq Nat, T # {}
    PROVE  \E x \in T : \A y \in T : x <= y
<1> DEFINE R == OpToRel(<, Nat)
<1>1. IsWellFoundedOn(R, Nat)
  BY NatLessThanWellFounded
<1>2. \A x, y \in Nat : x < y => <<x, y>> \in R
  BY DEF OpToRel
<1> HIDE DEF R
<1>3. PICK x \in T : \A y \in T : ~ (<<y, x>> \in R)
  BY <1>1, WFMin
<1>4. \A y \in T : x <= y
  <2> TAKE y \in T
  <2>1. x \in Nat /\ y \in Nat /\ ~ (y < x)
    BY <1>2, <1>3
  <2> QED  BY <2>1
<1> QED  BY <1>4

\* And a largest one when none is above n.
LEMMA LargestNumber ==
    ASSUME NEW n \in Nat, NEW S, S \subseteq 1..n, S # {}
    PROVE  Max(S) \in S /\ \A y \in S : Max(S) >= y
<1> DEFINE T == {n - x : x \in S}
<1>1. T \subseteq Nat /\ T # {}
  <2>1. \A x \in S : n - x \in Nat
    OBVIOUS
  <2> QED  BY <2>1
<1> HIDE DEF T
<1>2. PICK z \in T : \A y \in T : z <= y
  BY <1>1, LeastNumber
<1>3. PICK x \in S : z = n - x
  BY DEF T
<1>4. \A y \in S : x >= y
  <2> TAKE y \in S
  <2>1. n - y \in T /\ x \in Int /\ y \in Int
    BY DEF T
  <2> QED  BY <1>2, <1>3, <2>1
<1> QED  BY <1>4 DEF Max

\* The look-back keeps the invariant, and what is being filled stays that.
LEMMA LookbackGood ==
    ASSUME NEW t, Good(t), NEW u, u = SoftLookback(t)
    PROVE  /\ Good(u) /\ u.cCohort = t.cCohort /\ (u.cSWindow = 0 <=> t.cSWindow = 0)
           /\ u.reader = t.reader /\ u.crashed = t.crashed
<1> DEFINE n == t.cSWindow
           all == t.windows[n].cohorts
           I == {i \in 1..Len(all) : t.cohorts[all[i]].class = "soft"}
           k == IF I # {} THEN Max(I) ELSE 0
<1>1. CASE u = t
  BY SMTT(60), <1>1
<1>2. CASE u # t
  <2>1. n # 0 /\ u = IF k = 0 THEN [t EXCEPT !.didLookback = TRUE] ELSE DelimitAt(t, k)
    BY Zenon, <1>2 DEF SoftLookback, SelectLastInSeq
  <2>2. CASE k = 0
    <3>1. Typed(t)
      BY SMTT(60) DEF Good, Placed
    <3>2. u = [t EXCEPT !.didLookback = TRUE]
      BY Zenon, <2>1, <2>2
    <3>3. /\ DOMAIN u = Fields /\ u.cohorts = t.cohorts /\ u.windows = t.windows
          /\ u.cSWindow = t.cSWindow /\ u.lSWindow = t.lSWindow
          /\ u.cCohort = t.cCohort /\ u.lCohort = t.lCohort
          /\ u.previous = t.previous /\ u.next = t.next /\ u.current = t.current
          /\ u.reader = t.reader /\ u.crashed = t.crashed
      BY <3>1, <3>2 DEF Typed, Fields
    <3>4. Alike(t, u)
      BY <3>1, <3>3 DEF Typed, QueuesOK, CohortsOK, WindowsOK, PointersOK, Alike
    <3> QED  BY <3>3, <3>4, AlikeGood
  <2>3. CASE k # 0
    <3>1. Typed(t)
      BY DEF Good, Placed
    <3>2. n \in 1..Len(t.windows)
      <4>1. n \in {0, Len(t.windows)} /\ n # 0
        BY Zenon, <2>1, <3>1 DEF Typed, PointersOK
      <4>2. Len(t.windows) \in Nat
        BY SMTT(60), <3>1, PlaceFacts
      <4> QED  BY SMTT(60), <4>1, <4>2
    <3>3. /\ SizeOf(t, n) \in Nat /\ Len(all) = SizeOf(t, n)
          /\ t.cohorts[all[1]].class = "none"
      BY SMTT(60), <3>1, <3>2, PlaceFacts DEF Typed, WindowsOK, SizeOf
    <3> HIDE DEF all
    <3>4. k \in I
      BY <2>3, <3>3, LargestNumber
    <3>5. k \in 1..Len(all) /\ t.cohorts[all[k]].class = "soft"
      BY <3>4
    <3> HIDE DEF k
    <3>6. k \in 2..SizeOf(t, n)
      BY <3>3, <3>5
    <3>7. u = DelimitAt(t, k)
      BY <2>1, <2>3
    <3> QED  BY <2>1, <3>6, <3>7, DelimitGood
  <2> QED  BY ZenonT(60), <2>2, <2>3
<1> QED  BY <1>1, <1>2

-----------------------------------------------------------------------------
(* Cohorts are read, windows are run and written.                          *)

\* A new cohort, which goes to the window being filled.
LEMMA AllocGood ==
    ASSUME NEW t, Placed(t), t.cSWindow # 0, NEW c, DOMAIN c = CohortFields, ~ c.endtag,
           NEW u, u = AllocCohort(t, c)
    PROVE  /\ Good(u) /\ u.cCohort = Len(t.cohorts) + 1 /\ u.cCohort # 0 /\ u.cSWindow = t.cSWindow
           /\ u.reader = t.reader /\ u.crashed = t.crashed
           /\ Len(u.windows) = Len(t.windows)
<1> DEFINE m == Len(t.cohorts)
<1>1. Typed(t)
  BY DEF Placed
<1>2. /\ DOMAIN u = Fields /\ u.cohorts = Append(t.cohorts, c) /\ u.windows = t.windows
      /\ u.cCohort = m + 1 /\ u.cSWindow = t.cSWindow /\ u.lSWindow = t.lSWindow
      /\ u.lCohort = t.lCohort /\ u.previous = t.previous /\ u.next = t.next
      /\ u.current = t.current /\ u.reader = t.reader /\ u.crashed = t.crashed
  <2>1. DOMAIN t = Fields
    BY <1>1 DEF Typed
  <2> QED  BY <2>1 DEF AllocCohort, Fields
<1>3. IsSeq(t.cohorts) /\ \A d \in 1..m : DOMAIN t.cohorts[d] = CohortFields
  BY <1>1 DEF Typed, CohortsOK
<1>4. /\ IsSeq(u.cohorts) /\ Len(u.cohorts) = m + 1 /\ m \in Nat
      /\ \A d \in 1..m : u.cohorts[d] = t.cohorts[d]
      /\ u.cohorts[m + 1] = c
  BY <1>2, <1>3, AppendSeq
<1>5. /\ Len(t.windows) \in Nat
      /\ \A w \in 1..Len(t.windows) :
           /\ SizeOf(t, w) >= 1 /\ SizeOf(t, w) \in Nat
           /\ \A i \in 1..SizeOf(t, w) : t.windows[w].cohorts[i] \in 1..m
  BY <1>1, PlaceFacts
<1>6. \A w \in 1..Len(t.windows) : SizeOf(u, w) = SizeOf(t, w)
  BY <1>2 DEF SizeOf
<1> HIDE DEF m
<1>7. CohortsOK(u)
  BY <1>3, <1>4 DEF CohortsOK
<1>8. WindowsOK(u)
  <2>1. 1..m \subseteq 1..m + 1
    BY SMTT(60), <1>4
  <2> SUFFICES ASSUME NEW w \in 1..Len(t.windows)
               PROVE  /\ DOMAIN u.windows[w] = {"cohorts", "text"}
                      /\ u.windows[w].cohorts \in Seq(1..Len(u.cohorts))
                      /\ SizeOf(u, w) >= 1
                      /\ u.cohorts[u.windows[w].cohorts[1]].class = "none"
    BY <1>1, <1>2 DEF Typed, WindowsOK
  <2>2. /\ DOMAIN t.windows[w] = {"cohorts", "text"} /\ t.windows[w].cohorts \in Seq(1..m)
        /\ t.cohorts[t.windows[w].cohorts[1]].class = "none"
    BY <1>1 DEF Typed, WindowsOK, m
  <2>3. t.windows[w].cohorts \in Seq(1..m + 1)
    <3>1. \A q : q \in Seq(1..m) => q \in Seq(1..m + 1)
      BY <2>1, SeqOfMore, Zenon
    <3> QED  BY <2>2, <3>1
  <2>4. 1 \in 1..SizeOf(t, w)
    BY <1>5
  <2>5. t.windows[w].cohorts[1] \in 1..m
    BY <1>5, <2>4
  <2>6. u.cohorts[t.windows[w].cohorts[1]].class = "none"
    BY <1>4, <2>2, <2>5
  <2> QED  BY <1>2, <1>4, <1>5, <1>6, <2>2, <2>3, <2>6
<1>9. Typed(u)
  <2>1. QueuesOK(u)
    BY <1>1, <1>2 DEF Typed, QueuesOK
  <2>2. PointersOK(u)
    BY <1>1, <1>2, <1>4 DEF Typed, PointersOK, m
  <2> QED  BY <1>2, <1>7, <1>8, <2>1, <2>2 DEF Typed
<1>10. Once(u)
  BY <1>2, <1>6 DEF Placed, Once
<1>11. Fitting(u)
  <2>1. t.cSWindow # 0 => t.cSWindow \in 1..Len(t.windows)
    <3>1. t.cSWindow \in {0, Len(t.windows)}
      BY <1>1 DEF Typed, PointersOK
    <3> QED  BY <1>5, <3>1
  <2> QED  BY <1>2, <1>6, <2>1 DEF Placed, Fitting
<1>12. Marks(u, Len(u.windows))
  <2>0. Len(u.windows) = Len(t.windows)
    BY <1>2
  <2> SUFFICES ASSUME NEW w \in 1..Len(t.windows), NEW i \in 1..SizeOf(u, w)
               PROVE  u.cohorts[u.windows[w].cohorts[i]].endtag <=>
                          (w # u.cSWindow /\ SizeOf(u, w) > 1 /\ i = SizeOf(u, w))
    BY <2>0, Zenon DEF Marks
  <2>1. i \in 1..SizeOf(t, w) /\ t.windows[w].cohorts[i] \in 1..m
    BY <1>5, <1>6
  <2>2. u.cohorts[u.windows[w].cohorts[i]] = t.cohorts[t.windows[w].cohorts[i]]
    BY <1>2, <1>4, <2>1
  <2>3. t.cohorts[t.windows[w].cohorts[i]].endtag <=>
            (w # t.cSWindow /\ SizeOf(t, w) > 1 /\ i = SizeOf(t, w))
    BY <2>1 DEF Placed, Marks
  <2> QED  BY <1>2, <1>6, <2>2, <2>3
<1>13. Pending(u)
  <2>1. ~ u.cohorts[u.cCohort].endtag
    BY <1>2, <1>4
  <2>2. \A w \in 1..Len(t.windows) : \A i \in 1..SizeOf(t, w) : t.windows[w].cohorts[i] # m + 1
    BY <1>4, <1>5
  <2>3. \A w \in 1..Len(u.windows) : \A i \in 1..SizeOf(u, w) : u.windows[w].cohorts[i] # u.cCohort
    BY <1>2, <1>6, <2>2
  <2> QED  BY <1>2, <2>1, <2>3 DEF Pending
<1> QED  BY <1>2, <1>4, <1>9, <1>10, <1>11, <1>12, <1>13 DEF Good, Placed, m

\* NewCohort makes such a cohort.
LEMMA NewCohortFacts ==
    ASSUME NEW word, NEW static, NEW readings, NEW class, NEW c,
           c = NewCohort(word, static, readings, class)
    PROVE  DOMAIN c = CohortFields /\ ~ c.endtag /\ c.class = class
BY DEF NewCohort, CohortFields

\* What is alike up to the queues, the output and the pointer lCohort.
LEMMA QueuesAlike ==
    ASSUME NEW t, Typed(t), NEW u, DOMAIN u = Fields, QueuesOK(u),
           u.cohorts = t.cohorts, u.windows = t.windows, u.cSWindow = t.cSWindow,
           u.lSWindow = t.lSWindow, u.cCohort = t.cCohort, u.lCohort \in 0..Len(t.cohorts)
    PROVE  Alike(t, u)
BY DEF Typed, CohortsOK, WindowsOK, Alike

\* Nothing else of the stream changes.
Kept(t, u) ==
    /\ DOMAIN u = Fields
    /\ u.cohorts = t.cohorts /\ u.windows = t.windows /\ u.cSWindow = t.cSWindow
    /\ u.lSWindow = t.lSWindow /\ u.cCohort = t.cCohort /\ u.lCohort = t.lCohort
    /\ u.reader = t.reader /\ u.crashed = t.crashed

\* The first of the windows that were run is written.
LEMMA PrintFirstKeeps ==
    ASSUME NEW t, DOMAIN t = Fields, QueuesOK(t), Len(t.previous) > 0, NEW u, u = PrintFirst(t)
    PROVE  Kept(t, u) /\ QueuesOK(u) /\ Len(u.previous) = Len(t.previous) - 1
<1>1. /\ Kept(t, u) /\ u.previous = Tail(t.previous) /\ u.next = t.next /\ u.current = t.current
  BY DEF PrintFirst, Kept, Fields
<1>2. t.previous \in Seq(Nat) /\ t.previous # <<>>
  BY DEF QueuesOK
<1>3. Tail(t.previous) \in Seq(Nat) /\ Len(Tail(t.previous)) = Len(t.previous) - 1
  BY <1>2
<1> QED  BY <1>1, <1>3 DEF QueuesOK

\* The windows move up.
LEMMA ShuffleKeeps ==
    ASSUME NEW t, DOMAIN t = Fields, QueuesOK(t), NEW u, u = Shuffle(t)
    PROVE  Kept(t, u) /\ QueuesOK(u)
<1>1. /\ Kept(t, u) /\ u.previous = IF t.current = 0 THEN t.previous ELSE Append(t.previous, t.current)
      /\ u.current = IF t.next = <<>> THEN 0 ELSE Head(t.next)
      /\ u.next = IF t.next = <<>> THEN t.next ELSE Tail(t.next)
  BY DEF Shuffle, Kept, Fields
<1>2. t.previous \in Seq(Nat) /\ t.next \in Seq(Nat) /\ t.current \in Nat
  BY DEF QueuesOK
<1>3. t.next # <<>> => Head(t.next) \in Nat /\ Tail(t.next) \in Seq(Nat)
  BY <1>2
<1>4. Append(t.previous, t.current) \in Seq(Nat)
  BY <1>2
<1> QED  BY <1>1, <1>2, <1>3, <1>4 DEF QueuesOK

\* A window is run, and another written when it is far enough back.
LEMMA RunNextKeeps ==
    ASSUME NEW t, DOMAIN t = Fields, QueuesOK(t), NEW u, u = RunNext(t)
    PROVE  Kept(t, u) /\ QueuesOK(u)
<1> DEFINE o == Shuffle(t)
<1>1. Kept(t, o) /\ QueuesOK(o)
  BY ShuffleKeeps
<1>2. u = IF Len(o.previous) > NumWindows THEN PrintFirst(o) ELSE o
  BY DEF RunNext
<1> HIDE DEF o
<1>3. CASE Len(o.previous) > NumWindows
  <2>1. DOMAIN o = Fields /\ Len(o.previous) > 0
    <3>1. Len(o.previous) \in Nat
      BY <1>1 DEF QueuesOK
    <3> QED  BY <1>1, <1>3, <3>1, StreamLimits DEF Kept
  <2>2. Kept(o, u) /\ QueuesOK(u)
    BY <1>1, <1>2, <1>3, <2>1, PrintFirstKeeps
  <2> QED  BY <1>1, <2>2 DEF Kept
<1>4. CASE ~(Len(o.previous) > NumWindows)
  BY <1>1, <1>2, <1>4
<1> QED  BY <1>3, <1>4

\* The same when it is run because enough windows wait.
LEMMA RunWhenFullKeeps ==
    ASSUME NEW t, DOMAIN t = Fields, QueuesOK(t), NEW u, u = RunWhenFull(t)
    PROVE  Kept(t, u) /\ QueuesOK(u)
<1>1. CASE u = RunNext(t)
  BY <1>1, RunNextKeeps
<1>2. CASE u = t
  BY <1>2 DEF Kept
<1> QED  BY <1>1, <1>2 DEF RunWhenFull

\* What is kept is alike.
LEMMA KeptAlike ==
    ASSUME NEW t, Typed(t), NEW u, Kept(t, u), QueuesOK(u)
    PROVE  Alike(t, u)
BY QueuesAlike DEF Kept, Typed, PointersOK

\* Running the windows keeps all that the invariant says.
LEMMA RunWhenFullGood ==
    ASSUME NEW t, Placed(t), NEW u, u = RunWhenFull(t)
    PROVE  Placed(u) /\ Kept(t, u)
<1>1. Typed(t)
  BY DEF Placed
<1>2. Kept(t, u) /\ QueuesOK(u)
  BY <1>1, RunWhenFullKeeps DEF Typed
<1> QED  BY <1>1, <1>2, KeptAlike, AlikePlaced

-----------------------------------------------------------------------------
(* The readers of lines are an instance of LineStreams, which has the same *)
(* windows.                                                                *)

\* The zero cohort.
LEMMA LinesZero == Lines!ZeroCohort = ZeroCohort
BY Zenon DEF Lines!ZeroCohort, ZeroCohort, Lines!NewCohort, NewCohort

\* Opening, filling, closing.
LEMMA LinesOpen ==
    ASSUME NEW t, NEW x
    PROVE  Lines!OpenWindow(t, x) = OpenWindow(t, x)
BY LinesZero, Zenon DEF Lines!OpenWindow, OpenWindow

\* A cohort of a line.
LEMMA LinesAlloc ==
    ASSUME NEW t, NEW c
    PROVE  Lines!AllocCohort(t, c) = AllocCohort(t, c)
BY Zenon DEF Lines!AllocCohort, AllocCohort

\* A cohort in its place.
LEMMA LinesAppend ==
    ASSUME NEW t
    PROVE  Lines!AppendCurrent(t) = AppendCurrent(t)
BY Zenon DEF Lines!AppendCurrent, AppendCurrent, Lines!Put, Put

\* The end of a window.
LEMMA LinesClose ==
    ASSUME NEW t
    PROVE  Lines!CloseWindow(t) = CloseWindow(t)
BY Zenon DEF Lines!CloseWindow, CloseWindow, Lines!Put, Put

\* The limits of a window.
LEMMA LinesEnds ==
    ASSUME NEW t
    PROVE  (Lines!SoftEnds(t) <=> SoftEnds(t)) /\ (Lines!HardEnds(t) <=> HardEnds(t))
BY DEF Lines!SoftEnds, SoftEnds, Lines!HardEnds, HardEnds, Lines!SizeOf, SizeOf

\* The cut of a window.
LEMMA LinesDelimit ==
    ASSUME NEW t, NEW k
    PROVE  Lines!DelimitAt(t, k) = DelimitAt(t, k)
<1>1. Lines!OpenWindow(t, <<>>) = OpenWindow(t, <<>>)
  BY LinesOpen, Zenon
<1> QED  BY <1>1, Zenon DEF Lines!DelimitAt, DelimitAt

\* The look-back.
LEMMA LinesLookback ==
    ASSUME NEW t
    PROVE  Lines!SoftLookback(t) = SoftLookback(t)
<1>1. \A k : Lines!DelimitAt(t, k) = DelimitAt(t, k)
  BY LinesDelimit, Zenon
<1>2. \A S : Lines!Max(S) = Max(S)
  BY Zenon DEF Lines!Max, Max
<1> QED  BY <1>1, <1>2, Zenon DEF Lines!SoftLookback, SoftLookback, Lines!SizeOf, SizeOf,
                                  Lines!SelectLastInSeq, SelectLastInSeq

\* Running windows.
LEMMA LinesRun ==
    ASSUME NEW t
    PROVE  Lines!RunWhenFull(t) = RunWhenFull(t)
BY Zenon DEF Lines!RunWhenFull, RunWhenFull, Lines!RunNext, RunNext, Lines!Shuffle, Shuffle,
             Lines!PrintFirst, PrintFirst, Lines!Snapshot, Snapshot, Lines!SizeOf, SizeOf

-----------------------------------------------------------------------------
(* Text and readings.                                                      *)

\* u is like t, with the reader where it was.
Likewise(t, u) == Alike(t, u) /\ u.reader = t.reader /\ u.crashed = t.crashed

\* A cohort is replaced by one with the same class and end tag.
LEMMA CohortAlike ==
    ASSUME NEW t, Typed(t), NEW c \in 1..Len(t.cohorts), NEW y, DOMAIN y = CohortFields,
           y.class = t.cohorts[c].class, y.endtag = t.cohorts[c].endtag,
           NEW u, DOMAIN u = Fields, u.cohorts = With(t.cohorts, c, y), u.windows = t.windows,
           u.cSWindow = t.cSWindow, u.lSWindow = t.lSWindow, u.cCohort = t.cCohort,
           u.lCohort = t.lCohort, u.previous = t.previous, u.next = t.next, u.current = t.current
    PROVE  Alike(t, u)
<1>1. IsSeq(t.cohorts) /\ \A d \in 1..Len(t.cohorts) : DOMAIN t.cohorts[d] = CohortFields
  BY DEF Typed, CohortsOK
<1>2. /\ IsSeq(u.cohorts) /\ Len(u.cohorts) = Len(t.cohorts) /\ u.cohorts[c] = y
      /\ \A d \in 1..Len(t.cohorts) : d # c => u.cohorts[d] = t.cohorts[d]
  BY <1>1, ReplacedSeq
<1>3. CohortsOK(u)
  BY <1>1, <1>2 DEF CohortsOK
<1>4. \A d \in 1..Len(t.cohorts) :
         u.cohorts[d].class = t.cohorts[d].class /\ u.cohorts[d].endtag = t.cohorts[d].endtag
  BY <1>2
<1>5. QueuesOK(u)
  BY DEF Typed, QueuesOK
<1> QED  BY <1>2, <1>3, <1>4, <1>5 DEF Typed, WindowsOK, PointersOK, Alike

\* Text after a cohort.
LEMMA CohortTextAlike ==
    ASSUME NEW t, Typed(t), NEW c \in 1..Len(t.cohorts), NEW x,
           NEW u, u = [t EXCEPT !.cohorts[c].text = x]
    PROVE  Likewise(t, u)
<1> DEFINE y == [t.cohorts[c] EXCEPT !.text = x]
<1>1. DOMAIN t = Fields /\ DOMAIN t.cohorts[c] = CohortFields
  BY DEF Typed, CohortsOK
<1>2. DOMAIN y = CohortFields /\ y.class = t.cohorts[c].class /\ y.endtag = t.cohorts[c].endtag
  BY <1>1 DEF CohortFields
<1>3. /\ DOMAIN u = Fields /\ u.cohorts = With(t.cohorts, c, y) /\ u.windows = t.windows
      /\ u.cSWindow = t.cSWindow /\ u.lSWindow = t.lSWindow /\ u.cCohort = t.cCohort
      /\ u.lCohort = t.lCohort /\ u.previous = t.previous /\ u.next = t.next
      /\ u.current = t.current /\ u.reader = t.reader /\ u.crashed = t.crashed
  BY <1>1 DEF Fields, With
<1> HIDE DEF y
<1>4. Alike(t, u)
  BY <1>2, <1>3, CohortAlike
<1> QED  BY <1>3, <1>4 DEF Likewise

\* Readings of a cohort.
LEMMA ReadingsAlike ==
    ASSUME NEW t, Typed(t), NEW c \in 1..Len(t.cohorts), NEW x,
           NEW u, u = [t EXCEPT !.cohorts[c].readings = x]
    PROVE  Likewise(t, u)
<1> DEFINE y == [t.cohorts[c] EXCEPT !.readings = x]
<1>1. DOMAIN t = Fields /\ DOMAIN t.cohorts[c] = CohortFields
  BY DEF Typed, CohortsOK
<1>2. DOMAIN y = CohortFields /\ y.class = t.cohorts[c].class /\ y.endtag = t.cohorts[c].endtag
  BY <1>1 DEF CohortFields
<1>3. /\ DOMAIN u = Fields /\ u.cohorts = With(t.cohorts, c, y) /\ u.windows = t.windows
      /\ u.cSWindow = t.cSWindow /\ u.lSWindow = t.lSWindow /\ u.cCohort = t.cCohort
      /\ u.lCohort = t.lCohort /\ u.previous = t.previous /\ u.next = t.next
      /\ u.current = t.current /\ u.reader = t.reader /\ u.crashed = t.crashed
  BY <1>1 DEF Fields, With
<1> HIDE DEF y
<1>4. Alike(t, u)
  BY <1>2, <1>3, CohortAlike
<1> QED  BY <1>3, <1>4 DEF Likewise

\* Text at the beginning of a window.
LEMMA WindowTextAlike ==
    ASSUME NEW t, Typed(t), NEW w \in 1..Len(t.windows), NEW x,
           NEW u, u = [t EXCEPT !.windows[w].text = x]
    PROVE  Likewise(t, u)
<1> DEFINE y == [t.windows[w] EXCEPT !.text = x]
<1>1. /\ DOMAIN t = Fields /\ IsSeq(t.windows)
      /\ \A v \in 1..Len(t.windows) : DOMAIN t.windows[v] = {"cohorts", "text"}
  BY DEF Typed, WindowsOK
<1>2. DOMAIN y = {"cohorts", "text"} /\ y.cohorts = t.windows[w].cohorts
  BY <1>1
<1>3. /\ DOMAIN u = Fields /\ u.windows = With(t.windows, w, y) /\ u.cohorts = t.cohorts
      /\ u.cSWindow = t.cSWindow /\ u.lSWindow = t.lSWindow /\ u.cCohort = t.cCohort
      /\ u.lCohort = t.lCohort /\ u.previous = t.previous /\ u.next = t.next
      /\ u.current = t.current /\ u.reader = t.reader /\ u.crashed = t.crashed
  BY <1>1 DEF Fields, With
<1> HIDE DEF y
<1>4. /\ IsSeq(u.windows) /\ Len(u.windows) = Len(t.windows) /\ u.windows[w] = y
      /\ \A v \in 1..Len(t.windows) : v # w => u.windows[v] = t.windows[v]
  BY <1>1, <1>3, ReplacedSeq
<1>5. \A v \in 1..Len(t.windows) :
         DOMAIN u.windows[v] = {"cohorts", "text"} /\ u.windows[v].cohorts = t.windows[v].cohorts
  BY <1>1, <1>2, <1>4
<1>6. QueuesOK(u) /\ CohortsOK(u)
  BY <1>3 DEF Typed, QueuesOK, CohortsOK
<1>7. Alike(t, u)
  BY <1>3, <1>4, <1>5, <1>6 DEF Typed, PointersOK, Alike
<1> QED  BY <1>3, <1>7 DEF Likewise

\* What is written, and the cohort that text goes to.
LEMMA SmallChanges ==
    ASSUME NEW t, Typed(t)
    PROVE  /\ \A x : Likewise(t, Say(t, x))
           /\ \A c \in 0..Len(t.cohorts) : Likewise(t, [t EXCEPT !.lCohort = c])
           /\ Likewise(t, t)
<1>1. DOMAIN t = Fields /\ t.lCohort \in 0..Len(t.cohorts) /\ QueuesOK(t)
  BY DEF Typed, PointersOK
<1>2. ASSUME NEW x PROVE Likewise(t, Say(t, x))
  <2> DEFINE u == Say(t, x)
  <2>1. Kept(t, u) /\ u.previous = t.previous /\ u.next = t.next /\ u.current = t.current
    BY <1>1 DEF Say, Kept, Fields
  <2> HIDE DEF u
  <2>2. Alike(t, u)
    BY <1>1, <2>1, KeptAlike DEF QueuesOK
  <2> QED  BY <2>1, <2>2 DEF Likewise, Kept, u
<1>3. ASSUME NEW c \in 0..Len(t.cohorts) PROVE Likewise(t, [t EXCEPT !.lCohort = c])
  <2> DEFINE u == [t EXCEPT !.lCohort = c]
  <2>1. /\ DOMAIN u = Fields /\ u.cohorts = t.cohorts /\ u.windows = t.windows
        /\ u.cSWindow = t.cSWindow /\ u.lSWindow = t.lSWindow /\ u.cCohort = t.cCohort
        /\ u.lCohort = c /\ u.previous = t.previous /\ u.next = t.next
        /\ u.current = t.current /\ u.reader = t.reader /\ u.crashed = t.crashed
    BY <1>1 DEF Fields
  <2> HIDE DEF u
  <2>2. Alike(t, u)
    BY <1>1, <2>1, QueuesAlike DEF QueuesOK
  <2> QED  BY <2>1, <2>2 DEF Likewise, u
<1>4. Likewise(t, t)
  <2>1. Kept(t, t)
    BY <1>1 DEF Kept
  <2> QED  BY <1>1, <2>1, KeptAlike DEF Likewise
<1> QED  BY <1>2, <1>3, <1>4

-----------------------------------------------------------------------------
(* The readers: a cohort ends the window before it or not.                 *)

\* While a window is being filled there is a cohort that is not placed.
Reading(t) == Good(t) /\ (t.cSWindow # 0 => t.cCohort # 0)

\* The pending cohort is placed, at the end of its window or not, and there is
\* a window for the next one.
Ended(t) == IF t.cCohort # 0 /\ (SoftEnds(t) \/ HardEnds(t)) THEN CloseWindow(t) ELSE t
WithRoom(t, x) == IF t.cSWindow = 0 THEN OpenWindow(t, x) ELSE AppendCurrent(t)

\* That keeps the invariant.
LEMMA PlacePending ==
    ASSUME NEW t, Reading(t), NEW x, NEW u, u = WithRoom(Ended(t), x)
    PROVE  Placed(u) /\ u.cSWindow # 0 /\ u.reader = t.reader /\ u.crashed = t.crashed
<1> DEFINE closed == Ended(t)
<1>0. u = IF closed.cSWindow = 0 THEN OpenWindow(closed, x) ELSE AppendCurrent(closed)
  BY DEF WithRoom
<1>1. Good(t) /\ Placed(t)
  BY DEF Reading, Good
<1>2. CASE t.cCohort # 0 /\ (SoftEnds(t) \/ HardEnds(t))
  <2>1. closed = CloseWindow(t)
    BY <1>2 DEF Ended
  <2> HIDE DEF closed
  <2>2. /\ Placed(closed) /\ closed.cSWindow = 0
        /\ closed.reader = t.reader /\ closed.crashed = t.crashed
    BY <1>1, <1>2, <2>1, ClosePlaced
  <2>3. u = OpenWindow(closed, x)
    BY <1>0, <2>2
  <2> QED  BY <2>2, <2>3, OpenGood DEF Good
<1>3. CASE ~(t.cCohort # 0 /\ (SoftEnds(t) \/ HardEnds(t))) /\ t.cSWindow = 0
  <2>1. u = OpenWindow(t, x)
    BY <1>0, <1>3 DEF Ended
  <2> QED  BY <1>1, <1>3, <2>1, OpenGood DEF Good
<1>4. CASE ~(t.cCohort # 0 /\ (SoftEnds(t) \/ HardEnds(t))) /\ t.cSWindow # 0
  <2>1. t.cCohort # 0 /\ u = AppendCurrent(t) /\ ~ HardEnds(t)
    BY <1>0, <1>4 DEF Reading, Ended
  <2>2. SizeOf(t, t.cSWindow) \in Nat
    <3>1. t.cSWindow \in 1..Len(t.windows)
      <4>1. t.cSWindow \in {0, Len(t.windows)} /\ Len(t.windows) \in Nat
        BY <1>1, PlaceFacts DEF Placed, Typed, PointersOK
      <4> QED  BY <1>4, <4>1
    <3> QED  BY <1>1, <3>1, PlaceFacts DEF Placed
  <2>3. SizeOf(t, t.cSWindow) < HardLimit
    BY <2>1, <2>2, StreamLimits DEF HardEnds
  <2> QED  BY <1>1, <2>1, <2>3, AppendPlaced
<1> QED  BY <1>2, <1>3, <1>4

\* The cohort of a line.
LEMMA LineCohortFacts ==
    ASSUME NEW word, NEW readings
    PROVE  DOMAIN Lines!LineCohort(word, readings) = CohortFields /\ ~ Lines!LineCohort(word, readings).endtag
BY DEF Lines!LineCohort, Lines!NewCohort, CohortFields

\* The same for a stream of lines, and the next cohort.
LEMMA NicelineCohortReads ==
    ASSUME NEW t, Reading(t), NEW line, NEW u, u = Lines!NicelineCohort(t, line)
    PROVE  Reading(u)
<1> DEFINE looked == SoftLookback(t)
           closed == Ended(looked)
           placed == WithRoom(closed, <<>>)
           c == Lines!LineCohort(line.word, line.readings)
           run == RunWhenFull(placed)
           new == AllocCohort(run, c)
<1>1. u = [new EXCEPT !.lCohort = new.cCohort]
  <2>1. Lines!SoftLookback(t) = looked
    BY LinesLookback, Zenon
  <2>2. (IF Lines!Ends(looked) THEN Lines!CloseWindow(looked) ELSE looked) = closed
    <3>1. Lines!CloseWindow(looked) = CloseWindow(looked)
      BY LinesClose, Zenon
    <3>2. (Lines!SoftEnds(looked) <=> SoftEnds(looked)) /\ (Lines!HardEnds(looked) <=> HardEnds(looked))
      BY LinesEnds, Zenon
    <3> HIDE DEF looked
    <3> QED  BY <3>1, <3>2 DEF Lines!Ends, Ended
  <2>3. (IF closed.cSWindow = 0 THEN Lines!OpenWindow(closed, <<>>) ELSE Lines!AppendCurrent(closed)) = placed
    BY LinesOpen, LinesAppend, Zenon DEF WithRoom
  <2>4. Lines!RunWhenFull(placed) = run
    BY LinesRun, Zenon
  <2>5. Lines!AllocCohort(run, c) = new
    BY LinesAlloc, Zenon
  <2> HIDE DEF looked, closed, placed, run, new, c
  <2>6. u = LET t5 == Lines!AllocCohort(Lines!RunWhenFull(
                        IF (IF Lines!Ends(looked) THEN Lines!CloseWindow(looked) ELSE looked).cSWindow = 0
                        THEN Lines!OpenWindow(IF Lines!Ends(looked) THEN Lines!CloseWindow(looked) ELSE looked, <<>>)
                        ELSE Lines!AppendCurrent(IF Lines!Ends(looked) THEN Lines!CloseWindow(looked) ELSE looked)), c)
            IN  [t5 EXCEPT !.lCohort = t5.cCohort]
    BY <2>1, Zenon DEF Lines!NicelineCohort, c
  <2> QED  BY <2>2, <2>3, <2>4, <2>5, <2>6, Zenon
<1>2. Reading(looked)
  <2>1. Good(looked) /\ looked.cCohort = t.cCohort /\ (looked.cSWindow = 0 <=> t.cSWindow = 0)
    BY LookbackGood DEF Reading
  <2> HIDE DEF looked
  <2> QED  BY <2>1 DEF Reading
<1> HIDE DEF looked
<1>3. Placed(placed) /\ placed.cSWindow # 0
  BY <1>2, PlacePending
<1> HIDE DEF placed
<1>4. Placed(run) /\ run.cSWindow # 0
  BY <1>3, RunWhenFullGood DEF Kept
<1> HIDE DEF run
<1>5. DOMAIN c = CohortFields /\ ~ c.endtag
  BY LineCohortFacts, Zenon
<1> HIDE DEF c
<1>6. /\ Good(new) /\ new.cCohort = Len(run.cohorts) + 1 /\ new.cCohort # 0
  BY <1>4, <1>5, AllocGood
<1> HIDE DEF new
<1>7. new.cCohort \in 0..Len(new.cohorts) /\ Typed(new)
  BY <1>6 DEF Good, Placed, Typed, PointersOK
<1>8. Alike(new, u)
  BY <1>1, <1>7, SmallChanges DEF Likewise
<1> QED  BY <1>6, <1>8, AlikeGood DEF Alike, Reading

\* Text between lines.
LEMMA LineTextAlike ==
    ASSUME NEW t, Typed(t), NEW line, NEW u, u = Lines!LineText(t, line)
    PROVE  Likewise(t, u)
<1>1. /\ Len(t.cohorts) \in Nat /\ Len(t.windows) \in Nat
      /\ t.lCohort \in 0..Len(t.cohorts) /\ t.lSWindow \in 0..Len(t.windows)
  BY PlaceFacts DEF Typed, PointersOK
<1>2. CASE line.kind = "blank"
  <2>1. u = t
    BY <1>2 DEF Lines!LineText
  <2> QED  BY <2>1, SmallChanges
<1>3. CASE line.kind # "blank" /\ t.lCohort # 0
  <2>1. u = [t EXCEPT !.cohorts[t.lCohort].text = Append(t.cohorts[t.lCohort].text, line.text)]
    BY <1>3 DEF Lines!LineText
  <2>2. t.lCohort \in 1..Len(t.cohorts)
    BY <1>1, <1>3
  <2> DEFINE x == Append(t.cohorts[t.lCohort].text, line.text)
  <2>3. u = [t EXCEPT !.cohorts[t.lCohort].text = x]
    BY <2>1
  <2> HIDE DEF x
  <2> QED  BY <2>2, <2>3, CohortTextAlike
<1>4. CASE line.kind # "blank" /\ t.lCohort = 0 /\ t.lSWindow # 0
  <2>1. u = [t EXCEPT !.windows[t.lSWindow].text = Append(t.windows[t.lSWindow].text, line.text)]
    BY <1>4 DEF Lines!LineText
  <2>2. t.lSWindow \in 1..Len(t.windows)
    BY <1>1, <1>4
  <2> DEFINE x == Append(t.windows[t.lSWindow].text, line.text)
  <2>3. u = [t EXCEPT !.windows[t.lSWindow].text = x]
    BY <2>1
  <2> HIDE DEF x
  <2> QED  BY <2>2, <2>3, WindowTextAlike
<1>5. CASE line.kind # "blank" /\ t.lCohort = 0 /\ t.lSWindow = 0
  <2>1. u = Say(t, line.text)
    BY <1>5 DEF Lines!LineText, Lines!Say, Say
  <2> QED  BY <2>1, SmallChanges
<1> QED  BY <1>2, <1>3, <1>4, <1>5

\* A line of niceline text.
LEMMA NicelineReads ==
    ASSUME NEW t, Reading(t), NEW line, NEW u, u = Lines!NicelineLine(t, line)
    PROVE  Reading(u)
<1>1. CASE \E l : u = Lines!NicelineCohort(t, l)
  BY <1>1, NicelineCohortReads
<1>2. CASE u = Lines!LineText(t, line)
  <2>1. Good(t) /\ Typed(t)
    BY DEF Reading, Good, Placed
  <2>2. Alike(t, u)
    BY <1>2, <2>1, LineTextAlike DEF Likewise
  <2>3. Good(u)
    BY <2>1, <2>2, AlikeGood
  <2> QED  BY <2>2, <2>3 DEF Reading, Alike
<1> QED  BY <1>1, <1>2, Zenon DEF Lines!NicelineLine

-----------------------------------------------------------------------------
(* The end of the input.                                                   *)

\* Induction on a set of numbers up to N.
LEMMA UpTo ==
    ASSUME NEW N \in Nat, NEW T, 0 \in T,
           \A n \in 0..(N - 1) : n \in T => n + 1 \in T
    PROVE  0..N \subseteq T
<1> SUFFICES ASSUME 0..N \ T # {}  PROVE FALSE
  OBVIOUS
<1> DEFINE U == 0..N \ T
<1>1. U \subseteq Nat /\ U # {}
  OBVIOUS
<1>2. PICK m \in U : \A y \in U : m <= y
  <2> HIDE DEF U
  <2> QED  BY <1>1, LeastNumber
<1>3. m \in 1..N /\ m \notin T
  BY <1>2
<1>4. m - 1 \in 0..(N - 1) /\ (m - 1) + 1 = m
  BY <1>3
<1>5. m - 1 \in T
  <2>1. m - 1 \in 0..N /\ ~(m <= m - 1)
    BY <1>3
  <2> QED  BY <1>2, <2>1
<1> QED  BY <1>3, <1>4, <1>5

\* All the windows that wait are run.
Runs(e, N) == CHOOSE f : f = [n \in 0..N |-> IF n = 0 THEN e ELSE RunNext(f[n - 1])]

\* That changes the queues and the output only.
LEMMA RunsKeep ==
    ASSUME NEW e, DOMAIN e = Fields, QueuesOK(e), NEW N \in Nat, NEW run, run = Runs(e, N)
    PROVE  Kept(e, run[N]) /\ QueuesOK(run[N])
<1> DEFINE Ok(f, m) == f = [n \in 0..m |-> IF n = 0 THEN e ELSE RunNext(f[n - 1])]
           T == {m \in 0..N : \E f : Ok(f, m)}
<1>1. N \in T
  <2>1. 0 \in T
    <3> DEFINE f == [n \in 0..0 |-> e]
    <3>1. Ok(f, 0)
      OBVIOUS
    <3>2. 0 \in 0..N
      OBVIOUS
    <3> HIDE DEF Ok, f
    <3> QED  BY <3>1, <3>2
  <2>2. ASSUME NEW m \in 0..N - 1, m \in T  PROVE m + 1 \in T
    <3>1. PICK f : Ok(f, m)
      BY <2>2
    <3> DEFINE h == [n \in 0..m + 1 |-> IF n = m + 1 THEN RunNext(f[m]) ELSE f[n]]
    <3>2. \A n \in 0..m : f[n] = IF n = 0 THEN e ELSE RunNext(f[n - 1])
      BY <3>1
    <3>3. \A n \in 0..m + 1 : h[n] = IF n = 0 THEN e ELSE RunNext(h[n - 1])
      <4> TAKE n \in 0..m + 1
      <4>1. CASE n = m + 1
        <5>1. n # 0 /\ n - 1 \in 0..m /\ n - 1 # m + 1 /\ n - 1 = m
          BY <2>2, <4>1
        <5> QED  BY <4>1, <5>1
      <4>2. CASE n # m + 1
        <5>1. n \in 0..m /\ (n # 0 => n - 1 \in 0..m /\ n - 1 # m + 1)
          BY <2>2, <4>2
        <5> QED  BY <3>2, <4>2, <5>1
      <4> QED  BY <4>1, <4>2
    <3>4. Ok(h, m + 1)
      <4> DEFINE k == [n \in 0..m + 1 |-> IF n = 0 THEN e ELSE RunNext(h[n - 1])]
      <4>1. DOMAIN h = 0..m + 1 /\ h = [n \in 0..m + 1 |-> h[n]]
        OBVIOUS
      <4>2. \A n \in 0..m + 1 : h[n] = k[n]
        <5> HIDE DEF h
        <5> QED  BY <3>3
      <4> HIDE DEF h
      <4>3. h = k
        BY <4>1, <4>2
      <4> QED  BY <4>3
    <3>5. m + 1 \in 0..N
      BY <2>2
    <3> HIDE DEF Ok
    <3> QED  BY <3>4, <3>5
  <2> HIDE DEF T
  <2>3. 0..N \subseteq T
    BY <2>1, <2>2, UpTo
  <2> QED  BY <2>3
<1>2. Ok(run, N)
  BY <1>1 DEF Runs
<1>3. \A n \in 0..N : run[n] = IF n = 0 THEN e ELSE RunNext(run[n - 1])
  BY <1>2
<1> HIDE DEF Ok, T
<1> DEFINE V == {n \in 0..N : Kept(e, run[n]) /\ QueuesOK(run[n])}
<1>4. 0 \in V
  BY <1>3 DEF Kept
<1>5. ASSUME NEW n \in 0..N - 1, n \in V  PROVE n + 1 \in V
  <2>1. n + 1 \in 0..N /\ n + 1 # 0 /\ (n + 1) - 1 = n
    BY <1>5
  <2>2. run[n + 1] = RunNext(run[n])
    BY <1>3, <2>1
  <2>3. DOMAIN run[n] = Fields /\ Kept(e, run[n]) /\ QueuesOK(run[n])
    BY <1>5 DEF Kept
  <2>4. Kept(run[n], run[n + 1]) /\ QueuesOK(run[n + 1])
    BY <2>2, <2>3, RunNextKeeps
  <2> QED  BY <2>1, <2>3, <2>4 DEF Kept
<1> HIDE DEF V
<1>6. 0..N \subseteq V
  BY <1>4, <1>5, UpTo
<1>7. N \in V
  BY <1>6
<1> QED  BY <1>7 DEF V

\* All the windows that were run are written.
Writes(e, N) == CHOOSE f : f = [n \in 0..N |-> IF n = 0 THEN e ELSE PrintFirst(f[n - 1])]

\* That changes the queues and the output only.
LEMMA WritesKeep ==
    ASSUME NEW e, DOMAIN e = Fields, QueuesOK(e), NEW N, N = Len(e.previous), NEW run, run = Writes(e, N)
    PROVE  Kept(e, run[N]) /\ QueuesOK(run[N])
<1>0. N \in Nat
  BY DEF QueuesOK
<1> DEFINE Ok(f, m) == f = [n \in 0..m |-> IF n = 0 THEN e ELSE PrintFirst(f[n - 1])]
           T == {m \in 0..N : \E f : Ok(f, m)}
<1>1. N \in T
  <2>1. 0 \in T
    <3> DEFINE f == [n \in 0..0 |-> e]
    <3>1. Ok(f, 0)
      OBVIOUS
    <3>2. 0 \in 0..N
      BY <1>0
    <3> HIDE DEF Ok, f
    <3> QED  BY <3>1, <3>2
  <2>2. ASSUME NEW m \in 0..N - 1, m \in T  PROVE m + 1 \in T
    <3>1. PICK f : Ok(f, m)
      BY <2>2
    <3> DEFINE h == [n \in 0..m + 1 |-> IF n = m + 1 THEN PrintFirst(f[m]) ELSE f[n]]
    <3>2. \A n \in 0..m : f[n] = IF n = 0 THEN e ELSE PrintFirst(f[n - 1])
      BY <3>1
    <3>3. \A n \in 0..m + 1 : h[n] = IF n = 0 THEN e ELSE PrintFirst(h[n - 1])
      <4> TAKE n \in 0..m + 1
      <4>1. CASE n = m + 1
        <5>1. n # 0 /\ n - 1 \in 0..m /\ n - 1 # m + 1 /\ n - 1 = m
          BY <2>2, <4>1
        <5> QED  BY <4>1, <5>1
      <4>2. CASE n # m + 1
        <5>1. n \in 0..m /\ (n # 0 => n - 1 \in 0..m /\ n - 1 # m + 1)
          BY <2>2, <4>2
        <5> QED  BY <3>2, <4>2, <5>1
      <4> QED  BY <4>1, <4>2
    <3>4. Ok(h, m + 1)
      <4> DEFINE k == [n \in 0..m + 1 |-> IF n = 0 THEN e ELSE PrintFirst(h[n - 1])]
      <4>1. DOMAIN h = 0..m + 1 /\ h = [n \in 0..m + 1 |-> h[n]]
        OBVIOUS
      <4>2. \A n \in 0..m + 1 : h[n] = k[n]
        <5> HIDE DEF h
        <5> QED  BY <3>3
      <4> HIDE DEF h
      <4>3. h = k
        BY <4>1, <4>2
      <4> QED  BY <4>3
    <3>5. m + 1 \in 0..N
      BY <1>0, <2>2
    <3> HIDE DEF Ok
    <3> QED  BY <3>4, <3>5
  <2> HIDE DEF T
  <2>3. 0..N \subseteq T
    BY <1>0, <2>1, <2>2, UpTo
  <2> QED  BY <1>0, <2>3
<1>2. Ok(run, N)
  BY <1>1 DEF Writes
<1>3. \A n \in 0..N : run[n] = IF n = 0 THEN e ELSE PrintFirst(run[n - 1])
  BY <1>2
<1> HIDE DEF Ok, T
<1> DEFINE V == {n \in 0..N : /\ Kept(e, run[n]) /\ QueuesOK(run[n])
                             /\ Len(run[n].previous) = N - n}
<1>4. 0 \in V
  BY <1>0, <1>3 DEF Kept
<1>5. ASSUME NEW n \in 0..N - 1, n \in V  PROVE n + 1 \in V
  <2>1. n + 1 \in 0..N /\ n + 1 # 0 /\ (n + 1) - 1 = n /\ N - n > 0 /\ N - (n + 1) = N - n - 1
    BY <1>0, <1>5
  <2>2. run[n + 1] = PrintFirst(run[n])
    BY <1>3, <2>1
  <2>3. DOMAIN run[n] = Fields /\ Kept(e, run[n]) /\ QueuesOK(run[n]) /\ Len(run[n].previous) = N - n
    BY <1>5 DEF Kept
  <2>4. /\ Kept(run[n], run[n + 1]) /\ QueuesOK(run[n + 1])
        /\ Len(run[n + 1].previous) = Len(run[n].previous) - 1
    BY <2>1, <2>2, <2>3, PrintFirstKeeps
  <2> QED  BY <2>1, <2>3, <2>4 DEF Kept
<1> HIDE DEF V
<1>6. 0..N \subseteq V
  BY <1>0, <1>4, <1>5, UpTo
<1>7. N \in V
  BY <1>0, <1>6
<1> QED  BY <1>7 DEF V

\* The last cohort ends its window.
LastClosed(t) == IF t.cCohort # 0 /\ t.cSWindow # 0 THEN CloseWindow(t) ELSE t

\* Then the windows stay as they are; nothing is being filled.
LEMMA DrainKeeps ==
    ASSUME NEW t, NEW e, e = LastClosed(t), DOMAIN e = Fields, QueuesOK(e), NEW u, u = Drain(t)
    PROVE  /\ DOMAIN u = Fields /\ QueuesOK(u)
           /\ u.cohorts = e.cohorts /\ u.windows = e.windows
           /\ u.reader = e.reader /\ u.crashed = e.crashed
           /\ u.cSWindow = 0 /\ u.cCohort = 0 /\ u.lSWindow = 0 /\ u.lCohort = 0
<1> DEFINE Last1(q) == Shuffle(Runs(q, Len(q.next))[Len(q.next)])
           Final(q) == Writes(Last1(q), Len(Last1(q).previous))[Len(Last1(q).previous)]
<1>0. Drain(t) = [Final(LastClosed(t)) EXCEPT !.cSWindow = 0, !.cCohort = 0, !.lSWindow = 0, !.lCohort = 0]
  BY Zenon DEF Drain, Runs, Writes, LastClosed
<1> DEFINE run == Runs(e, Len(e.next))
           r == run[Len(e.next)]
           l == Shuffle(r)
           write == Writes(l, Len(l.previous))
           w == write[Len(l.previous)]
<1>1. u = [w EXCEPT !.cSWindow = 0, !.cCohort = 0, !.lSWindow = 0, !.lCohort = 0]
  <2> HIDE DEF Final
  <2>1. u = [Final(e) EXCEPT !.cSWindow = 0, !.cCohort = 0, !.lSWindow = 0, !.lCohort = 0]
    BY <1>0, Zenon
  <2>2. Final(e) = w
    BY Zenon DEF Final
  <2> QED  BY <2>1, <2>2, Zenon
<1>2. Kept(e, r) /\ QueuesOK(r)
  <2>1. Len(e.next) \in Nat
    BY DEF QueuesOK
  <2> QED  BY <2>1, RunsKeep
<1> HIDE DEF r
<1>3. Kept(r, l) /\ QueuesOK(l)
  BY <1>2, ShuffleKeeps DEF Kept
<1> HIDE DEF l
<1>4. Kept(l, w) /\ QueuesOK(w)
  BY <1>3, WritesKeep DEF Kept
<1> HIDE DEF w
<1>5. Kept(e, w)
  BY <1>2, <1>3, <1>4 DEF Kept
<1>6. /\ DOMAIN u = Fields /\ u.previous = w.previous /\ u.next = w.next /\ u.current = w.current
      /\ u.cohorts = w.cohorts /\ u.windows = w.windows
      /\ u.reader = w.reader /\ u.crashed = w.crashed
      /\ u.cSWindow = 0 /\ u.cCohort = 0 /\ u.lSWindow = 0 /\ u.lCohort = 0
  BY <1>1, <1>5 DEF Kept, Fields
<1> QED  BY <1>4, <1>5, <1>6 DEF Kept, QueuesOK

\* A stream whose every cohort is pending until the next one is ready to be read
\* on when it was drained.
LEMMA DrainReads ==
    ASSUME NEW t, Reading(t), NEW u, u = Drain(t)
    PROVE  Reading(u) /\ u.reader = t.reader /\ u.crashed = t.crashed
<1> DEFINE e == LastClosed(t)
<1>1. Good(t) /\ Placed(t)
  BY DEF Reading, Good
<1>2. Placed(e) /\ e.cSWindow = 0 /\ e.reader = t.reader /\ e.crashed = t.crashed
  <2>1. CASE t.cCohort # 0
    <3>1. e = CloseWindow(t)
      BY <1>1, <2>1 DEF LastClosed, Good, Pending
    <3> HIDE DEF e
    <3> QED  BY <1>1, <2>1, <3>1, ClosePlaced
  <2>2. CASE t.cCohort = 0
    <3>1. e = t /\ t.cSWindow = 0
      BY <2>2 DEF LastClosed, Reading
    <3> HIDE DEF e
    <3> QED  BY <1>1, <3>1
  <2> QED  BY <2>1, <2>2
<1> HIDE DEF e
<1>3. Typed(e)
  BY <1>2 DEF Placed
<1>4. /\ DOMAIN u = Fields /\ QueuesOK(u)
      /\ u.cohorts = e.cohorts /\ u.windows = e.windows
      /\ u.reader = e.reader /\ u.crashed = e.crashed
      /\ u.cSWindow = 0 /\ u.cCohort = 0 /\ u.lSWindow = 0 /\ u.lCohort = 0
  BY <1>3, DrainKeeps DEF Typed, e
<1>5. \A w \in 1..Len(u.windows) : SizeOf(u, w) = SizeOf(e, w)
  BY <1>4 DEF SizeOf
<1>6. Typed(u)
  <2>1. CohortsOK(u)
    BY <1>3, <1>4 DEF Typed, CohortsOK
  <2>2. WindowsOK(u)
    BY <1>3, <1>4, <1>5 DEF Typed, WindowsOK
  <2>3. PointersOK(u)
    BY <1>3, <1>4, PlaceFacts DEF PointersOK
  <2> QED  BY <1>4, <2>1, <2>2, <2>3 DEF Typed
<1>7. Once(u)
  BY <1>2, <1>4, <1>5 DEF Placed, Once
<1>8. Fitting(u)
  BY <1>2, <1>4, <1>5 DEF Placed, Fitting
<1>9. Marks(u, Len(u.windows))
  <2>1. Len(u.windows) = Len(e.windows)
    BY <1>4
  <2> SUFFICES ASSUME NEW w \in 1..Len(e.windows), NEW i \in 1..SizeOf(u, w)
               PROVE  u.cohorts[u.windows[w].cohorts[i]].endtag <=>
                          (w # u.cSWindow /\ SizeOf(u, w) > 1 /\ i = SizeOf(u, w))
    BY <2>1, Zenon DEF Marks
  <2>2. SizeOf(u, w) = SizeOf(e, w)
    BY <1>5, <2>1
  <2>3. e.cohorts[e.windows[w].cohorts[i]].endtag <=>
            (w # e.cSWindow /\ SizeOf(e, w) > 1 /\ i = SizeOf(e, w))
    BY <1>2, <2>2 DEF Placed, Marks
  <2> QED  BY <1>2, <1>4, <2>2, <2>3
<1>10. Pending(u)
  BY <1>4 DEF Pending
<1> QED  BY <1>2, <1>4, <1>6, <1>7, <1>8, <1>9, <1>10 DEF Reading, Good, Placed

-----------------------------------------------------------------------------
(* FST streams: the last cohort may have no window of its own any more.    *)

FstReading(t) == Good(t) /\ (Len(t.windows) # 0 => t.cSWindow # 0)

\* A form begins a cohort or adds to it.
LEMMA FstFormReads ==
    ASSUME NEW t, FstReading(t), NEW line, NEW u, u = Lines!FstForm(t, line)
    PROVE  FstReading(u)
<1>1. Good(t) /\ Placed(t) /\ Typed(t)
  BY DEF FstReading, Good, Placed
<1> DEFINE open == IF t.cCohort = 0 /\ t.cSWindow = 0 THEN OpenWindow(t, <<>>) ELSE t
           c == Lines!LineCohort(line.word, <<>>)
           new == AllocCohort(open, c)
           v == IF t.cCohort = 0 THEN [new EXCEPT !.lCohort = new.cCohort] ELSE t
<1>2. u = [v EXCEPT !.cohorts[v.cCohort].readings = v.cohorts[v.cCohort].readings \o line.readings]
  <2>1. Lines!OpenWindow(t, <<>>) = OpenWindow(t, <<>>)
    BY LinesOpen, Zenon
  <2>2. Lines!AllocCohort(open, c) = new
    BY LinesAlloc, Zenon
  <2> QED  BY <2>1, <2>2, Zenon DEF Lines!FstForm
<1>3. Good(v) /\ v.cCohort # 0
  <2>1. CASE t.cCohort = 0
    <3>1. Placed(open) /\ open.cSWindow # 0
      <4>1. CASE t.cSWindow = 0
        <5>1. open = OpenWindow(t, <<>>)
          BY <2>1, <4>1
        <5> HIDE DEF open
        <5> QED  BY <1>1, <4>1, <5>1, OpenGood DEF Good
      <4>2. CASE t.cSWindow # 0
        <5>1. open = t
          BY <4>2
        <5> HIDE DEF open
        <5> QED  BY <1>1, <4>2, <5>1
      <4> QED  BY <4>1, <4>2
    <3> HIDE DEF open
    <3>2. DOMAIN c = CohortFields /\ ~ c.endtag
      BY LineCohortFacts, Zenon
    <3> HIDE DEF c
    <3>3. Good(new) /\ new.cCohort # 0
      BY <3>1, <3>2, AllocGood
    <3>4. v = [new EXCEPT !.lCohort = new.cCohort]
      BY <2>1
    <3> HIDE DEF new, v
    <3>5. Typed(new) /\ new.cCohort \in 0..Len(new.cohorts)
      BY <3>3 DEF Good, Placed, Typed, PointersOK
    <3>6. Alike(new, v)
      BY <3>4, <3>5, SmallChanges DEF Likewise
    <3> QED  BY <3>3, <3>6, AlikeGood DEF Alike
  <2>2. CASE t.cCohort # 0
    <3>1. v = t
      BY <2>2
    <3> HIDE DEF v
    <3> QED  BY <1>1, <2>2, <3>1
  <2> QED  BY <2>1, <2>2
<1> HIDE DEF v
<1>4. Typed(v) /\ v.cCohort \in 1..Len(v.cohorts)
  <2>1. Typed(v)
    BY <1>3 DEF Good, Placed
  <2>2. v.cCohort \in 0..Len(v.cohorts) /\ Len(v.cohorts) \in Nat
    BY <2>1, PlaceFacts DEF Typed, PointersOK
  <2> QED  BY <1>3, <2>1, <2>2
<1>5. Alike(v, u)
  <2> DEFINE x == v.cohorts[v.cCohort].readings \o line.readings
  <2>1. u = [v EXCEPT !.cohorts[v.cCohort].readings = x]
    BY <1>2
  <2> HIDE DEF x
  <2> QED  BY <1>4, <2>1, ReadingsAlike DEF Likewise
<1>6. Good(u) /\ u.cCohort # 0
  BY <1>3, <1>5, AlikeGood DEF Alike
<1> QED  BY <1>6 DEF FstReading, Good, Pending

\* A cohort that is placed is no longer the current one.
LEMMA ForgetCohort ==
    ASSUME NEW t, Placed(t), NEW u, u = [t EXCEPT !.cCohort = 0]
    PROVE  Good(u) /\ u.cSWindow = t.cSWindow /\ u.windows = t.windows
<1>1. Typed(t)
  BY DEF Placed
<1>2. /\ DOMAIN u = Fields /\ u.cohorts = t.cohorts /\ u.windows = t.windows
      /\ u.cSWindow = t.cSWindow /\ u.lSWindow = t.lSWindow /\ u.cCohort = 0
      /\ u.lCohort = t.lCohort /\ u.previous = t.previous /\ u.next = t.next /\ u.current = t.current
  BY <1>1 DEF Typed, Fields
<1>3. \A w \in 1..Len(t.windows) : SizeOf(u, w) = SizeOf(t, w)
  BY <1>2 DEF SizeOf
<1>4. Typed(u)
  <2>1. CohortsOK(u)
    BY <1>1, <1>2 DEF Typed, CohortsOK
  <2>2. WindowsOK(u)
    BY <1>1, <1>2, <1>3 DEF Typed, WindowsOK
  <2>3. PointersOK(u)
    <3>1. Len(t.cohorts) \in Nat
      BY <1>1, PlaceFacts
    <3> QED  BY <1>1, <1>2, <3>1 DEF Typed, PointersOK
  <2>4. QueuesOK(u)
    BY <1>1, <1>2 DEF Typed, QueuesOK
  <2> QED  BY <1>2, <2>1, <2>2, <2>3, <2>4 DEF Typed
<1>5. Once(u)
  BY <1>2, <1>3 DEF Placed, Once
<1>6. Fitting(u)
  <2>1. \A w \in 1..Len(t.windows) : SizeOf(t, w) <= HardLimit + 1
    BY DEF Placed, Fitting
  <2>2. t.cSWindow # 0 => SizeOf(u, t.cSWindow) = SizeOf(t, t.cSWindow) /\ SizeOf(t, t.cSWindow) <= HardLimit
    BY <1>2 DEF Placed, Fitting, SizeOf
  <2> QED  BY <1>2, <1>3, <2>1, <2>2 DEF Fitting
<1>7. Marks(u, Len(u.windows))
  <2>1. Len(u.windows) = Len(t.windows)
    BY <1>2
  <2> SUFFICES ASSUME NEW w \in 1..Len(t.windows), NEW i \in 1..SizeOf(u, w)
               PROVE  u.cohorts[u.windows[w].cohorts[i]].endtag <=>
                          (w # u.cSWindow /\ SizeOf(u, w) > 1 /\ i = SizeOf(u, w))
    BY <2>1, Zenon DEF Marks
  <2>2. SizeOf(u, w) = SizeOf(t, w)
    BY <1>3, <2>1
  <2>3. t.cohorts[t.windows[w].cohorts[i]].endtag <=>
            (w # t.cSWindow /\ SizeOf(t, w) > 1 /\ i = SizeOf(t, w))
    BY <2>2 DEF Placed, Marks
  <2> QED  BY <1>2, <2>2, <2>3
<1>8. Pending(u)
  BY <1>2 DEF Pending
<1> QED  BY <1>2, <1>4, <1>5, <1>6, <1>7, <1>8 DEF Good, Placed

\* The cohort is complete and goes to its window, which it may end; the next
\* window is opened at once. Or the program crashes.
LEMMA FstBreakReads ==
    ASSUME NEW t, FstReading(t), NEW u, u = Lines!FstBreak(t)
    PROVE  FstReading(u)
<1> DEFINE looked == SoftLookback(t)
           ends == looked.cCohort # 0 /\ HardEnds(looked)
           closed == IF ends THEN CloseWindow(looked) ELSE AppendCurrent(looked)
           opened == OpenWindow(closed, <<>>)
           before == IF closed.cSWindow # 0 THEN closed ELSE [opened EXCEPT !.lCohort = Len(opened.cohorts)]
           v == RunWhenFull(before)
<1>0. Good(t) /\ Typed(t)
  BY DEF FstReading, Good, Placed
<1>1. u = IF looked.cCohort # 0 /\ SoftEnds(looked) THEN [t EXCEPT !.crashed = TRUE]
          ELSE [v EXCEPT !.cCohort = 0]
  <2>1. Lines!SoftLookback(t) = looked
    BY LinesLookback, Zenon
  <2>2. (Lines!SoftEnds(looked) <=> SoftEnds(looked)) /\ (Lines!HardEnds(looked) <=> HardEnds(looked))
    BY LinesEnds, Zenon
  <2>3. (IF looked.cCohort # 0 /\ Lines!HardEnds(looked) THEN Lines!CloseWindow(looked)
         ELSE Lines!AppendCurrent(looked)) = closed
    <3>1. Lines!CloseWindow(looked) = CloseWindow(looked) /\ Lines!AppendCurrent(looked) = AppendCurrent(looked)
      BY LinesClose, LinesAppend, Zenon
    <3> HIDE DEF looked
    <3> QED  BY <2>2, <3>1
  <2>4. Lines!OpenWindow(closed, <<>>) = opened
    BY LinesOpen, Zenon
  <2>5. Lines!RunWhenFull(before) = v
    BY LinesRun, Zenon
  <2>6. u = LET c5 == IF looked.cCohort # 0 /\ Lines!HardEnds(looked) THEN Lines!CloseWindow(looked)
                      ELSE Lines!AppendCurrent(looked)
                o5 == Lines!OpenWindow(c5, <<>>)
                t5 == Lines!RunWhenFull(IF c5.cSWindow # 0 THEN c5 ELSE [o5 EXCEPT !.lCohort = Len(o5.cohorts)])
            IN  IF looked.cCohort # 0 /\ Lines!SoftEnds(looked) THEN [t EXCEPT !.crashed = TRUE]
                ELSE [t5 EXCEPT !.cCohort = 0]
    <3> HIDE DEF looked
    <3> QED  BY <2>1, Zenon DEF Lines!FstBreak, Lines!FstCrash
  <2> HIDE DEF looked, closed, opened, v
  <2>7. u = LET t5 == Lines!RunWhenFull(IF closed.cSWindow # 0 THEN closed
                                        ELSE [opened EXCEPT !.lCohort = Len(opened.cohorts)])
            IN  IF looked.cCohort # 0 /\ Lines!SoftEnds(looked) THEN [t EXCEPT !.crashed = TRUE]
                ELSE [t5 EXCEPT !.cCohort = 0]
    BY <2>3, <2>4, <2>6, Zenon
  <2>8. u = IF looked.cCohort # 0 /\ Lines!SoftEnds(looked) THEN [t EXCEPT !.crashed = TRUE]
            ELSE [v EXCEPT !.cCohort = 0]
    BY <2>5, <2>7, Zenon
  <2> QED  BY <2>2, <2>8
<1>2. Good(looked)
  BY <1>0, LookbackGood
<1> HIDE DEF looked
<1>3. CASE looked.cCohort # 0 /\ SoftEnds(looked)
  <2>1. u = [t EXCEPT !.crashed = TRUE]
    BY <1>1, <1>3
  <2>2. /\ DOMAIN u = Fields /\ u.cohorts = t.cohorts /\ u.windows = t.windows
        /\ u.cSWindow = t.cSWindow /\ u.lSWindow = t.lSWindow /\ u.cCohort = t.cCohort
        /\ u.lCohort = t.lCohort /\ u.previous = t.previous /\ u.next = t.next /\ u.current = t.current
    BY <1>0, <2>1 DEF Typed, Fields
  <2>3. Alike(t, u)
    BY <1>0, <2>2, QueuesAlike DEF Typed, PointersOK, QueuesOK
  <2>4. Good(u)
    BY <1>0, <2>3, AlikeGood
  <2> QED  BY <2>2, <2>4 DEF FstReading
<1>4. CASE ~(looked.cCohort # 0 /\ SoftEnds(looked))
  <2>1. u = [v EXCEPT !.cCohort = 0]
    BY <1>1, <1>4
  <2>2. Placed(closed)
    <3>1. CASE ends
      <4>1. closed = CloseWindow(looked) /\ looked.cCohort # 0
        BY <3>1
      <4> HIDE DEF closed
      <4> QED  BY <1>2, <4>1, ClosePlaced
    <3>2. CASE ~ ends /\ looked.cCohort # 0
      <4>1. closed = AppendCurrent(looked) /\ ~ HardEnds(looked)
        BY <3>2
      <4>2. looked.cSWindow \in 1..Len(looked.windows)
        <5>1. looked.cSWindow \in {0, Len(looked.windows)} /\ looked.cSWindow # 0 /\ Len(looked.windows) \in Nat
          BY <1>2, <3>2, PlaceFacts DEF Good, Pending, Placed, Typed, PointersOK
        <5> QED  BY <5>1
      <4>3. SizeOf(looked, looked.cSWindow) \in Nat
        BY <1>2, <4>2, PlaceFacts DEF Good, Placed
      <4>4. SizeOf(looked, looked.cSWindow) < HardLimit
        BY <4>1, <4>3, StreamLimits DEF HardEnds
      <4> HIDE DEF closed
      <4> QED  BY <1>2, <3>2, <4>1, <4>4, AppendPlaced
    <3>3. CASE looked.cCohort = 0
      <4>1. closed = looked
        BY <3>3 DEF AppendCurrent
      <4> HIDE DEF closed
      <4> QED  BY <1>2, <4>1 DEF Good
    <3> QED  BY <3>1, <3>2, <3>3
  <2> HIDE DEF closed
  <2>3. Placed(before) /\ before.cSWindow # 0
    <3>1. CASE closed.cSWindow # 0
      <4>1. before = closed
        BY <3>1
      <4> HIDE DEF before
      <4> QED  BY <2>2, <3>1, <4>1
    <3>2. CASE closed.cSWindow = 0
      <4>1. Good(opened) /\ opened.cSWindow # 0
        BY <2>2, <3>2, OpenGood
      <4>2. before = [opened EXCEPT !.lCohort = Len(opened.cohorts)]
        BY <3>2
      <4> HIDE DEF opened, before
      <4>3. Typed(opened) /\ Len(opened.cohorts) \in 0..Len(opened.cohorts) /\ Placed(opened)
        BY <4>1, PlaceFacts DEF Good, Placed
      <4>4. Alike(opened, before)
        BY <4>2, <4>3, SmallChanges DEF Likewise
      <4> QED  BY <4>1, <4>3, <4>4, AlikePlaced DEF Alike
    <3> QED  BY <3>1, <3>2
  <2> HIDE DEF before
  <2>4. Placed(v) /\ v.cSWindow # 0
    BY <2>3, RunWhenFullGood DEF Kept
  <2> HIDE DEF v
  <2> QED  BY <2>1, <2>4, ForgetCohort DEF FstReading
<1> QED  BY <1>3, <1>4

\* A line of FST output.
LEMMA FstReads ==
    ASSUME NEW t, FstReading(t), NEW line, NEW u, u = Lines!FstLine(t, line)
    PROVE  FstReading(u)
<1> DEFINE b == Lines!FstBreak(t)
<1>1. \/ u = Lines!FstForm(t, line)
      \/ u = b
      \/ u = Lines!LineText(b, line)
  BY DEF Lines!FstLine
<1>2. FstReading(b)
  BY FstBreakReads
<1> HIDE DEF b
<1>3. CASE u = Lines!LineText(b, line)
  <2>1. Good(b) /\ Typed(b)
    BY <1>2 DEF FstReading, Good, Placed
  <2>2. Alike(b, u)
    BY <1>3, <2>1, LineTextAlike DEF Likewise
  <2>3. Good(u)
    BY <2>1, <2>2, AlikeGood
  <2> QED  BY <1>2, <2>2, <2>3 DEF FstReading, Alike
<1> QED  BY <1>1, <1>2, <1>3, FstFormReads

-----------------------------------------------------------------------------
(* The end of FST output, which leaves the last window as it is if its     *)
(* last cohort is placed.                                                  *)

\* All windows but the last have their end tag.
FstEnded(t) ==
    /\ Typed(t) /\ Marks(t, Len(t.windows) - 1)
    /\ \A w \in 1..Len(t.windows) : SizeOf(t, w) <= HardLimit + 1

\* That holds while lines are read, too.
LEMMA FstReadingEnded ==
    ASSUME NEW t, FstReading(t)
    PROVE  FstEnded(t)
<1>1. Placed(t) /\ Typed(t)
  BY DEF FstReading, Good, Placed
<1>2. Len(t.windows) \in Nat
  BY <1>1, PlaceFacts
<1>3. Marks(t, Len(t.windows) - 1)
  BY <1>1, <1>2 DEF Placed, Marks
<1>4. \A w \in 1..Len(t.windows) : SizeOf(t, w) <= HardLimit + 1
  BY <1>1 DEF Placed, Fitting
<1> QED  BY <1>1, <1>3, <1>4 DEF FstEnded

\* And after the windows were run and written.
LEMMA FstDrainEnds ==
    ASSUME NEW t, FstReading(t), NEW u, u = Drain(t)
    PROVE  FstEnded(u)
<1> DEFINE e == LastClosed(t)
<1>1. Good(t) /\ Placed(t) /\ Typed(t)
  BY DEF FstReading, Good, Placed
<1>2. Placed(e) /\ (e.cSWindow # 0 => e.cSWindow = Len(e.windows))
  <2>1. CASE t.cCohort # 0
    <3>1. e = CloseWindow(t)
      BY <1>1, <2>1 DEF LastClosed, Good, Pending
    <3> HIDE DEF e
    <3> QED  BY <1>1, <2>1, <3>1, ClosePlaced
  <2>2. CASE t.cCohort = 0
    <3>1. e = t
      BY <2>2 DEF LastClosed
    <3> HIDE DEF e
    <3> QED  BY <1>1, <3>1 DEF Typed, PointersOK
  <2> QED  BY <2>1, <2>2
<1> HIDE DEF e
<1>3. Typed(e) /\ Len(e.windows) \in Nat
  BY <1>2, PlaceFacts DEF Placed
<1>4. /\ DOMAIN u = Fields /\ QueuesOK(u)
      /\ u.cohorts = e.cohorts /\ u.windows = e.windows
      /\ u.cSWindow = 0 /\ u.cCohort = 0 /\ u.lSWindow = 0 /\ u.lCohort = 0
  BY <1>3, DrainKeeps DEF Typed, e
<1>5. \A w \in 1..Len(u.windows) : SizeOf(u, w) = SizeOf(e, w)
  BY <1>4 DEF SizeOf
<1>6. Typed(u)
  <2>1. CohortsOK(u)
    BY <1>3, <1>4 DEF Typed, CohortsOK
  <2>2. WindowsOK(u)
    BY <1>3, <1>4, <1>5 DEF Typed, WindowsOK
  <2>3. PointersOK(u)
    BY <1>3, <1>4, PlaceFacts DEF PointersOK
  <2> QED  BY <1>4, <2>1, <2>2, <2>3 DEF Typed
<1>7. \A w \in 1..Len(u.windows) : SizeOf(u, w) <= HardLimit + 1
  BY <1>2, <1>4, <1>5 DEF Placed, Fitting
<1>8. Marks(u, Len(u.windows) - 1)
  <2>1. Len(u.windows) = Len(e.windows)
    BY <1>4
  <2> SUFFICES ASSUME NEW w \in 1..(Len(e.windows) - 1), NEW i \in 1..SizeOf(u, w)
               PROVE  u.cohorts[u.windows[w].cohorts[i]].endtag <=>
                          (w # u.cSWindow /\ SizeOf(u, w) > 1 /\ i = SizeOf(u, w))
    BY <2>1, Zenon DEF Marks
  <2>2. w \in 1..Len(e.windows) /\ w # e.cSWindow /\ w # 0 /\ SizeOf(u, w) = SizeOf(e, w)
    BY <1>2, <1>3, <1>5, <2>1
  <2>3. e.cohorts[e.windows[w].cohorts[i]].endtag <=>
            (w # e.cSWindow /\ SizeOf(e, w) > 1 /\ i = SizeOf(e, w))
    BY <1>2, <2>2 DEF Placed, Marks
  <2> QED  BY <1>4, <2>2, <2>3
<1> QED  BY <1>6, <1>7, <1>8 DEF FstEnded

-----------------------------------------------------------------------------
(* Apertium and Matxin: the reader of characters.                          *)

ReaderFields == {"rest", "superblank", "incohort", "firstblank", "waiting"}

ReaderOK(t) == DOMAIN t.reader = ReaderFields /\ IsSeq(t.reader.rest)

\* Between two characters
Between(t) == Reading(t) /\ ReaderOK(t)

\* What leaves the windows as they are.
LEMMA AlikeReading ==
    ASSUME NEW t, Reading(t), NEW u, Alike(t, u)
    PROVE  Reading(u)
BY AlikeGood DEF Reading, Alike

\* The reader alone changes.
LEMMA ReaderAlike ==
    ASSUME NEW t, Typed(t), NEW x, NEW u, u = [t EXCEPT !.reader = x]
    PROVE  Alike(t, u) /\ u.reader = x
<1>1. /\ DOMAIN u = Fields /\ u.cohorts = t.cohorts /\ u.windows = t.windows
      /\ u.cSWindow = t.cSWindow /\ u.lSWindow = t.lSWindow /\ u.cCohort = t.cCohort
      /\ u.lCohort = t.lCohort /\ u.previous = t.previous /\ u.next = t.next
      /\ u.current = t.current /\ u.reader = x
  BY DEF Typed, Fields
<1>2. QueuesOK(u) /\ u.lCohort \in 0..Len(t.cohorts)
  BY <1>1 DEF Typed, QueuesOK, PointersOK
<1> QED  BY <1>1, <1>2, QueuesAlike

\* Then the stream can be read on, if the reader can.
LEMMA ReaderReads ==
    ASSUME NEW t, Reading(t), NEW x, DOMAIN x = ReaderFields, IsSeq(x.rest),
           NEW u, u = [t EXCEPT !.reader = x]
    PROVE  Between(u)
<1>1. Typed(t)
  BY DEF Reading, Good, Placed
<1>2. Alike(t, u) /\ u.reader = x
  BY <1>1, ReaderAlike
<1> QED  BY <1>2, AlikeReading DEF Between, ReaderOK

\* What is left of a sequence.
LEMMA DropFirstSeq ==
    ASSUME NEW q, IsSeq(q), NEW n \in Nat
    PROVE  IsSeq(DropFirst(q, n))
<1>1. PICK T : q \in Seq(T)
  BY DEF IsSeq
<1>2. SubSeq(q, n + 1, Len(q)) \in Seq(T)
  <2>1. \A i \in (n + 1)..Len(q) : q[i] \in T
    BY <1>1
  <2> QED  BY <1>1, <2>1, SubSeqProperties
<1> QED  BY <1>2 DEF DropFirst, IsSeq

\* Characters are taken from the input.
LEMMA TookReads ==
    ASSUME NEW t, Between(t), NEW n \in Nat, NEW u, u = Took(t, n)
    PROVE  Between(u)
<1> DEFINE x == [t.reader EXCEPT !.rest = DropFirst(t.reader.rest, n)]
<1>1. u = [t EXCEPT !.reader = x]
  BY DEF Took
<1>2. DOMAIN x = ReaderFields /\ x.rest = DropFirst(t.reader.rest, n)
  BY DEF Between, ReaderOK, ReaderFields
<1> HIDE DEF x
<1>3. IsSeq(x.rest)
  BY <1>2, DropFirstSeq DEF Between, ReaderOK
<1> QED  BY <1>1, <1>2, <1>3, ReaderReads DEF Between

\* The program waits for more.
LEMMA WaitReads ==
    ASSUME NEW t, Between(t), NEW u, u = Wait(t)
    PROVE  Between(u)
<1> DEFINE x == [t.reader EXCEPT !.waiting = TRUE]
<1>1. u = [t EXCEPT !.reader = x]
  BY DEF Wait
<1>2. DOMAIN x = ReaderFields /\ x.rest = t.reader.rest
  BY DEF Between, ReaderOK, ReaderFields
<1> HIDE DEF x
<1> QED  BY <1>1, <1>2, ReaderReads DEF Between, ReaderOK

\* What leaves the windows and the reader as they are.
LEMMA LikewiseBetween ==
    ASSUME NEW t, Between(t), NEW u, Likewise(t, u)
    PROVE  Between(u)
BY AlikeReading DEF Between, ReaderOK, Likewise

\* Text has a cohort or a window to go to.
LEMMA AddTextReads ==
    ASSUME NEW t, Between(t), ~ NoPlaceYet(t), NEW x, NEW u, u = AddText(t, x)
    PROVE  Between(u)
<1>1. Typed(t)
  BY DEF Between, Reading, Good, Placed
<1>2. /\ t.cCohort \in 0..Len(t.cohorts) /\ t.lSWindow \in 0..Len(t.windows)
      /\ Len(t.cohorts) \in Nat /\ Len(t.windows) \in Nat
  BY <1>1, PlaceFacts DEF Typed, PointersOK
<1>3. CASE t.cCohort # 0
  <2> DEFINE y == t.cohorts[t.cCohort].text \o x
  <2>1. u = [t EXCEPT !.cohorts[t.cCohort].text = y]
    BY <1>3 DEF AddText
  <2>2. t.cCohort \in 1..Len(t.cohorts)
    BY <1>2, <1>3
  <2> HIDE DEF y
  <2>3. Likewise(t, u)
    BY <1>1, <2>1, <2>2, CohortTextAlike
  <2> QED  BY <2>3, LikewiseBetween
<1>4. CASE t.cCohort = 0
  <2> DEFINE y == t.windows[t.lSWindow].text \o x
  <2>1. u = [t EXCEPT !.windows[t.lSWindow].text = y]
    BY <1>4 DEF AddText
  <2>2. t.lSWindow \in 1..Len(t.windows)
    BY <1>2, <1>4 DEF NoPlaceYet
  <2> HIDE DEF y
  <2>3. Likewise(t, u)
    BY <1>1, <2>1, <2>2, WindowTextAlike
  <2> QED  BY <2>3, LikewiseBetween
<1> QED  BY <1>3, <1>4

\* What is written at once.
LEMMA SayReads ==
    ASSUME NEW t, Between(t), NEW x, NEW u, u = Say(t, x)
    PROVE  Between(u)
<1>1. Typed(t)
  BY DEF Between, Reading, Good, Placed
<1>2. Likewise(t, u)
  BY <1>1, SmallChanges
<1> QED  BY <1>2, LikewiseBetween

\* An escaped character.
LEMMA ReadEscapedReads ==
    ASSUME NEW t, Between(t), NEW u, u = ReadEscaped(t)
    PROVE  Between(u)
<1> DEFINE x == SubSeq(t.reader.rest, 1, 2)
           v == IF NoPlaceYet(t) THEN Say(t, x) ELSE AddText(t, x)
<1>1. u = Wait(t) \/ u = Took(v, 2)
  BY DEF ReadEscaped
<1>2. Between(v)
  <2> HIDE DEF x
  <2>1. CASE NoPlaceYet(t)
    <3>1. v = Say(t, x)
      BY <2>1
    <3> HIDE DEF v
    <3> QED  BY <3>1, SayReads
  <2>2. CASE ~ NoPlaceYet(t)
    <3>1. v = AddText(t, x)
      BY <2>2
    <3> HIDE DEF v
    <3> QED  BY <2>2, <3>1, AddTextReads
  <2> QED  BY <2>1, <2>2
<1> HIDE DEF v
<1> QED  BY <1>1, <1>2, WaitReads, TookReads

\* Any other character outside of cohorts.
LEMMA ReadTextReads ==
    ASSUME NEW t, Between(t), NEW u, u = ReadText(t)
    PROVE  Between(u)
<1> DEFINE x == <<Head(t.reader.rest)>>
           y == [t.reader EXCEPT !.firstblank = t.reader.firstblank \o x]
           v == IF NoPlaceYet(t) THEN [t EXCEPT !.reader = y] ELSE AddText(t, x)
<1>1. u = Took(v, 1)
  <2>1. [t EXCEPT !.reader.firstblank = t.reader.firstblank \o x] = [t EXCEPT !.reader = y]
    OBVIOUS
  <2>2. u = Took(IF NoPlaceYet(t) THEN [t EXCEPT !.reader.firstblank = t.reader.firstblank \o x]
                 ELSE AddText(t, x), 1)
    BY Zenon DEF ReadText
  <2> QED  BY <2>1, <2>2, Zenon
<1>2. Between(v)
  <2>1. DOMAIN y = ReaderFields /\ y.rest = t.reader.rest
    BY DEF Between, ReaderOK, ReaderFields
  <2> HIDE DEF x, y
  <2>2. CASE NoPlaceYet(t)
    <3>1. v = [t EXCEPT !.reader = y]
      BY <2>2
    <3> HIDE DEF v
    <3> QED  BY <2>1, <3>1, ReaderReads DEF Between, ReaderOK
  <2>3. CASE ~ NoPlaceYet(t)
    <3>1. v = AddText(t, x)
      BY <2>3
    <3> HIDE DEF v
    <3> QED  BY <2>3, <3>1, AddTextReads
  <2> QED  BY <2>2, <2>3
<1> HIDE DEF v
<1> QED  BY <1>1, <1>2, TookReads

\* The empty reading of a cohort without one.
LEMMA WithReadingReads ==
    ASSUME NEW t, Between(t), NEW u, u = WithReading(t)
    PROVE  Between(u)
<1>1. Typed(t)
  BY DEF Between, Reading, Good, Placed
<1> DEFINE x == <<[noprint |-> TRUE]>>
<1>2. \/ u = t
      \/ t.cCohort # 0 /\ u = [t EXCEPT !.cohorts[t.cCohort].readings = x]
  BY DEF WithReading
<1> HIDE DEF x
<1>3. t.cCohort # 0 => t.cCohort \in 1..Len(t.cohorts)
  BY <1>1, PlaceFacts DEF Typed, PointersOK
<1>4. t.cCohort # 0 /\ u = [t EXCEPT !.cohorts[t.cCohort].readings = x] => Likewise(t, u)
  BY <1>1, <1>3, ReadingsAlike
<1> QED  BY <1>2, <1>4, LikewiseBetween

\* The cohort before is placed and there is a window for the next one.
LEMMA PlaceCohortPlaces ==
    ASSUME NEW t, Between(t), NEW u, u = PlaceCohort(t)
    PROVE  Placed(u) /\ u.cSWindow # 0 /\ ReaderOK(u)
<1> DEFINE c == WithReading(t)
           closed == IF c.cCohort # 0 /\ (SoftEnds(c) \/ HardEnds(c)) THEN CloseWindow(c) ELSE c
           opened == OpenWindow(closed, closed.reader.firstblank)
           placed == IF closed.cSWindow = 0 THEN [opened EXCEPT !.reader.firstblank = <<>>]
                     ELSE AppendCurrent(closed)
           room == WithRoom(Ended(c), closed.reader.firstblank)
<1>1. u = RunWhenFull(placed)
  BY Zenon DEF PlaceCohort
<1>2. closed = Ended(c)
  BY DEF Ended
<1>3. Between(c)
  BY WithReadingReads
<1> HIDE DEF c
<1>4. Placed(room) /\ room.cSWindow # 0 /\ room.reader = c.reader
  BY <1>3, PlacePending DEF Between
<1>5. room = IF closed.cSWindow = 0 THEN opened ELSE AppendCurrent(closed)
  <2> HIDE DEF closed
  <2> QED  BY <1>2 DEF WithRoom
<1> HIDE DEF closed, opened, room
<1>6. Placed(placed) /\ placed.cSWindow # 0 /\ ReaderOK(placed)
  <2>1. CASE closed.cSWindow = 0
    <3> DEFINE y == [room.reader EXCEPT !.firstblank = <<>>]
    <3>1. placed = [room EXCEPT !.reader = y]
      BY <1>5, <2>1
    <3>2. DOMAIN y = ReaderFields /\ y.rest = c.reader.rest
      BY <1>3, <1>4 DEF Between, ReaderOK, ReaderFields
    <3> HIDE DEF y, placed
    <3>3. Alike(room, placed) /\ placed.reader = y
      BY SMTT(60), <1>4, <3>1, ReaderAlike DEF Placed
    <3>4. Placed(placed) /\ placed.cSWindow = room.cSWindow
      BY <1>4, <3>3, AlikePlaced DEF Alike
    <3> QED  BY <1>3, <1>4, <3>2, <3>3, <3>4 DEF Between, ReaderOK
  <2>2. CASE closed.cSWindow # 0
    <3>1. placed = room
      BY <1>5, <2>2
    <3> HIDE DEF placed
    <3> QED  BY <1>3, <1>4, <3>1 DEF Between, ReaderOK
  <2> QED  BY <2>1, <2>2
<1> HIDE DEF placed
<1> QED  BY <1>1, <1>6, RunWhenFullGood DEF Kept, ReaderOK

-----------------------------------------------------------------------------
(* Where a scan of the input stops.                                        *)

\* One character of Scan, from the results one and two characters further on
ScanStep(in, stops, i, a, b) ==
    IF i > Len(in) \/ (i = Len(in) /\ in[i] = "\\") THEN [text |-> <<>>, at |-> 0]
    ELSE IF in[i] \in stops THEN [text |-> <<>>, at |-> i]
    ELSE IF in[i] = "\\" THEN [b EXCEPT !.text = <<in[i + 1]>> \o @]
    ELSE [a EXCEPT !.text = <<in[i]>> \o @]

\* It looks no further than the end of the input.
LEMMA ScanStepLooks ==
    ASSUME NEW in, Len(in) \in Nat, NEW stops, NEW i \in Nat, NEW a, NEW b, NEW c, NEW d,
           i < Len(in) => b = d, i <= Len(in) => a = c
    PROVE  ScanStep(in, stops, i, a, b) = ScanStep(in, stops, i, c, d)
<1>1. CASE i > Len(in)
  BY <1>1, Zenon DEF ScanStep
<1>2. CASE i = Len(in)
  <2>1. a = c
    BY <1>2
  <2> QED  BY <1>2, <2>1, Zenon DEF ScanStep
<1>3. CASE i < Len(in)
  <2>1. a = c /\ b = d
    BY <1>3
  <2> QED  BY <2>1
<1> QED  BY <1>1, <1>2, <1>3

\* A place from i up to n, or none
StopsIn(r, i, n) == DOMAIN r = {"text", "at"} /\ r.at \in {0} \cup i..n

\* It stops here or where one of those two does.
LEMMA ScanStepStops ==
    ASSUME NEW in, Len(in) \in Nat, NEW stops, NEW i \in Nat, NEW a, NEW b,
           i <= Len(in) => StopsIn(a, i + 1, Len(in)),
           i < Len(in) => StopsIn(b, i + 2, Len(in)), NEW r, r = ScanStep(in, stops, i, a, b)
    PROVE  StopsIn(r, i, Len(in))
<1> DEFINE esc == in[i] = "\\"
           x == <<in[i + 1]>> \o b.text
           y == <<in[i]>> \o a.text
<1>1. r = IF i > Len(in) \/ (i = Len(in) /\ esc) THEN [text |-> <<>>, at |-> 0]
          ELSE IF in[i] \in stops THEN [text |-> <<>>, at |-> i]
          ELSE IF esc THEN [b EXCEPT !.text = x] ELSE [a EXCEPT !.text = y]
  BY DEF ScanStep
<1> HIDE DEF esc, x, y
<1>2. CASE r = [text |-> <<>>, at |-> 0]
  BY <1>2 DEF StopsIn
<1>3. CASE i <= Len(in) /\ r = [text |-> <<>>, at |-> i]
  BY <1>3 DEF StopsIn
<1>4. CASE i < Len(in) /\ r = [b EXCEPT !.text = x]
  BY <1>4 DEF StopsIn
<1>5. CASE i <= Len(in) /\ r = [a EXCEPT !.text = y]
  BY <1>5 DEF StopsIn
<1> QED  BY <1>1, <1>2, <1>3, <1>4, <1>5

\* The results for all places of the input
Scans(in, stops) ==
    CHOOSE f : f = [i \in 1..Len(in) + 2 |-> ScanStep(in, stops, i, f[i + 1], f[i + 2])]

\* Scan is one of them.
LEMMA ScanIs ==
    ASSUME NEW in, NEW at, NEW stops
    PROVE  Scan(in, at, stops) = Scans(in, stops)[at]
BY Zenon DEF Scan, Scans, ScanStep

\* They exist, and each is what the step makes of the ones after it.
LEMMA ScansAre ==
    ASSUME NEW in, Len(in) \in Nat, NEW stops, NEW f, f = Scans(in, stops),
           NEW i \in 1..Len(in) + 2
    PROVE  f[i] = ScanStep(in, stops, i, f[i + 1], f[i + 2])
<1> DEFINE N == Len(in) + 2
           Ok(g, m) == g = [j \in m..N |-> ScanStep(in, stops, j, g[j + 1], g[j + 2])]
           T == {k \in 0..N - 1 : \E g : Ok(g, N - k)}
<1>1. \E g : Ok(g, 1)
  <2>1. 0 \in T
    <3> DEFINE g == [j \in N..N |-> ScanStep(in, stops, j, 0, 0)]
    <3>1. \A j \in N..N : g[j] = ScanStep(in, stops, j, g[j + 1], g[j + 2])
      <4> TAKE j \in N..N
      <4>1. g[j] = ScanStep(in, stops, j, 0, 0) /\ j \in Nat /\ j > Len(in)
        OBVIOUS
      <4> HIDE DEF g
      <4>2. ScanStep(in, stops, j, 0, 0) = ScanStep(in, stops, j, g[j + 1], g[j + 2])
        BY <4>1, ScanStepLooks
      <4> QED  BY <4>1, <4>2
    <3>2. Ok(g, N)
      <4> DEFINE h == [j \in N..N |-> ScanStep(in, stops, j, g[j + 1], g[j + 2])]
      <4>1. DOMAIN g = N..N /\ g = [j \in N..N |-> g[j]]
        OBVIOUS
      <4> HIDE DEF g
      <4>2. g = h
        BY <3>1, <4>1
      <4> QED  BY <4>2
    <3>3. 0 \in 0..N - 1 /\ N - 0 = N
      OBVIOUS
    <3> HIDE DEF Ok, g
    <3> QED  BY <3>2, <3>3
  <2>2. ASSUME NEW k \in 0..(N - 1) - 1, k \in T  PROVE k + 1 \in T
    <3>1. PICK g : Ok(g, N - k)
      BY <2>2
    <3> DEFINE m == N - (k + 1)
               h == [j \in m..N |-> IF j = m THEN ScanStep(in, stops, m, g[m + 1], g[m + 2]) ELSE g[j]]
    <3>2. \A j \in N - k..N : g[j] = ScanStep(in, stops, j, g[j + 1], g[j + 2])
      BY <3>1
    <3>3. m \in Nat /\ m + 1 = N - k /\ m < N /\ N \in Nat
      BY <2>2
    <3>4. \A j \in m..N : h[j] = ScanStep(in, stops, j, h[j + 1], h[j + 2])
      <4> TAKE j \in m..N
      <4>1. CASE j = m
        <5>1. h[j] = ScanStep(in, stops, j, g[j + 1], g[j + 2])
          BY <4>1
        <5>2. j + 1 \in m..N /\ j + 1 # m /\ (j < Len(in) => j + 2 \in m..N /\ j + 2 # m) /\ j \in Nat
          BY <3>3, <4>1
        <5>3. g[j + 1] = h[j + 1] /\ (j < Len(in) => g[j + 2] = h[j + 2])
          BY <5>2
        <5> HIDE DEF h
        <5>4. ScanStep(in, stops, j, g[j + 1], g[j + 2]) = ScanStep(in, stops, j, h[j + 1], h[j + 2])
          BY <5>2, <5>3, ScanStepLooks
        <5> QED  BY <5>1, <5>4
      <4>2. CASE j # m
        <5>1. j \in N - k..N /\ j \in Nat /\ j # m
          BY <3>3, <4>2
        <5>2. h[j] = ScanStep(in, stops, j, g[j + 1], g[j + 2])
          BY <3>2, <5>1
        <5>3. /\ j <= Len(in) => j + 1 \in m..N /\ j + 1 # m
              /\ j < Len(in) => j + 2 \in m..N /\ j + 2 # m
          BY <3>3, <5>1
        <5>4. /\ j <= Len(in) => g[j + 1] = h[j + 1]
              /\ j < Len(in) => g[j + 2] = h[j + 2]
          BY <5>3
        <5> HIDE DEF h
        <5>5. ScanStep(in, stops, j, g[j + 1], g[j + 2]) = ScanStep(in, stops, j, h[j + 1], h[j + 2])
          BY <5>1, <5>4, ScanStepLooks
        <5> QED  BY <5>2, <5>5
      <4> QED  BY <4>1, <4>2
    <3>5. Ok(h, m)
      <4> DEFINE q == [j \in m..N |-> ScanStep(in, stops, j, h[j + 1], h[j + 2])]
      <4>1. DOMAIN h = m..N /\ h = [j \in m..N |-> h[j]]
        OBVIOUS
      <4> HIDE DEF h
      <4>2. h = q
        BY <3>4, <4>1
      <4> QED  BY <4>2
    <3>6. k + 1 \in 0..N - 1
      BY <2>2
    <3> HIDE DEF Ok, h
    <3> QED  BY <3>5, <3>6
  <2>3. N - 1 \in Nat
    OBVIOUS
  <2> HIDE DEF T
  <2>4. 0..N - 1 \subseteq T
    <3> DEFINE M == N - 1
    <3>1. \A k \in 0..(M - 1) : k \in T => k + 1 \in T
      BY <2>2
    <3> HIDE DEF M
    <3>2. M \in Nat
      BY <2>3 DEF M
    <3>3. 0..M \subseteq T
      BY <2>1, <3>1, <3>2, UpTo
    <3> QED  BY <3>3 DEF M
  <2>5. N - 1 \in T /\ N - (N - 1) = 1
    BY <2>3, <2>4
  <2> HIDE DEF Ok, N
  <2> QED  BY <2>5 DEF T
<1>2. Ok(f, 1)
  BY <1>1 DEF Scans
<1> QED  BY <1>2

\* From a place on, a scan stops nowhere before it.
LEMMA ScanStops ==
    ASSUME NEW in, Len(in) \in Nat, NEW stops, NEW at \in 1..Len(in) + 2,
           NEW r, r = Scan(in, at, stops)
    PROVE  StopsIn(r, at, Len(in))
<1> DEFINE N == Len(in) + 1
           f == Scans(in, stops)
           T == {k \in 0..N : \A i \in 1..Len(in) + 2 : i >= Len(in) + 2 - k => StopsIn(f[i], i, Len(in))}
<1>1. \A i \in 1..Len(in) + 2 : f[i] = ScanStep(in, stops, i, f[i + 1], f[i + 2])
  BY ScansAre
<1> HIDE DEF f
<1>2. 0 \in T
  <2> SUFFICES ASSUME NEW i \in 1..Len(in) + 2, i >= Len(in) + 2 - 0
               PROVE  StopsIn(f[i], i, Len(in))
    OBVIOUS
  <2>1. i \in Nat /\ ~(i <= Len(in)) /\ ~(i < Len(in))
    OBVIOUS
  <2> QED  BY <1>1, <2>1, ScanStepStops
<1>3. ASSUME NEW k \in 0..(N - 1), k \in T  PROVE k + 1 \in T
  <2>1. k + 1 \in 0..N
    OBVIOUS
  <2> SUFFICES ASSUME NEW i \in 1..Len(in) + 2, i >= Len(in) + 2 - (k + 1)
               PROVE  StopsIn(f[i], i, Len(in))
    BY <2>1
  <2>2. \A j \in 1..Len(in) + 2 : j >= Len(in) + 2 - k => StopsIn(f[j], j, Len(in))
    BY <1>3
  <2>3. i \in Nat
    OBVIOUS
  <2>4. i <= Len(in) => StopsIn(f[i + 1], i + 1, Len(in))
    <3>1. i <= Len(in) => i + 1 \in 1..Len(in) + 2 /\ i + 1 >= Len(in) + 2 - k
      OBVIOUS
    <3> HIDE DEF T
    <3> QED  BY <2>2, <3>1
  <2>5. i < Len(in) => StopsIn(f[i + 2], i + 2, Len(in))
    <3>1. i < Len(in) => i + 2 \in 1..Len(in) + 2 /\ i + 2 >= Len(in) + 2 - k
      OBVIOUS
    <3> HIDE DEF T
    <3> QED  BY <2>2, <3>1
  <2> HIDE DEF T
  <2> QED  BY <1>1, <2>3, <2>4, <2>5, ScanStepStops
<1>4. N \in T
  <2>1. N \in Nat
    OBVIOUS
  <2> HIDE DEF N, T
  <2>2. 0..N \subseteq T
    BY <1>2, <1>3, <2>1, UpTo
  <2> QED  BY <2>1, <2>2
<1>5. at >= Len(in) + 2 - N
  OBVIOUS
<1>6. StopsIn(f[at], at, Len(in))
  BY <1>4, <1>5
<1>7. r = f[at]
  BY ScanIs DEF f
<1> QED  BY <1>6, <1>7

\* One reading of ReadingsFrom, from the result for the ones after it
ReadingStep(in, i, a) ==
    LET r == Scan(in, i, {"/", "$"})
    IN  IF r.at = 0 THEN [texts |-> <<>>, at |-> 0]
        ELSE IF in[r.at] = "$" THEN [texts |-> <<r.text>>, at |-> r.at]
        ELSE [a EXCEPT !.texts = <<r.text>> \o @]

\* Where a reading ends
ReadingEnd(in, i) == Scan(in, i, {"/", "$"}).at

\* A reading that does not end is the last one.
LEMMA ReadingStepLooks ==
    ASSUME NEW in, NEW i, NEW a, NEW b, ReadingEnd(in, i) # 0 => a = b
    PROVE  ReadingStep(in, i, a) = ReadingStep(in, i, b)
<1>1. CASE ReadingEnd(in, i) = 0
  BY <1>1, Zenon DEF ReadingStep, ReadingEnd
<1>2. CASE ReadingEnd(in, i) # 0
  BY <1>2
<1> QED  BY <1>1, <1>2

\* A place up to n, or none
EndsIn(r, n) == DOMAIN r = {"texts", "at"} /\ r.at \in 0..n

\* The place is that of one reading's end.
LEMMA ReadingStepEnds ==
    ASSUME NEW in, Len(in) \in Nat, NEW i \in 1..Len(in) + 1, NEW a,
           ReadingEnd(in, i) # 0 => EndsIn(a, Len(in)), NEW r, r = ReadingStep(in, i, a)
    PROVE  EndsIn(r, Len(in))
<1> DEFINE e == ReadingEnd(in, i)
           x == <<Scan(in, i, {"/", "$"}).text>>
           y == x \o a.texts
<1>1. r = IF e = 0 THEN [texts |-> <<>>, at |-> 0]
          ELSE IF in[e] = "$" THEN [texts |-> x, at |-> e] ELSE [a EXCEPT !.texts = y]
  BY Zenon DEF ReadingStep, ReadingEnd
<1>2. e \in {0} \cup i..Len(in)
  <2>1. i \in 1..Len(in) + 2
    OBVIOUS
  <2> QED  BY <2>1, ScanStops DEF StopsIn, ReadingEnd
<1> HIDE DEF e, x, y
<1>3. CASE r = [texts |-> <<>>, at |-> 0]
  BY <1>3 DEF EndsIn
<1>4. CASE e # 0 /\ r = [texts |-> x, at |-> e]
  BY <1>2, <1>4 DEF EndsIn
<1>5. CASE e # 0 /\ r = [a EXCEPT !.texts = y]
  BY <1>5 DEF EndsIn, e
<1> QED  BY <1>1, <1>3, <1>4, <1>5

\* The results for all places of the input
AllReadings(in) == CHOOSE f : f = [i \in 1..Len(in) + 1 |-> ReadingStep(in, i, f[ReadingEnd(in, i) + 1])]

\* ReadingsFrom is one of them.
LEMMA ReadingsIs ==
    ASSUME NEW in, NEW at
    PROVE  ReadingsFrom(in, at) = AllReadings(in)[at]
BY Zenon DEF ReadingsFrom, AllReadings, ReadingStep, ReadingEnd

\* A reading that ends does so before the end of the input.
LEMMA ReadingEndIn ==
    ASSUME NEW in, Len(in) \in Nat, NEW i \in 1..Len(in) + 1, ReadingEnd(in, i) # 0
    PROVE  ReadingEnd(in, i) \in i..Len(in)
<1>1. i \in 1..Len(in) + 2
  OBVIOUS
<1>2. ReadingEnd(in, i) \in {0} \cup i..Len(in)
  BY <1>1, ScanStops DEF StopsIn, ReadingEnd
<1> QED  BY <1>2

\* They exist, and each is what the step makes of a later one.
LEMMA AllReadingsAre ==
    ASSUME NEW in, Len(in) \in Nat, NEW f, f = AllReadings(in), NEW i \in 1..Len(in) + 1
    PROVE  f[i] = ReadingStep(in, i, f[ReadingEnd(in, i) + 1])
<1> DEFINE N == Len(in) + 1
           Ok(g, m) == g = [j \in m..N |-> ReadingStep(in, j, g[ReadingEnd(in, j) + 1])]
           T == {k \in 0..Len(in) : \E g : Ok(g, N - k)}
<1>1. \E g : Ok(g, 1)
  <2>1. 0 \in T
    <3> DEFINE g == [j \in N..N |-> ReadingStep(in, j, 0)]
    <3>1. \A j \in N..N : g[j] = ReadingStep(in, j, g[ReadingEnd(in, j) + 1])
      <4> TAKE j \in N..N
      <4>1. g[j] = ReadingStep(in, j, 0) /\ j \in 1..Len(in) + 1 /\ j = Len(in) + 1
        OBVIOUS
      <4> HIDE DEF g
      <4>2. ~(ReadingEnd(in, j) # 0)
        <5> SUFFICES ASSUME ReadingEnd(in, j) # 0 PROVE FALSE
          OBVIOUS
        <5>1. ReadingEnd(in, j) \in j..Len(in)
          BY <4>1, ReadingEndIn
        <5> QED  BY <4>1, <5>1
      <4>3. ReadingStep(in, j, 0) = ReadingStep(in, j, g[ReadingEnd(in, j) + 1])
        BY <4>2, ReadingStepLooks
      <4> QED  BY <4>1, <4>3
    <3>2. Ok(g, N)
      <4> DEFINE h == [j \in N..N |-> ReadingStep(in, j, g[ReadingEnd(in, j) + 1])]
      <4>1. DOMAIN g = N..N /\ g = [j \in N..N |-> g[j]]
        OBVIOUS
      <4> HIDE DEF g
      <4>2. g = h
        BY <3>1, <4>1
      <4> QED  BY <4>2
    <3>3. 0 \in 0..Len(in) /\ N - 0 = N
      OBVIOUS
    <3> HIDE DEF Ok, g
    <3> QED  BY <3>2, <3>3
  <2>2. ASSUME NEW k \in 0..(Len(in) - 1), k \in T  PROVE k + 1 \in T
    <3>1. PICK g : Ok(g, N - k)
      BY <2>2
    <3> DEFINE m == N - (k + 1)
               h == [j \in m..N |-> IF j = m THEN ReadingStep(in, m, g[ReadingEnd(in, m) + 1]) ELSE g[j]]
    <3>2. \A j \in N - k..N : g[j] = ReadingStep(in, j, g[ReadingEnd(in, j) + 1])
      BY <3>1
    <3>3. m \in Nat /\ m >= 1 /\ m + 1 = N - k /\ m < N /\ N \in Nat /\ N = Len(in) + 1
      BY <2>2
    <3>4. \A j \in m..N : h[j] = ReadingStep(in, j, h[ReadingEnd(in, j) + 1])
      <4> TAKE j \in m..N
      <4>0. j \in 1..Len(in) + 1
        BY <3>3
      <4>1. h[j] = ReadingStep(in, j, g[ReadingEnd(in, j) + 1])
        <5>1. CASE j = m
          BY <5>1
        <5>2. CASE j # m
          <6>1. j \in N - k..N
            BY <3>3, <5>2
          <6> QED  BY <3>2, <5>2, <6>1
        <5> QED  BY <5>1, <5>2
      <4>2. ReadingEnd(in, j) # 0 => g[ReadingEnd(in, j) + 1] = h[ReadingEnd(in, j) + 1]
        <5> SUFFICES ASSUME ReadingEnd(in, j) # 0
                     PROVE  g[ReadingEnd(in, j) + 1] = h[ReadingEnd(in, j) + 1]
          OBVIOUS
        <5>1. ReadingEnd(in, j) \in j..Len(in)
          BY <4>0, ReadingEndIn
        <5>2. ReadingEnd(in, j) + 1 \in m..N /\ ReadingEnd(in, j) + 1 # m
          BY <3>3, <5>1
        <5> QED  BY <5>2
      <4> HIDE DEF h
      <4>3. ReadingStep(in, j, g[ReadingEnd(in, j) + 1]) = ReadingStep(in, j, h[ReadingEnd(in, j) + 1])
        BY <4>2, ReadingStepLooks
      <4> QED  BY <4>1, <4>3
    <3>5. Ok(h, m)
      <4> DEFINE q == [j \in m..N |-> ReadingStep(in, j, h[ReadingEnd(in, j) + 1])]
      <4>1. DOMAIN h = m..N /\ h = [j \in m..N |-> h[j]]
        OBVIOUS
      <4> HIDE DEF h
      <4>2. h = q
        BY <3>4, <4>1
      <4> QED  BY <4>2
    <3>6. k + 1 \in 0..Len(in)
      BY <2>2
    <3> HIDE DEF Ok, h
    <3> QED  BY <3>5, <3>6
  <2> HIDE DEF T
  <2>3. 0..Len(in) \subseteq T
    BY <2>1, <2>2, UpTo
  <2>4. Len(in) \in T /\ N - Len(in) = 1
    BY <2>3
  <2> HIDE DEF Ok, N
  <2> QED  BY <2>4 DEF T
<1>2. Ok(f, 1)
  BY <1>1 DEF AllReadings
<1> QED  BY <1>2

\* The readings from a place on end within the input, or do not end.
LEMMA ReadingsEnd ==
    ASSUME NEW in, Len(in) \in Nat, NEW at \in 1..Len(in) + 1, NEW r, r = ReadingsFrom(in, at)
    PROVE  r.at \in 0..Len(in)
<1> DEFINE f == AllReadings(in)
           T == {k \in 0..Len(in) : \A i \in 1..Len(in) + 1 : i >= Len(in) + 1 - k => EndsIn(f[i], Len(in))}
<1>1. \A i \in 1..Len(in) + 1 : f[i] = ReadingStep(in, i, f[ReadingEnd(in, i) + 1])
  BY AllReadingsAre
<1> HIDE DEF f
<1>2. 0 \in T
  <2> SUFFICES ASSUME NEW i \in 1..Len(in) + 1, i >= Len(in) + 1 - 0
               PROVE  EndsIn(f[i], Len(in))
    OBVIOUS
  <2>1. ~(ReadingEnd(in, i) # 0)
    <3> SUFFICES ASSUME ReadingEnd(in, i) # 0 PROVE FALSE
      OBVIOUS
    <3>1. ReadingEnd(in, i) \in i..Len(in)
      BY ReadingEndIn
    <3> QED  BY <3>1
  <2> QED  BY <1>1, <2>1, ReadingStepEnds
<1>3. ASSUME NEW k \in 0..(Len(in) - 1), k \in T  PROVE k + 1 \in T
  <2>1. k + 1 \in 0..Len(in)
    OBVIOUS
  <2> SUFFICES ASSUME NEW i \in 1..Len(in) + 1, i >= Len(in) + 1 - (k + 1)
               PROVE  EndsIn(f[i], Len(in))
    BY <2>1
  <2>2. \A j \in 1..Len(in) + 1 : j >= Len(in) + 1 - k => EndsIn(f[j], Len(in))
    BY <1>3
  <2> HIDE DEF T
  <2>3. ASSUME ReadingEnd(in, i) # 0  PROVE EndsIn(f[ReadingEnd(in, i) + 1], Len(in))
    <3>1. ReadingEnd(in, i) \in i..Len(in)
      BY <2>3, ReadingEndIn
    <3>2. ReadingEnd(in, i) + 1 \in 1..Len(in) + 1 /\ ReadingEnd(in, i) + 1 >= Len(in) + 1 - k
      BY <3>1
    <3> QED  BY <2>2, <3>2
  <2> QED  BY <1>1, <2>3, ReadingStepEnds
<1>4. Len(in) \in T
  <2> HIDE DEF T
  <2>1. 0..Len(in) \subseteq T
    BY <1>2, <1>3, UpTo
  <2> QED  BY <2>1
<1>5. at >= Len(in) + 1 - Len(in)
  OBVIOUS
<1>6. EndsIn(f[at], Len(in))
  BY <1>4, <1>5
<1>7. r = f[at]
  BY ReadingsIs DEF f
<1> QED  BY <1>6, <1>7 DEF EndsIn

-----------------------------------------------------------------------------
(* A turn of the loop, and as many as there are characters.                *)

\* A cohort in the input, all of it or not yet
LEMMA ReadCohortReads ==
    ASSUME NEW t, Between(t), NEW mark, NEW u, u = ReadCohort(t, mark)
    PROVE  Between(u)
<1> DEFINE in == t.reader.rest
           form == Scan(in, 2, {"/", "<"})
           static == Scan(in, form.at + 1, {"/", "$"})
           first == IF in[form.at] = "<" THEN static.at ELSE form.at
           rs == ReadingsFrom(in, first + 1)
           all == FlattenSeq([i \in DOMAIN rs.texts |->
                      IF mark THEN ProcessReading(rs.texts[i], TRUE) ELSE MatxinReading(rs.texts[i])])
           tags == IF in[form.at] = "<" THEN StaticTags(static.text) ELSE <<>>
           cohort == NewCohort(form.text, tags,
                               SelectSeq(all, LAMBDA r : ~r.deleted), ClassOf(form.text))
           placed == PlaceCohort(t)
           new == AllocCohort(placed, cohort)
           v == [new EXCEPT !.reader.incohort = FALSE]
<1>1. u = Wait(t) \/ u = Took(v, rs.at)
  BY Zenon DEF ReadCohort
<1>2. rs.at \in Nat
  <2>1. Len(in) \in Nat
    BY AppendSeq DEF Between, ReaderOK
  <2> HIDE DEF in
  <2>2. form.at \in 0..Len(in)
    <3>1. 2 \in 1..Len(in) + 2
      BY <2>1
    <3>2. StopsIn(form, 2, Len(in))
      BY <2>1, <3>1, ScanStops
    <3> HIDE DEF form
    <3> QED  BY <2>1, <3>2 DEF StopsIn
  <2> HIDE DEF form
  <2>3. static.at \in 0..Len(in)
    <3>1. form.at + 1 \in 1..Len(in) + 2
      BY <2>1, <2>2
    <3>2. StopsIn(static, form.at + 1, Len(in))
      BY <2>1, <3>1, ScanStops
    <3> HIDE DEF static
    <3> QED  BY <2>1, <2>2, <3>2 DEF StopsIn
  <2> HIDE DEF static
  <2>4. first \in 0..Len(in)
    BY <2>2, <2>3
  <2> HIDE DEF first
  <2>5. first + 1 \in 1..Len(in) + 1
    BY <2>1, <2>4
  <2>6. rs.at \in 0..Len(in)
    BY <2>1, <2>5, ReadingsEnd
  <2> QED  BY <2>6
<1>3. DOMAIN cohort = CohortFields /\ ~ cohort.endtag
  <2> DEFINE readings == SelectSeq(all, LAMBDA r : ~r.deleted)
  <2>1. cohort = NewCohort(form.text, tags, readings, ClassOf(form.text))
    BY Zenon
  <2> HIDE DEF form, tags, readings, cohort
  <2> QED  BY <2>1, NewCohortFacts
<1> HIDE DEF cohort, rs
<1>4. Placed(placed) /\ placed.cSWindow # 0 /\ ReaderOK(placed)
  BY PlaceCohortPlaces
<1> HIDE DEF placed
<1>5. Good(new) /\ new.cCohort # 0 /\ ReaderOK(new)
  BY <1>3, <1>4, AllocGood DEF ReaderOK
<1> HIDE DEF new
<1>6. Between(v)
  <2> DEFINE x == [new.reader EXCEPT !.incohort = FALSE]
  <2>1. v = [new EXCEPT !.reader = x]
    OBVIOUS
  <2>2. DOMAIN x = ReaderFields /\ x.rest = new.reader.rest
    BY <1>5 DEF ReaderOK, ReaderFields
  <2> HIDE DEF x, v
  <2> QED  BY <1>5, <2>1, <2>2, ReaderReads DEF ReaderOK, Reading
<1> HIDE DEF v
<1> QED  BY <1>1, <1>2, <1>6, WaitReads, TookReads

\* One turn
LEMMA LoopTurnReads ==
    ASSUME NEW t, Between(t), NEW mark, NEW u, u = LoopTurn(t, mark)
    PROVE  Between(u)
<1> DEFINE c == Head(t.reader.rest)
           superblank == (t.reader.superblank \/ c = "[") /\ c # "]"
           escaped == c = "\\" /\ ~t.reader.incohort /\ ~superblank
           in == t.reader.incohort \/ (c = "^" /\ ~escaped)
           x == [t.reader EXCEPT !.superblank = superblank, !.incohort = in]
           v == [t EXCEPT !.reader = x]
           w == [t EXCEPT !.reader.superblank = superblank, !.reader.incohort = in]
<1>1. u = ReadEscaped(w) \/ u = ReadText(w) \/ u = ReadCohort(w, mark)
  <2> DEFINE text == ~escaped /\ (superblank \/ c = "]" \/ ~(t.reader.incohort \/ c = "^"))
  <2>1. u = CASE escaped -> ReadEscaped(w) [] text -> ReadText(w) [] OTHER -> ReadCohort(w, mark)
    BY Zenon DEF LoopTurn
  <2> HIDE DEF escaped, text, w
  <2> QED  BY <2>1
<1> HIDE DEF superblank, in
<1>2. w = v
  OBVIOUS
<1>3. DOMAIN x = ReaderFields /\ x.rest = t.reader.rest
  BY DEF Between, ReaderOK, ReaderFields
<1> HIDE DEF x, w
<1>4. Between(v)
  BY <1>3, ReaderReads DEF Between, ReaderOK
<1> HIDE DEF v
<1> QED  BY <1>1, <1>2, <1>4, ReadEscapedReads, ReadTextReads, ReadCohortReads


\* A turn if there is something to read
TurnStep(t, mark) == IF t.reader.rest = <<>> \/ t.reader.waiting THEN t ELSE LoopTurn(t, mark)

\* As many of them
Turns(e, N, mark) == CHOOSE f : f = [n \in 0..N |-> IF n = 0 THEN e ELSE TurnStep(f[n - 1], mark)]

\* They keep the invariant.
LEMMA TurnsRead ==
    ASSUME NEW e, Between(e), NEW mark, NEW N \in Nat, NEW run, run = Turns(e, N, mark)
    PROVE  Between(run[N])
<1> DEFINE Ok(f, m) == f = [n \in 0..m |-> IF n = 0 THEN e ELSE TurnStep(f[n - 1], mark)]
           T == {m \in 0..N : \E f : Ok(f, m)}
<1>1. N \in T
  <2>1. 0 \in T
    <3> DEFINE f == [n \in 0..0 |-> e]
    <3>1. Ok(f, 0)
      OBVIOUS
    <3>2. 0 \in 0..N
      OBVIOUS
    <3> HIDE DEF Ok, f
    <3> QED  BY <3>1, <3>2
  <2>2. ASSUME NEW m \in 0..N - 1, m \in T  PROVE m + 1 \in T
    <3>1. PICK f : Ok(f, m)
      BY <2>2
    <3> DEFINE h == [n \in 0..m + 1 |-> IF n = m + 1 THEN TurnStep(f[m], mark) ELSE f[n]]
    <3>2. \A n \in 0..m : f[n] = IF n = 0 THEN e ELSE TurnStep(f[n - 1], mark)
      BY <3>1
    <3>3. \A n \in 0..m + 1 : h[n] = IF n = 0 THEN e ELSE TurnStep(h[n - 1], mark)
      <4> TAKE n \in 0..m + 1
      <4>1. CASE n = m + 1
        <5>1. n # 0 /\ n - 1 \in 0..m /\ n - 1 # m + 1 /\ n - 1 = m
          BY <2>2, <4>1
        <5> QED  BY <4>1, <5>1
      <4>2. CASE n # m + 1
        <5>1. n \in 0..m /\ (n # 0 => n - 1 \in 0..m /\ n - 1 # m + 1)
          BY <2>2, <4>2
        <5> QED  BY <3>2, <4>2, <5>1
      <4> QED  BY <4>1, <4>2
    <3>4. Ok(h, m + 1)
      <4> DEFINE k == [n \in 0..m + 1 |-> IF n = 0 THEN e ELSE TurnStep(h[n - 1], mark)]
      <4>1. DOMAIN h = 0..m + 1 /\ h = [n \in 0..m + 1 |-> h[n]]
        OBVIOUS
      <4>2. \A n \in 0..m + 1 : h[n] = k[n]
        <5> HIDE DEF h
        <5> QED  BY <3>3
      <4> HIDE DEF h
      <4>3. h = k
        BY <4>1, <4>2
      <4> QED  BY <4>3
    <3>5. m + 1 \in 0..N
      BY <2>2
    <3> HIDE DEF Ok
    <3> QED  BY <3>4, <3>5
  <2> HIDE DEF T
  <2>3. 0..N \subseteq T
    BY <2>1, <2>2, UpTo
  <2> QED  BY <2>3
<1>2. Ok(run, N)
  BY <1>1 DEF Turns
<1>3. \A n \in 0..N : run[n] = IF n = 0 THEN e ELSE TurnStep(run[n - 1], mark)
  BY <1>2
<1> HIDE DEF Ok, T
<1> DEFINE V == {n \in 0..N : Between(run[n])}
<1>4. 0 \in V
  BY <1>3
<1>5. ASSUME NEW n \in 0..N - 1, n \in V  PROVE n + 1 \in V
  <2>1. n + 1 \in 0..N /\ n + 1 # 0 /\ (n + 1) - 1 = n
    BY <1>5
  <2>2. run[n + 1] = TurnStep(run[n], mark)
    BY <1>3, <2>1
  <2>3. Between(run[n])
    BY <1>5
  <2>4. run[n + 1] = run[n] \/ run[n + 1] = LoopTurn(run[n], mark)
    BY <2>2 DEF TurnStep
  <2>5. Between(run[n + 1])
    BY <2>3, <2>4, LoopTurnReads
  <2> QED  BY <2>1, <2>5
<1> HIDE DEF V
<1>6. 0..N \subseteq V
  BY <1>4, <1>5, UpTo
<1>7. N \in V
  BY <1>6
<1> QED  BY <1>7 DEF V

\* Two texts after another are a text.
LEMMA SeqAndSeq ==
    ASSUME NEW p, IsSeq(p), NEW q, IsSeq(q)
    PROVE  IsSeq(p \o q) /\ Len(p \o q) \in Nat
<1>1. PICK S : p \in Seq(S)
  BY DEF IsSeq
<1>2. PICK T : q \in Seq(T)
  BY DEF IsSeq
<1>3. p \in Seq(S \cup T) /\ q \in Seq(S \cup T)
  BY <1>1, <1>2
<1>4. p \o q \in Seq(S \cup T)
  BY <1>3
<1> QED  BY <1>4 DEF IsSeq

\* The next characters of the input.
LEMMA ApertiumReads ==
    ASSUME NEW t, Between(t), NEW text, IsSeq(text), NEW mark, NEW u, u = ReadApertium(t, text, mark)
    PROVE  Between(u)
<1> DEFINE rest == t.reader.rest \o text
           e == [t EXCEPT !.reader.rest = rest, !.reader.waiting = FALSE]
           x == [t.reader EXCEPT !.rest = rest, !.waiting = FALSE]
           run == Turns(e, Len(rest), mark)
<1>1. u = run[Len(rest)]
  BY Zenon DEF ReadApertium, Turns, TurnStep
<1>2. IsSeq(rest) /\ Len(rest) \in Nat
  BY SeqAndSeq DEF Between, ReaderOK
<1> HIDE DEF rest
<1>3. e = [t EXCEPT !.reader = x]
  OBVIOUS
<1>4. DOMAIN x = ReaderFields /\ x.rest = rest
  BY DEF Between, ReaderOK, ReaderFields
<1> HIDE DEF e, x
<1>5. Between(e)
  BY <1>2, <1>3, <1>4, ReaderReads DEF Between
<1> QED  BY <1>1, <1>2, <1>5, TurnsRead

\* Text that waited for a window is written.
BlankSaid(t) == IF t.reader.firstblank = <<>> THEN t ELSE Say(t, t.reader.firstblank)

\* The last cohort may get its empty reading then.
LEMMA LastReadingReads ==
    ASSUME NEW t, Between(t), NEW u, u = WithReading(BlankSaid(t))
    PROVE  Between(u)
<1> DEFINE b == BlankSaid(t)
<1>1. b = t \/ b = Say(t, t.reader.firstblank)
  BY DEF BlankSaid
<1> HIDE DEF b
<1>2. Between(b)
  BY <1>1, SayReads
<1> QED  BY <1>2, WithReadingReads DEF b

\* The end of the input, or of a part.
LEMMA ApertiumEnds ==
    ASSUME NEW t, Between(t), NEW u, u = EndApertium(t)
    PROVE  Between(u)
<1> DEFINE w == WithReading(BlankSaid(t))
           d == Drain(w)
<1>1. u = [d EXCEPT !.reader = ApertiumStart.reader]
  BY Zenon DEF EndApertium, BlankSaid
<1>2. Between(w)
  BY LastReadingReads
<1> HIDE DEF w
<1>3. Reading(d)
  BY <1>2, DrainReads DEF Between
<1> HIDE DEF d
<1>4. DOMAIN ApertiumStart.reader = ReaderFields /\ IsSeq(ApertiumStart.reader.rest)
  <2>1. ApertiumStart.reader = [rest |-> <<>>, superblank |-> FALSE, incohort |-> FALSE,
                                firstblank |-> <<>>, waiting |-> FALSE]
    BY DEF ApertiumStart, NoStream
  <2>2. <<>> \in Seq({})
    OBVIOUS
  <2> QED  BY <2>1, <2>2 DEF ReaderFields, IsSeq
<1> QED  BY <1>1, <1>3, <1>4, ReaderReads

\* A part ends with its NUL.
LEMMA PartEnds ==
    ASSUME NEW t, Between(t), NEW u, u = EndPart(t)
    PROVE  Between(u)
<1> DEFINE e == EndApertium(t)
<1>1. u = Say(e, <<"NUL">>)
  BY DEF EndPart
<1>2. Between(e)
  BY ApertiumEnds
<1> HIDE DEF e
<1> QED  BY <1>1, <1>2, SayReads

\* The end of Matxin input.
LEMMA MatxinEnds ==
    ASSUME NEW t, Between(t), NEW u, u = EndMatxin(t)
    PROVE  Between(u)
<1> DEFINE w == WithReading(BlankSaid(t))
           o == Say(w, "<corpus>")
           d == Drain(o)
<1>1. u = Say(d, "</corpus>")
  BY Zenon DEF EndMatxin, BlankSaid
<1>2. Between(w)
  BY LastReadingReads
<1> HIDE DEF w
<1>3. Between(o)
  BY <1>2, SayReads
<1> HIDE DEF o
<1>4. Between(d)
  BY <1>3, DrainReads DEF Between, ReaderOK
<1> HIDE DEF d
<1> QED  BY <1>1, <1>4, SayReads

\* A stream of which nothing was read.
LEMMA StartReads ==
    /\ Between(ApertiumStart) /\ Reading(NoStream) /\ FstReading(NoStream)
<1>1. /\ DOMAIN NoStream = Fields /\ NoStream.cohorts = <<>> /\ NoStream.windows = <<>>
      /\ NoStream.cSWindow = 0 /\ NoStream.cCohort = 0 /\ NoStream.lSWindow = 0
      /\ NoStream.lCohort = 0 /\ NoStream.previous = <<>> /\ NoStream.current = 0
      /\ NoStream.next = <<>>
  BY DEF NoStream, Fields
<1>2. Typed(NoStream)
  <2>1. <<>> \in Seq({}) /\ <<>> \in Seq(Nat) /\ Len(<<>>) = 0
    OBVIOUS
  <2>2. CohortsOK(NoStream) /\ WindowsOK(NoStream)
    BY <1>1, <2>1 DEF CohortsOK, WindowsOK, IsSeq
  <2> QED  BY <1>1, <2>1, <2>2 DEF Typed, QueuesOK, PointersOK
<1>3. Good(NoStream)
  BY <1>1, <1>2 DEF Good, Placed, Once, Fitting, Marks, Pending
<1>4. Reading(NoStream) /\ FstReading(NoStream)
  BY <1>1, <1>3 DEF Reading, FstReading
<1> DEFINE x == [rest |-> <<>>, superblank |-> FALSE, incohort |-> FALSE,
                 firstblank |-> <<>>, waiting |-> FALSE]
<1>5. ApertiumStart = [NoStream EXCEPT !.reader = x]
  BY Zenon DEF ApertiumStart
<1>6. DOMAIN x = ReaderFields /\ IsSeq(x.rest)
  <2>1. <<>> \in Seq({})
    OBVIOUS
  <2> QED  BY <2>1 DEF ReaderFields, IsSeq
<1> HIDE DEF x
<1>7. Between(ApertiumStart)
  BY <1>4, <1>5, <1>6, ReaderReads
<1> QED  BY <1>4, <1>7

-----------------------------------------------------------------------------
(* The streams.                                                            *)

\* What a piece does to the stream, format by format.
LEMMA PieceSteps ==
    ASSUME format \in Formats, ReadPiece
    PROVE  /\ ~ done /\ format' = format /\ done' = done
           /\ format = "apertium" =>
                \/ s' = EndPart(s)
                \/ \E x : IsSeq(x) /\ s' = ReadApertium(s, x, TRUE)
           /\ format = "matxin" => \E x : IsSeq(x) /\ s' = ReadApertium(s, x, FALSE)
           /\ format = "niceline" => \E p : s' = Lines!NicelineLine(s, p)
           /\ format = "fst" => \E p : s' = Lines!FstLine(s, p)
<1>1. ~ done /\ format' = format /\ done' = done
  BY DEF ReadPiece
<1>2. CASE format = "apertium"
  <2>1. PICK p \in Pieces[format] : s' = IF p.kind = "nul" THEN EndPart(s)
                                         ELSE ReadApertium(s, PieceText(p), TRUE)
    BY <1>2 DEF ReadPiece
  <2>2. p.kind # "nul" => PieceText(p) \in Seq(STRING)
    BY <1>2, <2>1, PiecesAssumption
  <2> QED  BY <1>1, <1>2, <2>1, <2>2 DEF IsSeq
<1>3. CASE format = "matxin"
  <2>1. PICK p \in Pieces[format] : s' = ReadMatxin(s, PieceText(p))
    BY <1>3 DEF ReadPiece
  <2>2. PieceText(p) \in Seq(STRING)
    BY <1>3, <2>1, PiecesAssumption
  <2> QED  BY <1>1, <1>3, <2>1, <2>2 DEF IsSeq, ReadMatxin
<1>4. CASE format = "niceline"
  <2>1. PICK p : s' = Lines!NicelineLine(s, p)
    BY <1>4 DEF ReadPiece
  <2> QED  BY <1>1, <1>4, <2>1
<1>5. CASE format = "fst"
  <2>1. PICK p : s' = Lines!FstLine(s, p)
    BY <1>5 DEF ReadPiece
  <2> QED  BY <1>1, <1>5, <2>1
<1> QED  BY <1>1, <1>2, <1>3, <1>4, <1>5

\* What the end of the input does.
LEMMA EndSteps ==
    ASSUME EndOfInput
    PROVE  /\ format' = format /\ done'
           /\ format = "apertium" => s' = EndPart(s) \/ s' = EndApertium(s)
           /\ format = "matxin" => s' = EndMatxin(s)
           /\ format = "niceline" => s' = s \/ s' = Drain(s)
           /\ format = "fst" => s' = s \/ s' = Drain(s)
<1>1. format' = format /\ done'
  BY DEF EndOfInput
<1>2. CASE format = "apertium"
  <2>1. format \notin LineFormats \ {"fstconv"}
    BY <1>2 DEF LineFormats
  <2> QED  BY <1>1, <1>2, <2>1 DEF EndOfInput
<1>3. CASE format = "matxin"
  <2>1. format \notin LineFormats \ {"fstconv"}
    BY <1>3 DEF LineFormats
  <2> QED  BY <1>1, <1>3, <2>1 DEF EndOfInput
<1>4. CASE format \in {"niceline", "fst"}
  <2>1. format \in LineFormats \ {"fstconv"}
    BY <1>4 DEF LineFormats
  <2> QED  BY <1>1, <1>4, <2>1 DEF EndOfInput
<1> QED  BY <1>1, <1>2, <1>3, <1>4

\* The invariant of the readers.
StreamsInv ==
    /\ format \in Formats
    /\ format \in {"apertium", "matxin"} => Between(s)
    /\ format = "niceline" => Reading(s)
    /\ format = "fst" => FstEnded(s) /\ (~ done => FstReading(s))

\* It holds at the start and in every state after.
LEMMA StreamsInductive == Spec => []StreamsInv
<1>1. Init => StreamsInv
  <2> SUFFICES ASSUME Init PROVE StreamsInv
    OBVIOUS
  <2>1. format \in Formats /\ s = Start(format)
    BY DEF Init
  <2>2. CASE format \in {"apertium", "matxin"}
    <3>1. s = ApertiumStart
      BY <2>1, <2>2 DEF Start
    <3> QED  BY <2>1, <2>2, <3>1, StartReads DEF StreamsInv
  <2>3. CASE format \in {"niceline", "fst"}
    <3>1. s = NoStream
      BY <2>1, <2>3 DEF Start
    <3> QED  BY <2>1, <2>3, <3>1, StartReads, FstReadingEnded DEF StreamsInv
  <2> QED  BY <2>1, <2>2, <2>3 DEF StreamsInv
<1>2. StreamsInv /\ [Next]_vars => StreamsInv'
  <2> SUFFICES ASSUME StreamsInv, [Next]_vars PROVE StreamsInv'
    OBVIOUS
  <2>1. CASE ReadPiece
    <3>1. format \in Formats
      BY DEF StreamsInv
    <3>2. /\ ~ done /\ format' = format /\ done' = done
          /\ format = "apertium" =>
               \/ s' = EndPart(s)
               \/ \E x : IsSeq(x) /\ s' = ReadApertium(s, x, TRUE)
          /\ format = "matxin" => \E x : IsSeq(x) /\ s' = ReadApertium(s, x, FALSE)
          /\ format = "niceline" => \E p : s' = Lines!NicelineLine(s, p)
          /\ format = "fst" => \E p : s' = Lines!FstLine(s, p)
      BY <2>1, <3>1, PieceSteps
    <3>3. format \in {"apertium", "matxin"} => Between(s')
      BY <3>2, PartEnds, ApertiumReads DEF StreamsInv
    <3>4. format = "niceline" => Reading(s')
      BY <3>2, NicelineReads DEF StreamsInv
    <3>5. format = "fst" => FstReading(s')
      BY <3>2, FstReads DEF StreamsInv
    <3> QED  BY <3>1, <3>2, <3>3, <3>4, <3>5, FstReadingEnded DEF StreamsInv
  <2>2. CASE EndOfInput
    <3>1. /\ format' = format /\ done'
          /\ format = "apertium" => s' = EndPart(s) \/ s' = EndApertium(s)
          /\ format = "matxin" => s' = EndMatxin(s)
          /\ format = "niceline" => s' = s \/ s' = Drain(s)
          /\ format = "fst" => s' = s \/ s' = Drain(s)
      BY <2>2, EndSteps
    <3>2. ~ done
      BY <2>2 DEF EndOfInput
    <3>3. format \in {"apertium", "matxin"} => Between(s')
      BY <3>1, PartEnds, ApertiumEnds, MatxinEnds DEF StreamsInv
    <3>4. format = "niceline" => Reading(s')
      BY <3>1, DrainReads DEF StreamsInv
    <3>5. format = "fst" => FstEnded(s')
      BY <3>1, <3>2, FstDrainEnds DEF StreamsInv
    <3> QED  BY <3>1, <3>3, <3>4, <3>5 DEF StreamsInv
  <2>3. CASE UNCHANGED vars
    BY <2>3 DEF StreamsInv, vars
  <2> QED  BY <2>1, <2>2, <2>3 DEF Next
<1> QED  BY <1>1, <1>2, PTL DEF Spec

\* What it says of the windows: sizes, and end tags on all windows but the last
\* of FST output.
LEMMA WindowsHold ==
    ASSUME StreamsInv, format \in {"apertium", "matxin", "niceline", "fst"}
    PROVE  /\ Typed(s) /\ Marks(s, IF format = "fst" THEN Len(s.windows) - 1 ELSE Len(s.windows))
           /\ \A w \in 1..Len(s.windows) : SizeOf(s, w) <= HardLimit + 1
<1>1. CASE format = "fst"
  BY <1>1 DEF StreamsInv, FstEnded
<1>2. CASE format # "fst"
  <2>1. Reading(s)
    BY <1>2 DEF StreamsInv, Between
  <2> QED  BY <1>2, <2>1 DEF Reading, Good, Placed, Fitting
<1> QED  BY <1>1, <1>2

\* No window has more cohorts than the hard limit and its zero cohort, whatever
\* was read, looked back into and cut (runGrammarOnText of the formats).
THEOREM WindowsStayWithinLimit == Spec => []WindowsWithinLimit
<1>1. StreamsInv => WindowsWithinLimit
  <2> SUFFICES ASSUME StreamsInv, format \in {"apertium", "matxin", "niceline", "fst"},
                      NEW w \in DOMAIN s.windows
               PROVE  SizeOf(s, w) <= HardLimit + 1
    BY DEF WindowsWithinLimit
  <2>1. Typed(s) /\ \A v \in 1..Len(s.windows) : SizeOf(s, v) <= HardLimit + 1
    BY WindowsHold
  <2>2. w \in 1..Len(s.windows)
    BY <2>1, PlaceFacts
  <2> QED  BY <2>1, <2>2
<1> QED  BY <1>1, StreamsInductive, PTL

\* A complete window has the end tag on its last cohort and on no other, but for
\* the last window of FST output (addTagToReading with tag_end, delimitAt).
THEOREM EndTagsCloseWindows == Spec => []EndTagClosesWindows
<1>1. StreamsInv => EndTagClosesWindows
  <2> SUFFICES ASSUME StreamsInv, format \in {"apertium", "matxin", "niceline", "fst"},
                      NEW w \in DOMAIN s.windows \ (IF format = "fst" THEN {Len(s.windows)} ELSE {}),
                      NEW i \in DOMAIN s.windows[w].cohorts
               PROVE  s.cohorts[s.windows[w].cohorts[i]].endtag <=>
                          ((w # s.cSWindow /\ Len(s.windows[w].cohorts) > 1)
                           /\ i = Len(s.windows[w].cohorts))
    BY DEF EndTagClosesWindows
  <2> DEFINE n == IF format = "fst" THEN Len(s.windows) - 1 ELSE Len(s.windows)
  <2>1. Typed(s) /\ Marks(s, n)
    BY WindowsHold
  <2>2. Len(s.windows) \in Nat /\ DOMAIN s.windows = 1..Len(s.windows)
    BY <2>1, PlaceFacts
  <2>3. w \in 1..Len(s.windows) /\ w \in 1..n
    BY <2>2
  <2>4. i \in 1..SizeOf(s, w) /\ Len(s.windows[w].cohorts) = SizeOf(s, w)
    BY <2>1, <2>3, PlaceFacts DEF SizeOf
  <2> HIDE DEF n
  <2> QED  BY <2>1, <2>3, <2>4 DEF Marks
<1> QED  BY <1>1, StreamsInductive, PTL

-----------------------------------------------------------------------------
(* Multiwords: the numbers of a set in their order.                        *)

\* S is made of numbers up to n.
Numbers(S, n) == n \in Nat /\ S \subseteq 1..n

\* How many numbers of S are not above i
Rank(S, i) == Cardinality({j \in S : j <= i})

\* It counts the members.
LEMMA RankFacts ==
    ASSUME NEW n, NEW S, Numbers(S, n)
    PROVE  /\ IsFiniteSet(S) /\ Cardinality(S) \in Nat
           /\ \A i \in 0..n : Rank(S, i) \in 0..Cardinality(S)
           /\ Rank(S, 0) = 0 /\ Rank(S, n) = Cardinality(S)
<1>0. n \in Nat /\ \A x \in S : x \in Nat /\ x >= 1 /\ x <= n
  BY DEF Numbers
<1>1. IsFiniteSet(S)
  <2>1. IsFiniteSet(1..n)
    BY <1>0, FS_Interval
  <2> QED  BY <2>1, FS_Subset DEF Numbers
<1>2. Cardinality(S) \in Nat
  BY <1>1, FS_CardinalityType
<1>3. ASSUME NEW i \in 0..n  PROVE Rank(S, i) \in 0..Cardinality(S)
  <2> DEFINE U == {j \in S : j <= i}
  <2>1. U \in SUBSET S
    OBVIOUS
  <2> HIDE DEF U
  <2>2. IsFiniteSet(U) /\ Cardinality(U) <= Cardinality(S)
    BY <1>1, <2>1, FS_Subset
  <2>3. Cardinality(U) \in Nat
    BY <2>2, FS_CardinalityType
  <2> QED  BY <1>2, <2>2, <2>3 DEF Rank, U
<1>4. {j \in S : j <= 0} = {}
  <2>1. \A x \in S : ~(x <= 0)
    BY <1>0
  <2> QED  BY <2>1, Zenon
<1>5. {j \in S : j <= n} = S
  BY <1>0
<1> QED  BY <1>1, <1>2, <1>3, <1>4, <1>5, FS_EmptySet DEF Rank

\* It does not fall, and rises at every member.
LEMMA RankRises ==
    ASSUME NEW n, NEW S, Numbers(S, n), NEW i \in 0..n, NEW j \in 0..n, i <= j
    PROVE  /\ Rank(S, i) <= Rank(S, j)
           /\ i < j /\ j \in S => Rank(S, i) < Rank(S, j)
<1> DEFINE U == {x \in S : x <= i}
           V == {x \in S : x <= j}
<1>0. n \in Nat /\ \A x \in S : x \in Nat /\ x >= 1 /\ x <= n
  BY DEF Numbers
<1>1. IsFiniteSet(S) /\ Rank(S, i) \in Nat /\ Rank(S, j) \in Nat
  BY RankFacts
<1>2. U \subseteq V /\ V \subseteq S
  <2>1. \A x \in S : x <= i => x <= j
    BY <1>0
  <2> QED  BY <2>1, Zenon
<1>3. i < j /\ j \in S => j \in V /\ j \notin U
  <2>1. j <= j /\ (i < j => ~(j <= i))
    OBVIOUS
  <2> QED  BY <2>1, Zenon
<1>4. Rank(S, i) = Cardinality(U) /\ Rank(S, j) = Cardinality(V)
  BY DEF Rank
<1> HIDE DEF U, V
<1>5. IsFiniteSet(V)
  BY <1>1, <1>2, FS_Subset
<1>6. Cardinality(U) <= Cardinality(V) /\ (Cardinality(V) = Cardinality(U) => U = V)
  BY <1>2, <1>5, FS_Subset
<1> QED  BY <1>1, <1>3, <1>4, <1>6

\* At a member it rises by one.
LEMMA RankNext ==
    ASSUME NEW n, NEW S, Numbers(S, n), NEW i \in 0..(n - 1)
    PROVE  Rank(S, i + 1) = IF i + 1 \in S THEN Rank(S, i) + 1 ELSE Rank(S, i)
<1> DEFINE U == {x \in S : x <= i}
           V == {x \in S : x <= i + 1}
<1>0. n \in Nat /\ \A x \in S : x \in Nat /\ x >= 1 /\ x <= n
  BY DEF Numbers
<1>1. IsFiniteSet(U)
  <2>1. U \in SUBSET S
    OBVIOUS
  <2> HIDE DEF U
  <2> QED  BY <2>1, RankFacts, FS_Subset
<1>2. CASE i + 1 \in S
  <2>0. \A x \in S : x <= i + 1 <=> x <= i \/ x = i + 1
    BY <1>0
  <2>1. V = U \cup {i + 1} /\ i + 1 \notin U
    BY <1>2, <2>0
  <2> HIDE DEF U, V
  <2>2. Cardinality(V) = Cardinality(U) + 1
    BY <1>1, <2>1, FS_AddElement
  <2> QED  BY <1>2, <2>2 DEF Rank, U, V
<1>3. CASE i + 1 \notin S
  <2>1. V = U
    <3>1. \A x \in S : x <= i + 1 <=> x <= i
      BY <1>0, <1>3
    <3> QED  BY <3>1
  <2> QED  BY <1>3, <2>1 DEF Rank
<1> QED  BY <1>2, <1>3

\* Every number up to the size is the rank of one member.
LEMMA NthExists ==
    ASSUME NEW n, NEW S, Numbers(S, n), NEW k \in 1..Cardinality(S)
    PROVE  Nth(S, k) \in S /\ Rank(S, Nth(S, k)) = k
<1> DEFINE T == {m \in 0..n : \A r \in 1..Rank(S, m) : \E i \in S : Rank(S, i) = r}
<1>0. n \in Nat
  BY DEF Numbers
<1>1. 0 \in T
  BY <1>0, RankFacts
<1>2. ASSUME NEW m \in 0..(n - 1), m \in T  PROVE m + 1 \in T
  <2>1. m \in 0..n /\ m + 1 \in 0..n
    BY <1>0
  <2> SUFFICES ASSUME NEW r \in 1..Rank(S, m + 1)  PROVE \E i \in S : Rank(S, i) = r
    BY <2>1
  <2>2. Rank(S, m) \in Nat /\ Rank(S, m + 1) = IF m + 1 \in S THEN Rank(S, m) + 1 ELSE Rank(S, m)
    BY <2>1, RankNext, RankFacts
  <2>3. CASE r \in 1..Rank(S, m)
    BY <1>2, <2>3
  <2>4. CASE r \notin 1..Rank(S, m)
    <3>1. m + 1 \in S /\ Rank(S, m + 1) = r
      BY <2>2, <2>4
    <3> QED  BY <3>1
  <2> QED  BY <2>3, <2>4
<1>3. n \in T
  <2> HIDE DEF T
  <2>1. 0..n \subseteq T
    BY <1>0, <1>1, <1>2, UpTo
  <2> QED  BY <1>0, <2>1
<1>4. Rank(S, n) = Cardinality(S)
  BY RankFacts
<1>5. \E i \in S : Rank(S, i) = k
  BY <1>3, <1>4
<1> QED  BY <1>5 DEF Nth, Rank

\* A member is found by its rank.
LEMMA NthIs ==
    ASSUME NEW n, NEW S, Numbers(S, n), NEW i \in S
    PROVE  Rank(S, i) \in 1..Cardinality(S) /\ Nth(S, Rank(S, i)) = i
<1>1. n \in Nat /\ i \in 1..n
  BY DEF Numbers
<1>2. Rank(S, i) \in 0..Cardinality(S) /\ Rank(S, 0) = 0 /\ Cardinality(S) \in Nat
  BY <1>1, RankFacts
<1>3. Rank(S, 0) < Rank(S, i)
  BY <1>1, RankRises
<1>4. Rank(S, i) \in 1..Cardinality(S)
  BY <1>2, <1>3
<1> DEFINE j == Nth(S, Rank(S, i))
<1>5. j \in S /\ Rank(S, j) = Rank(S, i)
  BY <1>4, NthExists
<1> HIDE DEF j
<1>6. j \in 1..n
  BY <1>5 DEF Numbers
<1>7. ~ (i < j)
  BY <1>1, <1>2, <1>5, <1>6, RankRises
<1>8. ~ (j < i)
  BY <1>1, <1>2, <1>5, <1>6, RankRises
<1> QED  BY <1>1, <1>4, <1>6, <1>7, <1>8 DEF j

-----------------------------------------------------------------------------
(* Multiwords: where the words of a reading are.                           *)

PartFields == {"lemma", "wf", "blank"}

\* The parts of a reading
IsChain(r) ==
    IsSeq(r) /\ Len(r) >= 1 /\ \A k \in 1..Len(r) : DOMAIN r[k] = PartFields

\* The marked parts are parts.
LEMMA MarkedNumbers ==
    ASSUME NEW r, IsChain(r)
    PROVE  /\ Numbers(Marked(r), Len(r)) /\ Len(r) \in Nat /\ DOMAIN r = 1..Len(r)
           /\ IsFiniteSet(Marked(r)) /\ Words(r) \in 0..Len(r)
<1>1. Len(r) \in Nat /\ DOMAIN r = 1..Len(r)
  BY AppendSeq DEF IsChain
<1>2. Marked(r) \subseteq DOMAIN r
  BY Zenon DEF Marked
<1>3. Numbers(Marked(r), Len(r))
  BY <1>1, <1>2 DEF Numbers
<1>4. IsFiniteSet(Marked(r))
  BY <1>3, RankFacts
<1>5. Words(r) \in 0..Len(r)
  <2>1. IsFiniteSet(1..Len(r)) /\ Cardinality(1..Len(r)) = Len(r)
    <3> DEFINE n == Len(r)
    <3>1. 1 \in Int /\ n \in Int /\ ~ (1 > n) /\ n - 1 + 1 = n
      BY <1>1 DEF IsChain
    <3> HIDE DEF n
    <3>2. IsFiniteSet(1..n) /\ Cardinality(1..n) = n
      BY <3>1, FS_Interval
    <3> QED  BY <3>2 DEF n
  <2>2. Cardinality(Marked(r)) \in Nat /\ Cardinality(Marked(r)) <= Len(r)
    <3>1. Marked(r) \in SUBSET (1..Len(r))
      BY <1>1, <1>2
    <3>2. Cardinality(Marked(r)) <= Cardinality(1..Len(r))
      BY <2>1, <3>1, FS_Subset
    <3> QED  BY <1>4, <2>1, <3>2, FS_CardinalityType
  <2> QED  BY <1>1, <2>2 DEF Words
<1> QED  BY <1>1, <1>3, <1>4, <1>5

\* The word of a part is the rank it has among the marked ones.
LEMMA WordIsRank ==
    ASSUME NEW r, IsChain(r), NEW k \in 0..Len(r)
    PROVE  WordOf(r, k) = Rank(Marked(r), k)
<1>1. Len(r) \in Nat /\ DOMAIN r = 1..Len(r)
  BY MarkedNumbers
<1>2. \A j \in 1..Len(r) : j \in 1..k <=> j <= k
  BY <1>1
<1>3. \A j \in 1..k : j \in 1..Len(r)
  BY <1>1
<1>4. {j \in 1..k : r[j].wf # ""} = {j \in Marked(r) : j <= k}
  BY <1>1, <1>2, <1>3, Zenon DEF Marked
<1> QED  BY <1>4, Zenon DEF WordOf, Rank

\* A word begins with a marked part and ends before the next one.
LEMMA WordStarts ==
    ASSUME NEW r, IsChain(r), NEW word \in 1..Words(r)
    PROVE  /\ StartOf(r, word) \in Marked(r) /\ StartOf(r, word) \in 1..Len(r)
           /\ StartOf(r, word + 1) \in (StartOf(r, word) + 1)..(Len(r) + 1)
           /\ \A k \in 1..Len(r) : WordOf(r, k) = word <=>
                 StartOf(r, word) <= k /\ k < StartOf(r, word + 1)
<1> DEFINE M == Marked(r)
           n == Len(r)
           a == StartOf(r, word)
           b == StartOf(r, word + 1)
<1>1. Numbers(M, n) /\ n \in Nat /\ Words(r) \in Nat /\ Words(r) = Cardinality(M)
  BY MarkedNumbers DEF Words
<1>2. \A k \in 0..n : WordOf(r, k) = Rank(M, k) /\ Rank(M, k) \in 0..Cardinality(M)
  BY <1>1, WordIsRank, RankFacts
<1>3. a \in M /\ Rank(M, a) = word
  <2>1. a = Nth(M, word) /\ word \in 1..Cardinality(M)
    BY <1>1 DEF StartOf
  <2> QED  BY <1>1, <2>1, NthExists
<1>4. \A x \in M : x \in 1..n
  BY <1>1 DEF Numbers
<1>5. CASE word + 1 <= Words(r)
  <2>1. b = Nth(M, word + 1) /\ word + 1 \in 1..Cardinality(M)
    BY <1>1, <1>5 DEF StartOf
  <2>2. b \in M /\ Rank(M, b) = word + 1
    BY <1>1, <2>1, NthExists
  <2> HIDE DEF M, a, b, n
  <2>3. a \in 1..n /\ b \in 1..n
    BY <1>3, <1>4, <2>2
  <2>4. a < b
    <3>1. ~ (b <= a)
      BY <1>1, <1>3, <2>2, <2>3, RankRises
    <3> QED  BY <2>3, <3>1
  <2>5. ASSUME NEW k \in 1..n  PROVE Rank(M, k) = word <=> a <= k /\ k < b
    <3>1. k \in 0..n /\ a \in 0..n /\ b \in 0..n /\ a \in Nat /\ b \in Nat /\ k \in Nat /\ Rank(M, k) \in Nat
      BY <1>1, <1>2, <2>3
    <3>2. k < a => Rank(M, k) < word
      BY <1>1, <1>3, <3>1, RankRises
    <3>3. a <= k => word <= Rank(M, k)
      BY <1>1, <1>3, <3>1, RankRises
    <3>4. k < b => Rank(M, k) < word + 1
      BY <1>1, <2>2, <3>1, RankRises
    <3>5. b <= k => word + 1 <= Rank(M, k)
      BY <1>1, <2>2, <3>1, RankRises
    <3> QED  BY <3>1, <3>2, <3>3, <3>4, <3>5
  <2>6. \A k \in 1..n : WordOf(r, k) = word <=> a <= k /\ k < b
    BY <1>1, <1>2, <2>5
  <2>7. b \in (a + 1)..(n + 1)
    BY <1>1, <2>3, <2>4
  <2> QED  BY <1>3, <2>3, <2>6, <2>7 DEF M, a, b, n
<1>6. CASE ~ (word + 1 <= Words(r))
  <2>1. b = n + 1 /\ word = Cardinality(M)
    BY <1>1, <1>6 DEF StartOf
  <2> HIDE DEF M, a, b, n
  <2>2. a \in 1..n
    BY <1>3, <1>4
  <2>3. ASSUME NEW k \in 1..n  PROVE Rank(M, k) = word <=> a <= k /\ k < b
    <3>1. k \in 0..n /\ a \in 0..n /\ a \in Nat /\ k \in Nat /\ Rank(M, k) \in 0..word
      BY <1>1, <1>2, <2>1, <2>2
    <3>2. k < a => Rank(M, k) < word
      BY <1>1, <1>3, <3>1, RankRises
    <3>3. a <= k => word <= Rank(M, k)
      BY <1>1, <1>3, <3>1, RankRises
    <3> QED  BY <1>1, <2>1, <3>1, <3>2, <3>3
  <2>4. \A k \in 1..n : WordOf(r, k) = word <=> a <= k /\ k < b
    BY <1>1, <1>2, <2>3
  <2>5. b \in (a + 1)..(n + 1)
    BY <1>1, <2>1, <2>2
  <2> QED  BY <1>3, <2>2, <2>4, <2>5 DEF M, a, b, n
<1> QED  BY <1>5, <1>6

\* A part without its wordform tag
Bare(part) == [part EXCEPT !.wf = "", !.blank = ""]

\* Its lemma stays.
LEMMA BareLemma ==
    ASSUME NEW part, DOMAIN part = PartFields
    PROVE  Bare(part).lemma = part.lemma
<1>1. ASSUME NEW e, NEW q, q = [part EXCEPT !.wf = e, !.blank = e]  PROVE q.lemma = part.lemma
  BY <1>1 DEF PartFields
<1> DEFINE q == [part EXCEPT !.wf = "", !.blank = ""]
<1>2. q.lemma = part.lemma
  BY <1>1, Zenon
<1> QED  BY <1>2, Zenon DEF Bare

\* The copy that a word gets of a reading has the parts of it, in order.
LEMMA PieceHasParts ==
    ASSUME NEW r, IsChain(r), NEW word \in 1..Words(r)
    PROVE  HasParts(Piece(r, word), r, WordParts(r, word)) /\ WordParts(r, word) # {}
<1> DEFINE a == StartOf(r, word)
           b == StartOf(r, word + 1)
           q == Piece(r, word)
           K == WordParts(r, word)
<1>1. /\ a \in 1..Len(r) /\ b \in (a + 1)..(Len(r) + 1)
      /\ \A k \in 1..Len(r) : WordOf(r, k) = word <=> a <= k /\ k < b
  BY WordStarts
<1>2. Len(r) \in Nat /\ DOMAIN r = 1..Len(r)
  BY MarkedNumbers
<1>3. q = [i \in 1..(b - a) |-> Bare(r[a + i - 1])]
  BY Zenon DEF Piece, Bare
<1> HIDE DEF a, b, q
<1>4. a \in Nat /\ b \in Nat /\ a < b
  BY <1>1, <1>2
<1>5. K = a..(b - 1)
  <2>1. K = {k \in 1..Len(r) : WordOf(r, k) = word}
    BY <1>2 DEF WordParts
  <2>2. \A k : k \in a..(b - 1) <=> k \in 1..Len(r) /\ a <= k /\ k < b
    BY <1>1, <1>2, <1>4
  <2> HIDE DEF K
  <2> QED  BY <1>1, <2>1, <2>2
<1> HIDE DEF K
<1>6. Cardinality(K) = b - a
  BY <1>4, <1>5, FS_Interval
<1>7. Len(q) = b - a
  <2>1. b - a \in Nat
    BY <1>4
  <2> QED  BY <1>3, <2>1
<1>8. ASSUME NEW k \in K
      PROVE  q[Cardinality({j \in K : j <= k})].lemma = r[k].lemma
  <2>1. k \in a..(b - 1) /\ k \in 1..Len(r)
    BY <1>1, <1>2, <1>4, <1>5, <1>8
  <2>2. {j \in K : j <= k} = a..k
    <3>1. \A j : j \in a..k <=> j \in a..(b - 1) /\ j <= k
      BY <1>4, <2>1
    <3> QED  BY <1>5, <3>1
  <2>3. Cardinality({j \in K : j <= k}) = k - a + 1
    <3>1. Cardinality(a..k) = k - a + 1
      BY <1>4, <2>1, FS_Interval
    <3> QED  BY <2>2, <3>1
  <2>4. k - a + 1 \in 1..(b - a) /\ a + (k - a + 1) - 1 = k
    BY <1>4, <2>1
  <2>5. q[k - a + 1] = Bare(r[k])
    BY <1>3, <2>4
  <2>6. DOMAIN r[k] = PartFields
    BY <2>1 DEF IsChain
  <2> QED  BY <2>3, <2>5, <2>6, BareLemma
<1>9. K # {}
  <2>1. a \in a..(b - 1)
    BY <1>4
  <2> QED  BY <1>5, <2>1
<1> QED  BY <1>6, <1>7, <1>8, <1>9 DEF HasParts, K, q

-----------------------------------------------------------------------------
(* Multiwords: the words of a cohort.                                      *)

\* The readings of a multiword
IsMwe(p) ==
    IsSeq(p.readings) /\ \A i \in 1..Len(p.readings) : IsChain(p.readings[i])

\* What is split: every reading begins with a word, and they agree on it.
Splitting(p) == IsMwe(p) /\ p.readings # <<>> /\ Splits(p) /\ ~ Ambiguous(p)

\* The readings are a numbered lot.
LEMMA MweFacts ==
    ASSUME NEW p, IsMwe(p)
    PROVE  Len(p.readings) \in Nat /\ DOMAIN p.readings = 1..Len(p.readings)
BY AppendSeq DEF IsMwe

\* Every reading has a word.
LEMMA EveryReadingHasAWord ==
    ASSUME NEW p, Splitting(p), NEW i \in 1..Len(p.readings)
    PROVE  /\ 1 \in Marked(p.readings[i]) /\ Words(p.readings[i]) >= 1
           /\ Words(p.readings[i]) \in Nat /\ IsChain(p.readings[i])
<1> DEFINE r == p.readings[i]
<1>1. IsChain(r) /\ i \in DOMAIN p.readings
  BY MweFacts DEF Splitting, IsMwe
<1>2. Splits(p)
  BY DEF Splitting
<1>3. r[1].wf # ""
  BY <1>1, <1>2, Zenon DEF Splits
<1>4. 1 \in DOMAIN r
  BY <1>1, MarkedNumbers DEF IsChain
<1>5. 1 \in Marked(r)
  BY <1>3, <1>4, Zenon DEF Marked
<1> HIDE DEF r
<1>6. Numbers(Marked(r), Len(r)) /\ Words(r) \in Nat
  BY <1>1, MarkedNumbers
<1>7. Rank(Marked(r), 1) \in 1..Cardinality(Marked(r))
  BY <1>5, <1>6, NthIs
<1> QED  BY <1>1, <1>5, <1>6, <1>7 DEF Words, r

\* A word is made of the readings that have it.
LEMMA NewWordFacts ==
    ASSUME NEW p, Splitting(p), NEW word \in Nat, word >= 1, NEW x, x = NewWord(p, word)
    PROVE  /\ WithWord(p, word) \subseteq 1..Len(p.readings)
           /\ Len(x.readings) = Cardinality(WithWord(p, word))
           /\ \A i \in WithWord(p, word) :
                /\ \E j \in 1..Len(x.readings) : x.readings[j] = Piece(p.readings[i], word)
                /\ x.word = PartAt(p, i, word).wf
           /\ DOMAIN x.readings = 1..Len(x.readings)
           /\ word = 1 => x.text = p.text
<1> DEFINE rs == WithWord(p, word)
           m == Len(p.readings)
<1>1. IsMwe(p) /\ m \in Nat /\ DOMAIN p.readings = 1..m
  BY MweFacts DEF Splitting
<1>2. Numbers(rs, m) /\ rs \subseteq DOMAIN p.readings
  BY <1>1 DEF WithWord, Numbers
<1>3. Cardinality(rs) \in Nat
  BY <1>2, RankFacts
<1>4. /\ x.word = PartAt(p, Nth(rs, 1), word).wf
      /\ x.readings = [k \in 1..Cardinality(rs) |-> Piece(p.readings[Nth(rs, k)], word)]
      /\ word = 1 => x.text = p.text
  BY DEF NewWord
<1> HIDE DEF rs, m
<1>5. Len(x.readings) = Cardinality(rs) /\ DOMAIN x.readings = 1..Cardinality(rs)
  BY <1>3, <1>4
<1>6. ASSUME NEW i \in rs
      PROVE  /\ \E j \in 1..Len(x.readings) : x.readings[j] = Piece(p.readings[i], word)
             /\ x.word = PartAt(p, i, word).wf
  <2>1. Rank(rs, i) \in 1..Cardinality(rs) /\ Nth(rs, Rank(rs, i)) = i
    BY <1>2, <1>6, NthIs
  <2>2. x.readings[Rank(rs, i)] = Piece(p.readings[i], word)
    BY <1>4, <2>1
  <2>3. 1 \in 1..Cardinality(rs)
    BY <1>3, <2>1
  <2>4. Nth(rs, 1) \in rs
    BY <1>2, <2>3, NthExists
  <2>5. i \in DOMAIN p.readings /\ word \in 1..Words(p.readings[i])
    <3>1. i \in DOMAIN p.readings /\ word <= Words(p.readings[i])
      BY <1>6 DEF rs, WithWord
    <3>2. Words(p.readings[i]) \in Nat
      BY <1>1, <3>1, EveryReadingHasAWord DEF m
    <3> QED  BY <3>1, <3>2
  <2>6. PartAt(p, i, word).wf = PartAt(p, Nth(rs, 1), word).wf
    <3>1. ~ Ambiguous(p) /\ Nth(rs, 1) \in DOMAIN p.readings
      BY <1>2, <2>4 DEF Splitting
    <3> QED  BY <2>4, <2>5, <3>1, Zenon DEF Ambiguous, rs
  <2> QED  BY <1>4, <1>5, <2>1, <2>2, <2>6
<1> QED  BY <1>2, <1>4, <1>5, <1>6 DEF rs, m, Numbers

\* The part k of reading i goes to its word, in a reading with all that go there.
PartKept(p, n, new, i, k) ==
    LET r == p.readings[i]
        word == WordOf(r, k)
    IN  /\ word \in 1..n
        /\ r[k].wf # "" => new[word].word = r[k].wf
        /\ \E q \in Range(new[word].readings) : HasParts(q, r, WordParts(r, word))

\* That is so when the words are those of NewWord.
LEMMA PartIsKept ==
    ASSUME NEW p, Splitting(p), NEW n \in Nat, NEW new,
           \A word \in 1..n : new[word] = NewWord(p, word),
           \A i \in 1..Len(p.readings) : Words(p.readings[i]) <= n,
           NEW i \in 1..Len(p.readings), NEW k \in 1..Len(p.readings[i])
    PROVE  PartKept(p, n, new, i, k)
<1> DEFINE r == p.readings[i]
           word == WordOf(r, k)
<1>1. IsChain(r) /\ Words(r) \in Nat /\ 1 \in Marked(r) /\ Words(r) <= n
  BY EveryReadingHasAWord
<1> HIDE DEF r
<1>2. Len(r) \in Nat /\ Numbers(Marked(r), Len(r)) /\ k \in 0..Len(r) /\ 1 \in 0..Len(r) /\ 1 <= k
  BY <1>1, MarkedNumbers, SMTT(60) DEF r, IsChain
<1>3. word = Rank(Marked(r), k) /\ word \in 0..Words(r)
  BY <1>1, <1>2, WordIsRank, RankFacts DEF Words
<1>4. word >= 1
  <2>1. Rank(Marked(r), 1) \in 1..Cardinality(Marked(r))
    BY <1>1, <1>2, NthIs
  <2>2. Rank(Marked(r), 1) <= Rank(Marked(r), k)
    BY <1>2, RankRises
  <2> QED  BY <1>3, <2>1, <2>2
<1>5. word \in 1..n /\ word \in 1..Words(r) /\ word \in Nat
  BY <1>1, <1>3, <1>4
<1>6. i \in WithWord(p, word)
  <2>1. i \in DOMAIN p.readings
    BY MweFacts DEF Splitting
  <2> QED  BY <1>5, <2>1 DEF WithWord, r
<1>7. k \in Marked(r) => StartOf(r, word) = k
  <2>1. k \in Marked(r) => Nth(Marked(r), word) = k
    BY <1>2, <1>3, NthIs
  <2> QED  BY <1>5, <2>1 DEF StartOf
<1> DEFINE x == new[word]
<1>8. x = NewWord(p, word)
  BY <1>5
<1> HIDE DEF word, x
<1>9. /\ \E j \in 1..Len(x.readings) : x.readings[j] = Piece(r, word)
      /\ x.word = PartAt(p, i, word).wf
      /\ DOMAIN x.readings = 1..Len(x.readings)
  BY SMTT(60), <1>4, <1>5, <1>6, <1>8, NewWordFacts DEF r
<1>10. \E q \in Range(x.readings) : HasParts(q, r, WordParts(r, word))
  <2>1. Piece(r, word) \in Range(x.readings)
    BY <1>9 DEF Range
  <2>2. HasParts(Piece(r, word), r, WordParts(r, word))
    BY <1>1, <1>5, PieceHasParts
  <2> QED  BY <2>1, <2>2
<1>11. k \in Marked(r) => x.word = r[k].wf
  BY <1>7, <1>9 DEF PartAt, r
<1>12. r[k].wf # "" => k \in Marked(r)
  <2>1. k \in DOMAIN r
    BY <1>1, MarkedNumbers DEF r
  <2> QED  BY <2>1, Zenon DEF Marked
<1> QED  BY <1>5, <1>10, <1>11, <1>12, Zenon DEF PartKept, r, word, x

\* A word has a reading for each that has parts there, and no other.
LEMMA ReadingsOfWord ==
    ASSUME NEW p, Splitting(p), NEW word \in Nat, word >= 1, NEW x, x = NewWord(p, word)
    PROVE  Len(x.readings) = Cardinality({i \in DOMAIN p.readings : WordParts(p.readings[i], word) # {}})
<1>1. Len(p.readings) \in Nat /\ DOMAIN p.readings = 1..Len(p.readings)
  BY MweFacts DEF Splitting
<1>2. ASSUME NEW i \in 1..Len(p.readings)
      PROVE  word <= Words(p.readings[i]) <=> WordParts(p.readings[i], word) # {}
  <2> DEFINE r == p.readings[i]
  <2>1. IsChain(r) /\ Words(r) \in Nat
    BY EveryReadingHasAWord
  <2> HIDE DEF r
  <2>2. CASE word <= Words(r)
    <3>1. word \in 1..Words(r)
      BY <2>1, <2>2
    <3> QED  BY <2>1, <2>2, <3>1, PieceHasParts DEF r
  <2>3. CASE ~ (word <= Words(r))
    <3>1. \A k \in 1..Len(r) : WordOf(r, k) # word
      <4> TAKE k \in 1..Len(r)
      <4>1. Len(r) \in Nat /\ Numbers(Marked(r), Len(r)) /\ k \in 0..Len(r)
        BY <2>1, MarkedNumbers
      <4>2. WordOf(r, k) \in 0..Words(r)
        BY <2>1, <4>1, WordIsRank, RankFacts DEF Words
      <4> QED  BY <2>1, <2>3, <4>2
    <3>2. DOMAIN r = 1..Len(r)
      BY <2>1, MarkedNumbers
    <3> QED  BY <2>3, <3>1, <3>2 DEF WordParts, r
  <2> QED  BY <2>2, <2>3
<1>3. WithWord(p, word) = {i \in DOMAIN p.readings : WordParts(p.readings[i], word) # {}}
  BY <1>1, <1>2 DEF WithWord
<1>4. Len(x.readings) = Cardinality(WithWord(p, word))
  BY NewWordFacts
<1> QED  BY <1>3, <1>4, Zenon

\* A cohort that is not split stays; of one that is the words come last first.
LEMMA SplitFacts ==
    ASSUME NEW p, IsMwe(p), NEW e, e = SplitMwe(p), NEW n, n = Len(e)
    PROVE  /\ IsSeq(e) /\ n \in Nat /\ n >= 1
           /\ \/ n = 1 /\ e[1] = p
              \/ /\ Splitting(p) /\ \A w \in 1..n : e[n - w + 1] = NewWord(p, w)
                 /\ \A i \in 1..Len(p.readings) : Words(p.readings[i]) <= n
<1> DEFINE whole == p.readings = <<>> \/ ~ Splits(p) \/ Ambiguous(p)
           S == {Words(p.readings[i]) : i \in DOMAIN p.readings}
           L == Len(p.readings)
           m == Max(S)
<1>1. e = IF whole THEN <<p>> ELSE [k \in 1..m |-> NewWord(p, m - k + 1)]
  BY Zenon DEF SplitMwe
<1>2. CASE whole
  <2>1. e = <<p>>
    BY <1>1, <1>2
  <2>2. <<p>> \in Seq({p}) /\ Len(<<p>>) = 1 /\ <<p>>[1] = p
    OBVIOUS
  <2>3. IsSeq(e)
    BY <2>1, <2>2, Zenon DEF IsSeq
  <2>4. n = 1 /\ e[1] = p
    BY <2>1, <2>2
  <2>5. 1 \in Nat /\ 1 >= 1
    OBVIOUS
  <2> HIDE DEF whole, S, L, m
  <2> QED  BY <2>3, <2>4, <2>5
<1>3. CASE ~ whole
  <2>1. Splitting(p) /\ p.readings # <<>>
    BY <1>3 DEF Splitting
  <2>2. L \in Nat /\ DOMAIN p.readings = 1..L
    BY MweFacts
  <2>3. \A i \in 1..L : Words(p.readings[i]) \in Nat /\ Words(p.readings[i]) >= 1
    BY <2>1, EveryReadingHasAWord
  <2>4. \E b \in Nat : \A i \in 1..L : Words(p.readings[i]) <= b
    <3> DEFINE T == {j \in 0..L : \E b \in Nat : \A i \in 1..j : Words(p.readings[i]) <= b}
    <3>1. 0 \in T
      BY <2>2
    <3>2. ASSUME NEW j \in 0..(L - 1), j \in T  PROVE j + 1 \in T
      <4>1. PICK b \in Nat : \A i \in 1..j : Words(p.readings[i]) <= b
        BY <3>2
      <4> DEFINE y == Words(p.readings[j + 1])
      <4>2. j + 1 \in 1..L /\ y \in Nat /\ j + 1 \in 0..L /\ j \in Nat
        BY <2>2, <2>3
      <4>3. b + y \in Nat /\ b <= b + y /\ y <= b + y
        BY <4>2
      <4>4. \A i \in 1..j + 1 : Words(p.readings[i]) <= b + y
        <5> TAKE i \in 1..j + 1
        <5>1. Words(p.readings[i]) \in Nat
          BY <2>2, <2>3, <4>2
        <5>2. CASE i = j + 1
          BY <4>3, <5>2
        <5>3. CASE i # j + 1
          <6>1. i \in 1..j
            BY <4>2, <5>3
          <6>2. Words(p.readings[i]) <= b
            BY <4>1, <6>1
          <6> HIDE DEF y
          <6> QED  BY <4>2, <4>3, <5>1, <6>2
        <5> QED  BY <5>2, <5>3
      <4> HIDE DEF y
      <4> QED  BY <4>2, <4>3, <4>4
    <3> HIDE DEF T
    <3>3. 0..L \subseteq T
      BY <2>2, <3>1, <3>2, UpTo
    <3>4. L \in T
      BY <2>2, <3>3
    <3> QED  BY <3>4 DEF T
  <2>5. PICK b \in Nat : \A i \in 1..L : Words(p.readings[i]) <= b
    BY <2>4
  <2>6. S \subseteq 1..b
    BY <2>2, <2>3, <2>5
  <2>7. S # {}
    <3>1. L # 0
      BY <2>1 DEF Splitting, IsMwe, IsSeq
    <3>2. 1 \in DOMAIN p.readings
      BY <2>2, <3>1
    <3> QED  BY <3>2
  <2>8. \A i \in 1..L : Words(p.readings[i]) \in S
    BY <2>2
  <2> HIDE DEF S
  <2>9. m \in S /\ \A y \in S : m >= y
    BY <2>6, <2>7, LargestNumber
  <2> HIDE DEF m
  <2>10. m \in Nat /\ m >= 1 /\ \A i \in 1..L : Words(p.readings[i]) <= m
    <3>1. m \in 1..b
      BY <2>6, <2>9
    <3>2. m \in Nat /\ m >= 1
      BY <3>1
    <3>3. ASSUME NEW i \in 1..L  PROVE Words(p.readings[i]) <= m
      <4>1. m >= Words(p.readings[i]) /\ Words(p.readings[i]) \in Nat
        BY <2>3, <2>8, <2>9, <3>3
      <4> QED  BY <3>2, <4>1
    <3> QED  BY <3>2, <3>3
  <2> HIDE DEF L
  <2>11. e = [k \in 1..m |-> NewWord(p, m - k + 1)]
    BY <1>1, <1>3
  <2>12. IsSeq(e) /\ n = m
    <3> DEFINE T == {NewWord(p, m - k + 1) : k \in 1..m}
    <3>1. e \in [1..m -> T]
      BY <2>11
    <3> HIDE DEF T
    <3>2. e \in Seq(T)
      BY <2>10, <3>1
    <3>3. Len(e) = m
      BY <2>10, <2>11, <3>2
    <3> QED  BY <3>2, <3>3 DEF IsSeq
  <2>13. ASSUME NEW w \in 1..n  PROVE e[n - w + 1] = NewWord(p, w)
    <3>1. n - w + 1 \in 1..m /\ m - (n - w + 1) + 1 = w
      BY <2>10, <2>12
    <3> QED  BY <2>11, <3>1
  <2> QED  BY <2>1, <2>10, <2>12, <2>13 DEF L
<1> QED  BY <1>2, <1>3

\* What is written last
EndsWith(o, e) ==
    Len(e) <= Len(o) /\ \A w \in 1..Len(e) : o[Len(o) - w + 1] = e[Len(e) - w + 1]

\* What is appended is last.
LEMMA AppendedLast ==
    ASSUME NEW o, IsSeq(o), NEW e, IsSeq(e), NEW u, u = o \o e
    PROVE  IsSeq(u) /\ EndsWith(u, e)
<1>1. PICK S : o \in Seq(S)
  BY DEF IsSeq
<1>2. PICK T : e \in Seq(T)
  BY DEF IsSeq
<1>3. o \in Seq(S \cup T) /\ e \in Seq(S \cup T)
  BY <1>1, <1>2
<1>4. /\ u \in Seq(S \cup T) /\ Len(o) \in Nat /\ Len(e) \in Nat /\ Len(u) = Len(o) + Len(e)
      /\ \A j \in 1..Len(e) : u[Len(o) + j] = e[j]
  BY <1>3
<1>5. ASSUME NEW w \in 1..Len(e)  PROVE u[Len(u) - w + 1] = e[Len(e) - w + 1]
  <2>1. Len(e) - w + 1 \in 1..Len(e) /\ Len(u) - w + 1 = Len(o) + (Len(e) - w + 1)
    BY <1>4
  <2> QED  BY <1>4, <2>1
<1> QED  BY <1>4, <1>5 DEF IsSeq, EndsWith

\* The multiwords read, and the words of the last one at the end of the output.
WordsInv ==
    format = "mwe" =>
        /\ format \in Formats /\ DOMAIN s = {"output"} /\ IsSeq(s.output)
        /\ input \in Seq(Pieces["mwe"])
        /\ input # <<>> => EndsWith(s.output, SplitMwe(Last(input)))

\* What the pieces are.
LEMMA MweOfPieces ==
    ASSUME "mwe" \in Formats, NEW p \in Pieces["mwe"]
    PROVE  IsMwe(p)
<1> DEFINE P == [lemma : STRING, wf : STRING, blank : STRING]
<1>1. p.readings \in Seq(Seq(P) \ {<<>>})
  BY MultiwordsAssumption
<1>2. \A x \in P : DOMAIN x = PartFields
  BY DEF PartFields
<1> HIDE DEF P
<1>3. ASSUME NEW r \in Seq(P), r # <<>>  PROVE IsChain(r)
  <2>1. Len(r) >= 1
    BY <1>3
  <2>2. \A k \in 1..Len(r) : r[k] \in P
    BY <1>3
  <2> QED  BY <1>2, <1>3, <2>1, <2>2 DEF IsChain, IsSeq
<1> QED  BY <1>1, <1>3 DEF IsMwe, IsSeq

\* That is so in every state.
LEMMA WordsInductive == Spec => []WordsInv
<1>1. Init => WordsInv
  <2> SUFFICES ASSUME Init, format = "mwe" PROVE WordsInv
    BY DEF WordsInv
  <2>1. format \in Formats /\ input = <<>> /\ s = [output |-> <<>>]
    BY DEF Init, Start
  <2>2. <<>> \in Seq({}) /\ <<>> \in Seq(Pieces["mwe"])
    OBVIOUS
  <2> QED  BY <2>1, <2>2 DEF WordsInv, IsSeq
<1>2. WordsInv /\ [Next]_vars => WordsInv'
  <2> SUFFICES ASSUME WordsInv, [Next]_vars PROVE WordsInv'
    OBVIOUS
  <2>1. CASE ReadPiece
    <3>1. format' = format
      BY <2>1 DEF ReadPiece
    <3> SUFFICES ASSUME format = "mwe" PROVE WordsInv'
      BY <3>1 DEF WordsInv
    <3>2. PICK p \in Pieces["mwe"] : input' = Append(input, p) /\ s' = [s EXCEPT !.output = @ \o SplitMwe(p)]
      BY <2>1 DEF ReadPiece
    <3>3. /\ "mwe" \in Formats /\ DOMAIN s = {"output"} /\ IsSeq(s.output)
          /\ input \in Seq(Pieces["mwe"])
      BY DEF WordsInv
    <3>4. input' \in Seq(Pieces["mwe"]) /\ input' # <<>> /\ Last(input') = p
      <4>1. input' \in Seq(Pieces["mwe"]) /\ Len(input') = Len(input) + 1 /\ Len(input) \in Nat
            /\ input'[Len(input) + 1] = p
        BY <3>2, <3>3
      <4> QED  BY <4>1 DEF Last
    <3>5. DOMAIN s' = {"output"} /\ s'.output = s.output \o SplitMwe(p)
      BY <3>2, <3>3
    <3>6. IsSeq(SplitMwe(p))
      BY <3>2, <3>3, MweOfPieces, SplitFacts
    <3>7. IsSeq(s'.output) /\ EndsWith(s'.output, SplitMwe(p))
      BY <3>3, <3>5, <3>6, AppendedLast
    <3> QED  BY <3>1, <3>3, <3>4, <3>5, <3>7 DEF WordsInv
  <2>2. CASE EndOfInput
    <3>1. format' = format /\ input' = input
      BY <2>2 DEF EndOfInput
    <3>2. format = "mwe" => s' = s
      <4>1. format = "mwe" => format \notin LineFormats \ {"fstconv"}
        BY DEF LineFormats
      <4> QED  BY <2>2, <4>1 DEF EndOfInput
    <3> QED  BY <3>1, <3>2 DEF WordsInv
  <2>3. CASE UNCHANGED vars
    BY <2>3 DEF WordsInv, vars
  <2> QED  BY <2>1, <2>2, <2>3 DEF Next
<1> QED  BY <1>1, <1>2, PTL DEF Spec

\* The words of a split multiword have all parts of its readings, each part in
\* the word it belongs to, and nothing else (splitMwe).
THEOREM MultiwordsKeepTheirParts == Spec => []NoPartIsLost
<1>1. WordsInv => NoPartIsLost
  <2> SUFFICES ASSUME WordsInv, format = "mwe", input # <<>>  PROVE NoPartIsLost
    BY Zenon DEF NoPartIsLost
  <2> DEFINE p == Last(input)
             e == SplitMwe(p)
             n == Len(e)
             new == [word \in 1..n |-> s.output[Len(s.output) - word + 1]]
             Count(word) == Cardinality({i \in DOMAIN p.readings : WordParts(p.readings[i], word) # {}})
  <2>1. "mwe" \in Formats /\ input \in Seq(Pieces["mwe"]) /\ EndsWith(s.output, e)
    BY DEF WordsInv
  <2>2. p \in Pieces["mwe"]
    BY <2>1 DEF Last
  <2> HIDE DEF p
  <2>3. IsMwe(p)
    BY <2>1, <2>2, MweOfPieces
  <2>4. /\ n \in Nat /\ n >= 1
        /\ \/ n = 1 /\ e[1] = p
           \/ /\ Splitting(p) /\ \A w \in 1..n : e[n - w + 1] = NewWord(p, w)
              /\ \A i \in 1..Len(p.readings) : Words(p.readings[i]) <= n
    BY <2>3, SplitFacts
  <2> HIDE DEF e
  <2>5. \A w \in 1..n : new[w] = e[n - w + 1]
    BY <2>1 DEF EndsWith
  <2> HIDE DEF n, new
  <2>6. CASE n = 1 /\ e[1] = p
    <3>1. new[1] = p
      BY <2>5, <2>6
    <3> QED  BY <2>6, <3>1, Zenon DEF NoPartIsLost, p, n, e, new
  <2>7. CASE /\ Splitting(p) /\ \A w \in 1..n : e[n - w + 1] = NewWord(p, w)
             /\ \A i \in 1..Len(p.readings) : Words(p.readings[i]) <= n
    <3>1. \A w \in 1..n : new[w] = NewWord(p, w)
      BY <2>5, <2>7
    <3>2. DOMAIN p.readings = 1..Len(p.readings)
      BY <2>3, MweFacts
    <3>3. \A i \in DOMAIN p.readings : DOMAIN p.readings[i] = 1..Len(p.readings[i])
      BY <2>7, <3>2, EveryReadingHasAWord, MarkedNumbers
    <3>4. \A i \in DOMAIN p.readings : \A k \in DOMAIN p.readings[i] : PartKept(p, n, new, i, k)
      BY <2>4, <2>7, <3>1, <3>2, <3>3, PartIsKept
    <3>5. ASSUME NEW word \in 1..n  PROVE Len(new[word].readings) = Count(word)
      <4>1. word \in Nat /\ word >= 1
        BY <2>4
      <4> HIDE DEF Count
      <4> QED  BY <2>7, <3>1, <4>1, ReadingsOfWord DEF Count
    <3>6. new[1].text = p.text
      <4>1. 1 \in 1..n /\ 1 \in Nat
        BY <2>4
      <4> QED  BY <2>7, <3>1, <4>1, NewWordFacts
    <3> QED  BY <3>4, <3>5, <3>6, Zenon DEF NoPartIsLost, PartKept, p, n, e, new
  <2> QED  BY <2>4, <2>6, <2>7
<1> QED  BY <1>1, WordsInductive, PTL

=============================================================================
