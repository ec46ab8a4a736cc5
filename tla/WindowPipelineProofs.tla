------------------------ MODULE WindowPipelineProofs ------------------------
(***************************************************************************)
(* Proofs about WindowPipeline, for every number of windows, every soft    *)
(* and hard limit, every classification of cohorts and every input: which  *)
(* cohorts windows hold and how they follow each other, then the shape of  *)
(* the windows, where <<< is, where they are cut, and how many follow the  *)
(* one that is run.                                                        *)
(***************************************************************************)
EXTENDS WindowPipeline, SequenceTheorems, WellFoundedInduction, TLAPS

-----------------------------------------------------------------------------
(* Runs of consecutive cohorts, and lanes: sequences of adjoining runs.    *)

\* w holds the cohorts a+1 .. b, in order.
Run(w, a, b) == b = a + Len(w) /\ \A k \in 1..Len(w) : w[k] = a + k

\* The windows ws hold the cohorts a+1 .. b, in order; f marks where they meet.
Meets(ws, f, a, b) ==
    /\ f \in [0..Len(ws) -> Nat]
    /\ f[0] = a /\ f[Len(ws)] = b
    /\ \A i \in 1..Len(ws) : Run(ws[i], f[i - 1], f[i])

Lane(ws, a, b) == \E f : Meets(ws, f, a, b)

\* Appending the next cohort to a run gives a run.
LEMMA RunAppend ==
  ASSUME NEW w \in Seq(Nat), NEW a \in Nat, NEW b \in Nat, Run(w, a, b)
  PROVE  Run(Append(w, b + 1), a, b + 1)
BY DEF Run

\* Two adjoining runs concatenate to a run.
LEMMA RunConcat ==
  ASSUME NEW v \in Seq(Nat), NEW w \in Seq(Nat),
         NEW a \in Nat, NEW b \in Nat, NEW c \in Nat, Run(v, a, b), Run(w, b, c)
  PROVE  Run(v \o w, a, c)
<1>1. /\ Len(v \o w) = Len(v) + Len(w)
      /\ \A i \in 1..Len(v) + Len(w) : (v \o w)[i] = IF i <= Len(v) THEN v[i] ELSE w[i - Len(v)]
  BY ConcatProperties
<1> QED BY <1>1 DEF Run

\* Cutting a run gives two adjoining runs.
LEMMA RunCut ==
  ASSUME NEW w \in Seq(Nat), NEW a \in Nat, NEW b \in Nat, Run(w, a, b), NEW k \in 1..Len(w)
  PROVE  /\ Head2(w, k) \in Seq(Nat) /\ Tail2(w, k) \in Seq(Nat)
         /\ Run(Head2(w, k), a, a + k)
         /\ Run(Tail2(w, k), a + k, b)
<1>1. /\ Head2(w, k) \in Seq(Nat) /\ Len(Head2(w, k)) = k
      /\ \A i \in 1..k : Head2(w, k)[i] = w[i]
  BY DEF Head2
<1>2. /\ Tail2(w, k) \in Seq(Nat) /\ Len(Tail2(w, k)) = Len(w) - k
      /\ \A i \in 1..Len(w) - k : Tail2(w, k)[i] = w[k + i]
  BY DEF Tail2
<1>3. k \in Nat /\ Len(w) \in Nat /\ k <= Len(w)
  OBVIOUS
<1>4. Len(w) = b - a /\ \A i \in 1..Len(w) : w[i] = a + i
  BY DEF Run
<1>5. Run(Head2(w, k), a, a + k)
  BY <1>1, <1>3, <1>4 DEF Run
<1>6. Run(Tail2(w, k), a + k, b)
  BY <1>2, <1>3, <1>4 DEF Run
<1> QED BY <1>1, <1>2, <1>5, <1>6

\* An empty lane holds nothing.
LEMMA LaneEmpty ==
  ASSUME NEW a \in Nat
  PROVE  Lane(<<>>, a, a)
<1>1. Meets(<<>>, [i \in 0..0 |-> a], a, a)
  BY DEF Meets
<1> QED BY <1>1 DEF Lane

\* A lane of no windows goes nowhere.
LEMMA LaneOfNone ==
  ASSUME NEW a \in Nat, NEW b \in Nat, Lane(<<>>, a, b)
  PROVE  a = b
<1>1. PICK f : Meets(<<>>, f, a, b)
  BY DEF Lane
<1> QED BY <1>1 DEF Meets

\* A run pushed at the back extends a lane.
LEMMA LaneAppend ==
  ASSUME NEW ws \in Seq(Seq(Nat)), NEW w \in Seq(Nat),
         NEW a \in Nat, NEW b \in Nat, NEW c \in Nat, Lane(ws, a, b), Run(w, b, c)
  PROVE  Lane(Append(ws, w), a, c)
<1>1. PICK f : Meets(ws, f, a, b)  BY DEF Lane
<1> DEFINE n == Len(ws)
           g == [i \in 0..n + 1 |-> IF i <= n THEN f[i] ELSE c]
<1>2. /\ Len(Append(ws, w)) = n + 1
      /\ \A i \in 1..n : Append(ws, w)[i] = ws[i]
      /\ Append(ws, w)[n + 1] = w
  BY AppendProperties
<1>3. n \in Nat  OBVIOUS
<1>4. g \in [0..n + 1 -> Nat] /\ g[0] = a /\ g[n + 1] = c
  BY <1>1, <1>3 DEF Meets
<1>5. ASSUME NEW i \in 1..n + 1  PROVE Run(Append(ws, w)[i], g[i - 1], g[i])
  <2>1. CASE i = n + 1
    BY <1>1, <1>2, <1>3, <2>1 DEF Meets
  <2>2. CASE i \in 1..n
    <3>1. Run(ws[i], f[i - 1], f[i])  BY <1>1, <2>2 DEF Meets
    <3>2. g[i] = f[i] /\ g[i - 1] = f[i - 1]  BY <1>3, <2>2
    <3> QED BY <1>2, <2>2, <3>1, <3>2
  <2> QED BY <1>3, <2>1, <2>2
<1>6. Meets(Append(ws, w), g, a, c)
  BY <1>2, <1>4, <1>5 DEF Meets
<1> QED BY <1>6 DEF Lane

\* A run pushed at the front extends a lane.
LEMMA LaneCons ==
  ASSUME NEW ws \in Seq(Seq(Nat)), NEW w \in Seq(Nat),
         NEW a \in Nat, NEW b \in Nat, NEW c \in Nat, Run(w, a, b), Lane(ws, b, c)
  PROVE  Lane(<<w>> \o ws, a, c)
<1>1. PICK f : Meets(ws, f, b, c)  BY DEF Lane
<1> DEFINE n == Len(ws)
           g == [i \in 0..n + 1 |-> IF i = 0 THEN a ELSE f[i - 1]]
<1>2. n \in Nat  OBVIOUS
<1>3. <<w>> \in Seq(Seq(Nat))  OBVIOUS
<1>4. /\ Len(<<w>> \o ws) = 1 + n
      /\ \A i \in 1..1 + n : (<<w>> \o ws)[i] = IF i <= 1 THEN <<w>>[i] ELSE ws[i - 1]
  BY <1>3, ConcatProperties
<1>5. g \in [0..1 + n -> Nat] /\ g[0] = a /\ g[1 + n] = c
  BY <1>1, <1>2 DEF Meets
<1>6. ASSUME NEW i \in 1..1 + n  PROVE Run((<<w>> \o ws)[i], g[i - 1], g[i])
  <2>1. CASE i = 1
    BY <1>1, <1>2, <1>4, <2>1 DEF Meets
  <2>2. CASE i # 1
    <3>1. PICK j \in 1..n : i = j + 1  BY <1>2, <2>2
    <3>2. Run(ws[j], f[j - 1], f[j])  BY <1>1 DEF Meets
    <3>3. g[i] = f[j] /\ g[i - 1] = f[j - 1]  BY <1>2, <3>1
    <3>4. (<<w>> \o ws)[i] = ws[j]  BY <1>2, <1>4, <3>1
    <3> QED BY <3>2, <3>3, <3>4
  <2> QED BY <2>1, <2>2
<1>7. Meets(<<w>> \o ws, g, a, c)
  BY <1>4, <1>5, <1>6 DEF Meets
<1> QED BY <1>7 DEF Lane

\* The first window of a lane is a run, and the rest is a lane.
LEMMA LaneHead ==
  ASSUME NEW ws \in Seq(Seq(Nat)), ws # <<>>, NEW a \in Nat, NEW b \in Nat, Lane(ws, a, b)
  PROVE  \E m \in Nat : Run(Head(ws), a, m) /\ Lane(Tail(ws), m, b)
<1>1. PICK f : Meets(ws, f, a, b)  BY DEF Lane
<1> DEFINE n == Len(ws)
           g == [i \in 0..n - 1 |-> f[i + 1]]
<1>2. n \in Nat /\ n >= 1  OBVIOUS
<1>3. /\ Len(Tail(ws)) = n - 1 /\ Head(ws) = ws[1]
      /\ \A i \in 1..n - 1 : Tail(ws)[i] = ws[i + 1]
  BY HeadTailProperties
<1>4. Run(Head(ws), a, f[1]) /\ f[1] \in Nat
  BY <1>1, <1>2, <1>3 DEF Meets, Run
<1>5. g \in [0..n - 1 -> Nat] /\ g[0] = f[1] /\ g[n - 1] = b
  BY <1>1, <1>2 DEF Meets
<1>6. ASSUME NEW i \in 1..n - 1  PROVE Run(Tail(ws)[i], g[i - 1], g[i])
  <2>1. i + 1 \in 1..n  BY <1>2
  <2>2. Run(ws[i + 1], f[i], f[i + 1])  BY <1>1, <2>1 DEF Meets
  <2>3. g[i] = f[i + 1] /\ g[i - 1] = f[i]  BY <1>2
  <2> QED BY <1>3, <2>2, <2>3
<1>7. Meets(Tail(ws), g, f[1], b)
  BY <1>3, <1>5, <1>6 DEF Meets
<1> QED BY <1>4, <1>7 DEF Lane

\* The last window of a lane is a run, and may be replaced by another one.
LEMMA LaneLast ==
  ASSUME NEW ws \in Seq(Seq(Nat)), ws # <<>>, NEW a \in Nat, NEW b \in Nat, Lane(ws, a, b)
  PROVE  \E m \in Nat :
           /\ Run(LastOf(ws), m, b)
           /\ \A w, c : c \in Nat /\ Run(w, m, c) => Lane([ws EXCEPT ![Len(ws)] = w], a, c)
<1>1. PICK f : Meets(ws, f, a, b)  BY DEF Lane
<1> DEFINE n == Len(ws)
<1>2. n \in Nat /\ n >= 1  OBVIOUS
<1>3. Run(LastOf(ws), f[n - 1], b) /\ f[n - 1] \in Nat
  <2>1. n \in 1..n /\ n - 1 \in 0..n  BY <1>2
  <2> HIDE DEF n
  <2>2. Run(ws[n], f[n - 1], f[n]) /\ f[n - 1] \in Nat /\ f[n] = b
    BY <1>1, <2>1 DEF Meets, n
  <2> QED BY <2>2 DEF LastOf, n
<1>4. ASSUME NEW w, NEW c \in Nat, Run(w, f[n - 1], c)
      PROVE  Lane([ws EXCEPT ![n] = w], a, c)
  <2> DEFINE g == [f EXCEPT ![n] = c]
             v == [ws EXCEPT ![n] = w]
  <2>1. Len(v) = n /\ v[n] = w /\ \A i \in 1..n - 1 : v[i] = ws[i]
    BY <1>2
  <2>2. g \in [0..n -> Nat] /\ g[0] = a /\ g[n] = c /\ \A i \in 0..n - 1 : g[i] = f[i]
    BY <1>1, <1>2 DEF Meets
  <2> HIDE DEF v, g
  <2>3. ASSUME NEW i \in 1..n  PROVE Run(v[i], g[i - 1], g[i])
    <3>1. CASE i = n
      <4>1. n - 1 \in 0..n - 1  BY <1>2
      <4> QED BY <1>4, <2>1, <2>2, <3>1, <4>1
    <3>2. CASE i \in 1..n - 1
      <4>1. Run(ws[i], f[i - 1], f[i])  BY <1>1, <1>2, <3>2 DEF Meets
      <4>2. i - 1 \in 0..n - 1 /\ i \in 0..n - 1  BY <1>2, <3>2
      <4>3. g[i - 1] = f[i - 1] /\ g[i] = f[i] /\ v[i] = ws[i]  BY <2>1, <2>2, <3>2, <4>2
      <4> QED BY <4>1, <4>3
    <3> QED BY <1>2, <3>1, <3>2
  <2>4. Meets(v, g, a, c)
    BY <2>1, <2>2, <2>3 DEF Meets
  <2>5. Lane(v, a, c)
    BY <2>4 DEF Lane
  <2> QED BY <2>5 DEF v
<1> QED BY <1>3, <1>4


\* A nonempty set of natural numbers has a least element.
LEMMA LeastNat ==
  ASSUME NEW T, T \subseteq Nat, T # {}
  PROVE  \E x \in T : \A y \in T : x <= y
<1> DEFINE R == OpToRel(<, Nat)
<1>1. IsWellFoundedOn(R, Nat)
  BY NatLessThanWellFounded
<1>2. \A x, y \in Nat : x < y => <<x, y>> \in R
  BY DEF OpToRel
<1> HIDE DEF R
<1>3. PICK x \in T : \A y \in T : ~ (<<y, x>> \in R)
  BY <1>1, WFMin
<1>4. \A y \in T : x <= y
  <2> TAKE y \in T
  <2>1. x \in Nat /\ y \in Nat /\ ~ (y < x)
    BY <1>2, <1>3
  <2> QED BY <2>1
<1> QED BY <1>4

\* The ends of a lane are in order: no window of it could be the first to end
\* before a.
LEMMA LaneMonotone ==
  ASSUME NEW ws \in Seq(Seq(Nat)), NEW a \in Nat, NEW b \in Nat, Lane(ws, a, b)
  PROVE  a <= b
<1>1. PICK f : Meets(ws, f, a, b)
  BY DEF Lane
<1> DEFINE n == Len(ws)
           T == {i \in 0..n : f[i] < a}
<1>2. n \in Nat
  OBVIOUS
<1>3. f[0] = a /\ f[n] = b /\ \A i \in 0..n : f[i] \in Nat
  BY <1>1, <1>2 DEF Meets
<1>4. CASE T = {}
  BY <1>2, <1>3, <1>4
<1>5. CASE T # {}
  <2>1. T \subseteq Nat
    BY <1>2
  <2>2. PICK i \in T : \A y \in T : i <= y
    BY <1>5, <2>1, LeastNat
  <2>3. i \in 0..n /\ f[i] < a /\ i # 0
    BY <1>3, <2>2
  <2>4. i \in 1..n /\ i - 1 \in 0..n /\ i - 1 \notin T
    BY <1>2, <2>2, <2>3
  <2>5. f[i - 1] \in Nat /\ f[i] \in Nat
    BY <1>3, <2>4
  <2>6. f[i] = f[i - 1] + Len(ws[i]) /\ Len(ws[i]) \in Nat
    BY <1>1, <2>4, ElementOfSeq, LenProperties DEF Meets, Run
  <2>7. a <= f[i - 1]
    BY <2>4, <2>5
  <2> QED BY <2>3, <2>5, <2>6, <2>7
<1> QED BY <1>4, <1>5

\* Every cohort between the ends of a lane is in one of its windows: the first
\* one that ends at or after it.
LEMMA LaneHolds ==
  ASSUME NEW ws \in Seq(Seq(Nat)), NEW a \in Nat, NEW b \in Nat, Lane(ws, a, b),
         NEW c \in Nat, a < c, c <= b
  PROVE  \E i \in 1..Len(ws) : Holds(ws[i], c)
<1>1. PICK f : Meets(ws, f, a, b)
  BY DEF Lane
<1> DEFINE n == Len(ws)
           T == {i \in 0..n : c <= f[i]}
<1>0. n \in Nat
  OBVIOUS
<1>2. n \in Nat /\ f[0] = a /\ f[n] = b /\ \A i \in 0..n : f[i] \in Nat
  BY <1>0, <1>1 DEF Meets
<1>3. T \subseteq Nat /\ n \in T
  BY <1>2
<1>4. PICK i \in T : \A y \in T : i <= y
  BY <1>3, LeastNat
<1>5. i \in 0..n /\ c <= f[i] /\ i # 0
  BY <1>2, <1>4
<1>6. i \in 1..n /\ i - 1 \in 0..n /\ i - 1 \notin T
  BY <1>2, <1>4, <1>5
<1>7. f[i - 1] < c /\ f[i - 1] \in Nat
  BY <1>2, <1>6
<1>8. Run(ws[i], f[i - 1], f[i])
  BY <1>1, <1>6 DEF Meets
<1>9. c - f[i - 1] \in 1..Len(ws[i]) /\ ws[i][c - f[i - 1]] = c
  <2>1. Len(ws[i]) \in Nat /\ f[i] = f[i - 1] + Len(ws[i])
    BY <1>6, <1>8, ElementOfSeq, LenProperties DEF Run
  <2>2. c - f[i - 1] \in 1..Len(ws[i])
    BY <1>2, <1>5, <1>7, <2>1
  <2>3. ws[i][c - f[i - 1]] = f[i - 1] + (c - f[i - 1])
    BY <1>8, <2>2 DEF Run
  <2> QED BY <1>7, <2>2, <2>3
<1> QED BY <1>6, <1>9 DEF Holds

-----------------------------------------------------------------------------
(* Types and control. *)

\* How pc, mode, pending and open go together.
Control ==
    /\ pc \in {"read", "lookback", "place", "advance"} => mode = "stream"
    /\ pc \in {"read", "lookback", "place"} => (open <=> pending # 0)
    /\ pc \in {"advance", "run", "drain", "emit", "done"} => pending = 0
    /\ pc = "advance" => open
    /\ pc = "run" /\ mode = "stream" => open
    /\ pc = "run" => current # NoWindow
    /\ pc \in {"drain", "emit", "done"} => mode # "stream"
    /\ mode # "stream" => ~open
    /\ open => next # <<>>
    /\ InHand => Read > 0
    /\ pc = "emit" => current = NoWindow /\ next = <<>>

\* A window of few cohorts is a window of more.
LEMMA WindowsGrow ==
  ASSUME NEW m \in Nat
  PROVE  /\ Seq(1..m) \subseteq Seq(1..m + 1)
         /\ Seq(Seq(1..m)) \subseteq Seq(Seq(1..m + 1))
<1>1. 1..m \subseteq 1..m + 1
  OBVIOUS
<1>2. Seq(1..m) \subseteq Seq(1..m + 1)
  BY <1>1, SeqMonotonic
<1>3. Seq(Seq(1..m)) \subseteq Seq(Seq(1..m + 1))
  BY <1>2, SeqMonotonic
<1> QED BY <1>2, <1>3

\* Appending to the last window keeps the windows well typed.
LEMMA PushToLastType ==
  ASSUME NEW S, NEW ws \in Seq(Seq(S)), ws # <<>>, NEW c \in S
  PROVE  /\ PushToLast(ws, c) \in Seq(Seq(S))
         /\ PushToLast(ws, c) # <<>>
<1>1. Len(ws) \in 1..Len(ws) /\ ws[Len(ws)] \in Seq(S)
  BY EmptySeq, ElementOfSeq
<1>2. Append(ws[Len(ws)], c) \in Seq(S)
  BY <1>1, AppendProperties
<1>3. /\ PushToLast(ws, c) \in Seq(Seq(S))
      /\ Len(PushToLast(ws, c)) = Len(ws)
  BY <1>1, <1>2, ExceptSeq DEF PushToLast
<1> QED BY <1>1, <1>3

\* Cutting a window gives two windows.
LEMMA CutType ==
  ASSUME NEW S, NEW w \in Seq(S), NEW k \in 1..Len(w)
  PROVE  Head2(w, k) \in Seq(S) /\ Tail2(w, k) \in Seq(S) /\ w[k] \in S
<1>1. Len(w) \in Nat /\ \A i \in 1..Len(w) : w[i] \in S
  BY LenProperties, ElementOfSeq
<1>2. Head2(w, k) \in Seq(S)
  BY <1>1, SubSeqProperties DEF Head2
<1>3. Tail2(w, k) \in Seq(S)
  BY <1>1, SubSeqProperties DEF Tail2
<1> QED BY <1>1, <1>2, <1>3

TypeInv == TypeOK /\ Control

LEMMA InitTypeInv == Init => TypeInv
<1> SUFFICES ASSUME Init  PROVE TypeInv
  OBVIOUS
<1>1. class \in Seq(Classes) /\ Read = 0
  BY DEF Init, Read
<1>2. previous \in Seq(Window) /\ next \in Seq(Window) /\ output \in Window
  BY EmptySeq DEF Init, Window
<1>3. TypeOK
  <2>1. Read <= MaxCohorts
    BY LimitsAssumption, <1>1
  <2>2. /\ pc = "read" /\ mode = "stream" /\ open \in BOOLEAN /\ lookedBack \in BOOLEAN
    BY DEF Init
  <2>3. pending \in 0..Read /\ endtag \subseteq 1..Read /\ current = NoWindow
    BY <1>1 DEF Init
  <2> QED BY <1>1, <1>2, <2>1, <2>2, <2>3 DEF TypeOK
<1>4. Control
  BY DEF Init, Control, InHand
<1> QED BY <1>3, <1>4 DEF TypeInv

\* The type invariant and the control invariant are inductive together.
LEMMA NextTypeInv == TypeInv /\ [Next]_vars => TypeInv'
<1> SUFFICES ASSUME TypeInv, [Next]_vars  PROVE TypeInv'
  OBVIOUS
<1> USE NoWindowAssumption, LimitsAssumption
<1>0. Read \in Nat
  BY DEF TypeInv, TypeOK, Read
<1>1. CASE UNCHANGED vars
  BY <1>1 DEF vars, queues, TypeInv, TypeOK, Control, InHand, Window, Read
<1>2. CASE ReadCohort
  <2>1. PICK k \in Classes : class' = Append(class, k)
    BY <1>2 DEF ReadCohort
  <2>2. class' \in Seq(Classes) /\ Read' = Read + 1 /\ Read' <= MaxCohorts
    BY <1>2, <2>1 DEF ReadCohort, Read, TypeInv, TypeOK
  <2>3. previous' \in Seq(Window') /\ next' \in Seq(Window') /\ output' \in Window'
    BY <1>0, <1>2, <2>2, WindowsGrow DEF ReadCohort, queues, TypeInv, TypeOK, Window
  <2>4. current' \in Window' \cup {NoWindow}
    BY <1>0, <1>2, <2>2, WindowsGrow DEF ReadCohort, queues, TypeInv, TypeOK, Window
  <2>5. pending' \in 0..Read' /\ endtag' \subseteq 1..Read'
    BY <1>0, <1>2, <2>2 DEF ReadCohort, TypeInv, TypeOK
  <2>6. Control'
    BY <1>0, <1>2, <2>2 DEF ReadCohort, queues, TypeInv, Control, InHand
  <2> QED BY <1>2, <2>2, <2>3, <2>4, <2>5, <2>6 DEF ReadCohort, TypeInv, TypeOK
<1>3. CASE NoLookback
  BY <1>3 DEF NoLookback, queues, TypeInv, TypeOK, Control, InHand, Window, Read
<1>4. CASE LookbackMisses
  BY <1>4 DEF LookbackMisses, queues, TypeInv, TypeOK, Control, InHand, Window, Read
<1>5. CASE LookbackCuts
  <2> DEFINE w == LastOf(next)
  <2>1. open /\ next # <<>> /\ Len(next) \in 1..Len(next) /\ w \in Window
    BY <1>5, EmptySeq, ElementOfSeq DEF LookbackCuts, MustLookBack, LastOf, TypeInv, TypeOK, Control
  <2>2. PICK k \in SoftPositions(w) :
          /\ next' = Append([next EXCEPT ![Len(next)] = Head2(w, k)], Tail2(w, k))
          /\ endtag' = endtag \cup {w[k]}
    BY <1>5 DEF LookbackCuts
  <2>3. k \in 1..Len(w)
    BY <2>2 DEF SoftPositions
  <2>4. Head2(w, k) \in Window /\ Tail2(w, k) \in Window /\ w[k] \in 1..Read
    BY <2>1, <2>3, CutType DEF Window
  <2>5. [next EXCEPT ![Len(next)] = Head2(w, k)] \in Seq(Window)
    BY <2>1, <2>4, ExceptSeq DEF TypeInv, TypeOK
  <2>6. next' \in Seq(Window) /\ next' # <<>>
    BY <2>2, <2>4, <2>5, AppendProperties
  <2> HIDE DEF w
  <2> QED BY <1>5, <2>2, <2>4, <2>6 DEF LookbackCuts, TypeInv, TypeOK, Control, InHand, Window, Read
<1>6. CASE OpenFirst
  <2>1. <<>> \in Window
    BY EmptySeq DEF Window
  <2>2. next' \in Seq(Window) /\ next' # <<>>
    BY <1>6, <2>1, AppendProperties DEF OpenFirst, TypeInv, TypeOK
  <2> QED BY <1>6, <2>2 DEF OpenFirst, TypeInv, TypeOK, Control, InHand, Window, Read
<1>7. CASE CloseAndOpen
  <2>1. pending \in 1..Read /\ next # <<>>
    BY <1>0, <1>7 DEF CloseAndOpen, TypeInv, TypeOK, Control
  <2>2. PushToLast(next, pending) \in Seq(Window) /\ <<>> \in Window
    BY <2>1, PushToLastType, EmptySeq DEF TypeInv, TypeOK, Window
  <2>3. next' \in Seq(Window) /\ next' # <<>>
    BY <1>7, <2>2, AppendProperties DEF CloseAndOpen
  <2>4. endtag' \subseteq 1..Read
    BY <1>7, <2>1 DEF CloseAndOpen, TypeInv, TypeOK
  <2>5. Control'
    BY <1>7, <2>1, <2>3 DEF CloseAndOpen, TypeInv, Control, InHand, Read
  <2>6. pending' \in 0..Read'
    BY <1>0, <1>7 DEF CloseAndOpen, Read
  <2> QED BY <1>7, <2>3, <2>4, <2>5, <2>6 DEF CloseAndOpen, TypeInv, TypeOK, Window, Read
<1>8. CASE AppendPending
  <2>1. pending \in 1..Read /\ next # <<>>
    BY <1>0, <1>8 DEF AppendPending, TypeInv, TypeOK, Control
  <2>2. next' \in Seq(Window) /\ next' # <<>>
    BY <1>8, <2>1, PushToLastType DEF AppendPending, TypeInv, TypeOK, Window
  <2> QED BY <1>8, <2>1, <2>2 DEF AppendPending, TypeInv, TypeOK, Control, InHand, Window, Read
<1>9. ASSUME Shuffle
      PROVE  /\ previous' \in Seq(Window) /\ next' \in Seq(Window)
             /\ current' \in Window \cup {NoWindow}
             /\ next = <<>> => current' = NoWindow /\ next' = <<>>
             /\ next # <<>> => current' # NoWindow /\ Len(next') = Len(next) - 1
  <2>1. previous' \in Seq(Window)
    BY <1>9, AppendProperties DEF Shuffle, TypeInv, TypeOK
  <2>2. CASE next = <<>>
    BY <1>9, <2>1, <2>2 DEF Shuffle, TypeInv, TypeOK
  <2>3. CASE next # <<>>
    <3>1. /\ Head(next) \in Window /\ Tail(next) \in Seq(Window)
          /\ Len(Tail(next)) = Len(next) - 1
      BY <2>3, HeadTailProperties DEF TypeInv, TypeOK
    <3>2. Head(next) # NoWindow
      <4>1. Head(next) \in Seq(Nat)
        BY <1>0, <3>1, SeqMonotonic DEF Window
      <4> QED BY <4>1
    <3> QED BY <1>9, <2>1, <2>3, <3>1, <3>2 DEF Shuffle
  <2> QED BY <2>2, <2>3
<1>10. CASE Advance
  <2>1. next # <<>> /\ Len(next) > 1
    BY <1>10 DEF Advance
  <2>2. next' # <<>>
    BY <1>9, <1>10, <2>1 DEF Advance, TypeInv, TypeOK
  <2> QED BY <1>9, <1>10, <2>1, <2>2 DEF Advance, TypeInv, TypeOK, Control, InHand, Window, Read
<1>11. CASE NewPending
  BY <1>0, <1>11 DEF NewPending, queues, TypeInv, TypeOK, Control, InHand, Window, Read
<1>12. ASSUME previous # <<>>, PrintOldest
       PROVE  previous' \in Seq(Window) /\ output' \in Window
  <2>1. Head(previous) \in Window /\ Tail(previous) \in Seq(Window)
    BY <1>12, HeadTailProperties DEF TypeInv, TypeOK
  <2>2. output \o Head(previous) \in Window
    BY <2>1, ConcatProperties DEF TypeInv, TypeOK, Window
  <2> QED BY <1>12, <2>1, <2>2 DEF PrintOldest
<1>13. CASE FlushOldest
  <2>1. previous # <<>>
    BY <1>13 DEF FlushOldest
  <2> QED BY <1>12, <1>13, <2>1 DEF FlushOldest, TypeInv, TypeOK, Control, InHand, Window, Read
<1>14. CASE Delimit
  <2>1. PICK k \in 1..(Len(current) - 1) :
          /\ current' = Head2(current, k)
          /\ next' = <<Tail2(current, k)>> \o next
          /\ endtag' = endtag \cup {current[k]}
    BY <1>14 DEF Delimit
  <2>2. current \in Window
    BY <1>14 DEF Delimit, TypeInv, TypeOK, Control
  <2>3. k \in 1..Len(current)
    BY <2>1, <2>2 DEF Window
  <2>4. Head2(current, k) \in Window /\ Tail2(current, k) \in Window /\ current[k] \in 1..Read
    BY <2>2, <2>3, CutType DEF Window
  <2>5. <<Tail2(current, k)>> \in Seq(Window) /\ Len(<<Tail2(current, k)>>) = 1
    BY <2>4
  <2>6. next' \in Seq(Window) /\ next' # <<>>
    BY <2>1, <2>5, ConcatProperties, ConcatEqualIffEmpty DEF TypeInv, TypeOK
  <2>7. current' # NoWindow
    <3>1. current' \in Seq(Nat)
      BY <1>0, <2>1, <2>4, SeqMonotonic DEF Window
    <3> QED BY <3>1
  <2> QED BY <1>14, <2>1, <2>4, <2>6, <2>7 DEF Delimit, TypeInv, TypeOK, Control, InHand, Window, Read
<1>15. CASE FinishRun
  BY <1>0, <1>15 DEF FinishRun, queues, TypeInv, TypeOK, Control, InHand, Window, Read
<1>16. ASSUME SealPending, pc = "read"
       PROVE  /\ next' \in Seq(Window) /\ endtag' \subseteq 1..Read
              /\ pending' = 0 /\ open' = FALSE
  <2>1. CASE pending # 0
    <3>1. pending \in 1..Read /\ next # <<>>
      BY <1>0, <1>16, <2>1 DEF TypeInv, TypeOK, Control
    <3>2. PushToLast(next, pending) \in Seq(Window)
      BY <3>1, PushToLastType DEF TypeInv, TypeOK, Window
    <3> QED BY <1>16, <2>1, <3>1, <3>2 DEF SealPending, TypeInv, TypeOK
  <2>2. CASE pending = 0
    BY <1>16, <2>2 DEF SealPending, TypeInv, TypeOK, Control
  <2> QED BY <2>1, <2>2
<1>17. CASE FlushCommand
  BY <1>16, <1>17 DEF FlushCommand, TypeInv, TypeOK, Control, InHand, Window, Read
<1>18. CASE EndOfInput
  BY <1>16, <1>18 DEF EndOfInput, TypeInv, TypeOK, Control, InHand, Window, Read
<1>19. CASE DrainNext
  BY <1>9, <1>19 DEF DrainNext, TypeInv, TypeOK, Control, InHand, Window, Read
<1>20. CASE Emit
  BY <1>12, <1>20 DEF Emit, TypeInv, TypeOK, Control, InHand, Window, Read
<1>21. CASE EmitDone
  BY <1>21 DEF EmitDone, queues, TypeInv, TypeOK, Control, InHand, Window, Read
<1>22. CASE ExitCommand
  BY <1>22 DEF ExitCommand, queues, TypeInv, TypeOK, Control, InHand, Window, Read
<1> QED
  BY <1>1, <1>2, <1>3, <1>4, <1>5, <1>6, <1>7, <1>8, <1>10, <1>11, <1>13, <1>14, <1>15,
     <1>17, <1>18, <1>19, <1>20, <1>21, <1>22
     DEF Next, Line, Work, LookBack, PlaceLine, RunWindow, Drain, Stopped

\* The variables keep their types in every behaviour: no null window is run, and
\* every buffered or printed cohort is one that was read.
THEOREM TypeCorrect == Spec => []TypeOK
<1>1. TypeInv => TypeOK
  BY DEF TypeInv
<1> QED BY <1>1, InitTypeInv, NextTypeInv, PTL DEF Spec

-----------------------------------------------------------------------------
(* Order. *)

\* Where the lanes meet: the output holds the first cohorts, previous goes on to
\* q, current to r, next to s; then come the pending cohort and the line in hand.
Joined(q, r, s) ==
    /\ Run(output, 0, Len(output))
    /\ Lane(previous, Len(output), q)
    /\ IF current = NoWindow THEN r = q ELSE Run(current, q, r)
    /\ Lane(next, r, s)
    /\ pending # 0 => pending = s + 1
    /\ Read = s + (IF pending = 0 THEN 0 ELSE 1) + (IF InHand THEN 1 ELSE 0)

\* The strengthening of OutputInOrder and NothingLost that every step preserves.
InputOrder == \E q, r, s \in Nat : Joined(q, r, s)

\* The windows as sequences of numbers, which the lemmas on lanes are about.
LEMMA WindowTypes ==
  ASSUME TypeInv
  PROVE  /\ Read \in Nat /\ Window \subseteq Seq(Nat)
         /\ previous \in Seq(Seq(Nat)) /\ next \in Seq(Seq(Nat))
         /\ output \in Seq(Nat)
         /\ current # NoWindow => current \in Seq(Nat)
<1>1. Read \in Nat
  BY DEF TypeInv, TypeOK, Read
<1>2. Window \subseteq Seq(Nat)
  BY <1>1, SeqMonotonic DEF Window
<1> QED BY <1>1, <1>2, SeqMonotonic DEF TypeInv, TypeOK

LEMMA InitInputOrder == Init => InputOrder
<1> SUFFICES ASSUME Init  PROVE Joined(0, 0, 0)
  BY DEF InputOrder
<1>1. Len(<<>>) = 0 /\ Run(<<>>, 0, 0) /\ Lane(<<>>, 0, 0)
  BY LaneEmpty DEF Run
<1> QED BY <1>1 DEF Init, Joined, InHand, Read

\* No step drops, repeats or reorders a cohort.
LEMMA NextInputOrder == TypeInv /\ InputOrder /\ [Next]_vars => InputOrder'
<1> SUFFICES ASSUME TypeInv, InputOrder, [Next]_vars
             PROVE  \E q, r, s \in Nat : Joined(q, r, s)'
  BY DEF InputOrder
<1>0. PICK q \in Nat, r \in Nat, s \in Nat : Joined(q, r, s)
  BY DEF InputOrder
<1> USE <1>0, NoWindowAssumption, LimitsAssumption
<1>t. /\ Read \in Nat /\ Window \subseteq Seq(Nat)
      /\ previous \in Seq(Seq(Nat)) /\ next \in Seq(Seq(Nat))
      /\ output \in Seq(Nat)
      /\ current # NoWindow => current \in Seq(Nat)
  BY WindowTypes
<1>1. CASE UNCHANGED vars
  BY <1>1 DEF vars, queues, Joined, InHand, Read
<1>2. CASE ReadCohort
  <2>1. Read' = Read + 1
    BY <1>2 DEF ReadCohort, Read, TypeInv, TypeOK
  <2> QED BY <1>2, <1>t, <2>1 DEF ReadCohort, queues, Joined, InHand, TypeInv, Control
<1>3. CASE NoLookback
  BY <1>3 DEF NoLookback, queues, Joined, InHand, Read
<1>4. CASE LookbackMisses
  BY <1>4 DEF LookbackMisses, queues, Joined, InHand, Read
<1>5. CASE LookbackCuts
  <2> DEFINE w == LastOf(next)
  <2>1. next # <<>> /\ w \in Seq(Nat)
    BY <1>5, <1>t, EmptySeq, ElementOfSeq DEF LookbackCuts, MustLookBack, LastOf, TypeInv, Control
  <2>2. PICK k \in SoftPositions(w) :
          next' = Append([next EXCEPT ![Len(next)] = Head2(w, k)], Tail2(w, k))
    BY <1>5 DEF LookbackCuts
  <2>3. k \in 1..Len(w)
    BY <2>2 DEF SoftPositions
  <2>4. PICK m \in Nat :
          /\ Run(w, m, s)
          /\ \A v, c : c \in Nat /\ Run(v, m, c) => Lane([next EXCEPT ![Len(next)] = v], r, c)
    BY <1>t, <2>1, LaneLast DEF Joined
  <2> HIDE DEF w
  <2>5. /\ Head2(w, k) \in Seq(Nat) /\ Tail2(w, k) \in Seq(Nat)
        /\ Run(Head2(w, k), m, m + k) /\ Run(Tail2(w, k), m + k, s)
    BY <2>1, <2>3, <2>4, RunCut
  <2>6. m + k \in Nat
    BY <2>3
  <2>7. Lane([next EXCEPT ![Len(next)] = Head2(w, k)], r, m + k)
    BY <2>4, <2>5, <2>6
  <2>8. [next EXCEPT ![Len(next)] = Head2(w, k)] \in Seq(Seq(Nat))
    BY <1>t, <2>1, <2>5, ExceptSeq, EmptySeq
  <2>9. Lane(next', r, s)
    BY <2>2, <2>5, <2>6, <2>7, <2>8, LaneAppend
  <2>10. Joined(q, r, s)'
    BY <1>5, <2>9 DEF LookbackCuts, Joined, InHand, Read
  <2> QED BY <2>10
<1>6. CASE OpenFirst
  <2>1. <<>> \in Seq(Nat) /\ Run(<<>>, s, s)
    BY DEF Run
  <2>2. Lane(next', r, s)
    BY <1>6, <1>t, <2>1, LaneAppend DEF OpenFirst, Joined
  <2>3. Joined(q, r, s)'
    BY <1>6, <2>2 DEF OpenFirst, Joined, InHand, Read
  <2> QED BY <2>3
<1>7. ASSUME pc \in {"read", "place"}, pending # 0
      PROVE  /\ s + 1 \in Nat /\ pending = s + 1
             /\ PushToLast(next, pending) \in Seq(Seq(Nat))
             /\ Lane(PushToLast(next, pending), r, s + 1)
  <2>1. next # <<>> /\ pending = s + 1 /\ LastOf(next) \in Seq(Nat)
    BY <1>7, <1>t, EmptySeq, ElementOfSeq DEF Joined, LastOf, TypeInv, Control
  <2>2. PICK m \in Nat :
          /\ Run(LastOf(next), m, s)
          /\ \A v, c : c \in Nat /\ Run(v, m, c) => Lane([next EXCEPT ![Len(next)] = v], r, c)
    BY <1>t, <2>1, LaneLast DEF Joined
  <2>3. Run(Append(LastOf(next), s + 1), m, s + 1)
    BY <2>1, <2>2, RunAppend
  <2> DEFINE v == Append(LastOf(next), s + 1)
  <2>4. Lane(PushToLast(next, pending), r, s + 1)
    <3>1. PushToLast(next, pending) = [next EXCEPT ![Len(next)] = v]
      BY <2>1 DEF PushToLast, LastOf
    <3> HIDE DEF v
    <3>2. Run(v, m, s + 1) /\ s + 1 \in Nat
      BY <2>3 DEF v
    <3>3. Lane([next EXCEPT ![Len(next)] = v], r, s + 1)
      BY <2>2, <3>2
    <3> QED BY <3>1, <3>3
  <2>5. PushToLast(next, pending) \in Seq(Seq(Nat))
    BY <1>t, <2>1, PushToLastType
  <2> QED BY <2>1, <2>4, <2>5
<1>8. CASE CloseAndOpen
  <2>1. /\ PushToLast(next, pending) \in Seq(Seq(Nat)) /\ s + 1 \in Nat /\ pending = s + 1
        /\ Lane(PushToLast(next, pending), r, s + 1)
    BY <1>7, <1>8 DEF CloseAndOpen
  <2>2. <<>> \in Seq(Nat) /\ Run(<<>>, s + 1, s + 1)
    BY DEF Run
  <2>3. Lane(next', r, s + 1)
    BY <1>8, <2>1, <2>2, LaneAppend DEF CloseAndOpen
  <2>4. Joined(q, r, s + 1)'
    BY <1>8, <2>1, <2>3 DEF CloseAndOpen, Joined, InHand, Read
  <2> QED BY <2>1, <2>4
<1>9. CASE AppendPending
  <2>1. s + 1 \in Nat /\ pending = s + 1 /\ Lane(next', r, s + 1)
    BY <1>7, <1>9 DEF AppendPending
  <2>2. Joined(q, r, s + 1)'
    BY <1>9, <2>1 DEF AppendPending, Joined, InHand, Read
  <2> QED BY <2>1, <2>2
<1>10. ASSUME Shuffle
       PROVE  \E q1, r1 \in Nat :
                /\ Lane(previous', Len(output), q1)
                /\ IF current' = NoWindow THEN r1 = q1 ELSE Run(current', q1, r1)
                /\ Lane(next', r1, s)
  <2>1. Len(output) \in Nat
    BY <1>t
  <2>2. Lane(previous', Len(output), r)
    <3>1. CASE current = NoWindow
      BY <1>10, <3>1 DEF Shuffle, Joined
    <3>2. CASE current # NoWindow
      <4>1. Lane(previous, Len(output), q) /\ Run(current, q, r) /\ current \in Seq(Nat)
        BY <1>t, <3>2 DEF Joined
      <4>2. Lane(Append(previous, current), Len(output), r)
        BY <1>t, <2>1, <4>1, LaneAppend
      <4> QED BY <1>10, <3>2, <4>2 DEF Shuffle
    <3> QED BY <3>1, <3>2
  <2>3. CASE next = <<>>
    BY <1>10, <2>2, <2>3 DEF Shuffle, Joined
  <2>4. CASE next # <<>>
    <3>1. PICK m \in Nat : Run(Head(next), r, m) /\ Lane(Tail(next), m, s)
      BY <1>t, <2>4, LaneHead DEF Joined
    <3>2. Head(next) # NoWindow
      BY <1>t, <2>4, HeadTailProperties
    <3>3. current' = Head(next) /\ next' = Tail(next)
      BY <1>10, <2>4 DEF Shuffle
    <3> QED BY <2>2, <3>1, <3>2, <3>3
  <2> QED BY <2>3, <2>4
<1>11. CASE Advance
  <2>1. PICK q1 \in Nat, r1 \in Nat :
          /\ Lane(previous', Len(output), q1)
          /\ IF current' = NoWindow THEN r1 = q1 ELSE Run(current', q1, r1)
          /\ Lane(next', r1, s)
    BY <1>10, <1>11 DEF Advance
  <2>2. Joined(q1, r1, s)'
    BY <1>11, <2>1 DEF Advance, Joined, InHand, Read, TypeInv, Control
  <2> QED BY <2>2
<1>12. CASE NewPending
  BY <1>12, <1>t DEF NewPending, queues, Joined, InHand, Read, TypeInv, Control
<1>13. ASSUME previous # <<>>, PrintOldest
       PROVE  Run(output', 0, Len(output')) /\ Lane(previous', Len(output'), q)
  <2>1. PICK m \in Nat : Run(Head(previous), Len(output), m) /\ Lane(Tail(previous), m, q)
    BY <1>t, <1>13, LaneHead DEF Joined
  <2>2. Head(previous) \in Seq(Nat)
    BY <1>t, <1>13, HeadTailProperties
  <2>3. Run(output \o Head(previous), 0, m)
    <3>1. Run(output, 0, Len(output)) /\ 0 \in Nat /\ Len(output) \in Nat
      BY <1>t DEF Joined
    <3> QED BY <1>t, <2>1, <2>2, <3>1, RunConcat
  <2>4. output \o Head(previous) \in Seq(Nat) /\ Len(output \o Head(previous)) \in Nat
    BY <1>t, <2>2, ConcatProperties
  <2>5. m = Len(output \o Head(previous))
    BY <2>3, <2>4 DEF Run
  <2> QED BY <1>13, <2>1, <2>3, <2>5 DEF PrintOldest
<1>14. CASE FlushOldest
  <2>1. previous # <<>>
    BY <1>14 DEF FlushOldest
  <2>2. Joined(q, r, s)'
    BY <1>13, <1>14, <2>1 DEF FlushOldest, Joined, InHand, Read
  <2> QED BY <2>2
<1>15. CASE Delimit
  <2>1. PICK k \in 1..(Len(current) - 1) :
          current' = Head2(current, k) /\ next' = <<Tail2(current, k)>> \o next
    BY <1>15 DEF Delimit
  <2>2. current # NoWindow /\ current \in Seq(Nat)
    BY <1>15, <1>t DEF Delimit, TypeInv, Control
  <2>3. Run(current, q, r) /\ k \in 1..Len(current)
    BY <2>1, <2>2 DEF Joined
  <2>4. /\ Head2(current, k) \in Seq(Nat) /\ Tail2(current, k) \in Seq(Nat)
        /\ Run(Head2(current, k), q, q + k) /\ Run(Tail2(current, k), q + k, r)
    BY <2>2, <2>3, RunCut
  <2>5. q + k \in Nat
    BY <2>3
  <2>6. Lane(next', q + k, s)
    BY <1>t, <2>1, <2>4, <2>5, LaneCons DEF Joined
  <2>7. current' # NoWindow /\ Run(current', q, q + k)
    BY <2>1, <2>4
  <2>8. Joined(q, q + k, s)'
    BY <1>15, <2>6, <2>7 DEF Delimit, Joined, InHand, Read
  <2> QED BY <2>5, <2>8
<1>16. CASE FinishRun
  <2>1. pc = "run" /\ pending = 0 /\ UNCHANGED <<mode, class, queues, output>>
    BY <1>16 DEF FinishRun, TypeInv, Control
  <2>2. CASE mode = "stream"
    <3>1. pending' = Read /\ pc' = "read"
      BY <1>16, <2>2 DEF FinishRun
    <3>2. Joined(q, r, s)'
      BY <1>t, <2>1, <2>2, <3>1 DEF queues, Joined, InHand, Read
    <3> QED BY <3>2
  <2>3. CASE mode # "stream"
    <3>1. pending' = 0 /\ pc' = "drain"
      BY <1>16, <2>1, <2>3 DEF FinishRun
    <3>2. Joined(q, r, s)'
      BY <2>1, <2>3, <3>1 DEF queues, Joined, InHand, Read
    <3> QED BY <3>2
  <2> QED BY <2>2, <2>3
<1>17. ASSUME SealPending, pc = "read",
              UNCHANGED <<class, previous, current, output>>, pc' = "drain"
       PROVE  \E s1 \in Nat : Joined(q, r, s1)'
  <2>1. CASE pending # 0
    <3>1. s + 1 \in Nat /\ pending = s + 1 /\ Lane(next', r, s + 1)
      BY <1>7, <1>17, <2>1 DEF SealPending
    <3>2. Joined(q, r, s + 1)'
      BY <1>17, <2>1, <3>1 DEF SealPending, Joined, InHand, Read
    <3> QED BY <3>1, <3>2
  <2>2. CASE pending = 0
    <3>1. Joined(q, r, s)'
      BY <1>17, <2>2 DEF SealPending, Joined, InHand, Read
    <3> QED BY <3>1
  <2> QED BY <2>1, <2>2
<1>18. CASE FlushCommand
  BY <1>17, <1>18 DEF FlushCommand
<1>19. CASE EndOfInput
  BY <1>17, <1>19 DEF EndOfInput
<1>20. CASE DrainNext
  <2>1. PICK q1 \in Nat, r1 \in Nat :
          /\ Lane(previous', Len(output), q1)
          /\ IF current' = NoWindow THEN r1 = q1 ELSE Run(current', q1, r1)
          /\ Lane(next', r1, s)
    BY <1>10, <1>20 DEF DrainNext
  <2>2. Joined(q1, r1, s)'
    BY <1>20, <2>1 DEF DrainNext, Joined, InHand, Read, TypeInv, Control
  <2> QED BY <2>2
<1>21. CASE Emit
  <2>1. Joined(q, r, s)'
    BY <1>13, <1>21 DEF Emit, Joined, InHand, Read
  <2> QED BY <2>1
<1>22. CASE EmitDone
  BY <1>22 DEF EmitDone, queues, Joined, InHand, Read
<1>23. CASE ExitCommand
  BY <1>23 DEF ExitCommand, queues, Joined, InHand, Read
<1> QED
  BY <1>1, <1>2, <1>3, <1>4, <1>5, <1>6, <1>8, <1>9, <1>11, <1>12, <1>14, <1>15,
     <1>16, <1>18, <1>19, <1>20, <1>21, <1>22, <1>23
     DEF Next, Line, Work, LookBack, PlaceLine, RunWindow, Drain, Stopped

LEMMA InputOrderInvariant == Spec => [](TypeInv /\ InputOrder)
BY InitTypeInv, NextTypeInv, InitInputOrder, NextInputOrder, PTL DEF Spec

\* However the input is cut into windows, whatever DELIMIT does and whenever
\* FLUSH comes, the cohorts printed are the first of the input, in input order.
THEOREM OutputStaysInOrder == Spec => []OutputInOrder
<1>1. TypeInv /\ InputOrder => OutputInOrder
  BY DEF InputOrder, Joined, Run, OutputInOrder
<1> QED BY <1>1, InputOrderInvariant, PTL

\* No cohort that was read is ever dropped: it is printed, or in one of the
\* windows, or pending, or in hand.
THEOREM NothingIsLost == Spec => []NothingLost
<1>1. ASSUME TypeInv, InputOrder, NEW c \in 1..Read
      PROVE  \/ Holds(output, c)
             \/ \E i \in 1..Len(previous) : Holds(previous[i], c)
             \/ current # NoWindow /\ Holds(current, c)
             \/ \E i \in 1..Len(next) : Holds(next[i], c)
             \/ c = pending
             \/ c = Read /\ InHand
  <2>1. PICK q \in Nat, r \in Nat, s \in Nat : Joined(q, r, s)
    BY <1>1 DEF InputOrder
  <2>2. /\ previous \in Seq(Seq(Nat)) /\ next \in Seq(Seq(Nat)) /\ Read \in Nat
        /\ output \in Seq(Nat)
        /\ current # NoWindow => current \in Seq(Nat)
    BY <1>1, WindowTypes
  <2>3. Len(output) \in Nat /\ c \in Nat
    BY <2>2
  <2>4. CASE c <= Len(output)
    <3>1. c \in 1..Len(output) /\ output[c] = c
      BY <2>1, <2>3, <2>4 DEF Joined, Run
    <3> QED BY <3>1 DEF Holds
  <2>5. CASE Len(output) < c /\ c <= q
    BY <2>1, <2>2, <2>3, <2>5, LaneHolds DEF Joined
  <2>6. CASE q < c /\ c <= r
    <3>1. current # NoWindow /\ Run(current, q, r)
      BY <2>1, <2>3, <2>6 DEF Joined
    <3>2. Len(current) \in Nat /\ r = q + Len(current)
      BY <2>2, <3>1 DEF Run
    <3>3. c - q \in 1..Len(current)
      BY <2>3, <2>6, <3>2
    <3>4. current[c - q] = q + (c - q)
      BY <3>1, <3>3 DEF Run
    <3>5. current[c - q] = c
      BY <2>3, <3>4
    <3> QED BY <3>1, <3>3, <3>5 DEF Holds
  <2>7. CASE r < c /\ c <= s
    BY <2>1, <2>2, <2>3, <2>7, LaneHolds DEF Joined
  <2>8. CASE s < c
    BY <2>1, <2>2, <2>3, <2>8 DEF Joined
  <2> QED BY <2>1, <2>3, <2>4, <2>5, <2>6, <2>7, <2>8
<1>2. TypeInv /\ InputOrder => NothingLost
  BY <1>1 DEF NothingLost
<1> QED BY <1>2, InputOrderInvariant, PTL

-----------------------------------------------------------------------------
(* Implementation of CohortStream. *)

\* Printing the oldest window is one Write of the stream, or prints nothing.
LEMMA PrintIsWrite ==
  ASSUME TypeInv, InputOrder, previous # <<>>, PrintOldest, UNCHANGED <<class, pc, mode>>,
         phase \in {"streaming", "flushing", "closing"}
  PROVE  [Stream!Next]_(Stream!vars)
<1>1. PICK q \in Nat, r \in Nat, s \in Nat : Joined(q, r, s)
  BY DEF InputOrder
<1>2. /\ Read \in Nat /\ output \in Seq(Nat) /\ Len(output) \in Nat
      /\ previous \in Seq(Seq(Nat)) /\ next \in Seq(Seq(Nat))
      /\ current # NoWindow => current \in Seq(Nat)
  BY WindowTypes
<1> DEFINE h == Head(previous)
           n == Len(h)
           t == [i \in 1..n |-> Len(output) + i]
<1>3. PICK m \in Nat : Run(h, Len(output), m) /\ Lane(Tail(previous), m, q)
  BY <1>1, <1>2, LaneHead DEF Joined
<1>4. h \in Seq(Nat) /\ n \in Nat /\ Tail(previous) \in Seq(Seq(Nat))
  BY <1>2, HeadTailProperties
<1>5. h = t
  <2>1. t \in Seq(Nat) /\ Len(t) = n
    BY <1>2, <1>4
  <2>2. \A i \in 1..n : h[i] = t[i]
    BY <1>3 DEF Run
  <2> HIDE DEF t, h
  <2> QED BY <1>4, <2>1, <2>2, SeqEqual
<1>6. m = Len(output) + n
  BY <1>3 DEF Run
<1>7. m <= q
  BY <1>3, <1>4, LaneMonotone
<1>8. q <= s
  <2>1. r <= s
    BY <1>1, <1>2, LaneMonotone DEF Joined
  <2>2. q <= r
    BY <1>1, <1>2 DEF Joined, Run
  <2> QED BY <2>1, <2>2
<1>9. s <= Read
  BY <1>1, <1>2 DEF Joined
<1>10. n \in 0..Read - Len(output)
  BY <1>2, <1>4, <1>6, <1>7, <1>8, <1>9
<1>11. output' = output \o t /\ Read' = Read /\ phase' = phase
  BY <1>5 DEF PrintOldest, Read, phase
<1>12. CASE n = 0
  <2>1. h = <<>>
    BY <1>4, <1>12, EmptySeq
  <2>2. output' = output
    BY <1>2, <1>5, <1>11, <2>1, ConcatEmptySeq
  <2> QED BY <1>11, <2>2 DEF Stream!vars
<1>13. CASE n # 0
  <2>1. n \in 1..Read - Len(output)
    BY <1>2, <1>10, <1>13
  <2> HIDE DEF n
  <2>2. Stream!Write
    BY <1>11, <2>1 DEF Stream!Write
  <2> QED BY <2>2 DEF Stream!Next
<1> QED BY <1>12, <1>13

\* Every step of the pipeline is a step of the stream or none.
LEMMA NextIsStream ==
  TypeInv /\ InputOrder /\ [Next]_vars => [Stream!Next]_(Stream!vars)
<1> SUFFICES ASSUME TypeInv, InputOrder, [Next]_vars
             PROVE  [Stream!Next]_(Stream!vars)
  OBVIOUS
<1> USE DEF Stream!vars
<1>1. ASSUME UNCHANGED <<class, output, phase>>  PROVE [Stream!Next]_(Stream!vars)
  BY <1>1 DEF Read
<1>2. CASE UNCHANGED vars
  BY <1>1, <1>2 DEF vars, phase
<1>3. CASE ReadCohort
  <2>1. Read' = Read + 1
    BY <1>3 DEF ReadCohort, Read, TypeInv, TypeOK
  <2>2. Stream!Accept
    BY <1>3, <2>1 DEF ReadCohort, Stream!Accept, phase, TypeInv, Control
  <2> QED BY <2>2 DEF Stream!Next
<1>4. CASE LookBack
  BY <1>1, <1>4 DEF LookBack, NoLookback, LookbackMisses, LookbackCuts, phase, TypeInv, Control
<1>5. CASE PlaceLine
  BY <1>1, <1>5 DEF PlaceLine, OpenFirst, CloseAndOpen, AppendPending, phase, TypeInv, Control
<1>6. CASE Advance \/ NewPending
  BY <1>1, <1>6 DEF Advance, NewPending, phase, TypeInv, Control
<1>7. CASE FlushOldest
  <2>1. previous # <<>> /\ PrintOldest /\ UNCHANGED <<class, pc, mode>>
    BY <1>7, LimitsAssumption DEF FlushOldest
  <2>2. phase \in {"streaming", "flushing", "closing"}
    BY <1>7 DEF FlushOldest, phase
  <2> QED BY <2>1, <2>2, PrintIsWrite
<1>8. CASE Delimit \/ FinishRun
  BY <1>1, <1>8 DEF Delimit, FinishRun, phase, TypeInv, Control
<1>9. CASE FlushCommand
  <2>1. Stream!Flush
    BY <1>9 DEF FlushCommand, Stream!Flush, phase, Read, TypeInv, Control
  <2> QED BY <2>1 DEF Stream!Next
<1>10. CASE EndOfInput
  <2>1. Stream!Close
    BY <1>10 DEF EndOfInput, Stream!Close, phase, Read, TypeInv, Control
  <2> QED BY <2>1 DEF Stream!Next
<1>11. CASE DrainNext
  BY <1>1, <1>11 DEF DrainNext, phase, TypeInv, Control
<1>12. CASE Emit
  <2>1. previous # <<>> /\ PrintOldest /\ UNCHANGED <<class, pc, mode>>
    BY <1>12 DEF Emit
  <2>2. phase \in {"streaming", "flushing", "closing"}
    BY <1>12 DEF Emit, phase
  <2> QED BY <2>1, <2>2, PrintIsWrite
<1>13. CASE EmitDone
  <2>1. PICK q \in Nat, r \in Nat, s \in Nat : Joined(q, r, s)
    BY DEF InputOrder
  <2>2. current = NoWindow /\ next = <<>> /\ previous = <<>> /\ pending = 0 /\ ~InHand
    BY <1>13 DEF EmitDone, TypeInv, Control, InHand
  <2>3. Len(output) \in Nat
    BY WindowTypes
  <2>4. q = Len(output) /\ r = q /\ s = r
    BY <2>1, <2>2, <2>3, LaneOfNone DEF Joined
  <2>5. Len(output) = Read
    BY <2>1, <2>2, <2>4 DEF Joined
  <2>6. CASE mode = "flush"
    <3>1. Stream!Flushed
      BY <1>13, <2>5, <2>6 DEF EmitDone, Stream!Flushed, phase, Read
    <3> QED BY <3>1 DEF Stream!Next
  <2>7. CASE mode = "eof"
    <3>1. phase = "closing"
      BY <1>13, <2>7 DEF EmitDone, phase
    <3>2. phase' = "closed"
      <4>1. pc' = "done"
        BY <1>13, <2>7 DEF EmitDone
      <4> QED BY <4>1 DEF phase
    <3>3. Stream!Closed
      BY <1>13, <2>5, <3>1, <3>2 DEF EmitDone, Stream!Closed, Read
    <3> QED BY <3>3 DEF Stream!Next
  <2> QED BY <1>13, <2>6, <2>7 DEF EmitDone, TypeInv, TypeOK, Control
<1>14. CASE ExitCommand
  <2>1. Stream!Drop
    BY <1>14 DEF ExitCommand, Stream!Drop, phase, Read, TypeInv, Control
  <2> QED BY <2>1 DEF Stream!Next
<1> QED
  BY <1>2, <1>3, <1>4, <1>5, <1>6, <1>7, <1>8, <1>9, <1>10, <1>11, <1>12, <1>13, <1>14
     DEF Next, Line, Work, RunWindow, Drain, Stopped

\* Seen from outside, the pipeline is a first-in first-out stream: windows,
\* limits and queues never show in what is printed, a FLUSH ends only when all
\* that was read before it is printed, and so does the input.
THEOREM PipelineImplementsStream == Spec => ImplementsStream
<1>1. Init => Stream!Init
  BY DEF Init, Stream!Init, phase, Read
<1> QED BY <1>1, NextIsStream, InputOrderInvariant, PTL DEF Spec, ImplementsStream, Stream!Spec

-----------------------------------------------------------------------------
(* The windows of a lane lie apart.                                        *)

\* Marks that never go down from one to the next never go down: none could be
\* the first below f[i].
LEMMA Climbing ==
  ASSUME NEW n \in Nat, NEW f \in [0..n -> Nat], \A k \in 1..n : f[k - 1] <= f[k],
         NEW i \in 0..n, NEW j \in 0..n, i <= j
  PROVE  f[i] <= f[j]
<1> DEFINE T == {k \in i..n : f[k] < f[i]}
<1>1. CASE T = {}
  <2>1. j \in i..n /\ f[i] \in Nat /\ f[j] \in Nat
    OBVIOUS
  <2>2. ~(f[j] < f[i])
    BY <1>1, <2>1
  <2> QED BY <2>1, <2>2
<1>2. CASE T # {}
  <2>1. T \subseteq Nat
    OBVIOUS
  <2>2. PICK k \in T : \A y \in T : k <= y
    BY <1>2, <2>1, LeastNat
  <2>3. k \in i..n /\ f[k] < f[i] /\ k # i
    BY <2>2
  <2>4. k \in 1..n /\ k - 1 \in i..n /\ k - 1 \notin T
    BY <2>2, <2>3
  <2>5. f[k - 1] <= f[k] /\ ~(f[k - 1] < f[i]) /\ k - 1 \in 0..n /\ k \in 0..n
    BY <2>4
  <2>6. f[k - 1] \in Nat /\ f[k] \in Nat /\ f[i] \in Nat
    BY <2>5
  <2> QED BY <2>3, <2>5, <2>6
<1> QED BY <1>1, <1>2

\* The marks of a lane never go down.
LEMMA MarksClimb ==
  ASSUME NEW ws \in Seq(Seq(Nat)), NEW a \in Nat, NEW b \in Nat, NEW f, Meets(ws, f, a, b)
  PROVE  /\ f \in [0..Len(ws) -> Nat]
         /\ \A i, j \in 0..Len(ws) : i <= j => f[i] <= f[j]
<1>1. Len(ws) \in Nat /\ f \in [0..Len(ws) -> Nat]
  BY LenProperties DEF Meets
<1>2. ASSUME NEW k \in 1..Len(ws)  PROVE f[k - 1] <= f[k]
  <2> DEFINE lo == f[k - 1]  hi == f[k]  m == Len(ws[k])
  <2>1. hi = lo + m
    BY DEF Meets, Run
  <2>2. m \in Nat
    BY ElementOfSeq, LenProperties
  <2>3. lo \in Nat
    <3>1. k - 1 \in 0..Len(ws)
      BY <1>1
    <3> QED BY <1>1, <3>1
  <2> HIDE DEF lo, hi, m
  <2>4. lo <= hi
    BY <2>1, <2>2, <2>3
  <2> QED BY <2>4 DEF lo, hi
<1> QED BY <1>1, <1>2, Climbing

\* A cohort of a window of a lane lies between the marks of the window.
LEMMA MarksBound ==
  ASSUME NEW ws \in Seq(Seq(Nat)), NEW a \in Nat, NEW b \in Nat, NEW f, Meets(ws, f, a, b),
         NEW i \in 1..Len(ws), NEW k \in 1..Len(ws[i])
  PROVE  ws[i][k] \in Nat /\ f[i - 1] < ws[i][k] /\ ws[i][k] <= f[i]
<1> DEFINE m == Len(ws[i])  x == ws[i][k]  lo == f[i - 1]  hi == f[i]
<1>1. lo \in Nat
  <2>1. i - 1 \in 0..Len(ws) /\ f \in [0..Len(ws) -> Nat]
    BY LenProperties DEF Meets
  <2> QED BY <2>1
<1>2. m \in Nat /\ k \in 1..m
  BY ElementOfSeq, LenProperties
<1>3. hi = lo + m /\ x = lo + k
  BY DEF Meets, Run
<1>4. x \in Nat /\ lo < x /\ x <= hi
  <2> HIDE DEF m, x, lo, hi
  <2> QED BY <1>1, <1>2, <1>3
<1> QED BY <1>4

\* The cohorts of a lane lie between its ends.
LEMMA LaneRange ==
  ASSUME NEW ws \in Seq(Seq(Nat)), NEW a \in Nat, NEW b \in Nat, Lane(ws, a, b),
         NEW i \in 1..Len(ws), NEW k \in 1..Len(ws[i])
  PROVE  ws[i][k] \in Nat /\ a < ws[i][k] /\ ws[i][k] <= b
<1>1. PICK f : Meets(ws, f, a, b)
  BY DEF Lane
<1> DEFINE x == ws[i][k]  lo == f[i - 1]  hi == f[i]
<1>2. Len(ws) \in Nat
  BY LenProperties
<1>3. /\ i - 1 \in 0..Len(ws) /\ i \in 0..Len(ws) /\ 0 \in 0..Len(ws)
      /\ Len(ws) \in 0..Len(ws) /\ 0 <= i - 1 /\ i <= Len(ws)
  BY <1>2
<1>4. f[0] = a /\ f[Len(ws)] = b
  BY <1>1 DEF Meets
<1>5. f \in [0..Len(ws) -> Nat] /\ \A p, q \in 0..Len(ws) : p <= q => f[p] <= f[q]
  BY <1>1, MarksClimb
<1>6. a <= lo /\ lo \in Nat /\ hi <= b /\ hi \in Nat
  BY <1>3, <1>4, <1>5
<1>7. x \in Nat /\ lo < x /\ x <= hi
  BY <1>1, MarksBound
<1> HIDE DEF x, lo, hi
<1>8. x \in Nat /\ a < x /\ x <= b
  BY <1>6, <1>7
<1> QED BY <1>8 DEF x

\* A cohort of an earlier window of a lane comes before those of a later one.
LEMMA LaneApart ==
  ASSUME NEW ws \in Seq(Seq(Nat)), NEW a \in Nat, NEW b \in Nat, Lane(ws, a, b),
         NEW i \in 1..Len(ws), NEW j \in 1..Len(ws), i < j,
         NEW k \in 1..Len(ws[i]), NEW l \in 1..Len(ws[j])
  PROVE  ws[i][k] < ws[j][l]
<1>1. PICK f : Meets(ws, f, a, b)
  BY DEF Lane
<1> DEFINE x == ws[i][k]  y == ws[j][l]  lo == f[i]  hi == f[j - 1]
<1>2. Len(ws) \in Nat /\ j - 1 \in 0..Len(ws) /\ i \in 0..Len(ws) /\ i <= j - 1
  BY LenProperties
<1>3. lo \in Nat /\ hi \in Nat /\ lo <= hi
  <2>1. f \in [0..Len(ws) -> Nat] /\ \A p, q \in 0..Len(ws) : p <= q => f[p] <= f[q]
    BY <1>1, MarksClimb
  <2> QED BY <1>2, <2>1
<1>4. x \in Nat /\ x <= lo
  BY <1>1, MarksBound
<1>5. y \in Nat /\ hi < y
  BY <1>1, MarksBound
<1> HIDE DEF x, y, lo, hi
<1>6. x < y
  BY <1>3, <1>4, <1>5
<1> QED BY <1>6 DEF x, y

\* A cohort of a run lies between its ends, and stands once in it.
LEMMA RunRange ==
  ASSUME NEW w \in Seq(Nat), NEW a \in Nat, NEW b \in Nat, Run(w, a, b),
         NEW k \in 1..Len(w)
  PROVE  /\ w[k] \in Nat /\ a < w[k] /\ w[k] <= b
         /\ \A l \in 1..Len(w) : w[l] = w[k] <=> l = k
<1> DEFINE n == Len(w)
<1>1. n \in Nat
  BY LenProperties
<1>2. b = a + n /\ \A l \in 1..n : w[l] = a + l
  BY DEF Run
<1> HIDE DEF n
<1>3. k \in 1..n
  BY DEF n
<1>4. w[k] = a + k /\ w[k] \in Nat /\ a < w[k] /\ w[k] <= b
  BY <1>1, <1>2, <1>3
<1>5. \A l \in 1..n : w[l] = w[k] <=> l = k
  BY <1>1, <1>2, <1>3
<1> QED BY <1>4, <1>5 DEF n

-----------------------------------------------------------------------------
(* Sealed windows.                                                         *)

\* w ends with the only cohort of it that is in E.
SealedIn(w, E) == w # <<>> /\ \A i \in 1..Len(w) : w[i] \in E <=> i = Len(w)

FreeOf(w, E) == \A i \in 1..Len(w) : w[i] \notin E

Lacks(w, c) == \A i \in 1..Len(w) : w[i] # c

\* The windows ws are sealed by E, but the last one, if o, is free of E.
Seals(ws, o, E) ==
    \A i \in 1..Len(ws) : IF i < Len(ws) \/ ~o THEN SealedIn(ws[i], E) ELSE FreeOf(ws[i], E)

\* Sealing a cohort that is in none of the windows leaves them as they were.
LEMMA SealsKept ==
  ASSUME NEW ws, NEW o, NEW E, NEW c, Seals(ws, o, E), \A i \in 1..Len(ws) : Lacks(ws[i], c)
  PROVE  Seals(ws, o, E \cup {c})
BY DEF Seals, SealedIn, FreeOf, Lacks

\* A sealed window may be put behind sealed windows.
LEMMA SealsAppend ==
  ASSUME NEW ws \in Seq(Seq(Nat)), NEW w \in Seq(Nat), NEW E, Seals(ws, FALSE, E), SealedIn(w, E)
  PROVE  Seals(Append(ws, w), FALSE, E)
<1>1. /\ Len(ws) \in Nat /\ Len(Append(ws, w)) = Len(ws) + 1
      /\ \A i \in 1..Len(ws) : Append(ws, w)[i] = ws[i]
      /\ Append(ws, w)[Len(ws) + 1] = w
  BY AppendProperties, LenProperties
<1>2. ASSUME NEW i \in 1..Len(ws) + 1  PROVE SealedIn(Append(ws, w)[i], E)
  <2>1. CASE i = Len(ws) + 1
    BY <1>1, <2>1
  <2>2. CASE i # Len(ws) + 1
    <3>1. i \in 1..Len(ws)
      BY <1>1, <2>2
    <3> QED BY <1>1, <3>1 DEF Seals
  <2> QED BY <2>1, <2>2
<1> QED BY <1>1, <1>2 DEF Seals

\* Behind sealed windows a window without <<< may be opened.
LEMMA SealsOpen ==
  ASSUME NEW ws \in Seq(Seq(Nat)), NEW w \in Seq(Nat), NEW E, Seals(ws, FALSE, E), FreeOf(w, E)
  PROVE  Seals(Append(ws, w), TRUE, E)
<1>1. /\ Len(ws) \in Nat /\ Len(Append(ws, w)) = Len(ws) + 1
      /\ \A i \in 1..Len(ws) : Append(ws, w)[i] = ws[i]
      /\ Append(ws, w)[Len(ws) + 1] = w
  BY AppendProperties, LenProperties
<1>2. ASSUME NEW i \in 1..Len(ws) + 1
      PROVE  IF i < Len(ws) + 1 THEN SealedIn(Append(ws, w)[i], E) ELSE FreeOf(Append(ws, w)[i], E)
  <2>1. CASE i = Len(ws) + 1
    BY <1>1, <2>1
  <2>2. CASE i # Len(ws) + 1
    <3>1. i \in 1..Len(ws) /\ i < Len(ws) + 1
      BY <1>1, <2>2
    <3> QED BY <1>1, <3>1 DEF Seals
  <2> QED BY <2>1, <2>2
<1> QED BY <1>1, <1>2 DEF Seals

\* A sealed window may be put in front.
LEMMA SealsCons ==
  ASSUME NEW ws \in Seq(Seq(Nat)), NEW w \in Seq(Nat), NEW o \in BOOLEAN, NEW E,
         Seals(ws, o, E), SealedIn(w, E), o => ws # <<>>
  PROVE  Seals(<<w>> \o ws, o, E)
<1> DEFINE n == Len(ws)  v == <<w>> \o ws
<1>1. /\ n \in Nat /\ Len(v) = n + 1
      /\ \A i \in 1..n + 1 : v[i] = IF i <= 1 THEN w ELSE ws[i - 1]
  <2>1. <<w>> \in Seq(Seq(Nat)) /\ Len(<<w>>) = 1 /\ <<w>>[1] = w
    OBVIOUS
  <2> QED BY <2>1, ConcatProperties, LenProperties
<1>2. o => n > 0
  BY EmptySeq
<1> HIDE DEF v
<1>3. ASSUME NEW i \in 1..n + 1
      PROVE  IF i < n + 1 \/ ~o THEN SealedIn(v[i], E) ELSE FreeOf(v[i], E)
  <2>1. CASE i = 1
    BY <1>1, <1>2, <2>1
  <2>2. CASE i # 1
    <3>1. i - 1 \in 1..n /\ v[i] = ws[i - 1] /\ (i - 1 < n <=> i < n + 1)
      BY <1>1, <2>2
    <3> QED BY <3>1 DEF Seals
  <2> QED BY <2>1, <2>2
<1>4. Seals(v, o, E)
  BY <1>1, <1>3 DEF Seals
<1> QED BY <1>4 DEF v

\* The first of the windows is sealed unless it is the open one, and so are the others.
LEMMA SealsTail ==
  ASSUME NEW ws \in Seq(Seq(Nat)), ws # <<>>, NEW o \in BOOLEAN, NEW E,
         Seals(ws, o, E), o => Len(ws) > 1
  PROVE  SealedIn(Head(ws), E) /\ Seals(Tail(ws), o, E)
<1> DEFINE n == Len(ws)
<1>1. /\ n \in Nat /\ n > 0 /\ Len(Tail(ws)) = n - 1 /\ Head(ws) = ws[1]
      /\ \A i \in 1..n - 1 : Tail(ws)[i] = ws[i + 1]
  BY HeadTailProperties, LenProperties, EmptySeq
<1>2. SealedIn(Head(ws), E)
  <2>1. 1 \in 1..n /\ (1 < n \/ ~o)
    BY <1>1
  <2> QED BY <1>1, <2>1 DEF Seals
<1>3. ASSUME NEW i \in 1..n - 1
      PROVE  IF i < n - 1 \/ ~o THEN SealedIn(Tail(ws)[i], E) ELSE FreeOf(Tail(ws)[i], E)
  <2>1. i + 1 \in 1..n /\ (i + 1 < n <=> i < n - 1)
    BY <1>1
  <2> QED BY <1>1, <2>1 DEF Seals
<1> QED BY <1>1, <1>2, <1>3 DEF Seals

\* The open window may be replaced by one that is still open, and closed with a
\* cohort that the others do not have.
LEMMA SealsLast ==
  ASSUME NEW ws \in Seq(Seq(Nat)), ws # <<>>, NEW w \in Seq(Nat), NEW E, Seals(ws, TRUE, E)
  PROVE  /\ FreeOf(LastOf(ws), E)
         /\ FreeOf(w, E) => Seals([ws EXCEPT ![Len(ws)] = w], TRUE, E)
         /\ \A c : /\ SealedIn(w, E \cup {c})
                   /\ \A i \in 1..Len(ws) : i < Len(ws) => Lacks(ws[i], c)
                   => Seals([ws EXCEPT ![Len(ws)] = w], FALSE, E \cup {c})
<1> DEFINE n == Len(ws)  v == [ws EXCEPT ![n] = w]
<1>1. n \in Nat /\ n \in 1..n /\ ~(n < n)
  BY LenProperties, EmptySeq
<1>2. v \in Seq(Seq(Nat)) /\ Len(v) = n /\ v[n] = w /\ \A i \in 1..n : i # n => v[i] = ws[i]
  BY <1>1, ExceptSeq
<1> HIDE DEF v
<1>3. FreeOf(LastOf(ws), E)
  BY <1>1 DEF Seals, LastOf
<1>4. ASSUME NEW i \in 1..n, i # n  PROVE i < n
  BY <1>1, <1>4
<1>5. ASSUME FreeOf(w, E)  PROVE Seals(v, TRUE, E)
  BY <1>1, <1>2, <1>4, <1>5 DEF Seals
<1>6. ASSUME NEW c, SealedIn(w, E \cup {c}), \A i \in 1..n : i < n => Lacks(ws[i], c)
      PROVE  Seals(v, FALSE, E \cup {c})
  <2>1. ASSUME NEW i \in 1..n  PROVE SealedIn(v[i], E \cup {c})
    <3>1. CASE i = n
      BY <1>2, <1>6, <3>1
    <3>2. CASE i # n
      <4>1. i < n /\ v[i] = ws[i] /\ Lacks(ws[i], c) /\ SealedIn(ws[i], E)
        BY <1>2, <1>4, <1>6, <3>2 DEF Seals
      <4> QED BY <4>1 DEF SealedIn, Lacks
    <3> QED BY <3>1, <3>2
  <2> QED BY <1>2, <2>1 DEF Seals
<1> QED BY <1>3, <1>5, <1>6 DEF v

\* A window without <<< is sealed by a new cohort that gets it.
LEMMA SealAppend ==
  ASSUME NEW w \in Seq(Nat), NEW E, NEW c \in Nat, FreeOf(w, E), Lacks(w, c)
  PROVE  SealedIn(Append(w, c), E \cup {c})
<1>1. /\ Len(w) \in Nat /\ Len(Append(w, c)) = Len(w) + 1 /\ Append(w, c) # <<>>
      /\ \A i \in 1..Len(w) : Append(w, c)[i] = w[i]
      /\ Append(w, c)[Len(w) + 1] = c
  BY AppendProperties, LenProperties
<1>2. ASSUME NEW i \in 1..Len(w) + 1
      PROVE  Append(w, c)[i] \in E \cup {c} <=> i = Len(w) + 1
  <2>1. CASE i = Len(w) + 1
    BY <1>1, <2>1
  <2>2. CASE i # Len(w) + 1
    <3>1. i \in 1..Len(w)
      BY <1>1, <2>2
    <3> QED BY <1>1, <2>2, <3>1 DEF FreeOf, Lacks
  <2> QED BY <2>1, <2>2
<1> QED BY <1>1, <1>2 DEF SealedIn

\* Cutting a window behind cohort k seals what is before the cut with cohort k;
\* what is behind it stays sealed, or open, as the window was.
LEMMA SealCut ==
  ASSUME NEW w \in Seq(Nat), NEW E, NEW k \in 1..Len(w),
         \A i \in 1..Len(w) : w[i] = w[k] <=> i = k,
         \A i \in 1..Len(w) : w[i] \in E => i = Len(w)
  PROVE  /\ k < Len(w) \/ FreeOf(w, E) => SealedIn(Head2(w, k), E \cup {w[k]})
         /\ FreeOf(w, E) => FreeOf(Tail2(w, k), E \cup {w[k]})
         /\ k < Len(w) /\ SealedIn(w, E) => SealedIn(Tail2(w, k), E \cup {w[k]})
<1> DEFINE n == Len(w)  h == Head2(w, k)  t == Tail2(w, k)
<1>1. n \in Nat /\ k \in Nat /\ 1 <= k /\ k <= n
  BY LenProperties
<1>2. h \in Seq(Nat) /\ Len(h) = k /\ \A i \in 1..k : h[i] = w[i]
  BY DEF Head2
<1>3. t \in Seq(Nat) /\ Len(t) = n - k /\ \A i \in 1..n - k : t[i] = w[k + i]
  BY DEF Tail2
<1> HIDE DEF h, t
<1>4. ASSUME k < n \/ FreeOf(w, E)  PROVE SealedIn(h, E \cup {w[k]})
  <2>1. ASSUME NEW i \in 1..k  PROVE h[i] \in E \cup {w[k]} <=> i = k
    <3>1. i \in 1..n
      BY <1>1
    <3>2. CASE k < n
      BY SMTT(60), <1>1, <1>2, <3>1, <3>2
    <3>3. CASE FreeOf(w, E)
      BY <1>1, <1>2, <3>1, <3>3 DEF FreeOf
    <3> QED BY <1>4, <3>2, <3>3
  <2>2. h # <<>>
    BY <1>1, <1>2
  <2> QED BY <1>2, <2>1, <2>2 DEF SealedIn
<1>5. ASSUME FreeOf(w, E)  PROVE FreeOf(t, E \cup {w[k]})
  <2>1. ASSUME NEW i \in 1..n - k  PROVE t[i] \notin E \cup {w[k]}
    <3>1. k + i \in 1..n /\ k + i # k
      BY <1>1
    <3> QED BY <1>3, <1>5, <3>1 DEF FreeOf
  <2> QED BY <1>3, <2>1 DEF FreeOf
<1>6. ASSUME k < n, SealedIn(w, E)  PROVE SealedIn(t, E \cup {w[k]})
  <2>1. ASSUME NEW i \in 1..n - k  PROVE t[i] \in E \cup {w[k]} <=> i = n - k
    <3>1. k + i \in 1..n /\ k + i # k /\ (k + i = n <=> i = n - k)
      BY <1>1
    <3> QED BY <1>3, <1>6, <3>1 DEF SealedIn
  <2>2. t # <<>>
    BY <1>1, <1>3, <1>6
  <2> QED BY <1>3, <2>1, <2>2 DEF SealedIn
<1> QED BY <1>4, <1>5, <1>6 DEF h, t

-----------------------------------------------------------------------------
(* <<< is on the last cohort of every window that is complete.             *)

\* The last cohort that is in a window or printed.
Placed == Read - (IF pending = 0 THEN 0 ELSE 1) - (IF InHand THEN 1 ELSE 0)

\* WindowsSealed, and no cohort that is still to come has <<<.
SealInv == WindowsSealed /\ \A c \in endtag : c <= Placed

\* WindowsSealed, now and after a step, as a statement about the queues.
LEMMA SealsRestated ==
  /\ WindowsSealed <=>
       /\ Seals(previous, FALSE, endtag)
       /\ current # NoWindow => SealedIn(current, endtag)
       /\ Seals(next, open, endtag)
  /\ WindowsSealed' <=>
       /\ Seals(previous', FALSE, endtag')
       /\ current' # NoWindow => SealedIn(current', endtag')
       /\ Seals(next', open', endtag')
BY DEF WindowsSealed, Sealed, IsClosed, Seals, SealedIn, FreeOf

\* Where the windows end is where the cohorts placed end.
LEMMA PlacedIsJoined ==
  ASSUME TypeInv, NEW q \in Nat, NEW r \in Nat, NEW s \in Nat, Joined(q, r, s)
  PROVE  s = Placed
<1>1. Read \in Nat
  BY WindowTypes
<1> QED BY <1>1 DEF Joined, Placed

\* A cohort that is not placed yet is in no window.
LEMMA NewIsNowhere ==
  ASSUME TypeInv, NEW q \in Nat, NEW r \in Nat, NEW s \in Nat, Joined(q, r, s),
         NEW c \in Nat, s < c
  PROVE  /\ \A i \in 1..Len(previous) : Lacks(previous[i], c)
         /\ current # NoWindow => Lacks(current, c)
         /\ \A i \in 1..Len(next) : Lacks(next[i], c)
<1>1. /\ previous \in Seq(Seq(Nat)) /\ next \in Seq(Seq(Nat)) /\ Len(output) \in Nat
      /\ current # NoWindow => current \in Seq(Nat)
  BY WindowTypes
<1>2. r <= s
  BY <1>1, LaneMonotone DEF Joined
<1>3. q <= r
  BY <1>1 DEF Joined, Run
<1>4. ASSUME NEW i \in 1..Len(previous), NEW k \in 1..Len(previous[i])
      PROVE  previous[i][k] # c
  <2>1. previous[i][k] \in Nat /\ previous[i][k] <= q
    BY <1>1, LaneRange DEF Joined
  <2> QED BY <1>2, <1>3, <2>1
<1>5. ASSUME current # NoWindow, NEW k \in 1..Len(current)
      PROVE  current[k] # c
  <2>1. current[k] \in Nat /\ current[k] <= r
    BY <1>1, <1>5, RunRange DEF Joined
  <2> QED BY <1>2, <2>1
<1>6. ASSUME NEW i \in 1..Len(next), NEW k \in 1..Len(next[i])
      PROVE  next[i][k] # c
  <2>1. next[i][k] \in Nat /\ next[i][k] <= s
    BY <1>1, LaneRange DEF Joined
  <2> QED BY <2>1
<1> QED BY <1>4, <1>5, <1>6 DEF Lacks

\* The open window: it is the last one, its cohorts are adjoining, and no window
\* before it has one of them.
LEMMA OpenWindow ==
  ASSUME TypeInv, NEW q \in Nat, NEW r \in Nat, NEW s \in Nat, Joined(q, r, s), next # <<>>
  PROVE  /\ LastOf(next) \in Seq(Nat) /\ Len(next) \in 1..Len(next)
         /\ \A k \in 1..Len(LastOf(next)) :
              /\ LastOf(next)[k] \in Nat /\ LastOf(next)[k] <= s
              /\ \A l \in 1..Len(LastOf(next)) : LastOf(next)[l] = LastOf(next)[k] <=> l = k
              /\ \A i \in 1..Len(previous) : Lacks(previous[i], LastOf(next)[k])
              /\ current # NoWindow => Lacks(current, LastOf(next)[k])
              /\ \A i \in 1..Len(next) : i < Len(next) => Lacks(next[i], LastOf(next)[k])
<1> DEFINE n == Len(next)  w == LastOf(next)
<1>1. /\ previous \in Seq(Seq(Nat)) /\ next \in Seq(Seq(Nat)) /\ Len(output) \in Nat
      /\ current # NoWindow => current \in Seq(Nat)
  BY WindowTypes
<1>2. n \in 1..n /\ w = next[n] /\ w \in Seq(Nat)
  BY <1>1, EmptySeq, ElementOfSeq DEF LastOf
<1>3. PICK m \in Nat : Run(w, m, s)
  BY <1>1, LaneLast DEF Joined
<1>4. q <= r
  BY <1>1 DEF Joined, Run
<1>5. Lane(previous, Len(output), q) /\ Lane(next, r, s)
  BY DEF Joined
<1> SUFFICES ASSUME NEW k \in 1..Len(w)
             PROVE  /\ w[k] \in Nat /\ w[k] <= s
                    /\ \A l \in 1..Len(w) : w[l] = w[k] <=> l = k
                    /\ \A i \in 1..Len(previous) : Lacks(previous[i], w[k])
                    /\ current # NoWindow => Lacks(current, w[k])
                    /\ \A i \in 1..n : i < n => Lacks(next[i], w[k])
  BY <1>2
<1>6. w[k] \in Nat /\ w[k] <= s /\ \A l \in 1..Len(w) : w[l] = w[k] <=> l = k
  BY <1>2, <1>3, RunRange
<1>7. r < w[k]
  BY <1>1, <1>2, <1>5, LaneRange
<1>8. ASSUME NEW i \in 1..Len(previous), NEW l \in 1..Len(previous[i])
      PROVE  previous[i][l] # w[k]
  <2>1. previous[i][l] \in Nat /\ previous[i][l] <= q
    BY <1>1, <1>5, LaneRange
  <2> QED BY <1>4, <1>6, <1>7, <2>1
<1>9. ASSUME current # NoWindow, NEW l \in 1..Len(current)
      PROVE  current[l] # w[k]
  <2>1. current[l] \in Nat /\ current[l] <= r
    BY <1>1, <1>9, RunRange DEF Joined
  <2> QED BY <1>6, <1>7, <2>1
<1>10. ASSUME NEW i \in 1..n, i < n, NEW l \in 1..Len(next[i])
       PROVE  next[i][l] # w[k]
  <2>1. next[i][l] < w[k] /\ next[i][l] \in Nat
    BY <1>1, <1>2, <1>5, <1>10, LaneApart, LaneRange
  <2> QED BY <1>6, <2>1
<1> HIDE DEF n, w
<1> QED BY <1>6, <1>8, <1>9, <1>10 DEF Lacks

\* At the start there is no window.
LEMMA InitSealInv == Init => SealInv
BY DEF Init, SealInv, WindowsSealed

\* No step leaves a complete window without <<< at its end, or puts one elsewhere.
LEMMA NextSealInv == TypeInv /\ TypeInv' /\ InputOrder /\ SealInv /\ [Next]_vars => SealInv'
<1> SUFFICES ASSUME TypeInv, TypeInv', InputOrder, SealInv, [Next]_vars
             PROVE  SealInv'
  OBVIOUS
<1>0. PICK q \in Nat, r \in Nat, s \in Nat : Joined(q, r, s)
  BY DEF InputOrder
<1> USE <1>0, NoWindowAssumption, LimitsAssumption
<1>t. /\ Read \in Nat /\ Window \subseteq Seq(Nat)
      /\ previous \in Seq(Seq(Nat)) /\ next \in Seq(Seq(Nat))
      /\ output \in Seq(Nat)
      /\ current # NoWindow => current \in Seq(Nat)
  BY WindowTypes
<1>i. /\ Seals(previous, FALSE, endtag)
      /\ current # NoWindow => SealedIn(current, endtag)
      /\ Seals(next, open, endtag)
      /\ endtag \subseteq Nat /\ \A c \in endtag : c <= s
      /\ s = Placed /\ open \in BOOLEAN
  <2>1. s = Placed
    BY PlacedIsJoined
  <2>2. endtag \subseteq Nat /\ open \in BOOLEAN
    BY <1>t DEF TypeInv, TypeOK
  <2> QED BY <2>1, <2>2, SealsRestated DEF SealInv
<1> DEFINE Goal == /\ Seals(previous', FALSE, endtag')
                   /\ current' # NoWindow => SealedIn(current', endtag')
                   /\ Seals(next', open', endtag')
                   /\ \A c \in endtag' : c <= Placed'
<1>g. ASSUME Goal  PROVE SealInv'
  BY <1>g, SealsRestated DEF SealInv
<1>1. ASSUME UNCHANGED <<previous, current, next, open, endtag>>, Placed' = Placed
      PROVE  SealInv'
  BY <1>1, <1>i, <1>g
<1>2. CASE UNCHANGED vars
  BY <1>1, <1>2 DEF vars, queues, Placed, InHand, Read
<1>3. CASE ReadCohort
  <2>1. Read' = Read + 1
    BY <1>3 DEF ReadCohort, Read, TypeInv, TypeOK
  <2>2. Placed' = Placed
    BY <1>3, <1>t, <2>1 DEF ReadCohort, Placed, InHand
  <2> QED BY <1>1, <1>3, <2>2 DEF ReadCohort, queues
<1>4. CASE NoLookback \/ LookbackMisses
  <2>1. Placed' = Placed
    BY <1>4 DEF NoLookback, LookbackMisses, Placed, InHand, Read
  <2> QED BY <1>1, <1>4, <2>1 DEF NoLookback, LookbackMisses, queues
<1>5. CASE LookbackCuts
  <2> DEFINE w == LastOf(next)  n == Len(next)
  <2>1. open /\ next # <<>>
    BY <1>5 DEF LookbackCuts, MustLookBack, TypeInv, Control
  <2>2. PICK k \in SoftPositions(w) :
          /\ next' = Append([next EXCEPT ![n] = Head2(w, k)], Tail2(w, k))
          /\ endtag' = endtag \cup {w[k]}
    BY <1>5 DEF LookbackCuts
  <2> DEFINE v == [next EXCEPT ![n] = Head2(w, k)]  e == endtag \cup {w[k]}
  <2>3. k \in 1..Len(w)
    BY <2>2 DEF SoftPositions
  <2>4. /\ w \in Seq(Nat) /\ n \in 1..n
        /\ w[k] \in Nat /\ w[k] <= s
        /\ \A l \in 1..Len(w) : w[l] = w[k] <=> l = k
        /\ \A i \in 1..Len(previous) : Lacks(previous[i], w[k])
        /\ current # NoWindow => Lacks(current, w[k])
        /\ \A i \in 1..n : i < n => Lacks(next[i], w[k])
    BY <2>1, <2>3, OpenWindow
  <2>5. FreeOf(w, endtag)
    BY <1>t, <1>i, <2>1, <2>4, SealsLast
  <2> HIDE DEF w
  <2>6. Head2(w, k) \in Seq(Nat) /\ Tail2(w, k) \in Seq(Nat)
    BY <2>3, <2>4, CutType
  <2>7. SealedIn(Head2(w, k), e) /\ FreeOf(Tail2(w, k), e)
    BY <2>3, <2>4, <2>5, SealCut DEF FreeOf
  <2>8. Seals(v, FALSE, e)
    BY <1>t, <1>i, <2>1, <2>4, <2>6, <2>7, SealsLast
  <2>9. v \in Seq(Seq(Nat))
    BY <1>t, <2>4, <2>6, ExceptSeq
  <2>10. Seals(next', TRUE, e)
    BY <2>2, <2>6, <2>7, <2>8, <2>9, SealsOpen
  <2>11. Seals(previous, FALSE, e) /\ (current # NoWindow => SealedIn(current, e))
    BY <1>i, <2>4, SealsKept DEF SealedIn, Lacks
  <2>12. Placed' = Placed
    BY <1>5 DEF LookbackCuts, Placed, InHand, Read
  <2>13. Goal
    BY <1>5, <1>i, <2>1, <2>2, <2>4, <2>10, <2>11, <2>12 DEF LookbackCuts
  <2> QED BY <1>g, <2>13
<1>6. CASE OpenFirst
  <2>1. <<>> \in Seq(Nat) /\ FreeOf(<<>>, endtag) /\ ~open
    BY <1>6 DEF FreeOf, OpenFirst, TypeInv, Control
  <2>2. Seals(next', TRUE, endtag)
    BY <1>6, <1>t, <1>i, <2>1, SealsOpen DEF OpenFirst
  <2>3. Placed' = Placed
    BY <1>6 DEF OpenFirst, Placed, InHand, Read
  <2>4. Goal
    BY <1>6, <1>i, <2>2, <2>3 DEF OpenFirst
  <2> QED BY <1>g, <2>4
<1>7. ASSUME pc \in {"read", "place"}, pending # 0
      PROVE  /\ pending = s + 1 /\ open
             /\ PushToLast(next, pending) \in Seq(Seq(Nat))
             /\ Seals(PushToLast(next, pending), FALSE, endtag \cup {pending})
             /\ Seals(PushToLast(next, pending), TRUE, endtag)
             /\ Seals(previous, FALSE, endtag \cup {pending})
             /\ current # NoWindow => SealedIn(current, endtag \cup {pending})
  <2> DEFINE w == LastOf(next)  n == Len(next)  e == endtag \cup {pending}
  <2>1. pending = s + 1 /\ pending \in Nat /\ s < pending /\ open /\ next # <<>>
    BY <1>7 DEF Joined, TypeInv, Control
  <2>2. /\ \A i \in 1..Len(previous) : Lacks(previous[i], pending)
        /\ current # NoWindow => Lacks(current, pending)
        /\ \A i \in 1..n : Lacks(next[i], pending)
    BY <2>1, NewIsNowhere
  <2>3. w \in Seq(Nat) /\ n \in 1..n /\ w = next[n]
    BY <1>t, <2>1, EmptySeq, ElementOfSeq DEF LastOf
  <2>4. FreeOf(w, endtag) /\ Lacks(w, pending)
    BY <1>t, <1>i, <2>1, <2>2, <2>3, SealsLast
  <2> HIDE DEF w
  <2>5. Append(w, pending) \in Seq(Nat) /\ SealedIn(Append(w, pending), e)
    BY <2>1, <2>3, <2>4, SealAppend, AppendProperties
  <2>6. FreeOf(Append(w, pending), endtag)
    <3>1. pending \notin endtag
      BY <1>i, <2>1
    <3>2. /\ Len(w) \in Nat /\ Len(Append(w, pending)) = Len(w) + 1
          /\ \A i \in 1..Len(w) : Append(w, pending)[i] = w[i]
          /\ Append(w, pending)[Len(w) + 1] = pending
      BY <2>1, <2>3, AppendProperties, LenProperties
    <3>3. \A i \in 1..Len(w) + 1 : i \in 1..Len(w) \/ i = Len(w) + 1
      BY <3>2
    <3> QED BY <2>4, <3>1, <3>2, <3>3 DEF FreeOf
  <2>7. PushToLast(next, pending) = [next EXCEPT ![n] = Append(w, pending)]
    BY <2>3 DEF PushToLast
  <2>8. PushToLast(next, pending) \in Seq(Seq(Nat))
    BY <1>t, <2>1, PushToLastType
  <2> DEFINE u == Append(w, pending)
  <2>u. u \in Seq(Nat) /\ SealedIn(u, e) /\ FreeOf(u, endtag) /\ Seals(next, TRUE, endtag)
    BY <1>i, <2>1, <2>5, <2>6
  <2> HIDE DEF u
  <2>9. Seals([next EXCEPT ![n] = u], FALSE, e)
    BY <1>t, <2>u, <2>1, <2>2, SealsLast
  <2>10. Seals([next EXCEPT ![n] = u], TRUE, endtag)
    BY <1>t, <2>u, <2>1, SealsLast
  <2>11. Seals(previous, FALSE, e) /\ (current # NoWindow => SealedIn(current, e))
    BY <1>i, <2>2, SealsKept DEF SealedIn, Lacks
  <2> QED BY <2>1, <2>7, <2>8, <2>9, <2>10, <2>11 DEF u
<1>8. CASE CloseAndOpen
  <2>1. <<>> \in Seq(Nat) /\ FreeOf(<<>>, endtag \cup {pending})
    BY DEF FreeOf
  <2>2. Seals(next', TRUE, endtag \cup {pending}) /\ open
    BY <1>7, <1>8, <2>1, SealsOpen DEF CloseAndOpen
  <2>3. Placed' = s + 1
    BY <1>7, <1>8, <1>i, <1>t DEF CloseAndOpen, Placed, InHand, Read
  <2>4. \A c \in endtag \cup {pending} : c <= s + 1
    BY <1>7, <1>8, <1>i DEF CloseAndOpen
  <2>5. Goal
    BY <1>7, <1>8, <2>2, <2>3, <2>4 DEF CloseAndOpen
  <2> QED BY <1>g, <2>5
<1>9. CASE AppendPending
  <2>1. Placed' = s + 1
    BY <1>7, <1>9, <1>i, <1>t DEF AppendPending, Placed, InHand, Read
  <2>2. \A c \in endtag : c <= s + 1
    BY <1>i
  <2>3. Goal
    BY <1>7, <1>9, <1>i, <2>1, <2>2 DEF AppendPending
  <2> QED BY <1>g, <2>3
<1>10. ASSUME Shuffle, endtag' = endtag, open' = open, open => Len(next) > 1
       PROVE  /\ Seals(previous', FALSE, endtag')
              /\ current' # NoWindow => SealedIn(current', endtag')
              /\ Seals(next', open', endtag')
  <2>1. Seals(previous', FALSE, endtag)
    BY <1>10, <1>t, <1>i, SealsAppend DEF Shuffle
  <2>2. CASE next = <<>>
    BY <1>10, <1>i, <2>1, <2>2 DEF Shuffle
  <2>3. CASE next # <<>>
    <3>1. SealedIn(Head(next), endtag) /\ Seals(Tail(next), open, endtag)
      BY <1>10, <1>t, <1>i, <2>3, SealsTail
    <3> QED BY <1>10, <2>1, <2>3, <3>1 DEF Shuffle
  <2> QED BY <2>2, <2>3
<1>11. CASE Advance
  <2>1. Placed' = Placed
    BY <1>11, <1>t DEF Advance, Placed, InHand, Read, TypeInv, Control
  <2>2. Len(next) > 1 /\ Shuffle /\ endtag' = endtag /\ open' = open
    BY <1>11, <1>t DEF Advance
  <2>3. Goal
    BY <1>10, <1>i, <2>1, <2>2
  <2> QED BY <1>g, <2>3
<1>12. CASE NewPending
  <2>1. Placed' = Placed
    BY <1>12, <1>t DEF NewPending, Placed, InHand, Read, TypeInv, Control
  <2> QED BY <1>1, <1>12, <2>1 DEF NewPending, queues
<1>13. ASSUME previous # <<>>, PrintOldest  PROVE Seals(previous', FALSE, endtag)
  BY <1>13, <1>t, <1>i, SealsTail DEF PrintOldest
<1>14. CASE FlushOldest
  <2>1. Placed' = Placed /\ previous # <<>>
    BY <1>14 DEF FlushOldest, Placed, InHand, Read
  <2>2. Goal
    BY <1>13, <1>14, <1>i, <2>1 DEF FlushOldest
  <2> QED BY <1>g, <2>2
<1>15. CASE Delimit
  <2>1. PICK k \in 1..(Len(current) - 1) :
          /\ current' = Head2(current, k) /\ next' = <<Tail2(current, k)>> \o next
          /\ endtag' = endtag \cup {current[k]}
    BY <1>15 DEF Delimit
  <2> DEFINE c == current[k]  e == endtag \cup {c}
  <2>2. current # NoWindow /\ current \in Seq(Nat) /\ Len(current) \in Nat
    BY <1>15, <1>t, LenProperties DEF Delimit, TypeInv, Control
  <2>3. k \in 1..Len(current) /\ k < Len(current) /\ Run(current, q, r)
    BY <2>1, <2>2 DEF Joined
  <2>4. c \in Nat /\ q < c /\ c <= r /\ \A l \in 1..Len(current) : current[l] = c <=> l = k
    BY <2>2, <2>3, RunRange
  <2>5. SealedIn(current, endtag)
    BY <1>i, <2>2
  <2>6. SealedIn(Head2(current, k), e) /\ SealedIn(Tail2(current, k), e)
    <3>1. \A i \in 1..Len(current) : current[i] \in endtag => i = Len(current)
      BY <2>5 DEF SealedIn
    <3> QED BY <2>2, <2>3, <2>4, <2>5, <3>1, SealCut
  <2> HIDE DEF c
  <2>7. Lane(previous, Len(output), q) /\ Lane(next, r, s) /\ Len(output) \in Nat
    BY <1>t, LenProperties DEF Joined
  <2>8. ASSUME NEW i \in 1..Len(previous)  PROVE Lacks(previous[i], c)
    <3>1. ASSUME NEW l \in 1..Len(previous[i])  PROVE previous[i][l] # c
      <4>1. previous[i][l] \in Nat /\ previous[i][l] <= q
        BY <1>t, <2>7, LaneRange
      <4> QED BY <2>4, <4>1
    <3> QED BY <3>1 DEF Lacks
  <2>9. ASSUME NEW i \in 1..Len(next)  PROVE Lacks(next[i], c)
    <3>1. ASSUME NEW l \in 1..Len(next[i])  PROVE next[i][l] # c
      <4>1. next[i][l] \in Nat /\ r < next[i][l]
        BY <1>t, <2>7, LaneRange
      <4> QED BY <2>4, <4>1
    <3> QED BY <3>1 DEF Lacks
  <2>10. Seals(previous, FALSE, e) /\ Seals(next, open, e)
    BY <1>i, <2>8, <2>9, SealsKept
  <2>11. Tail2(current, k) \in Seq(Nat)
    BY <2>2, <2>3, CutType
  <2>12. Seals(next', open, e)
    BY <1>t, <1>i, <2>1, <2>6, <2>10, <2>11, SealsCons DEF TypeInv, Control
  <2>13. Placed' = Placed
    BY <1>15 DEF Delimit, Placed, InHand, Read
  <2>14. r <= s
    BY <1>t, <2>7, LaneMonotone
  <2>15. \A x \in endtag \cup {c} : x <= s
    BY <1>i, <2>4, <2>14
  <2>16. Goal
    BY <1>15, <1>i, <2>1, <2>6, <2>10, <2>12, <2>13, <2>15 DEF Delimit, c
  <2> QED BY <1>g, <2>16
<1>16. CASE FinishRun
  <2>1. pc = "run" /\ pending = 0 /\ Read' = Read
    BY <1>16 DEF FinishRun, Read, TypeInv, Control
  <2>2. ASSUME mode = "stream"  PROVE Placed' = Placed
    <3>1. pc' = "read" /\ pending' = Read /\ InHand /\ ~InHand' /\ Read # 0
      BY <1>16, <1>t, <2>1, <2>2 DEF FinishRun, InHand, TypeInv, Control
    <3> QED BY <1>t, <2>1, <3>1 DEF Placed
  <2>3. ASSUME mode # "stream"  PROVE Placed' = Placed
    BY <1>16, <2>1, <2>3 DEF FinishRun, Placed, InHand
  <2>4. Placed' = Placed
    BY <2>2, <2>3
  <2> QED BY <1>1, <1>16, <2>4 DEF FinishRun, queues
<1>17. ASSUME SealPending, pc = "read", pc' = "drain", UNCHANGED <<class, previous, current>>
       PROVE  SealInv'
  <2>1. CASE pending # 0
    <3>1. Placed' = s + 1
      BY <1>7, <1>17, <1>i, <1>t, <2>1 DEF SealPending, Placed, InHand, Read
    <3>2. \A c \in endtag \cup {pending} : c <= s + 1
      BY <1>7, <1>17, <1>i, <2>1
    <3>3. Goal
      BY <1>7, <1>17, <2>1, <3>1, <3>2 DEF SealPending
    <3> QED BY <1>g, <3>3
  <2>2. CASE pending = 0
    BY <1>1, <1>17, <2>2 DEF SealPending, Placed, InHand, Read
  <2> QED BY <2>1, <2>2
<1>18. CASE FlushCommand \/ EndOfInput
  BY <1>17, <1>18 DEF FlushCommand, EndOfInput
<1>19. CASE DrainNext
  <2>1. Placed' = Placed /\ ~open
    BY <1>19 DEF DrainNext, Placed, InHand, Read, TypeInv, Control
  <2>2. Goal
    BY <1>10, <1>19, <1>i, <2>1 DEF DrainNext
  <2> QED BY <1>g, <2>2
<1>20. CASE Emit
  <2>1. Placed' = Placed
    BY <1>20 DEF Emit, Placed, InHand, Read
  <2>2. Goal
    BY <1>13, <1>20, <1>i, <2>1 DEF Emit
  <2> QED BY <1>g, <2>2
<1>21. CASE EmitDone \/ ExitCommand
  <2>1. Placed' = Placed
    BY <1>21 DEF EmitDone, ExitCommand, Placed, InHand, Read
  <2> QED BY <1>1, <1>21, <2>1 DEF EmitDone, ExitCommand, queues
<1> QED
  BY <1>2, <1>3, <1>4, <1>5, <1>6, <1>8, <1>9, <1>11, <1>12, <1>14, <1>15, <1>16, <1>18,
     <1>19, <1>20, <1>21
     DEF Next, Line, Work, LookBack, PlaceLine, RunWindow, Drain, Stopped

\* Every window the grammar is run on, and every one waiting for it or for
\* printing, has a cohort and ends with its only <<<, however it was cut and
\* closed; the window being filled has none.
THEOREM WindowsStaySealed == Spec => []WindowsSealed
<1>1. SealInv => WindowsSealed
  BY DEF SealInv
<1> QED BY <1>1, InitSealInv, NextSealInv, InputOrderInvariant, PTL DEF Spec

-----------------------------------------------------------------------------
(* Delimiters and limits.                                                  *)

\* No cohort of w has delimiter d, when cl says which delimiters a cohort has.
Without(w, d, cl) == \A i \in 1..Len(w) : d \notin cl[w[i]]

\* WellCut, as a statement about a window and the classes of cohorts.
CutIn(w, cl) ==
    /\ \A i \in 1..(Len(w) - 1) :
         /\ "hard" \notin cl[w[i]]
         /\ Size(w) > SoftLimit + 1 => "soft" \notin cl[w[i]]
    /\ HardLimit > 0 => Size(w) <= HardLimit + 1

\* What the window being filled is like: it has no hard delimiter and is within
\* the hard limit; past the soft limit, after a lookback, and when a cohort is
\* about to be placed, it has no soft delimiter either.
FillIn(w, cl, l, p) ==
    /\ Without(w, "hard", cl)
    /\ Size(w) <= SoftLimit \/ Without(w, "soft", cl)
    /\ HardLimit > 0 => Size(w) <= HardLimit
    /\ l => Size(w) >= SoftLimit /\ Without(w, "soft", cl)
    /\ p = "place" => Size(w) < SoftLimit \/ Without(w, "soft", cl)

\* WindowsWellCut, and what it rests on: the open window can still be cut well.
CutInv ==
    /\ WindowsWellCut
    /\ open => FillIn(LastOf(next), class, lookedBack, pc)

CutAll(ws, cl) == \A i \in 1..Len(ws) : CutIn(ws[i], cl)

\* CutInv, now and after a step, as a statement about the queues.
LEMMA CutRestated ==
  /\ CutInv <=>
       /\ CutAll(previous, class)
       /\ current # NoWindow => CutIn(current, class)
       /\ CutAll(next, class)
       /\ open => FillIn(LastOf(next), class, lookedBack, pc)
  /\ CutInv' <=>
       /\ CutAll(previous', class')
       /\ current' # NoWindow => CutIn(current', class')
       /\ CutAll(next', class')
       /\ open' => FillIn(LastOf(next'), class', lookedBack', pc')
<1>1. WindowsWellCut <=>
        /\ CutAll(previous, class)
        /\ current # NoWindow => CutIn(current, class)
        /\ CutAll(next, class)
  BY DEF WindowsWellCut, WellCut, CutAll, CutIn, IsHard, IsSoft, Size
<1>2. WindowsWellCut' <=>
        /\ CutAll(previous', class')
        /\ current' # NoWindow => CutIn(current', class')
        /\ CutAll(next', class')
  BY DEF WindowsWellCut, WellCut, CutAll, CutIn, IsHard, IsSoft, Size
<1> QED BY <1>1, <1>2 DEF CutInv, LastOf

\* What is before and behind a cut of a well cut window is well cut.
LEMMA CutApart ==
  ASSUME NEW w \in Seq(Nat), NEW cl, NEW k \in 1..Len(w), CutIn(w, cl)
  PROVE  CutIn(Head2(w, k), cl) /\ CutIn(Tail2(w, k), cl)
<1> DEFINE n == Len(w)  h == Head2(w, k)  t == Tail2(w, k)
<1>1. n \in Nat /\ k \in Nat /\ 1 <= k /\ k <= n
  BY LenProperties
<1>2. h \in Seq(Nat) /\ Len(h) = k /\ \A i \in 1..k : h[i] = w[i]
  BY DEF Head2
<1>3. t \in Seq(Nat) /\ Len(t) = n - k /\ \A i \in 1..n - k : t[i] = w[k + i]
  BY DEF Tail2
<1> HIDE DEF h, t, n
<1>4. SoftLimit \in Nat /\ HardLimit \in Nat
  BY LimitsAssumption
<1>5. /\ \A i \in 1..(n - 1) :
           "hard" \notin cl[w[i]] /\ (n + 1 > SoftLimit + 1 => "soft" \notin cl[w[i]])
      /\ HardLimit > 0 => n + 1 <= HardLimit + 1
  BY DEF CutIn, Size, n
<1>6. CutIn(h, cl)
  <2>1. ASSUME NEW i \in 1..(k - 1)
        PROVE  "hard" \notin cl[h[i]] /\ (k + 1 > SoftLimit + 1 => "soft" \notin cl[h[i]])
    <3>1. i \in 1..(n - 1) /\ i \in 1..k
      BY <1>1
    <3> QED BY SMTT(60), <1>1, <1>2, <1>4, <1>5, <3>1
  <2>2. HardLimit > 0 => k + 1 <= HardLimit + 1
    BY <1>1, <1>4, <1>5
  <2> QED BY <1>2, <2>1, <2>2 DEF CutIn, Size
<1>7. CutIn(t, cl)
  <2>1. ASSUME NEW i \in 1..(n - k - 1)
        PROVE  /\ "hard" \notin cl[t[i]]
               /\ n - k + 1 > SoftLimit + 1 => "soft" \notin cl[t[i]]
    <3>1. k + i \in 1..(n - 1) /\ i \in 1..n - k
      BY <1>1
    <3>2. t[i] = w[k + i]
      BY <1>3, <3>1
    <3>3. n - k + 1 > SoftLimit + 1 => n + 1 > SoftLimit + 1
      BY <1>1, <1>4
    <3> QED BY <1>5, <3>1, <3>2, <3>3
  <2>2. HardLimit > 0 => n - k + 1 <= HardLimit + 1
    BY <1>1, <1>4, <1>5
  <2> QED BY <1>3, <2>1, <2>2 DEF CutIn, Size
<1> QED BY <1>6, <1>7 DEF h, t

\* The open window cut behind its last soft delimiter, after the lookback that
\* found it: the part before the cut is well cut, the part behind it has no
\* delimiter.
LEMMA CutAtSoft ==
  ASSUME NEW w \in Seq(Nat), NEW cl, NEW k \in 1..Len(w), NEW l, NEW p, FillIn(w, cl, l, p),
         "soft" \in cl[w[k]], \A i \in 1..Len(w) : "soft" \in cl[w[i]] => i <= k
  PROVE  CutIn(Head2(w, k), cl) /\ FillIn(Tail2(w, k), cl, FALSE, "place")
<1> DEFINE n == Len(w)  h == Head2(w, k)  t == Tail2(w, k)
<1>1. n \in Nat /\ k \in Nat /\ 1 <= k /\ k <= n
  BY LenProperties
<1>2. h \in Seq(Nat) /\ Len(h) = k /\ \A i \in 1..k : h[i] = w[i]
  BY DEF Head2
<1>3. t \in Seq(Nat) /\ Len(t) = n - k /\ \A i \in 1..n - k : t[i] = w[k + i]
  BY DEF Tail2
<1> HIDE DEF h, t, n
<1>4. SoftLimit \in Nat /\ HardLimit \in Nat
  BY LimitsAssumption
<1>5. /\ \A i \in 1..n : "hard" \notin cl[w[i]]
      /\ n + 1 <= SoftLimit
      /\ HardLimit > 0 => n + 1 <= HardLimit
  BY DEF FillIn, Without, Size, n
<1>6. CutIn(h, cl)
  <2>1. ASSUME NEW i \in 1..(k - 1)  PROVE "hard" \notin cl[h[i]]
    <3>1. i \in 1..n /\ i \in 1..k
      BY <1>1
    <3> QED BY <1>2, <1>5, <3>1
  <2>2. ~(k + 1 > SoftLimit + 1) /\ (HardLimit > 0 => k + 1 <= HardLimit + 1)
    BY <1>1, <1>4, <1>5
  <2> QED BY <1>2, <2>1, <2>2 DEF CutIn, Size
<1>7. FillIn(t, cl, FALSE, "place")
  <2>1. ASSUME NEW i \in 1..n - k  PROVE k + i \in 1..n /\ ~(k + i <= k)
    BY <1>1
  <2>2. \A i \in 1..n - k : "hard" \notin cl[t[i]] /\ "soft" \notin cl[t[i]]
    BY <1>3, <1>5, <2>1 DEF n
  <2> QED BY <1>1, <1>3, <1>4, <1>5, <2>2 DEF FillIn, Without, Size
<1> QED BY <1>6, <1>7 DEF h, t

\* An open window may be closed with any cohort.
LEMMA CutClosed ==
  ASSUME NEW w \in Seq(Nat), NEW cl, NEW c \in Nat, NEW l, NEW p, FillIn(w, cl, l, p)
  PROVE  CutIn(Append(w, c), cl)
<1> DEFINE n == Len(w)  v == Append(w, c)
<1>1. n \in Nat /\ Len(v) = n + 1 /\ \A i \in 1..n : v[i] = w[i]
  BY AppendProperties, LenProperties
<1>2. SoftLimit \in Nat /\ HardLimit \in Nat
  BY LimitsAssumption
<1>3. /\ \A i \in 1..n : "hard" \notin cl[w[i]]
      /\ n + 1 <= SoftLimit \/ \A i \in 1..n : "soft" \notin cl[w[i]]
      /\ HardLimit > 0 => n + 1 <= HardLimit
  BY DEF FillIn, Without, Size
<1> HIDE DEF n, v
<1>4. ASSUME NEW i \in 1..((n + 1) - 1)
      PROVE  "hard" \notin cl[v[i]] /\ (n + 2 > SoftLimit + 1 => "soft" \notin cl[v[i]])
  <2>1. i \in 1..n /\ v[i] = w[i] /\ (n + 2 > SoftLimit + 1 => ~(n + 1 <= SoftLimit))
    BY <1>1, <1>2
  <2> QED BY <1>3, <2>1
<1>5. HardLimit > 0 => n + 2 <= HardLimit + 1
  BY <1>1, <1>2, <1>3
<1>6. Len(v) + 1 = n + 2
  BY <1>1
<1>7. CutIn(v, cl)
  BY <1>1, <1>4, <1>5, <1>6 DEF CutIn, Size
<1> QED BY <1>7 DEF v

\* An open window stays one that can be cut well when it gets a cohort that does
\* not end it.
LEMMA FillGrows ==
  ASSUME NEW w \in Seq(Nat), NEW cl, NEW c \in Nat, NEW l, FillIn(w, cl, l, "place"),
         ~(Size(w) >= SoftLimit /\ "soft" \in cl[c]), ~(Size(w) >= HardLimit),
         "hard" \notin cl[c]
  PROVE  FillIn(Append(w, c), cl, l, "advance")
<1> DEFINE n == Len(w)  v == Append(w, c)
<1>1. /\ n \in Nat /\ Len(v) = n + 1 /\ v[n + 1] = c
      /\ \A i \in 1..n : v[i] = w[i]
  BY AppendProperties, LenProperties
<1>2. SoftLimit \in Nat /\ HardLimit \in Nat
  BY LimitsAssumption
<1>3. /\ Without(w, "hard", cl)
      /\ n + 1 < SoftLimit \/ Without(w, "soft", cl)
      /\ l => n + 1 >= SoftLimit /\ Without(w, "soft", cl)
      /\ ~(n + 1 >= SoftLimit /\ "soft" \in cl[c]) /\ ~(n + 1 >= HardLimit)
  BY DEF FillIn, Size
<1> HIDE DEF n, v
<1>4. \A i \in 1..n + 1 : i \in 1..n \/ i = n + 1
  BY <1>1
<1>5. Without(v, "hard", cl)
  BY <1>1, <1>3, <1>4 DEF Without, n
<1>6. Without(w, "soft", cl) /\ "soft" \notin cl[c] => Without(v, "soft", cl)
  BY <1>1, <1>4 DEF Without, n
<1>7. n + 2 <= SoftLimit \/ Without(v, "soft", cl)
  BY <1>1, <1>2, <1>3, <1>6
<1>8. l => n + 2 >= SoftLimit /\ Without(v, "soft", cl)
  BY <1>1, <1>2, <1>3, <1>6
<1>9. n + 2 <= HardLimit
  BY <1>1, <1>2, <1>3
<1>10. Len(v) + 1 = n + 2
  BY <1>1
<1>11. FillIn(v, cl, l, "advance")
  BY <1>5, <1>7, <1>8, <1>9, <1>10 DEF FillIn, Size
<1> QED BY <1>11 DEF v

\* A window that was just opened.
LEMMA FillEmpty ==
  ASSUME NEW cl, NEW p
  PROVE  FillIn(<<>>, cl, FALSE, p) /\ CutIn(<<>>, cl)
<1>1. Len(<<>>) = 0 /\ SoftLimit \in Nat /\ HardLimit \in Nat
  BY LimitsAssumption
<1> QED BY <1>1 DEF FillIn, CutIn, Without, Size

\* The open window is well cut itself.
LEMMA FillIsCut ==
  ASSUME NEW w \in Seq(Nat), NEW cl, NEW l, NEW p, FillIn(w, cl, l, p)
  PROVE  CutIn(w, cl)
<1> DEFINE n == Len(w)
<1>1. n \in Nat /\ SoftLimit \in Nat /\ HardLimit \in Nat
  BY LimitsAssumption, LenProperties
<1>2. /\ \A i \in 1..n : "hard" \notin cl[w[i]]
      /\ n + 1 <= SoftLimit \/ \A i \in 1..n : "soft" \notin cl[w[i]]
      /\ HardLimit > 0 => n + 1 <= HardLimit
  BY DEF FillIn, Without, Size
<1>3. CutIn(w, cl) <=>
        /\ \A i \in 1..(n - 1) :
             "hard" \notin cl[w[i]] /\ (n + 1 > SoftLimit + 1 => "soft" \notin cl[w[i]])
        /\ HardLimit > 0 => n + 1 <= HardLimit + 1
  BY DEF CutIn, Size
<1> HIDE DEF n
<1>4. ASSUME NEW i \in 1..(n - 1)
      PROVE  "hard" \notin cl[w[i]] /\ (n + 1 > SoftLimit + 1 => "soft" \notin cl[w[i]])
  <2>1. i \in 1..n /\ (n + 1 > SoftLimit + 1 => ~(n + 1 <= SoftLimit))
    BY <1>1
  <2> QED BY <1>2, <2>1
<1>5. HardLimit > 0 => n + 1 <= HardLimit + 1
  BY <1>1, <1>2
<1> QED BY <1>3, <1>4, <1>5

\* Cohorts keep their classes when the next one is read.
LEMMA ClassesGrow ==
  ASSUME NEW cl \in Seq(Classes), NEW k \in Classes, NEW w \in Seq(1..Len(cl))
  PROVE  /\ CutIn(w, cl) => CutIn(w, Append(cl, k))
         /\ \A l, p : FillIn(w, cl, l, p) => FillIn(w, Append(cl, k), l, p)
<1>1. ASSUME NEW i \in 1..Len(w)  PROVE Append(cl, k)[w[i]] = cl[w[i]]
  <2>1. w[i] \in 1..Len(cl)
    BY ElementOfSeq
  <2> QED BY <2>1, AppendProperties
<1>2. ASSUME NEW i \in 1..(Len(w) - 1)  PROVE i \in 1..Len(w)
  BY LenProperties
<1> QED BY <1>1, <1>2 DEF CutIn, FillIn, Without

\* Well cut windows in a row.
LEMMA CutAllRow ==
  ASSUME NEW ws \in Seq(Seq(Nat)), NEW w \in Seq(Nat), NEW cl, CutAll(ws, cl)
  PROVE  /\ CutIn(w, cl) => CutAll(Append(ws, w), cl) /\ CutAll(<<w>> \o ws, cl)
         /\ ws # <<>> => CutIn(Head(ws), cl) /\ CutAll(Tail(ws), cl)
         /\ ws # <<>> /\ CutIn(w, cl) => CutAll([ws EXCEPT ![Len(ws)] = w], cl)
<1> DEFINE n == Len(ws)
<1>1. n \in Nat
  BY LenProperties
<1>2. ASSUME CutIn(w, cl)  PROVE CutAll(Append(ws, w), cl)
  <2>1. /\ Len(Append(ws, w)) = n + 1 /\ Append(ws, w)[n + 1] = w
        /\ \A i \in 1..n : Append(ws, w)[i] = ws[i]
    BY AppendProperties
  <2>2. \A i \in 1..n + 1 : i \in 1..n \/ i = n + 1
    BY <1>1
  <2> QED BY <1>2, <2>1, <2>2 DEF CutAll
<1>3. ASSUME CutIn(w, cl)  PROVE CutAll(<<w>> \o ws, cl)
  <2> DEFINE v == <<w>> \o ws
  <2>1. Len(v) = n + 1 /\ \A i \in 1..n + 1 : v[i] = IF i <= 1 THEN w ELSE ws[i - 1]
    <3>1. <<w>> \in Seq(Seq(Nat)) /\ Len(<<w>>) = 1 /\ <<w>>[1] = w
      OBVIOUS
    <3> QED BY <1>1, <3>1, ConcatProperties
  <2> HIDE DEF v
  <2>2. \A i \in 1..n + 1 : i <= 1 \/ i - 1 \in 1..n
    BY <1>1
  <2> QED BY <1>3, <2>1, <2>2 DEF CutAll, v
<1>4. ASSUME ws # <<>>  PROVE CutIn(Head(ws), cl) /\ CutAll(Tail(ws), cl)
  <2>1. /\ Head(ws) = ws[1] /\ 1 \in 1..n /\ Len(Tail(ws)) = n - 1
        /\ \A i \in 1..n - 1 : Tail(ws)[i] = ws[i + 1] /\ i + 1 \in 1..n
    BY SMTT(60), <1>1, <1>4, HeadTailProperties, EmptySeq
  <2> QED BY <2>1 DEF CutAll
<1>5. ASSUME ws # <<>>, CutIn(w, cl)  PROVE CutAll([ws EXCEPT ![n] = w], cl)
  <2>1. n \in 1..n
    BY <1>1, <1>5, EmptySeq
  <2>2. /\ Len([ws EXCEPT ![n] = w]) = n
        /\ \A i \in 1..n : [ws EXCEPT ![n] = w][i] = IF i = n THEN w ELSE ws[i]
    BY <2>1, ExceptSeq
  <2> QED BY <1>5, <2>2 DEF CutAll
<1> QED BY <1>2, <1>3, <1>4, <1>5

\* The last of a row of windows.
LEMMA LastInRow ==
  ASSUME NEW ws \in Seq(Seq(Nat)), NEW w \in Seq(Nat)
  PROVE  /\ LastOf(Append(ws, w)) = w
         /\ ws # <<>> => /\ LastOf(<<w>> \o ws) = LastOf(ws)
                         /\ LastOf([ws EXCEPT ![Len(ws)] = w]) = w
         /\ Len(ws) > 1 => LastOf(Tail(ws)) = LastOf(ws)
<1> DEFINE n == Len(ws)
<1>1. n \in Nat
  BY LenProperties
<1>2. LastOf(Append(ws, w)) = w
  BY AppendProperties DEF LastOf
<1>3. ASSUME ws # <<>>  PROVE LastOf(<<w>> \o ws) = LastOf(ws)
  <2>1. n > 0
    BY <1>1, <1>3, EmptySeq
  <2>2. <<w>> \in Seq(Seq(Nat)) /\ Len(<<w>>) = 1
    OBVIOUS
  <2>3. Len(<<w>> \o ws) = n + 1 /\ (<<w>> \o ws)[n + 1] = ws[n]
    BY <1>1, <2>1, <2>2, ConcatProperties
  <2> QED BY <2>3 DEF LastOf
<1>4. ASSUME ws # <<>>  PROVE LastOf([ws EXCEPT ![n] = w]) = w
  <2>1. n \in 1..n
    BY <1>1, <1>4, EmptySeq
  <2> QED BY <2>1, ExceptSeq DEF LastOf
<1>5. ASSUME n > 1  PROVE LastOf(Tail(ws)) = LastOf(ws)
  <2>1. ws # <<>> /\ n - 1 \in 1..n - 1
    BY <1>1, <1>5
  <2>2. Len(Tail(ws)) = n - 1 /\ Tail(ws)[n - 1] = ws[(n - 1) + 1]
    BY <2>1, HeadTailProperties
  <2>3. (n - 1) + 1 = n
    BY <1>1
  <2> QED BY <2>2, <2>3 DEF LastOf
<1> QED BY <1>2, <1>3, <1>4, <1>5

\* At the start there is no window.
LEMMA InitCutInv == Init => CutInv
BY DEF Init, CutInv, WindowsWellCut

\* No step makes a window that a delimiter or a limit should have cut.
LEMMA NextCutInv == TypeInv /\ TypeInv' /\ CutInv /\ [Next]_vars => CutInv'
<1> SUFFICES ASSUME TypeInv, TypeInv', CutInv, [Next]_vars
             PROVE  CutInv'
  OBVIOUS
<1> USE NoWindowAssumption, LimitsAssumption
<1>t. /\ Read \in Nat /\ Window \subseteq Seq(Nat)
      /\ previous \in Seq(Seq(Nat)) /\ next \in Seq(Seq(Nat))
      /\ current # NoWindow => current \in Seq(Nat)
  BY WindowTypes
<1>i. /\ CutAll(previous, class)
      /\ current # NoWindow => CutIn(current, class)
      /\ CutAll(next, class)
      /\ open => FillIn(LastOf(next), class, lookedBack, pc)
  BY CutRestated
<1>o. ASSUME next # <<>>  PROVE LastOf(next) \in Seq(Nat)
  BY <1>o, <1>t, EmptySeq, ElementOfSeq DEF LastOf
<1> DEFINE Goal == /\ CutAll(previous', class')
                   /\ current' # NoWindow => CutIn(current', class')
                   /\ CutAll(next', class')
                   /\ open' => FillIn(LastOf(next'), class', lookedBack', pc')
<1>g. ASSUME Goal  PROVE CutInv'
  BY <1>g, CutRestated
<1>p. ASSUME NEW w, NEW p, p # "place", FillIn(w, class, lookedBack, pc)
      PROVE  FillIn(w, class, lookedBack, p)
  BY <1>p DEF FillIn
<1>1. ASSUME UNCHANGED <<previous, current, next, open, class, lookedBack>>,
             pc' # "place" \/ pc' = pc
      PROVE  CutInv'
  <2>1. open' => FillIn(LastOf(next'), class', lookedBack', pc')
    BY <1>1, <1>i, <1>p
  <2>2. Goal
    BY <1>1, <1>i, <2>1
  <2> QED BY <1>g, <2>2
<1>2. CASE UNCHANGED vars
  BY <1>1, <1>2 DEF vars, queues
<1>3. CASE ReadCohort
  <2>1. PICK k \in Classes : class' = Append(class, k)
    BY <1>3 DEF ReadCohort
  <2>2. class \in Seq(Classes) /\ Window = Seq(1..Len(class))
    BY DEF TypeInv, TypeOK, Window, Read
  <2>3. \A w \in Window : /\ CutIn(w, class) => CutIn(w, class')
                          /\ \A l, p : FillIn(w, class, l, p) => FillIn(w, class', l, p)
    BY <2>1, <2>2, ClassesGrow
  <2>4. /\ \A i \in 1..Len(previous) : previous[i] \in Window
        /\ \A i \in 1..Len(next) : next[i] \in Window
        /\ current # NoWindow => current \in Window
    BY ElementOfSeq DEF TypeInv, TypeOK
  <2>5. open => LastOf(next) \in Window
    <3>1. ASSUME open  PROVE Len(next) \in 1..Len(next)
      BY <1>t, <3>1, EmptySeq DEF TypeInv, Control
    <3> QED BY <2>4, <3>1 DEF LastOf
  <2>6. UNCHANGED <<open, lookedBack, previous, current, next>> /\ pc' = "lookback"
    BY <1>3 DEF ReadCohort, queues
  <2>7. CutAll(previous', class') /\ CutAll(next', class')
    BY <1>i, <2>3, <2>4, <2>6 DEF CutAll
  <2>8. current' # NoWindow => CutIn(current', class')
    BY <1>i, <2>3, <2>4, <2>6
  <2>9. open' => FillIn(LastOf(next'), class', lookedBack', pc')
    BY <1>i, <1>p, <2>3, <2>5, <2>6
  <2>10. Goal
    BY <2>7, <2>8, <2>9
  <2> QED BY <1>g, <2>10
<1>4. CASE NoLookback
  <2>1. UNCHANGED <<class, open, lookedBack, previous, current, next>> /\ pc' = "place"
    BY <1>4 DEF NoLookback, queues
  <2>2. open => lookedBack \/ ~(Size(LastOf(next)) >= SoftLimit)
    BY <1>4 DEF NoLookback, MustLookBack
  <2>3. open => Size(LastOf(next)) \in Nat
    BY <1>o, LenProperties DEF Size, TypeInv, Control
  <2>4. open' => FillIn(LastOf(next'), class', lookedBack', pc')
    BY <1>i, <2>1, <2>2, <2>3 DEF FillIn
  <2>5. Goal
    BY <1>i, <2>1, <2>4
  <2> QED BY <1>g, <2>5
<1>5. CASE LookbackMisses
  <2>1. UNCHANGED <<class, open, previous, current, next>> /\ pc' = "place" /\ lookedBack'
    BY <1>5 DEF LookbackMisses, queues
  <2>2. Size(LastOf(next)) >= SoftLimit /\ Without(LastOf(next), "soft", class)
    BY <1>5 DEF LookbackMisses, MustLookBack, SoftPositions, IsSoft, Without
  <2>3. open' => FillIn(LastOf(next'), class', lookedBack', pc')
    BY <1>i, <2>1, <2>2 DEF FillIn
  <2>4. Goal
    BY <1>i, <2>1, <2>3
  <2> QED BY <1>g, <2>4
<1>6. CASE LookbackCuts
  <2> DEFINE w == LastOf(next)  n == Len(next)
  <2>1. open /\ next # <<>> /\ w \in Seq(Nat)
    BY <1>6, <1>o DEF LookbackCuts, MustLookBack, TypeInv, Control
  <2>2. PICK k \in SoftPositions(w) :
          /\ \A i \in SoftPositions(w) : i <= k
          /\ next' = Append([next EXCEPT ![n] = Head2(w, k)], Tail2(w, k))
    BY <1>6 DEF LookbackCuts
  <2>3. /\ k \in 1..Len(w) /\ "soft" \in class[w[k]]
        /\ \A i \in 1..Len(w) : "soft" \in class[w[i]] => i <= k
    BY <2>2 DEF SoftPositions, IsSoft
  <2> HIDE DEF w
  <2>4. FillIn(w, class, lookedBack, pc)
    BY <1>i, <2>1 DEF w
  <2>5. CutIn(Head2(w, k), class) /\ FillIn(Tail2(w, k), class, FALSE, "place")
    BY <2>1, <2>3, <2>4, CutAtSoft
  <2>6. Head2(w, k) \in Seq(Nat) /\ Tail2(w, k) \in Seq(Nat)
    BY <2>1, <2>3, CutType
  <2> DEFINE v == [next EXCEPT ![n] = Head2(w, k)]
  <2>7. v \in Seq(Seq(Nat)) /\ CutAll(v, class)
    <3>1. n \in 1..n
      BY <1>t, <2>1, EmptySeq
    <3> QED BY <1>t, <1>i, <2>1, <2>5, <2>6, <3>1, ExceptSeq, CutAllRow
  <2> HIDE DEF v
  <2>8. CutIn(Tail2(w, k), class)
    BY <2>5, <2>6, FillIsCut
  <2>9. CutAll(next', class) /\ LastOf(next') = Tail2(w, k)
    BY <2>2, <2>6, <2>7, <2>8, CutAllRow, LastInRow DEF v
  <2>10. UNCHANGED <<class, open, previous, current>> /\ lookedBack' = FALSE /\ pc' = "place"
    BY <1>6 DEF LookbackCuts
  <2>11. Goal
    BY <1>i, <2>5, <2>9, <2>10
  <2> QED BY <1>g, <2>11
<1>7. CASE OpenFirst
  <2>1. next' = Append(next, <<>>) /\ <<>> \in Seq(Nat)
    BY <1>7 DEF OpenFirst
  <2>2. CutAll(next', class) /\ LastOf(next') = <<>>
    BY <1>t, <1>i, <2>1, FillEmpty, CutAllRow, LastInRow
  <2>3. UNCHANGED <<class, previous, current>> /\ lookedBack' = FALSE
    BY <1>7 DEF OpenFirst
  <2>4. Goal
    BY <1>i, <2>2, <2>3, FillEmpty
  <2> QED BY <1>g, <2>4
<1>8. ASSUME pc \in {"read", "place"}, pending # 0
      PROVE  /\ LastOf(next) \in Seq(Nat) /\ open /\ pending \in Nat
             /\ PushToLast(next, pending) \in Seq(Seq(Nat))
             /\ CutAll(PushToLast(next, pending), class)
             /\ LastOf(PushToLast(next, pending)) = Append(LastOf(next), pending)
  <2> DEFINE w == LastOf(next)  u == Append(w, pending)
  <2>1. open /\ next # <<>> /\ w \in Seq(Nat) /\ pending \in Nat
    BY <1>8, <1>t, <1>o DEF TypeInv, TypeOK, Control
  <2>2. CutIn(u, class) /\ u \in Seq(Nat)
    BY <1>i, <2>1, CutClosed, AppendProperties
  <2>3. PushToLast(next, pending) = [next EXCEPT ![Len(next)] = u]
    BY DEF PushToLast, LastOf
  <2>4. PushToLast(next, pending) \in Seq(Seq(Nat))
    BY <1>t, <2>1, PushToLastType
  <2> HIDE DEF u
  <2>5. CutAll([next EXCEPT ![Len(next)] = u], class) /\ LastOf([next EXCEPT ![Len(next)] = u]) = u
    BY <1>t, <1>i, <2>1, <2>2, CutAllRow, LastInRow
  <2> QED BY <2>1, <2>3, <2>4, <2>5 DEF u
<1>9. CASE CloseAndOpen
  <2>1. next' = Append(PushToLast(next, pending), <<>>) /\ <<>> \in Seq(Nat)
    BY <1>9 DEF CloseAndOpen
  <2> DEFINE ws == PushToLast(next, pending)
  <2>w. ws \in Seq(Seq(Nat)) /\ CutAll(ws, class)
    BY <1>8, <1>9 DEF CloseAndOpen
  <2> HIDE DEF ws
  <2>a. CutAll(Append(ws, <<>>), class) /\ LastOf(Append(ws, <<>>)) = <<>>
    BY <2>1, <2>w, FillEmpty, CutAllRow, LastInRow
  <2>2. CutAll(next', class) /\ LastOf(next') = <<>>
    BY <2>1, <2>a DEF ws
  <2>3. UNCHANGED <<class, previous, current>> /\ lookedBack' = FALSE
    BY <1>9 DEF CloseAndOpen
  <2>4. Goal
    BY <1>i, <2>2, <2>3, FillEmpty
  <2> QED BY <1>g, <2>4
<1>10. CASE AppendPending
  <2> DEFINE w == LastOf(next)
  <2>1. /\ w \in Seq(Nat) /\ open /\ pending \in Nat
        /\ CutAll(next', class) /\ LastOf(next') = Append(w, pending)
    BY <1>8, <1>10 DEF AppendPending
  <2>2. /\ ~(Size(w) >= SoftLimit /\ "soft" \in class[pending])
        /\ ~(Size(w) >= HardLimit) /\ "hard" \notin class[pending] /\ pc = "place"
    BY <1>10 DEF AppendPending, EndsWindow, IsSoft, IsHard
  <2>3. FillIn(w, class, lookedBack, "place")
    BY <1>i, <2>1, <2>2
  <2> HIDE DEF w
  <2>4. FillIn(Append(w, pending), class, lookedBack, "advance")
    BY <2>1, <2>2, <2>3, FillGrows
  <2>5. UNCHANGED <<class, open, lookedBack, previous, current>> /\ pc' = "advance"
    BY <1>10 DEF AppendPending
  <2>6. Goal
    BY <1>i, <2>1, <2>4, <2>5
  <2> QED BY <1>g, <2>6
<1>11. ASSUME Shuffle, UNCHANGED <<class, open, lookedBack>>, pc' # "place", open => Len(next) > 1
       PROVE  CutInv'
  <2>1. CutAll(previous', class)
    BY <1>11, <1>t, <1>i, CutAllRow DEF Shuffle
  <2>2. CASE next = <<>>
    <3>1. Goal
      BY <1>11, <1>i, <2>1, <2>2 DEF Shuffle, TypeInv, Control
    <3> QED BY <1>g, <3>1
  <2>3. CASE next # <<>>
    <3>1. CutIn(Head(next), class) /\ CutAll(Tail(next), class)
      <4>1. <<>> \in Seq(Nat)
        OBVIOUS
      <4> QED BY <1>t, <1>i, <2>3, <4>1, CutAllRow
    <3>2. current' = Head(next) /\ next' = Tail(next)
      BY <1>11, <2>3 DEF Shuffle
    <3>3. open => LastOf(next') = LastOf(next)
      <4>1. <<>> \in Seq(Nat)
        OBVIOUS
      <4> QED BY <1>11, <1>t, <3>2, <4>1, LastInRow
    <3>4. open' => FillIn(LastOf(next'), class', lookedBack', pc')
      BY <1>11, <1>i, <1>p, <3>3
    <3>5. Goal
      BY <1>11, <2>1, <3>1, <3>2, <3>4
    <3> QED BY <1>g, <3>5
  <2> QED BY <2>2, <2>3
<1>12. CASE Advance
  <2>1. /\ Shuffle /\ UNCHANGED <<class, open, lookedBack>> /\ pc' # "place" /\ Len(next) > 1
    BY <1>12, <1>t DEF Advance
  <2> QED BY <1>11, <2>1
<1>13. CASE NewPending \/ FinishRun \/ EmitDone \/ ExitCommand
  <2>1. pc' # "place" /\ UNCHANGED <<class, open, lookedBack, previous, current, next>>
    BY <1>13 DEF NewPending, FinishRun, EmitDone, ExitCommand, queues
  <2> QED BY <1>1, <2>1
<1>14. CASE FlushOldest \/ Emit
  <2>1. /\ previous # <<>> /\ previous' = Tail(previous) /\ pc' = pc
        /\ UNCHANGED <<class, open, lookedBack, current, next>>
    BY <1>14 DEF FlushOldest, Emit, PrintOldest
  <2>2. CutAll(Tail(previous), class)
    <3>1. <<>> \in Seq(Nat)
      OBVIOUS
    <3> QED BY <1>t, <1>i, <2>1, <3>1, CutAllRow
  <2>3. Goal
    BY <1>i, <2>1, <2>2
  <2> QED BY <1>g, <2>3
<1>15. CASE Delimit
  <2>1. PICK k \in 1..(Len(current) - 1) :
          current' = Head2(current, k) /\ next' = <<Tail2(current, k)>> \o next
    BY <1>15 DEF Delimit
  <2>2. current # NoWindow /\ current \in Seq(Nat) /\ k \in 1..Len(current)
    BY <1>15, <1>t, <2>1 DEF Delimit, TypeInv, Control
  <2>3. /\ CutIn(Head2(current, k), class) /\ CutIn(Tail2(current, k), class)
        /\ Tail2(current, k) \in Seq(Nat)
    BY <1>i, <2>2, CutApart, CutType
  <2>4. CutAll(next', class)
    BY <1>t, <1>i, <2>1, <2>3, CutAllRow
  <2>5. open => LastOf(next') = LastOf(next)
    BY <1>t, <2>1, <2>3, LastInRow DEF TypeInv, Control
  <2>6. UNCHANGED <<class, open, lookedBack, previous, pc>>
    BY <1>15 DEF Delimit
  <2>7. Goal
    BY <1>i, <2>1, <2>3, <2>4, <2>5, <2>6
  <2> QED BY <1>g, <2>7
<1>16. ASSUME SealPending, pc = "read", pc' = "drain",
              UNCHANGED <<class, lookedBack, previous, current>>
       PROVE  CutInv'
  <2>1. CASE pending # 0
    <3>1. CutAll(next', class) /\ ~open'
      BY <1>8, <1>16, <2>1 DEF SealPending
    <3>2. Goal
      BY <1>16, <1>i, <3>1
    <3> QED BY <1>g, <3>2
  <2>2. CASE pending = 0
    BY <1>1, <1>16, <2>2 DEF SealPending
  <2> QED BY <2>1, <2>2
<1>17. CASE FlushCommand \/ EndOfInput
  BY <1>16, <1>17 DEF FlushCommand, EndOfInput
<1>18. CASE DrainNext
  <2>1. /\ Shuffle /\ UNCHANGED <<class, open, lookedBack>> /\ pc' # "place" /\ ~open
    BY <1>18 DEF DrainNext, TypeInv, Control
  <2> QED BY <1>11, <2>1
<1> QED
  BY <1>2, <1>3, <1>4, <1>5, <1>6, <1>7, <1>9, <1>10, <1>12, <1>13, <1>14, <1>15, <1>17, <1>18
     DEF Next, Line, Work, LookBack, PlaceLine, RunWindow, Drain, Stopped

\* Windows end where the delimiters and limits say, whatever --soft-limit and
\* --hard-limit are: a hard delimiter is the last cohort of its window, soft
\* delimiters cut the windows that outgrow the soft limit, and no window outgrows
\* the hard limit; lookback, DELIMIT and FLUSH never undo that.
THEOREM WindowsStayWellCut == Spec => []WindowsWellCut
<1>1. CutInv => WindowsWellCut
  BY DEF CutInv
<1> QED BY <1>1, InitCutInv, NextCutInv, InitTypeInv, NextTypeInv, PTL DEF Spec

-----------------------------------------------------------------------------
(* Lookahead. *)

\* Only a run of the grammar takes a window away, and only when there is one
\* more than enough; DELIMIT adds one.
LEMMA NextLookahead == TypeInv /\ Lookahead /\ [Next]_vars => Lookahead'
<1> SUFFICES ASSUME TypeInv, Lookahead, [Next]_vars  PROVE Lookahead'
  OBVIOUS
<1> USE LimitsAssumption
<1>t. next \in Seq(Seq(Nat)) /\ Len(next) \in Nat
  BY WindowTypes, LenProperties
<1>1. CASE Advance
  <2>1. next # <<>> /\ Len(next) > NumWindows + 1 /\ next' = Tail(next)
    BY <1>t, <1>1 DEF Advance, Shuffle
  <2>2. Len(Tail(next)) = Len(next) - 1
    BY <1>t, <2>1, HeadTailProperties
  <2> QED BY <1>t, <2>1, <2>2 DEF Lookahead
<1>2. CASE Delimit
  <2>1. PICK k : next' = <<Tail2(current, k)>> \o next
    BY <1>2 DEF Delimit
  <2>2. pc = "run" /\ pc' = pc /\ mode' = mode
    BY <1>2 DEF Delimit
  <2>3. Len(next') = Len(next) + 1
    BY <1>t, <2>1
  <2> QED BY <1>t, <2>2, <2>3 DEF Lookahead
<1>3. CASE DrainNext
  BY <1>3 DEF DrainNext, Lookahead, TypeInv, Control
<1>4. CASE UNCHANGED vars
  BY <1>4 DEF vars, queues, Lookahead
<1>5. CASE FlushOldest
  BY <1>5 DEF FlushOldest, Lookahead
<1> QED
  BY <1>1, <1>2, <1>3, <1>4, <1>5
     DEF Next, Line, Work, LookBack, PlaceLine, RunWindow, Drain, Stopped, Lookahead,
         ReadCohort, FlushCommand, EndOfInput, ExitCommand, NoLookback, LookbackMisses,
         LookbackCuts, OpenFirst, CloseAndOpen, AppendPending, NewPending, FinishRun,
         Emit, EmitDone

\* Until the input ends or is flushed, no window is run before --num-windows
\* complete windows follow it.
THEOREM LookaheadHolds == Spec => []Lookahead
<1>1. Init => Lookahead
  BY DEF Init, Lookahead
<1> QED BY <1>1, InitTypeInv, NextTypeInv, NextLookahead, PTL DEF Spec

=============================================================================
