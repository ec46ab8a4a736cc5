-------------------------- MODULE FlatTableProofs ---------------------------
(***************************************************************************)
(* Proofs about FlatTable, for all sets of keys and values, all hash       *)
(* functions and all capacities: a search finds exactly what is stored,    *)
(* the size is right, and the table implements a finite map.               *)
(*                                                                         *)
(* The invariant behind them is Paths: from the hash of a stored key to    *)
(* its cell there is no empty cell.                                        *)
(***************************************************************************)
EXTENDS FlatTable, FiniteSetTheorems, TLAPS

Paths == \A i \in Stored : \E j \in Cells : i = Spot(cells[i].key, j) /\ FirstStop(cells[i].key, j)
OneCellPerKey == \A i, j \in Stored : cells[i].key = cells[j].key => i = j

RestIsApart ==
    /\ IsFiniteSet(rest)
    /\ \A i \in rest : old[i].key \in Keys /\ old[i].val \in Values
    /\ \A i, j \in rest : old[i].key = old[j].key => i = j
    /\ \A i \in rest, j \in Stored : old[i].key # cells[j].key

ValuesKnown ==
    /\ \A i \in Stored : cells[i].val \in Values
    /\ call.key \in Keys => call.val \in Values
    /\ pc \in {"idle", "place"} => rest = {}
    /\ call = NoEntry \/ call.key \in Keys

IInv ==
    /\ TypeOK
    /\ Paths
    /\ OneCellPerKey
    /\ RestIsApart
    /\ ValuesKnown
    /\ SizeCounts

-----------------------------------------------------------------------------
(* The search. *)

LEMMA SpotIsCell ==
  ASSUME cap \in Nat, NEW k \in Keys, NEW j \in Cells
  PROVE  Spot(k, j) \in Cells
<1>1. cap > 0 /\ j \in Nat /\ Hash[k] \in Nat
  BY HashAssumption DEF Cells
<1>2. Hash[k] + 5 * j \in Nat
  BY <1>1
<1> DEFINE a == Hash[k] + 5 * j
<1> HIDE DEF a
<1>3. a % cap \in 0..cap - 1
  BY <1>1, <1>2 DEF a
<1> QED BY <1>3 DEF a, Spot, Cells

\* The first cell a search stops at, when the key is not stored, is empty.
LEMMA StopsAtEmpty ==
  ASSUME TypeOK, NEW k \in Keys, NEW j \in Cells, FirstStop(k, j),
         \A i \in Stored : cells[i].key # k
  PROVE  cells[Spot(k, j)].key = Empty /\ Spot(k, j) \in Cells \ Stored
<1>1. Spot(k, j) \in Cells
  BY SpotIsCell DEF TypeOK
<1>2. cells[Spot(k, j)].key \in {Empty, k}
  BY DEF FirstStop, Stops
<1> QED BY <1>1, <1>2, MarksAssumption DEF Stored

\* An entry in the cell where the search for its key stops.
LEMMA PutKeeps ==
  ASSUME TypeOK, Paths, OneCellPerKey, NEW e \in Cell, e.key \in Keys,
         \A i \in Stored : cells[i].key # e.key,
         NEW j \in Cells, FirstStop(e.key, j),
         cap' = cap, cells' = [cells EXCEPT ![Spot(e.key, j)] = e]
  PROVE  /\ Paths' /\ OneCellPerKey' /\ cells' \in [Cells -> Cell]
         /\ Spot(e.key, j) \notin Stored /\ Spot(e.key, j) \in Cells
         /\ Stored' = Stored \cup {Spot(e.key, j)}
         /\ \A i \in Stored : cells'[i] = cells[i]
         /\ cells'[Spot(e.key, j)] = e
<1> DEFINE s == Spot(e.key, j)
<1>1. s \in Cells \ Stored /\ cells[s].key = Empty
  BY StopsAtEmpty
<1>2. cells' \in [Cells -> Cell] /\ cells'[s] = e /\ \A i \in Cells : i # s => cells'[i] = cells[i]
  BY <1>1 DEF TypeOK
<1>3. Cells' = Cells /\ Stored' = Stored \cup {s}
  BY <1>1, <1>2 DEF Cells, Stored
<1>4. OneCellPerKey'
  BY <1>1, <1>2, <1>3 DEF OneCellPerKey, Stored
<1>5. \A k \in Keys, l \in Cells : Spot(k, l)' = Spot(k, l) /\ Spot(k, l) \in Cells
  BY SpotIsCell DEF Spot, TypeOK
<1>6. \A k \in Keys, l \in Cells : ~ Stops(k, l) => ~ Stops(k, l)'
  BY <1>1, <1>2, <1>5 DEF Stops
<1>7. \A k \in Keys, l \in Cells : Stops(k, l) /\ Spot(k, l) # s => Stops(k, l)'
  BY <1>2, <1>5 DEF Stops
<1>8. \A l \in Cells : 0..l - 1 \subseteq Cells
  BY DEF Cells, TypeOK
<1>9. \A k \in Keys, l \in Cells : FirstStop(k, l) /\ Spot(k, l) # s => FirstStop(k, l)'
  BY <1>6, <1>7, <1>8 DEF FirstStop
<1>10. FirstStop(e.key, j)'
  <2>1. Stops(e.key, j)'
    BY <1>2, <1>5 DEF Stops
  <2> QED BY <2>1, <1>6, <1>8 DEF FirstStop
<1>11. \A i \in Stored : cells'[i] = cells[i] /\ cells[i].key \in Keys /\ i # s
  BY <1>1, <1>2 DEF Stored
<1>12. Paths'
  <2> SUFFICES ASSUME NEW i \in Stored'
               PROVE  \E l \in Cells : i = Spot(cells[i].key, l)' /\ FirstStop(cells[i].key, l)'
    BY <1>3 DEF Paths
  <2>1. CASE i = s
    BY <2>1, <1>2, <1>5, <1>10
  <2>2. CASE i # s
    <3>1. i \in Stored /\ cells'[i].key = cells[i].key /\ cells[i].key \in Keys
      BY <1>3, <1>11, <2>2
    <3>2. PICK l \in Cells : i = Spot(cells[i].key, l) /\ FirstStop(cells[i].key, l)
      BY <3>1 DEF Paths
    <3> QED BY <1>5, <1>9, <2>2, <3>1, <3>2
  <2> QED BY <2>1, <2>2
<1> QED BY <1>1, <1>2, <1>3, <1>4, <1>11, <1>12

\* A stored entry is marked as deleted.
LEMMA EraseKeeps ==
  ASSUME TypeOK, Paths, OneCellPerKey, NEW s \in Stored, EraseCell(s)
  PROVE  /\ Paths' /\ OneCellPerKey' /\ cells' \in [Cells -> Cell]
         /\ Stored' = Stored \ {s}
         /\ \A i \in Stored : i # s => cells'[i] = cells[i]
<1>1. /\ cap' = cap /\ Cells' = Cells /\ s \in Cells
      /\ cells' = [cells EXCEPT ![s] = [key |-> Deleted, val |-> NoValue]]
  BY DEF EraseCell, Cells, Stored
<1>2. /\ cells' \in [Cells -> Cell] /\ cells'[s].key = Deleted
      /\ \A i \in Cells : i # s => cells'[i] = cells[i]
  BY <1>1 DEF TypeOK, Cell
<1>3. Stored' = Stored \ {s}
  BY <1>1, <1>2, MarksAssumption DEF Stored
<1>4. OneCellPerKey'
  BY <1>2, <1>3 DEF OneCellPerKey, Stored
<1>5. \A k \in Keys, l \in Cells : Spot(k, l)' = Spot(k, l) /\ Spot(k, l) \in Cells
  BY <1>1, SpotIsCell DEF Spot, TypeOK
<1>6. \A k \in Keys, l \in Cells : ~ Stops(k, l) => ~ Stops(k, l)'
  BY <1>2, <1>5, MarksAssumption DEF Stops
<1>7. \A k \in Keys, l \in Cells : Stops(k, l) /\ Spot(k, l) # s => Stops(k, l)'
  BY <1>2, <1>5 DEF Stops
<1>8. \A l \in Cells : 0..l - 1 \subseteq Cells
  BY DEF Cells, TypeOK
<1>9. \A k \in Keys, l \in Cells : FirstStop(k, l) /\ Spot(k, l) # s => FirstStop(k, l)'
  BY <1>6, <1>7, <1>8 DEF FirstStop
<1>10. \A i \in Stored : i \in Cells /\ cells[i].key \in Keys
  BY DEF Stored
<1>11. Paths'
  <2> SUFFICES ASSUME NEW i \in Stored'
               PROVE  \E l \in Cells : i = Spot(cells[i].key, l)' /\ FirstStop(cells[i].key, l)'
    BY <1>1 DEF Paths
  <2>1. i \in Stored /\ i # s /\ cells'[i].key = cells[i].key /\ cells[i].key \in Keys
    BY <1>2, <1>3, <1>10
  <2>2. PICK l \in Cells : i = Spot(cells[i].key, l) /\ FirstStop(cells[i].key, l)
    BY <2>1 DEF Paths
  <2> QED BY <1>5, <1>9, <2>1, <2>2
<1> QED BY <1>2, <1>3, <1>4, <1>10, <1>11

\* An entry gets another value.
LEMMA ReplaceKeeps ==
  ASSUME TypeOK, Paths, OneCellPerKey, NEW s \in Stored, NEW v \in Values,
         cap' = cap, cells' = [cells EXCEPT ![s].val = v]
  PROVE  /\ Paths' /\ OneCellPerKey' /\ cells' \in [Cells -> Cell] /\ Stored' = Stored
         /\ \A i \in Cells : cells'[i].key = cells[i].key
         /\ \A i \in Stored : i # s => cells'[i] = cells[i]
         /\ cells'[s] = Entry(cells[s].key, v)
<1>1. Cells' = Cells /\ s \in Cells /\ cells[s] \in Cell
  BY DEF Cells, Stored, TypeOK
<1>2. /\ cells' \in [Cells -> Cell] /\ cells'[s] = Entry(cells[s].key, v)
      /\ \A i \in Cells : i # s => cells'[i] = cells[i]
  BY <1>1 DEF TypeOK, Cell, Entry
<1>3. \A i \in Cells : cells'[i].key = cells[i].key
  BY ZenonT(60), <1>2 DEF Entry
<1>4. Stored' = Stored
  BY <1>1, <1>3 DEF Stored
<1>5. OneCellPerKey'
  BY <1>3, <1>4 DEF OneCellPerKey, Stored
<1>6. \A k \in Keys, l \in Cells : Spot(k, l)' = Spot(k, l) /\ Spot(k, l) \in Cells /\ (Stops(k, l)' <=> Stops(k, l))
  <2>1. \A k \in Keys, l \in Cells : Spot(k, l)' = Spot(k, l) /\ Spot(k, l) \in Cells
    BY SpotIsCell DEF Spot, TypeOK
  <2> QED BY <1>3, <2>1 DEF Stops
<1>7. \A k \in Keys, l \in Cells : FirstStop(k, l) => FirstStop(k, l)'
  BY <1>6 DEF FirstStop, Cells, TypeOK
<1>8. Paths'
  <2> SUFFICES ASSUME NEW i \in Stored
               PROVE  \E l \in Cells : i = Spot(cells[i].key, l)' /\ FirstStop(cells[i].key, l)'
    BY <1>1, <1>3, <1>4 DEF Paths, Stored
  <2> QED BY <1>6, <1>7 DEF Paths, Stored
<1> QED BY <1>2, <1>3, <1>4, <1>5, <1>8

\* A search stops first at one place only.
LEMMA OneFirstStop ==
  ASSUME TypeOK, NEW k \in Keys, NEW i \in Cells, NEW j \in Cells, FirstStop(k, i), FirstStop(k, j)
  PROVE  i = j
<1>1. i \in Nat /\ j \in Nat
  BY DEF Cells, TypeOK
<1>2. ~ (i < j) /\ ~ (j < i)
  BY <1>1 DEF FirstStop
<1> QED BY <1>1, <1>2

\* The sets that size_ counts are finite.
LEMMA Counting ==
  ASSUME IInv
  PROVE  /\ IsFiniteSet(Stored) /\ Cardinality(Stored) \in Nat
         /\ IsFiniteSet(rest) /\ Cardinality(rest) \in Nat
         /\ Cardinality({}) = 0
         /\ rest = {} => size = Cardinality(Stored)
<1>1. IsFiniteSet(Stored)
  <2>1. cap - 1 \in Int /\ Stored \in SUBSET (0..cap - 1)
    BY DEF Stored, Cells, IInv, TypeOK
  <2>2. IsFiniteSet(0..cap - 1)
    BY <2>1, FS_Interval
  <2> QED BY <2>1, <2>2, FS_Subset
<1>2. IsFiniteSet(rest)
  BY DEF IInv, RestIsApart
<1>3. Cardinality(Stored) \in Nat /\ Cardinality(rest) \in Nat /\ Cardinality({}) = 0
  BY <1>1, <1>2, FS_CardinalityType, FS_EmptySet
<1>4. rest = {} => size = Cardinality(Stored)
  BY <1>3 DEF IInv, SizeCounts
<1> QED BY <1>1, <1>2, <1>3, <1>4

\* Where a search finds a key, and that it finds all that is stored.
LEMMA FoundIsStored ==
  ASSUME IInv, NEW k \in Keys, NEW i \in Cells, cells[i].key = k, rest = {}
  PROVE  i \in Stored /\ FindsAt(k, i)
<1>1. i \in Stored
  BY DEF Stored
<1>2. Cardinality(Stored) # 0
  BY <1>1, Counting, FS_EmptySet
<1>3. size # 0
  BY <1>2, Counting
<1>4. PICK j \in Cells : i = Spot(k, j) /\ FirstStop(k, j)
  BY <1>1 DEF IInv, Paths
<1> QED BY <1>1, <1>3, <1>4 DEF FindsAt

-----------------------------------------------------------------------------
(* The invariant holds at first, and every action keeps it and does what a *)
(* map does or nothing.                                                    *)

MapStep == Map!Next \/ contents' = contents

LEMMA InitIInv ==
  ASSUME Init
  PROVE  IInv /\ contents = {}
<1>1. cap = 0 /\ Cells = {} /\ Stored = {} /\ rest = {} /\ size = 0 /\ pc = "idle"
  BY DEF Init, Cells, Stored
<1>2. cells = NoCells /\ old = NoCells /\ call = EmptyCell /\ DOMAIN old = {}
  BY DEF Init, NoEntry, NoCells
<1>3. TypeOK
  BY <1>1, <1>2 DEF TypeOK, NoCells, EmptyCell, Cell
<1>4. Paths /\ OneCellPerKey
  BY <1>1 DEF Paths, OneCellPerKey
<1>5. RestIsApart /\ SizeCounts
  BY <1>1, FS_EmptySet DEF RestIsApart, SizeCounts
<1>6. ValuesKnown
  BY <1>1, <1>2, MarksAssumption DEF ValuesKnown, EmptyCell, NoEntry
<1>7. contents = {}
  BY <1>1 DEF contents
<1> QED BY <1>3, <1>4, <1>5, <1>6, <1>7 DEF IInv

\* The table grows: it is replaced by an empty one, to be filled again.
LEMMA ReserveStep ==
  ASSUME IInv, pc = "idle", NEW n \in Nat, n > 0, n >= cap, NEW e, Reserve(n, e),
         e = NoEntry \/ \E k \in Keys, v \in Values : e = Entry(k, v)
  PROVE  IInv' /\ MapStep
<1>1. /\ cap' = n /\ call' = e /\ size' = size /\ rest = {} /\ cap \in Nat
      /\ Cells \subseteq Cells' /\ Cells' = 0..n - 1
  BY DEF Reserve, IInv, TypeOK, ValuesKnown, Cells
<1>2. e \in Cell /\ (e.key \in Keys => e.val \in Values) /\ (e = NoEntry \/ e.key \in Keys)
  BY MarksAssumption DEF Cell, NoEntry, EmptyCell, Entry
<1>3. /\ cells' \in [Cells' -> Cell] /\ Stored' = {}
      /\ rest' \subseteq DOMAIN old' /\ old' \in [DOMAIN old' -> Cell] /\ DOMAIN old' \subseteq Nat
      /\ pc' \in {"idle", "copy", "place"}
      /\ (pc' = "place" => e # NoEntry /\ rest' = {}) /\ (pc' = "idle" => rest' = {})
      /\ (size = 0 /\ Stored = {} /\ rest' = {}) \/ (old' = cells /\ rest' = Stored)
  <2>1. CASE size = 0
    <3>1. Stored = {}
      BY <2>1, <1>1, Counting, FS_EmptySet
    <3>2. /\ cells' = [i \in 0..n - 1 |-> IF i \in Cells THEN cells[i] ELSE EmptyCell]
          /\ pc' = IF e = NoEntry THEN "idle" ELSE "place"
          /\ old' = old /\ rest' = rest
      BY <2>1 DEF Reserve
    <3>3. cells' \in [Cells' -> Cell]
      BY <3>2, <1>1 DEF IInv, TypeOK, EmptyCell, Cell
    <3>4. \A i \in Cells' : cells'[i].key \notin Keys
      BY <3>1, <3>2, <1>1, MarksAssumption DEF Stored, EmptyCell
    <3> QED BY <3>1, <3>2, <3>3, <3>4, <1>1, <2>1 DEF Stored, IInv, TypeOK
  <2>2. CASE size # 0
    <3>1. old' = cells /\ rest' = Stored /\ cells' = [i \in 0..n - 1 |-> EmptyCell] /\ pc' = "copy"
      BY <2>2 DEF Reserve
    <3>2. cells' \in [Cells' -> Cell]
      BY <3>1, <1>1 DEF EmptyCell, Cell
    <3>3. \A i \in Cells' : cells'[i].key \notin Keys
      BY <3>1, <1>1, MarksAssumption DEF EmptyCell
    <3>4. DOMAIN old' = Cells /\ Cells \subseteq Nat /\ Stored \subseteq Cells /\ cells \in [Cells -> Cell]
      BY <3>1 DEF Stored, IInv, TypeOK, Cells
    <3> QED BY <3>1, <3>2, <3>3, <3>4 DEF Stored
  <2> QED BY <2>1, <2>2
<1>4. TypeOK'
  BY <1>1, <1>2, <1>3 DEF TypeOK, IInv
<1>5. Paths' /\ OneCellPerKey'
  BY <1>3 DEF Paths, OneCellPerKey
<1>6. RestIsApart'
  BY <1>3, Counting, FS_EmptySet DEF RestIsApart, IInv, Stored, OneCellPerKey, ValuesKnown
<1>7. ValuesKnown'
  BY <1>1, <1>2, <1>3 DEF ValuesKnown
<1>8. SizeCounts'
  <2>1. size = Cardinality(Stored) /\ size \in Nat /\ Cardinality({}) = 0
    BY <1>1, Counting
  <2>2. Cardinality(Stored') = 0
    BY <1>3, <2>1
  <2>3. Cardinality(rest') = size
    BY <1>3, <2>1
  <2> QED BY <1>1, <2>1, <2>2, <2>3 DEF SizeCounts
<1>9. contents' = contents
  <2>1. contents = {cells[i] : i \in Stored}
    BY <1>1 DEF contents
  <2>2. contents' = {old'[i] : i \in rest'}
    BY <1>3 DEF contents
  <2> QED BY <1>3, <2>1, <2>2
<1> QED BY <1>4, <1>5, <1>6, <1>7, <1>8, <1>9 DEF IInv, MapStep

LEMMA InsertStep ==
  ASSUME IInv, NEW k \in Keys, NEW v \in Values, Insert(k, v)
  PROVE  IInv' /\ MapStep
<1>1. cap \in Nat /\ size \in Nat /\ pc = "idle"
  BY DEF Insert, IInv, TypeOK
<1>2. CASE IsFull /\ Reserve(NewCap, Entry(k, v))
  <2>1. NewCap \in Nat /\ NewCap > 0 /\ NewCap >= cap
    BY <1>1, CapAssumption DEF NewCap
  <2> QED BY <1>1, <1>2, <2>1, ReserveStep
<1>3. CASE ~ IsFull /\ call' = Entry(k, v) /\ pc' = "place" /\ UNCHANGED <<cap, cells, size, old, rest>>
  <2>1. cap > 0
    BY <1>1, <1>3 DEF IsFull
  <2>2. /\ Entry(k, v) \in Cell /\ Entry(k, v).key = k /\ Entry(k, v).val = v
        /\ Cells' = Cells /\ Stored' = Stored
    BY <1>3 DEF Entry, Cell, Cells, Stored
  <2>3. TypeOK'
    BY <1>3, <2>1, <2>2 DEF IInv, TypeOK
  <2>4. \A key, j : Spot(key, j)' = Spot(key, j) /\ FirstStop(key, j)' = FirstStop(key, j)
    BY <1>3 DEF Spot, FirstStop, Stops
  <2>5. Paths' /\ OneCellPerKey'
    BY <1>3, <2>2, <2>4 DEF IInv, Paths, OneCellPerKey
  <2>6. RestIsApart' /\ SizeCounts'
    BY <1>3, <2>2 DEF IInv, RestIsApart, SizeCounts
  <2>7. ValuesKnown'
    BY <1>1, <1>3, <2>2 DEF IInv, ValuesKnown
  <2>8. contents' = contents
    BY <1>3, <2>2 DEF contents
  <2> QED BY <2>3, <2>5, <2>6, <2>7, <2>8 DEF IInv, MapStep
<1> QED BY <1>2, <1>3 DEF Insert

\* The search for room went on forever, and nothing was changed.
LEMMA SpinsStep ==
  ASSUME IInv, Spins
  PROVE  IInv' /\ MapStep
<1>1. Cells' = Cells /\ Stored' = Stored /\ contents' = contents
  BY DEF Spins, Cells, Stored, contents
<1>2. TypeOK'
  BY <1>1 DEF Spins, IInv, TypeOK
<1>3. \A k, j : Spot(k, j)' = Spot(k, j) /\ FirstStop(k, j)' = FirstStop(k, j)
  BY DEF Spins, Spot, FirstStop, Stops
<1>4. Paths' /\ OneCellPerKey'
  BY <1>1, <1>3 DEF Spins, IInv, Paths, OneCellPerKey
<1>5. RestIsApart' /\ SizeCounts' /\ ValuesKnown'
  BY <1>1 DEF Spins, IInv, RestIsApart, SizeCounts, ValuesKnown
<1> QED BY <1>1, <1>2, <1>4, <1>5 DEF IInv, MapStep

LEMMA CopyOneStep ==
  ASSUME IInv, CopyOne
  PROVE  IInv' /\ MapStep
<1>1. PICK i \in rest : \/ Endless(old[i].key) /\ Spins
                        \/ \E j \in Cells :
                             /\ FirstStop(old[i].key, j)
                             /\ cells' = [cells EXCEPT ![Spot(old[i].key, j)] = old[i]]
                             /\ rest' = rest \ {i}
                             /\ UNCHANGED <<cap, size, old, call, pc>>
  BY DEF CopyOne
<1>2. CASE Spins
  BY <1>2, SpinsStep
<1>3. ASSUME NEW j \in Cells, FirstStop(old[i].key, j),
             cells' = [cells EXCEPT ![Spot(old[i].key, j)] = old[i]],
             rest' = rest \ {i}, UNCHANGED <<cap, size, old, call, pc>>
      PROVE  IInv' /\ MapStep
  <2>1. PICK e : e = old[i]
    OBVIOUS
  <2>2. e \in Cell /\ e.key \in Keys /\ e.val \in Values /\ \A m \in Stored : cells[m].key # e.key
    BY <2>1 DEF IInv, TypeOK, RestIsApart
  <2>3. PICK s : s = Spot(e.key, j)
    OBVIOUS
  <2>4. /\ Paths' /\ OneCellPerKey' /\ cells' \in [Cells -> Cell]
        /\ s \notin Stored /\ s \in Cells /\ Stored' = Stored \cup {s}
        /\ \A m \in Stored : cells'[m] = cells[m]
        /\ cells'[s] = e
    BY <1>3, <2>1, <2>2, <2>3, PutKeeps DEF IInv
  <2>5. TypeOK'
    BY <1>3, <2>4 DEF IInv, TypeOK, Cells, CopyOne
  <2>6. RestIsApart'
    <3>1. IsFiniteSet(rest')
      BY <1>3, Counting, FS_RemoveElement
    <3>2. \A m \in rest' : m \in rest /\ m # i /\ old'[m] = old[m] /\ old[m].key # e.key
      BY <1>3, <2>1 DEF IInv, RestIsApart
    <3> QED BY <2>4, <3>1, <3>2 DEF IInv, RestIsApart
  <2>7. ValuesKnown'
    BY <1>3, <2>2, <2>4 DEF IInv, ValuesKnown, CopyOne
  <2>8. SizeCounts'
    <3>1. Cardinality(Stored') = Cardinality(Stored) + 1
      BY <2>4, Counting, FS_AddElement
    <3>2. Cardinality(rest') = Cardinality(rest) - 1
      BY <1>3, Counting, FS_RemoveElement
    <3>3. size' = size /\ size = Cardinality(Stored) + Cardinality(rest)
      BY <1>3 DEF IInv, SizeCounts
    <3> QED BY <3>1, <3>2, <3>3, Counting DEF SizeCounts
  <2>9. contents' = contents
    <3>1. contents' = {cells'[m] : m \in Stored \cup {s}} \cup {old[m] : m \in rest \ {i}}
      BY <1>3, <2>4 DEF contents
    <3>2. {cells'[m] : m \in Stored \cup {s}} = {cells[m] : m \in Stored} \cup {e}
      BY <2>4
    <3>3. {e} \cup {old[m] : m \in rest \ {i}} = {old[m] : m \in rest}
      BY <2>1
    <3> QED BY <3>1, <3>2, <3>3 DEF contents
  <2> QED BY <2>4, <2>5, <2>6, <2>7, <2>8, <2>9 DEF IInv, MapStep
<1> QED BY <1>1, <1>2, <1>3

LEMMA EndCopyStep ==
  ASSUME IInv, EndCopy
  PROVE  IInv' /\ MapStep
<1>1. Cells' = Cells /\ Stored' = Stored /\ rest = {} /\ rest' = {} /\ old' = NoCells
  BY DEF EndCopy, Cells, Stored
<1>2. DOMAIN old' = {} /\ old' \in [DOMAIN old' -> Cell]
  BY <1>1 DEF NoCells, EmptyCell, Cell
<1>3. TypeOK'
  BY <1>1, <1>2 DEF EndCopy, IInv, TypeOK, ValuesKnown
<1>4. \A k, j : Spot(k, j)' = Spot(k, j) /\ FirstStop(k, j)' = FirstStop(k, j)
  BY DEF EndCopy, Spot, FirstStop, Stops
<1>5. Paths' /\ OneCellPerKey'
  BY <1>1, <1>4 DEF EndCopy, IInv, Paths, OneCellPerKey
<1>6. RestIsApart' /\ SizeCounts' /\ ValuesKnown'
  BY <1>1 DEF EndCopy, IInv, RestIsApart, SizeCounts, ValuesKnown
<1>7. contents' = contents
  BY <1>1 DEF EndCopy, contents
<1> QED BY <1>3, <1>5, <1>6, <1>7 DEF IInv, MapStep

\* Where the search for a key stops at the key, or it is not stored at all.
LEMMA StopsAtKey ==
  ASSUME IInv, NEW k \in Keys, NEW j \in Cells, FirstStop(k, j), cells[Spot(k, j)].key # k
  PROVE  \A m \in Stored : cells[m].key # k
<1> SUFFICES ASSUME NEW m \in Stored, cells[m].key = k
             PROVE  FALSE
  OBVIOUS
<1>1. PICK l \in Cells : m = Spot(k, l) /\ FirstStop(k, l)
  BY DEF IInv, Paths
<1>2. l = j
  BY <1>1, OneFirstStop DEF IInv
<1> QED BY <1>1, <1>2

LEMMA PlaceStep ==
  ASSUME IInv, Place
  PROVE  IInv' /\ MapStep
<1>1. PICK k \in Keys, v \in Values : call = Entry(k, v) /\ call.key = k
  BY DEF Place, IInv, TypeOK, ValuesKnown, Cell, Entry
<1>2. rest = {} /\ pc = "place" /\ call \in Cell
  BY DEF Place, IInv, TypeOK, ValuesKnown
<1>3. CASE Spins
  BY <1>3, SpinsStep
<1>4. ASSUME NEW j \in Cells, FirstStop(k, j), call' = NoEntry, pc' = "idle", UNCHANGED <<cap, old, rest>>,
             IF cells[Spot(k, j)].key = k THEN UNCHANGED <<cells, size>>
             ELSE cells' = [cells EXCEPT ![Spot(k, j)] = call] /\ size' = size + 1
      PROVE  IInv' /\ MapStep
  <2>1. PICK s : s = Spot(k, j)
    OBVIOUS
  <2>2. Cells' = Cells /\ NoEntry \in Cell /\ NoEntry.key \notin Keys
    BY <1>4, MarksAssumption DEF Cells, NoEntry, EmptyCell, Cell
  <2>3. RestIsApart'
    BY <1>2, <1>4, FS_EmptySet DEF RestIsApart
  <2>4. CASE cells[s].key = k
    <3>1. cells' = cells /\ size' = size /\ Stored' = Stored
      BY <1>4, <2>1, <2>2, <2>4 DEF Stored
    <3>2. \A key, m : Spot(key, m)' = Spot(key, m) /\ FirstStop(key, m)' = FirstStop(key, m)
      BY <1>4, <3>1 DEF Spot, FirstStop, Stops
    <3>3. TypeOK'
      BY <1>4, <2>2, <3>1 DEF IInv, TypeOK
    <3>4. Paths' /\ OneCellPerKey'
      BY <2>2, <3>1, <3>2 DEF IInv, Paths, OneCellPerKey
    <3>5. SizeCounts' /\ ValuesKnown'
      BY <1>2, <1>4, <2>2, <3>1 DEF IInv, SizeCounts, ValuesKnown
    <3>6. contents' = contents
      BY <1>4, <3>1 DEF contents
    <3> QED BY <2>3, <3>3, <3>4, <3>5, <3>6 DEF IInv, MapStep
  <2>5. CASE cells[s].key # k
    <3>1. cells' = [cells EXCEPT ![s] = call] /\ size' = size + 1
      BY <1>4, <2>1, <2>5
    <3>2. \A m \in Stored : cells[m].key # k
      BY <1>4, <2>1, <2>5, StopsAtKey
    <3>3. PICK e : e = call
      OBVIOUS
    <3>4. e \in Cell /\ e.key = k /\ e = Entry(k, v) /\ e.val = v
      BY <1>1, <1>2, <3>3 DEF Entry
    <3>5. /\ Paths' /\ OneCellPerKey' /\ cells' \in [Cells -> Cell]
          /\ s \notin Stored /\ s \in Cells /\ Stored' = Stored \cup {s}
          /\ \A m \in Stored : cells'[m] = cells[m]
          /\ cells'[s] = e
      BY <1>4, <2>1, <3>1, <3>2, <3>3, <3>4, PutKeeps DEF IInv
    <3>6. TypeOK'
      BY <1>4, <2>2, <3>1, <3>5 DEF IInv, TypeOK
    <3>7. ValuesKnown'
      BY <1>2, <1>4, <2>2, <3>4, <3>5 DEF IInv, ValuesKnown
    <3>8. SizeCounts'
      <4>1. Cardinality(Stored') = Cardinality(Stored) + 1
        BY <3>5, Counting, FS_AddElement
      <4> QED BY <1>2, <1>4, <3>1, <4>1, Counting DEF SizeCounts
    <3>9. contents = {cells[m] : m \in Stored} /\ contents' = {cells'[m] : m \in Stored'}
      BY <1>2, <1>4 DEF contents
    <3>10. contents' = contents \cup {e}
      BY <3>5, <3>9
    <3>11. ~ Map!Has(k)
      BY <3>2, <3>9 DEF Map!Has
    <3>12. Map!Add(k, v)
      BY <3>4, <3>10, <3>11 DEF Map!Add, Map!Entry, Entry
    <3>13. MapStep
      BY <3>12 DEF MapStep, Map!Next
    <3> QED BY <2>3, <3>5, <3>6, <3>7, <3>8, <3>13 DEF IInv
  <2> QED BY <2>4, <2>5
<1> QED BY <1>1, <1>3, <1>4 DEF Place

LEMMA AssignStep ==
  ASSUME IInv, NEW k \in Keys, NEW v \in Values, Assign(k, v)
  PROVE  IInv' /\ MapStep
<1>1. CASE Spins
  BY <1>1, SpinsStep
<1>2. CASE Insert(k, v)
  BY <1>2, InsertStep
<1>3. ASSUME NEW i \in Cells, FindsAt(k, i), cells' = [cells EXCEPT ![i].val = v],
             UNCHANGED <<cap, size, old, rest, call, pc>>
      PROVE  IInv' /\ MapStep
  <2>1. i \in Stored /\ cells[i].key = k /\ rest = {} /\ pc = "idle" /\ Cells' = Cells
    BY <1>3 DEF FindsAt, Stored, Assign, IInv, ValuesKnown, Cells
  <2>2. /\ Paths' /\ OneCellPerKey' /\ cells' \in [Cells -> Cell] /\ Stored' = Stored
        /\ \A m \in Stored : m # i => cells'[m] = cells[m]
        /\ cells'[i] = Entry(k, v) /\ cells'[i].val = v
    <3>1. /\ Paths' /\ OneCellPerKey' /\ cells' \in [Cells -> Cell] /\ Stored' = Stored
          /\ \A m \in Stored : m # i => cells'[m] = cells[m]
          /\ cells'[i] = Entry(cells[i].key, v)
      BY <1>3, <2>1, ReplaceKeeps DEF IInv
    <3> QED BY <2>1, <3>1 DEF Entry
  <2>3. TypeOK'
    BY <1>3, <2>1, <2>2 DEF IInv, TypeOK
  <2>4. RestIsApart' /\ SizeCounts'
    BY <1>3, <2>1, <2>2, FS_EmptySet DEF IInv, RestIsApart, SizeCounts
  <2>5. ValuesKnown'
    BY <1>3, <2>1, <2>2 DEF IInv, ValuesKnown
  <2>6. contents = {cells[m] : m \in Stored} /\ contents' = {cells'[m] : m \in Stored}
    BY <1>3, <2>1, <2>2 DEF contents
  <2>7. \A m \in Stored : m # i => cells[m].key # k
    BY <2>1 DEF IInv, OneCellPerKey
  <2>8. contents' = {e \in contents : e.key # k} \cup {Entry(k, v)}
    BY <2>1, <2>2, <2>6, <2>7
  <2>9. Map!Replace(k, v)
    BY <2>1, <2>6, <2>8 DEF Map!Replace, Map!Has, Map!Entry, Entry
  <2>10. MapStep
    BY <2>9 DEF MapStep, Map!Next
  <2> QED BY <2>2, <2>3, <2>4, <2>5, <2>10 DEF IInv
<1> QED BY <1>1, <1>2, <1>3 DEF Assign

LEMMA EraseStep ==
  ASSUME IInv, pc = "idle", NEW s \in Stored, EraseCell(s)
  PROVE  IInv' /\ MapStep
<1>1. UNCHANGED <<cap, old, rest, call, pc>> /\ size' = size - 1 /\ rest = {} /\ Cells' = Cells
  BY DEF EraseCell, IInv, ValuesKnown, Cells
<1>2. PICK k \in Keys : k = cells[s].key
  BY DEF Stored
<1>3. /\ Paths' /\ OneCellPerKey' /\ cells' \in [Cells -> Cell]
      /\ Stored' = Stored \ {s}
      /\ \A i \in Stored : i # s => cells'[i] = cells[i]
  BY EraseKeeps DEF IInv
<1>4. Cardinality(Stored') = Cardinality(Stored) - 1 /\ Cardinality(Stored) # 0
  BY <1>3, Counting, FS_RemoveElement, FS_EmptySet
<1>5. SizeCounts' /\ size' \in Nat
  BY <1>1, <1>4, Counting DEF SizeCounts
<1>6. TypeOK'
  BY <1>1, <1>3, <1>5 DEF IInv, TypeOK
<1>7. RestIsApart'
  BY <1>1, FS_EmptySet DEF RestIsApart
<1>8. ValuesKnown'
  BY <1>1, <1>3 DEF IInv, ValuesKnown
<1>9. contents = {cells[m] : m \in Stored} /\ contents' = {cells[m] : m \in Stored \ {s}}
  BY <1>1, <1>3 DEF contents
<1>10. \A m \in Stored : m # s => cells[m].key # k
  BY <1>2 DEF IInv, OneCellPerKey
<1>11. Map!Remove(k)
  BY <1>2, <1>9, <1>10 DEF Map!Remove
<1>12. MapStep
  BY <1>11 DEF MapStep, Map!Next
<1> QED BY <1>3, <1>5, <1>6, <1>7, <1>8, <1>12 DEF IInv

LEMMA ClearStep ==
  ASSUME IInv, Clear
  PROVE  IInv' /\ MapStep
<1>1. /\ Cells' = Cells /\ rest = {} /\ rest' = {} /\ size' = 0 /\ cells' \in [Cells -> Cell]
      /\ UNCHANGED <<cap, old, call, pc>>
  BY DEF Clear, Cells, IInv, ValuesKnown, EmptyCell, Cell
<1>2. Stored' = {}
  BY <1>1, MarksAssumption DEF Clear, Stored, EmptyCell
<1>3. TypeOK'
  BY <1>1 DEF IInv, TypeOK
<1>4. Paths' /\ OneCellPerKey' /\ RestIsApart'
  BY <1>1, <1>2, FS_EmptySet DEF Paths, OneCellPerKey, RestIsApart
<1>5. SizeCounts'
  BY <1>1, <1>2, FS_EmptySet DEF SizeCounts
<1>6. ValuesKnown'
  BY <1>1, <1>2 DEF IInv, ValuesKnown
<1>7. contents' = {}
  BY <1>1, <1>2 DEF contents
<1>8. MapStep
  BY <1>7 DEF MapStep, Map!Next, Map!Clear
<1> QED BY <1>3, <1>4, <1>5, <1>6, <1>8 DEF IInv

LEMMA Unchanged ==
  ASSUME IInv, UNCHANGED vars
  PROVE  IInv' /\ MapStep
<1>1. Cells' = Cells /\ Stored' = Stored /\ contents' = contents
  BY DEF vars, Cells, Stored, contents
<1>2. TypeOK'
  BY <1>1 DEF vars, IInv, TypeOK
<1>3. \A k, j : Spot(k, j)' = Spot(k, j) /\ FirstStop(k, j)' = FirstStop(k, j)
  BY DEF vars, Spot, FirstStop, Stops
<1>4. Paths' /\ OneCellPerKey'
  BY <1>1, <1>3 DEF vars, IInv, Paths, OneCellPerKey
<1>5. RestIsApart' /\ SizeCounts' /\ ValuesKnown'
  BY <1>1 DEF vars, IInv, RestIsApart, SizeCounts, ValuesKnown
<1> QED BY <1>1, <1>2, <1>4, <1>5 DEF IInv, MapStep

LEMMA StepIInv ==
  ASSUME IInv, [Next]_vars
  PROVE  IInv' /\ MapStep
<1>1. ASSUME NEW k \in Keys, NEW v \in Values, Insert(k, v) \/ Assign(k, v)
      PROVE  IInv' /\ MapStep
  BY <1>1, InsertStep, AssignStep
<1>2. ASSUME NEW k \in Keys, EraseKey(k)
      PROVE  IInv' /\ MapStep
  <2>1. CASE Spins
    BY <2>1, SpinsStep
  <2>2. ASSUME NEW i \in Cells, FindsAt(k, i), EraseCell(i)
        PROVE  IInv' /\ MapStep
    BY <1>2, <2>2, EraseStep DEF EraseKey, FindsAt, Stored
  <2> QED BY <1>2, <2>1, <2>2 DEF EraseKey
<1>3. ASSUME NEW i \in Cells, EraseAt(i)
      PROVE  IInv' /\ MapStep
  BY <1>3, EraseStep DEF EraseAt
<1>4. ASSUME ReserveRange
      PROVE  IInv' /\ MapStep
  <2>1. PICK n \in Sizes : n > cap /\ Reserve(n, NoEntry) /\ pc = "idle"
    BY <1>4 DEF ReserveRange
  <2>2. n \in Nat /\ cap \in Nat /\ n > 0 /\ n >= cap
    BY <2>1, CapAssumption DEF IInv, TypeOK
  <2> QED BY <2>1, <2>2, ReserveStep
<1>5. CASE Spin \/ UNCHANGED vars
  BY <1>5, Unchanged DEF Spin
<1> QED BY <1>1, <1>2, <1>3, <1>4, <1>5, CopyOneStep, EndCopyStep, PlaceStep, ClearStep DEF Next

-----------------------------------------------------------------------------
(* The theorems. *)

LEMMA SpecIInv == Spec => []IInv
<1>1. Init => IInv
  BY InitIInv
<1>2. IInv /\ [Next]_vars => IInv'
  BY StepIInv
<1> QED BY <1>1, <1>2, PTL DEF Spec

\* flat_unordered_map: the fields of the table are what they should be.
THEOREM TypeCorrect == Spec => []TypeOK
BY SpecIInv, PTL DEF IInv

\* flat_unordered_map: size_ is the number of entries, those that are still
\* to be copied into a larger table included.
THEOREM SizeIsRight == Spec => []SizeCounts
BY SpecIInv, PTL DEF IInv

\* flat_unordered_map::find(): between two operations it finds every key that
\* is stored, and nothing else, whatever was deleted before.
THEOREM LookupsAreRight == Spec => []LookupsFindAll
<1>1. IInv => LookupsFindAll
  BY FoundIsStored DEF IInv, ValuesKnown, LookupsFindAll, FindsAt
<1> QED BY <1>1, SpecIInv, PTL

\* flat_unordered_map: the table with its deletion marks, and the way it
\* grows, implement a finite map.
THEOREM TableIsMap == Spec => ImplementsKeyMap
<1>1. Init => Map!Init
  BY InitIInv DEF Map!Init
<1>2. IInv /\ [Next]_vars => [Map!Next]_contents
  BY StepIInv DEF MapStep
<1> QED BY <1>1, <1>2, SpecIInv, PTL DEF Spec, ImplementsKeyMap, Map!Spec

=============================================================================
