------------------------------ MODULE FlatTable -----------------------------
(***************************************************************************)
(* flat_unordered_map, the open-addressing table that holds the global     *)
(* variables, the anchors, the relation numbers and (as flat_unordered_set,*)
(* which is the same code without values) the caches of the applicator.    *)
(*                                                                         *)
(* A cell is empty, deleted or holds a key. A key is looked for from its   *)
(* hash by steps of 5 until it or an empty cell is met, so deleting leaves *)
(* a mark. The table is copied into a larger one when it fills up; the     *)
(* copying is modelled one key at a time.                                  *)
(***************************************************************************)
EXTENDS Integers, FiniteSets

CONSTANTS
    Keys, Values,
    Hash,           \* hash_value
    DefaultCap,     \* DEFAULT_CAP
    Sizes,          \* capacities that inserting a range may reserve
    Empty, Deleted, \* res_empty, res_del
    NoValue         \* V()

ASSUME CapAssumption == DefaultCap \in Nat \ {0} /\ Sizes \subseteq Nat
ASSUME HashAssumption == Hash \in [Keys -> Nat]
ASSUME MarksAssumption == Empty \notin Keys /\ Deleted \notin Keys /\ Empty # Deleted
ASSUME ValueAssumption == NoValue \notin Values

VARIABLES
    cap, cells,  \* elements: cells[0] to cells[cap - 1]
    size,        \* size_
    old, rest,   \* the table being copied, and the cells of it still to copy
    call,        \* the entry being inserted
    pc           \* "idle", "copy", "place", or "spin": the search never ends

vars == <<cap, cells, size, old, rest, call, pc>>

Cell == [key : Keys \cup {Empty, Deleted}, val : Values \cup {NoValue}]
EmptyCell == [key |-> Empty, val |-> NoValue]
Entry(k, v) == [key |-> k, val |-> v]
NoEntry == EmptyCell
NoCells == [i \in {} |-> EmptyCell]

Cells == 0..cap - 1
Stored == {i \in Cells : cells[i].key \in Keys}

-----------------------------------------------------------------------------
(* The search for a key. *)

\* The j-th cell to look at. cap is a power of two, so "& max" is "% cap",
\* and the first cap cells are all the search ever looks at.
Spot(k, j) == (Hash[k] + 5 * j) % cap

Stops(k, j) == cells[Spot(k, j)].key \in {Empty, k}
FirstStop(k, j) == Stops(k, j) /\ \A i \in 0..j - 1 : ~ Stops(k, i)
Endless(k) == \A j \in Cells : ~ Stops(k, j)

\* find() finds key k in cell i.
FindsAt(k, i) ==
    /\ size # 0
    /\ cells[i].key = k
    /\ \E j \in Cells : i = Spot(k, j) /\ FirstStop(k, j)

Spins == pc' = "spin" /\ UNCHANGED <<cap, cells, size, old, rest, call>>

-----------------------------------------------------------------------------
(* Growing. *)

IsFull == ((size + 1) * 3) \div 2 >= cap \div 2

NewCap == IF cap * 2 > DefaultCap THEN cap * 2 ELSE DefaultCap

\* reserve(n), to insert entry e when it is done
Reserve(n, e) ==
    /\ cap' = n
    /\ call' = e
    /\ UNCHANGED size
    /\ \/ /\ size = 0
          /\ cells' = [i \in 0..n - 1 |-> IF i \in Cells THEN cells[i] ELSE EmptyCell]
          /\ pc' = IF e = NoEntry THEN "idle" ELSE "place"
          /\ UNCHANGED <<old, rest>>
       \/ /\ size # 0
          /\ old' = cells /\ rest' = Stored
          /\ cells' = [i \in 0..n - 1 |-> EmptyCell]
          /\ pc' = "copy"

\* Inserting a range of entries makes room for all of them first.
ReserveRange ==
    /\ pc = "idle"
    /\ \E n \in Sizes : n > cap /\ Reserve(n, NoEntry)

CopyOne ==
    /\ pc = "copy"
    /\ \E i \in rest :
         /\ \A j \in rest : i <= j
         /\ LET k == old[i].key IN
              \/ /\ Endless(k) /\ Spins
              \/ \E j \in Cells :
                   /\ FirstStop(k, j)
                   /\ cells' = [cells EXCEPT ![Spot(k, j)] = old[i]]
                   /\ rest' = rest \ {i}
                   /\ UNCHANGED <<cap, size, old, call, pc>>

EndCopy ==
    /\ pc = "copy" /\ rest = {}
    /\ pc' = IF call = NoEntry THEN "idle" ELSE "place"
    /\ old' = NoCells
    /\ UNCHANGED <<cap, cells, size, rest, call>>

-----------------------------------------------------------------------------
(* The operations. *)

Insert(k, v) ==
    /\ pc = "idle"
    /\ \/ /\ IsFull /\ Reserve(NewCap, Entry(k, v))
       \/ /\ ~ IsFull /\ call' = Entry(k, v) /\ pc' = "place"
          /\ UNCHANGED <<cap, cells, size, old, rest>>

\* Variant: a deleted cell is taken without looking further for the key.
Place_InFirstFree ==
    /\ pc = "place"
    /\ \E j \in Cells :
         /\ cells[Spot(call.key, j)].key \in {Empty, Deleted, call.key}
         /\ \A i \in 0..j - 1 : cells[Spot(call.key, i)].key \notin {Empty, Deleted, call.key}
         /\ cells' = [cells EXCEPT ![Spot(call.key, j)] = call]
         /\ size' = IF cells[Spot(call.key, j)].key = call.key THEN size ELSE size + 1
    /\ call' = NoEntry /\ pc' = "idle"
    /\ UNCHANGED <<cap, old, rest>>

\* The end of insert(): the entry takes the first empty cell, unless its key
\* is met before that.
Place ==
    /\ pc = "place"
    /\ \/ Endless(call.key) /\ Spins
       \/ \E j \in Cells :
            /\ FirstStop(call.key, j)
            /\ LET i == Spot(call.key, j) IN
                 IF cells[i].key = call.key THEN UNCHANGED <<cells, size>>
                 ELSE cells' = [cells EXCEPT ![i] = call] /\ size' = size + 1
            /\ call' = NoEntry /\ pc' = "idle"
            /\ UNCHANGED <<cap, old, rest>>

\* operator[](k) = v: the search is done before and again in insert().
Assign(k, v) ==
    /\ pc = "idle"
    /\ \/ size # 0 /\ Endless(k) /\ Spins
       \/ \E i \in Cells :
            /\ FindsAt(k, i)
            /\ cells' = [cells EXCEPT ![i].val = v]
            /\ UNCHANGED <<cap, size, old, rest, call, pc>>
       \/ /\ ~ (size # 0 /\ Endless(k))
          /\ \A i \in Cells : ~ FindsAt(k, i)
          /\ Insert(k, v)

\* Variant: the cell becomes empty, as if nothing was ever there.
EraseCell_LeavesNoMark(i) ==
    /\ cells' = [cells EXCEPT ![i] = EmptyCell]
    /\ size' = size - 1
    /\ UNCHANGED <<cap, old, rest, call, pc>>

EraseCell(i) ==
    /\ cells' = [cells EXCEPT ![i] = [key |-> Deleted, val |-> NoValue]]
    /\ size' = size - 1
    /\ UNCHANGED <<cap, old, rest, call, pc>>

EraseKey(k) ==
    /\ pc = "idle"
    /\ \/ size # 0 /\ Endless(k) /\ Spins
       \/ \E i \in Cells : FindsAt(k, i) /\ EraseCell(i)

\* erase(iterator), as the clean-up of relation_map does while it iterates
EraseAt(i) == pc = "idle" /\ i \in Stored /\ EraseCell(i)

Clear ==
    /\ pc = "idle"
    /\ cells' = [i \in Cells |-> EmptyCell]
    /\ size' = 0
    /\ UNCHANGED <<cap, old, rest, call, pc>>

Spin == pc = "spin" /\ UNCHANGED vars

Init ==
    /\ cap = 0 /\ cells = NoCells /\ size = 0
    /\ old = NoCells /\ rest = {} /\ call = NoEntry
    /\ pc = "idle"

Next ==
    \/ \E k \in Keys, v \in Values : Insert(k, v) \/ Assign(k, v)
    \/ \E k \in Keys : EraseKey(k)
    \/ \E i \in Cells : EraseAt(i)
    \/ ReserveRange \/ CopyOne \/ EndCopy \/ Place \/ Clear \/ Spin

Spec == Init /\ [][Next]_vars

-----------------------------------------------------------------------------
(* Properties. *)

TypeOK ==
    /\ cap \in Nat /\ cells \in [Cells -> Cell] /\ size \in Nat
    /\ old \in [DOMAIN old -> Cell] /\ DOMAIN old \subseteq Nat /\ rest \subseteq DOMAIN old
    /\ call \in Cell
    /\ pc \in {"idle", "copy", "place", "spin"}
    /\ pc = "place" => cap > 0 /\ call.key \in Keys
    /\ pc = "copy" => cap > 0

\* However entries came and went and the table grew, a search finds every key
\* that is stored, in the only cell it is in, and no key that is not.
LookupsFindAll ==
    pc = "idle" => \A k \in Keys, i \in Cells : FindsAt(k, i) <=> cells[i].key = k

\* size_ counts the entries: growing and the early returns of find() and
\* erase() for an empty table rely on it.
SizeCounts == size = Cardinality(Stored) + Cardinality(rest)

\* The table behaves as a finite map; growing is invisible.
contents ==
    {cells[i] : i \in Stored} \cup {old[i] : i \in rest}
Map == INSTANCE KeyMap WITH content <- contents
ImplementsKeyMap == Map!Spec

\* Every call returns: the search always meets the key or an empty cell.
CallsReturn == pc # "spin"

=============================================================================
