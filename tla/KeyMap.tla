------------------------------- MODULE KeyMap -------------------------------
(***************************************************************************)
(* What a flat_unordered_map promises: a finite map, as the set of its     *)
(* entries. An operation changes it at once or not at all.                 *)
(***************************************************************************)
CONSTANTS Keys, Values
VARIABLE content

Entry(k, v) == [key |-> k, val |-> v]
Has(k) == \E e \in content : e.key = k

Init == content = {}

\* insert(): an entry that is there is left alone.
Add(k, v) == ~ Has(k) /\ content' = content \cup {Entry(k, v)}
\* operator[] = v
Replace(k, v) == Has(k) /\ content' = {e \in content : e.key # k} \cup {Entry(k, v)}
Remove(k) == content' = {e \in content : e.key # k}
Clear == content' = {}

Next ==
    \/ \E k \in Keys, v \in Values : Add(k, v) \/ Replace(k, v)
    \/ \E k \in Keys : Remove(k)
    \/ Clear

Spec == Init /\ [][Next]_content
=============================================================================
