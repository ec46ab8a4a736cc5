---------------------------- MODULE MCFlatTable -----------------------------
(* Small instances of FlatTable for TLC. *)
EXTENDS FlatTable

\* Two keys that collide, and one that starts where they have moved on to.
MCHash == [k \in Keys |-> IF \E x \in {"a", "b"} : k = x THEN 0 ELSE 1]
MCKeys == {"a", "b", "c"}
MCSizes == {8}
OneKey == {"a"}
NoSizes == {}
=============================================================================
