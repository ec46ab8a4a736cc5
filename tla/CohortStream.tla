---------------------------- MODULE CohortStream ----------------------------
(***************************************************************************)
(* What a reader of the output of vislcg3 relies on, with no window in     *)
(* sight: cohorts come in one by one, they come out in the order they came *)
(* in, FLUSH and the end of the input force everything out before anything *)
(* else happens, and EXIT drops what is not out yet.                       *)
(***************************************************************************)
EXTENDS Integers, Sequences

VARIABLES
    accepted,   \* how many cohorts came in; cohort n is the number n
    written,    \* the cohorts that came out
    phase       \* "streaming", "flushing", "closing", "closed" or "dropped"

vars == <<accepted, written, phase>>

Init == accepted = 0 /\ written = <<>> /\ phase = "streaming"

Accept ==
    /\ phase = "streaming"
    /\ accepted' = accepted + 1
    /\ UNCHANGED <<written, phase>>

\* The next n cohorts come out together.
Write ==
    /\ phase \in {"streaming", "flushing", "closing"}
    /\ \E n \in 1..(accepted - Len(written)) :
         written' = written \o [i \in 1..n |-> Len(written) + i]
    /\ UNCHANGED <<accepted, phase>>

Flush ==
    /\ phase = "streaming" /\ phase' = "flushing"
    /\ UNCHANGED <<accepted, written>>

Flushed ==
    /\ phase = "flushing" /\ Len(written) = accepted
    /\ phase' = "streaming"
    /\ UNCHANGED <<accepted, written>>

Close ==
    /\ phase = "streaming" /\ phase' = "closing"
    /\ UNCHANGED <<accepted, written>>

Closed ==
    /\ phase = "closing" /\ Len(written) = accepted
    /\ phase' = "closed"
    /\ UNCHANGED <<accepted, written>>

Drop ==
    /\ phase = "streaming" /\ phase' = "dropped"
    /\ UNCHANGED <<accepted, written>>

Next == Accept \/ Write \/ Flush \/ Flushed \/ Close \/ Closed \/ Drop

Spec == Init /\ [][Next]_vars

=============================================================================
