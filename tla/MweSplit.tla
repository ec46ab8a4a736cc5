------------------------------ MODULE MweSplit ------------------------------
(***************************************************************************)
(* MweSplitApplicator::splitMwe: a cohort all of whose readings carry a    *)
(* wordform tag becomes one cohort for every wordform tag of a reading,    *)
(* the head (the last word) last. A reading is the sequence of its parts,  *)
(* the head first; wf is the part's wordform tag, "" for none, and blank   *)
(* the white space at its end, "" for none.                                *)
(***************************************************************************)
EXTENDS Integers, Sequences, FiniteSets, SequencesExt, FiniteSetsExt

\* The parts of a reading with a wordform tag; a part without one stays with
\* the part above it.
Marked(reading) == {i \in DOMAIN reading : reading[i].wf # ""}
Words(reading)  == Cardinality(Marked(reading))

\* The k-th of some numbers, and where the part of word pos starts in a reading;
\* after the last word, where the reading ends.
Nth(S, k) == CHOOSE i \in S : Cardinality({j \in S : j <= i}) = k
StartOf(reading, pos) ==
    IF pos <= Words(reading) THEN Nth(Marked(reading), pos) ELSE Len(reading) + 1

\* The copy that cohort pos gets of a reading: the marked part and what hangs
\* below it up to the next marked one, free of its wordform tag
Piece(reading, pos) ==
    [i \in 1..(StartOf(reading, pos + 1) - StartOf(reading, pos)) |->
        [reading[StartOf(reading, pos) + i - 1] EXCEPT !.wf = "", !.blank = ""]]

\* Variant: that some reading has a wordform tag is enough.
Splits_Any(cohort) == \E i \in DOMAIN cohort.readings : cohort.readings[i][1].wf # ""

Splits(cohort) ==
    \A i \in DOMAIN cohort.readings : cohort.readings[i][1].wf # ""

\* The readings of the cohort with a word at place pos, and the part of one there
WithWord(cohort, pos) == {i \in DOMAIN cohort.readings : pos <= Words(cohort.readings[i])}
PartAt(cohort, i, pos) == cohort.readings[i][StartOf(cohort.readings[i], pos)]

\* Readings that name different words for one place
Ambiguous(cohort) ==
    \E i, j \in DOMAIN cohort.readings :
        \E pos \in 1..Words(cohort.readings[i]) :
            j \in WithWord(cohort, pos) /\ PartAt(cohort, i, pos).wf # PartAt(cohort, j, pos).wf

\* The white space at the end of a wordform tag becomes the text after the
\* word; that of the last reading to have any wins.
BlankAt(cohort, pos) ==
    LET blanks == {i \in WithWord(cohort, pos) : PartAt(cohort, i, pos).blank # ""}
    IN  IF blanks = {} THEN "" ELSE PartAt(cohort, Max(blanks), pos).blank

\* The text of the cohort goes after the last of the words, in place of any
\* white space of its own.
NewWord(cohort, pos) ==
    LET rs == WithWord(cohort, pos)
    IN  [word |-> PartAt(cohort, Nth(rs, 1), pos).wf,
         readings |-> [k \in 1..Cardinality(rs) |-> Piece(cohort.readings[Nth(rs, k)], pos)],
         text |-> IF pos = 1 THEN cohort.text ELSE BlankAt(cohort, pos)]

SplitMwe(cohort) ==
    IF cohort.readings = <<>> \/ ~Splits(cohort) \/ Ambiguous(cohort) THEN <<cohort>>
    ELSE LET n == Max({Words(cohort.readings[i]) : i \in DOMAIN cohort.readings})
         IN  [k \in 1..n |-> NewWord(cohort, n - k + 1)]
==============================================================================
