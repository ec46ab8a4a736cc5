----------------------------- MODULE LineStreams -----------------------------
(***************************************************************************)
(* NicelineApplicator, PlaintextApplicator and FSTApplicator: formats read *)
(* a line at a time. A line is                                             *)
(*   [kind |-> "cohort", word, readings]  a form with its readings,        *)
(*   [kind |-> "bare", word]              a word with no tab after it,     *)
(*   [kind |-> "text", text]              what is copied, markup say,      *)
(*   [kind |-> "blank"]                   an empty line, or, in plain text,*)
(*   [kind |-> "words", tokens]           words with their punctuation.    *)
(* A reading is a value: what is in it is the subject of ApertiumStream.   *)
(***************************************************************************)
EXTENDS StreamWindows

CONSTANTS ClassOfWord(_)     \* the delimiter set a wordform is in

LineCohort(word, readings) == NewCohort(word, <<>>, readings, ClassOfWord(word))

Ends(s) == s.cCohort # 0 /\ (SoftEnds(s) \/ HardEnds(s))

\* Text is kept with the cohort before it; with none, it is written at once.
LineText(s, line) ==
    IF line.kind = "blank" THEN s
    ELSE IF s.lCohort # 0 THEN [s EXCEPT !.cohorts[s.lCohort].text = Append(@, line.text)]
    ELSE IF s.lSWindow # 0 THEN [s EXCEPT !.windows[s.lSWindow].text = Append(@, line.text)]
    ELSE Say(s, line.text)

-----------------------------------------------------------------------------
(* Niceline: one line is one cohort.                                       *)

\* Variant: the look-back is not followed by the end of the window.
NicelineCohort_NoBreak(s, line) ==
    LET looked == SoftLookback(s)
        placed == IF looked.cSWindow = 0 THEN OpenWindow(looked, <<>>) ELSE AppendCurrent(looked)
        t == AllocCohort(RunWhenFull(placed), LineCohort(line.word, line.readings))
    IN  [t EXCEPT !.lCohort = t.cCohort]

NicelineCohort(s, line) ==
    LET looked == SoftLookback(s)
        closed == IF Ends(looked) THEN CloseWindow(looked) ELSE looked
        placed == IF closed.cSWindow = 0 THEN OpenWindow(closed, <<>>) ELSE AppendCurrent(closed)
        t == AllocCohort(RunWhenFull(placed), LineCohort(line.word, line.readings))
    IN  [t EXCEPT !.lCohort = t.cCohort]

\* A word alone on its line is a cohort without readings.
NicelineLine(s, line) ==
    CASE line.kind = "cohort" -> NicelineCohort(s, line)
      [] line.kind = "bare" ->
           NicelineCohort(s, [kind |-> "cohort", word |-> line.word, readings |-> <<>>])
      [] OTHER -> LineText(s, line)

-----------------------------------------------------------------------------
(* Plain text: a token is the punctuation before a word, the word, and the *)
(* punctuation after it. Every cohort is placed as soon as it is made, so  *)
(* that only the look-back ever ends a window.                             *)

\* The punctuation after the word is taken off from the end.
TokenWords(token) ==
    token.before \o (IF token.word = "" THEN <<>> ELSE <<token.word>>) \o Reverse(token.after)

PlainWords(line) == FlattenSeq([i \in DOMAIN line.tokens |-> TokenWords(line.tokens[i])])

PlainCohort(s, word) ==
    LET t == AllocCohort(s, LineCohort(word, <<>>))
    IN  [AppendCurrent(t) EXCEPT !.lCohort = t.cCohort, !.cCohort = 0]

PlainLine(s, line) ==
    IF line.kind # "words" THEN LineText(s, line)
    ELSE LET looked == SoftLookback(s)
             opened == OpenWindow(looked, <<>>)
             placed == IF looked.cSWindow = 0
                       THEN [opened EXCEPT !.lCohort = Len(opened.cohorts)] ELSE looked
         IN  FoldLeft(PlainCohort, RunWhenFull(placed), PlainWords(line))

-----------------------------------------------------------------------------
(* FST output: the lines up to one without a form are one cohort.          *)

FstForm(s, line) ==
    LET open == IF s.cCohort = 0 /\ s.cSWindow = 0 THEN OpenWindow(s, <<>>) ELSE s
        new == AllocCohort(open, LineCohort(line.word, <<>>))
        t == IF s.cCohort = 0 THEN [new EXCEPT !.lCohort = new.cCohort] ELSE s
    IN  [t EXCEPT !.cohorts[t.cCohort].readings = @ \o line.readings]

\* A soft delimiter leaves cSWindow null and cCohort set: the test of the hard
\* limit that follows it reads through the null pointer.
FstCrash(s) == [s EXCEPT !.crashed = TRUE]

\* The cohort is complete. When it ends its window the next one is opened now,
\* and the text that follows stands at its start.
FstBreak(s) ==
    LET looked == SoftLookback(s)
        ends == looked.cCohort # 0 /\ HardEnds(looked)
        closed == IF ends THEN CloseWindow(looked) ELSE AppendCurrent(looked)
        opened == OpenWindow(closed, <<>>)
        t == RunWhenFull(IF closed.cSWindow # 0 THEN closed
                         ELSE [opened EXCEPT !.lCohort = Len(opened.cohorts)])
    IN  IF looked.cCohort # 0 /\ SoftEnds(looked) THEN FstCrash(s)
        ELSE [t EXCEPT !.cCohort = 0]

FstLine(s, line) ==
    IF line.kind = "cohort" THEN FstForm(s, line)
    ELSE LET t == FstBreak(s) IN IF t.crashed THEN t ELSE LineText(t, line)

\* A conversion writes every cohort when it is complete, and text as it comes.
\* It leaves the text in the line buffer; reader holds it here.
FstConvertLine(s, line) ==
    IF line.kind = "cohort" THEN [FstForm(s, line) EXCEPT !.reader = <<>>]
    ELSE LET c == s.cohorts[s.cCohort]
             t == IF s.cCohort = 0 THEN s
                  ELSE [s EXCEPT !.output = Append(@, [kind |-> "cohort", cohort |-> c]),
                                 !.cCohort = 0]
         IN  IF line.kind = "text" THEN [Say(t, line.text) EXCEPT !.reader = <<line.text>>]
             ELSE t

\* At the end of the input the first character of what is left in the buffer
\* is taken for another line of text.
EndFstConvert(s) == Drain(IF s.reader = <<>> THEN s ELSE Say(s, "<"))

-----------------------------------------------------------------------------
(* Printing: the words and the text that come out, in order.               *)

Word(c) == [kind |-> "word", word |-> c.word, readings |-> c.readings]

TextItems(text) == [i \in DOMAIN text |-> [kind |-> "text", text |-> text[i]]]

CohortItems(c) == <<Word(c)>> \o TextItems(c.text)

WindowItems(item) ==
    TextItems(item.text) \o TextItems(item.zero.text)
    \o FlattenSeq([i \in DOMAIN item.cohorts |-> CohortItems(item.cohorts[i])])

\* printSingleWindow of Niceline, and that of GrammarApplicator for FST
PrintLines(item) ==
    CASE item.kind = "text" -> <<item>>
      [] item.kind = "cohort" -> CohortItems(item.cohort)
      [] item.kind = "window" -> WindowItems(item)

\* printSingleWindow of Plaintext writes the words only.
PrintPlain(item) == SelectSeq(PrintLines(item), LAMBDA i : i.kind = "word" \/ item.kind = "text")
==============================================================================
