--------------------------- MODULE ApertiumStream ---------------------------
(***************************************************************************)
(* ApertiumApplicator: ^form/lemma<tag>+lemma<tag>/...$ with text and       *)
(* [superblanks] between cohorts, read a character at a time, and written  *)
(* in the same format. Text is a sequence of characters.                   *)
(* A reading is the chain of its parts, the head (the part written last)   *)
(* first. Static tags hold no escapes here; wordform_case, unique_tags and *)
(* --trace are off, sub_readings_ltr is off.                               *)
(***************************************************************************)
EXTENDS StreamWindows

CONSTANTS
    SoftWords, HardWords  \* the wordforms in SOFT-DELIMITERS and DELIMITERS

ClassOf(word) ==
    IF word \in HardWords THEN "hard" ELSE IF word \in SoftWords THEN "soft" ELSE "none"

IndexOf(in, c) == SelectInSeq(in, LAMBDA x : x = c)
FirstOf(in, cs) == SelectInSeq(in, LAMBDA x : x \in cs)
DropFirst(in, n) == SubSeq(in, n + 1, Len(in))

\* Characters from position at up to the first unescaped one of stops, freed of
\* their escapes; at is where that one is, 0 when the input has none (yet).
Scan(in, at, stops) ==
    LET From[i \in 1..Len(in) + 2] ==
          IF i > Len(in) \/ (i = Len(in) /\ in[i] = "\\") THEN [text |-> <<>>, at |-> 0]
          ELSE IF in[i] \in stops THEN [text |-> <<>>, at |-> i]
          ELSE IF in[i] = "\\" THEN [From[i + 2] EXCEPT !.text = <<in[i + 1]>> \o @]
          ELSE [From[i + 1] EXCEPT !.text = <<in[i]>> \o @]
    IN  From[at]

-----------------------------------------------------------------------------
(* processReading                                                          *)

\* The queue of a multiword, # and what follows it outside of +, once a tag
\* has been seen
MultiwordQueue(text) ==
    LET Next1(a, c) ==
          LET tags == a.tags \/ c = "<"
              multi == (a.multi \/ (c = "#" /\ tags)) /\ c # "+"
          IN  [tags |-> tags, multi |-> multi,
               queue |-> IF multi THEN Append(a.queue, c) ELSE a.queue]
    IN  FoldLeft(Next1, [tags |-> FALSE, multi |-> FALSE, queue |-> <<>>], text).queue

\* What precedes the first tag
LemmaPart(text) ==
    LET at == IndexOf(text, "<") IN IF at = 0 THEN text ELSE SubSeq(text, 1, at - 1)

Base(text) == [base |-> TRUE, text |-> text]
TagOf(text) == [base |-> FALSE, text |-> text]

\* The tags after the lemma, and the lemmas that + joins to it
TagList(text) ==
    LET NextTag(a, c) ==
          LET joiner == a.joiner \/ c = "+"
              queue == CASE c = "+" -> FALSE
                         [] c = "#" /\ ~a.intag -> TRUE
                         [] OTHER -> a.queue
          IN  CASE c = "<" /\ a.intag -> [a EXCEPT !.queue = FALSE]
                [] c = "<" /\ ~a.intag /\ joiner ->
                     [joiner |-> FALSE, queue |-> FALSE, intag |-> TRUE, text |-> <<>>,
                      list |-> Append(a.list, Base(IF a.text # <<>> /\ Head(a.text) = "+"
                                                   THEN Tail(a.text) ELSE a.text))]
                [] c = "<" /\ ~a.intag /\ ~joiner -> [a EXCEPT !.queue = FALSE, !.intag = TRUE]
                [] c = ">" /\ ~a.intag -> [a EXCEPT !.queue = FALSE]
                [] c = ">" /\ a.intag ->
                     [joiner |-> FALSE, queue |-> FALSE, intag |-> FALSE, text |-> <<>>,
                      list |-> Append(a.list, TagOf(a.text))]
                [] OTHER -> [a EXCEPT !.joiner = joiner, !.queue = queue,
                                      !.text = IF queue THEN @ ELSE Append(@, c)]
    IN  FoldLeft(NextTag,
                 [joiner |-> FALSE, queue |-> FALSE, intag |-> FALSE, text |-> <<>>, list |-> <<>>],
                 text).list

IsMapping(tag) == tag # <<>> /\ Head(tag) = "@"

\* Every lemma with the tags up to the next lemma is a part; the mapping tags
\* of a part stand apart from its other tags.
PartsOf(list) ==
    LET Place(parts, t) ==
          IF t.base THEN Append(parts, [lemma |-> t.text, tags |-> <<>>, mappings |-> <<>>])
          ELSE IF IsMapping(t.text)
               THEN [parts EXCEPT ![Len(parts)].mappings = Append(@, t.text)]
               ELSE [parts EXCEPT ![Len(parts)].tags = Append(@, t.text)]
    IN  FoldLeft(Place, <<>>, list)

\* splitMappings on one part: a copy of it for every mapping tag but the last,
\* each a reading of the cohort
PartCopies(part) ==
    [i \in 1..(Len(part.mappings) - 1) |->
        [deleted |-> FALSE, parts |-> <<[part EXCEPT !.mappings = <<part.mappings[i]>>]>>]]

KeepLastMapping(part) ==
    [part EXCEPT !.mappings = IF @ = <<>> THEN @ ELSE <<@[Len(@)]>>]

\* Not signs before a base form are not part of it.
AfterMarks(text) ==
    LET at == SelectInSeq(text, LAMBDA c : c # "~")
    IN  IF at = 0 THEN <<>> ELSE SubSeq(text, at, Len(text))

\* Variant: the queue of a multiword is left where it was, and is lost.
ProcessReading_NoQueue(text, mark) ==
    LET marked == mark /\ text # <<>> /\ Head(text) = "~"
        lemma == LemmaPart(IF marked THEN AfterMarks(text) ELSE text)
        rest == SubSeq(text, Len(LemmaPart(text)) + 1, Len(text))
        parts == Reverse(PartsOf(<<Base(lemma)>> \o TagList(rest)))
    IN  <<[deleted |-> marked, parts |-> [i \in DOMAIN parts |-> KeepLastMapping(parts[i])]]>>

\* The readings one reading string gives: copies for its mapping tags, then
\* the reading itself. ~ stands for the not sign, which marks a deleted one
\* where the format has it (mark).
ProcessReading(text, mark) ==
    LET marked == mark /\ text # <<>> /\ Head(text) = "~"
        lemma == LemmaPart(IF marked THEN AfterMarks(text) ELSE text)
        rest == SubSeq(text, Len(LemmaPart(text)) + 1, Len(text))
        list == <<Base(lemma \o MultiwordQueue(text))>> \o TagList(rest)
        parts == IF \E i \in DOMAIN lemma : lemma[i] = "*"
                 THEN PartsOf(<<list[1]>>) ELSE Reverse(PartsOf(list))
    IN  Append(FlattenSeq([i \in DOMAIN parts |-> PartCopies(parts[i])]),
               [deleted |-> marked,
                parts |-> [i \in DOMAIN parts |-> KeepLastMapping(parts[i])]])

\* MatxinApplicator has a processReading of its own, which knows no not sign.
MatxinReading(text) == ProcessReading(text, FALSE)

-----------------------------------------------------------------------------
(* runGrammarOnText: one turn of the loop takes a character outside of      *)
(* cohorts, or a cohort.                                                   *)

ApertiumStart ==
    [NoStream EXCEPT !.reader = [rest |-> <<>>, superblank |-> FALSE, incohort |-> FALSE,
                                 firstblank |-> <<>>, waiting |-> FALSE]]

\* Text goes to the cohort before it or to the window before it.
AddText(s, text) ==
    IF s.cCohort # 0 THEN [s EXCEPT !.cohorts[s.cCohort].text = @ \o text]
    ELSE [s EXCEPT !.windows[s.lSWindow].text = @ \o text]

NoPlaceYet(s) == s.cCohort = 0 /\ s.lSWindow = 0

Took(s, n) == [s EXCEPT !.reader.rest = DropFirst(@, n)]

Wait(s) == [s EXCEPT !.reader.waiting = TRUE]

\* An escaped character before the first window is written at once.
ReadEscaped(s) ==
    LET text == SubSeq(s.reader.rest, 1, 2)
    IN  IF Len(s.reader.rest) < 2 THEN Wait(s)
        ELSE Took(IF NoPlaceYet(s) THEN Say(s, text) ELSE AddText(s, text), 2)

\* Other text before the first window waits for it.
ReadText(s) ==
    LET text == <<Head(s.reader.rest)>>
    IN  Took(IF NoPlaceYet(s) THEN [s EXCEPT !.reader.firstblank = @ \o text]
             ELSE AddText(s, text), 1)

\* Static tags up to / or $
StaticTags(text) ==
    LET Next1(a, c) ==
          CASE c = "<" -> a
            [] c = ">" -> [list |-> Append(a.list, a.text), text |-> <<>>]
            [] OTHER -> [a EXCEPT !.text = Append(@, c)]
    IN  FoldLeft(Next1, [list |-> <<>>, text |-> <<>>], text).list

\* The readings from position at, each ended by /, the last by $
ReadingsFrom(in, at) ==
    LET From[i \in 1..Len(in) + 1] ==
          LET r == Scan(in, i, {"/", "$"})
          IN  IF r.at = 0 THEN [texts |-> <<>>, at |-> 0]
              ELSE IF in[r.at] = "$" THEN [texts |-> <<r.text>>, at |-> r.at]
              ELSE [From[r.at + 1] EXCEPT !.texts = <<r.text>> \o @]
    IN  From[at]

\* A cohort whose readings were all marked deleted has an empty one instead,
\* which is not written.
WithReading(s) ==
    IF s.cCohort # 0 /\ s.cohorts[s.cCohort].readings = <<>>
    THEN [s EXCEPT !.cohorts[s.cCohort].readings = <<[noprint |-> TRUE]>>] ELSE s

\* The cohort before this one is placed, ends its window or not, and the
\* window before may be run.
PlaceCohort(s) ==
    LET c == WithReading(s)
        ends == c.cCohort # 0 /\ (SoftEnds(c) \/ HardEnds(c))
        closed == IF ends THEN CloseWindow(c) ELSE c
        placed == IF closed.cSWindow = 0
                  THEN [OpenWindow(closed, closed.reader.firstblank)
                           EXCEPT !.reader.firstblank = <<>>]
                  ELSE AppendCurrent(closed)
    IN  RunWhenFull(placed)

\* The whole cohort is in the input: read its form, its static tags, and its
\* readings. An input that ends first keeps the program reading for ever.
ReadCohort(s, mark) ==
    LET in == s.reader.rest
        form == Scan(in, 2, {"/", "<"})
        static == Scan(in, form.at + 1, {"/", "$"})
        first == IF in[form.at] = "<" THEN static.at ELSE form.at
        rs == ReadingsFrom(in, first + 1)
        all == FlattenSeq([i \in DOMAIN rs.texts |->
                   IF mark THEN ProcessReading(rs.texts[i], TRUE) ELSE MatxinReading(rs.texts[i])])
        tags == IF in[form.at] = "<" THEN StaticTags(static.text) ELSE <<>>
        cohort == NewCohort(form.text, tags,
                            SelectSeq(all, LAMBDA r : ~r.deleted), ClassOf(form.text))
    IN  IF form.at = 0 \/ (in[form.at] = "<" /\ static.at = 0) \/ rs.at = 0 THEN Wait(s)
        ELSE Took([AllocCohort(PlaceCohort(s), cohort) EXCEPT !.reader.incohort = FALSE], rs.at)

\* One turn of the loop. A ^ inside a superblank starts a cohort too, after it.
LoopTurn(s, mark) ==
    LET c == Head(s.reader.rest)
        superblank == (s.reader.superblank \/ c = "[") /\ c # "]"
        escaped == c = "\\" /\ ~s.reader.incohort /\ ~superblank
        incohort == s.reader.incohort \/ c = "^"
        t == [s EXCEPT !.reader.superblank = superblank,
                       !.reader.incohort = @ \/ (c = "^" /\ ~escaped)]
    IN  CASE escaped -> ReadEscaped(t)
          [] ~escaped /\ (superblank \/ c = "]" \/ ~incohort) -> ReadText(t)
          [] OTHER -> ReadCohort(t, mark)

\* The next characters of the input: a turn takes one of them at least, or waits
\* for more.
ReadApertium(s, text, mark) ==
    LET rest == s.reader.rest \o text
        Turn[n \in 0..Len(rest)] ==
          IF n = 0 THEN [s EXCEPT !.reader.rest = rest, !.reader.waiting = FALSE]
          ELSE LET t == Turn[n - 1]
               IN  IF t.reader.rest = <<>> \/ t.reader.waiting THEN t ELSE LoopTurn(t, mark)
    IN  Turn[Len(rest)]

\* The end of the input, or of a part of it that a NUL ends
EndApertium(s) ==
    LET blank == IF s.reader.firstblank = <<>> THEN s ELSE Say(s, s.reader.firstblank)
    IN  [Drain(WithReading(blank)) EXCEPT !.reader = ApertiumStart.reader]

\* Matxin input is in this format too, without the not sign. The corpus is
\* opened when the input has ended.
ReadMatxin(s, text) == ReadApertium(s, text, FALSE)

EndMatxin(s) ==
    LET blank == IF s.reader.firstblank = <<>> THEN s ELSE Say(s, s.reader.firstblank)
    IN  Say(Drain(Say(WithReading(blank), "<corpus>")), "</corpus>")

\* Variant: the NUL is written before the windows still held.
EndPart_Early(s) == EndApertium(Say(s, <<"NUL">>))

\* With -z every part is written, with all its windows, before its NUL.
EndPart(s) == Say(EndApertium(s), <<"NUL">>)

-----------------------------------------------------------------------------
(* printSingleWindow and printReading                                      *)

Reserved == {"^", "\\", "/", "$", "[", "]", "{", "}", "<", ">"}

Escape(text) ==
    FlattenSeq([i \in DOMAIN text |->
        IF text[i] \in Reserved THEN <<"\\", text[i]>> ELSE <<text[i]>>])

PrintTag(tag) ==
    <<"<">> \o (IF tag # <<>> /\ Head(tag) = "&" THEN DropFirst(tag, 2) ELSE tag) \o <<">">>

PrintPart(part) ==
    Escape(part.lemma) \o FlattenSeq([i \in DOMAIN part.tags |-> PrintTag(part.tags[i])])
                       \o FlattenSeq([i \in DOMAIN part.mappings |-> PrintTag(part.mappings[i])])

\* The part next to the head comes before it, with a + between them.
PrintReading(r) ==
    IF "noprint" \in DOMAIN r THEN <<>>
    ELSE LET parts == Reverse(r.parts)
         IN  FlattenSeq([i \in DOMAIN parts |->
                 (IF i = 1 THEN <<>> ELSE <<"+">>) \o PrintPart(parts[i])])

\* mergeMappings: of equal readings the first is kept.
MergeEqual(rs) ==
    FoldLeft(LAMBDA kept, r : IF \E i \in DOMAIN kept : kept[i] = r THEN kept
                              ELSE Append(kept, r), <<>>, rs)

PrintCohort(c) ==
    LET rs == MergeEqual(c.readings)
    IN  <<"^">> \o Escape(c.word)
        \o FlattenSeq([i \in DOMAIN c.static |-> <<"<">> \o c.static[i] \o <<">">>])
        \o FlattenSeq([i \in DOMAIN rs |-> <<"/">> \o PrintReading(rs[i])])
        \o <<"$">> \o c.text

PrintApertium(item) ==
    IF item.kind = "text" THEN item.text
    ELSE item.text \o FlattenSeq([i \in DOMAIN item.cohorts |-> PrintCohort(item.cohorts[i])])
==============================================================================
