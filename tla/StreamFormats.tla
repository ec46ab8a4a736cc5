---------------------------- MODULE StreamFormats ----------------------------
(***************************************************************************)
(* A stream in one of the formats is read piece by piece, run through the  *)
(* windows and written. What must come out is said from the pieces alone.  *)
(***************************************************************************)
EXTENDS ApertiumStream, MweSplit, MatxinTree

CONSTANTS
    Formats,      \* of "apertium", "niceline", "plain", "fst", "fstconv", "mwe", "matxin"
    Pieces,       \* Pieces[f]: what a stream in format f is made of
    MaxPieces     \* bound: pieces in a stream

VARIABLES
    format,
    input,        \* the pieces read
    s,            \* the reader, the windows and what was written
    done          \* the end of the input was reached

vars == <<format, input, s, done>>

LineClass(w) == ClassOf(<<w>>)
Lines == INSTANCE LineStreams WITH ClassOfWord <- LineClass

LineFormats == {"niceline", "plain", "fst", "fstconv"}

Start(f) ==
    CASE f \in {"apertium", "matxin"} -> ApertiumStart
      [] f = "mwe" -> [output |-> <<>>]
      [] f = "tree" -> [tree |-> EmptyTree(1..(3 * MaxPieces[f] + 1)), words |-> 0,
                          sentences |-> <<>>]
      [] OTHER -> NoStream

Init == format \in Formats /\ input = <<>> /\ s = Start(format) /\ done = FALSE

-----------------------------------------------------------------------------
(* What a piece of an Apertium stream looks like. A reading is the          *)
(* sequence of its parts as written; queue is the # queue of a multiword.  *)

Written(part) ==
    Escape(part.lemma) \o FlattenSeq([i \in DOMAIN part.tags |-> PrintTag(part.tags[i])]) \o part.queue

Joined(parts) ==
    FlattenSeq([i \in DOMAIN parts |-> (IF i = 1 THEN <<>> ELSE <<"+">>) \o parts[i]])

CohortText(p, readings) ==
    <<"^">> \o Escape(p.word) \o FlattenSeq([i \in DOMAIN p.static |-> PrintTag(p.static[i])])
    \o FlattenSeq([i \in DOMAIN readings |-> <<"/">> \o readings[i]]) \o <<"$">>

PieceText(p) ==
    IF p.kind = "text" THEN p.text
    ELSE CohortText(p, [i \in DOMAIN p.readings |->
             (IF p.readings[i].deleted THEN <<"~">> ELSE <<>>)
             \o Joined([j \in DOMAIN p.readings[i].parts |-> Written(p.readings[i].parts[j])])])

\* A NUL aside, what is read a character at a time is a sequence of characters.
ASSUME PiecesAssumption ==
    \A f \in Formats \cap {"apertium", "matxin"} : \A p \in Pieces[f] :
        p.kind # "nul" \/ f = "matxin" => PieceText(p) \in Seq(STRING)

\* A reading of a multiword is one part at least.
ASSUME MultiwordsAssumption ==
    "mwe" \in Formats =>
        \A p \in Pieces["mwe"] :
            p.readings \in Seq(Seq([lemma : STRING, wf : STRING, blank : STRING]) \ {<<>>})

\* One Apertium piece, or one line, or one multiword, or one sentence. A program
\* that has crashed reads no more.
ReadPiece ==
    /\ ~done /\ Len(input) < MaxPieces[format]
    /\ format = "fst" => ~s.crashed
    /\ \E p \in Pieces[format] :
          /\ input' = Append(input, p)
          /\ s' = CASE format = "apertium" /\ p.kind = "nul" -> EndPart(s)
                    [] format = "apertium" /\ p.kind # "nul" -> ReadApertium(s, PieceText(p), TRUE)
                    [] format = "matxin" -> ReadMatxin(s, PieceText(p))
                    [] format = "niceline" -> Lines!NicelineLine(s, p)
                    [] format = "plain" -> Lines!PlainLine(s, p)
                    [] format = "fst" -> Lines!FstLine(s, p)
                    [] format = "fstconv" -> Lines!FstConvertLine(s, p)
                    [] format = "mwe" -> [s EXCEPT !.output = @ \o SplitMwe(p)]
                    [] format = "tree" ->
                         LET parents == [i \in DOMAIN p |-> IF p[i] > 0 THEN s.words + p[i] ELSE p[i]]
                             r == PrintSentence(s.tree, s.words + 1, parents)
                         IN  [s EXCEPT !.tree = r.tree, !.words = @ + Len(p),
                                       !.sentences = Append(@, [first |-> s.words + 1,
                                                                parents |-> parents,
                                                                tags |-> r.tags])]
    /\ UNCHANGED <<format, done>>

\* A stream with NULs ends with one more.
EndOfInput ==
    /\ ~done /\ done' = TRUE
    /\ s' = CASE format = "apertium" ->
                   IF \E i \in DOMAIN input : input[i].kind = "nul" THEN EndPart(s)
                   ELSE EndApertium(s)
              [] format = "matxin" -> EndMatxin(s)
              [] format = "fstconv" -> Lines!EndFstConvert(s)
              [] format \in LineFormats \ {"fstconv"} -> IF s.crashed THEN s ELSE Drain(s)
              [] OTHER -> s
    /\ UNCHANGED <<format, input>>

Next == ReadPiece \/ EndOfInput

Spec == Init /\ [][Next]_vars

-----------------------------------------------------------------------------
(* What must come out of a stream.                                         *)

\* The cohort of a piece as it is written: the queue moves to the lemma of
\* its reading, a reading with several mapping tags becomes one for each,
\* deleted readings are left out, of equal ones the first is written, and a
\* cohort with none has an empty one.
CanonPart(part, tags) ==
    Escape(part.lemma \o part.queue) \o FlattenSeq([i \in DOMAIN tags |-> PrintTag(tags[i])])

CanonReadings(r) ==
    LET plain(part) == SelectSeq(part.tags, LAMBDA t : ~IsMapping(t))
        maps(part) == SelectSeq(part.tags, IsMapping)
        split == maps(r.parts[1])
    IN  IF r.deleted THEN <<>>
        ELSE IF Len(r.parts) = 1 /\ Len(split) > 1
        THEN [i \in DOMAIN split |-> CanonPart(r.parts[1], Append(plain(r.parts[1]), split[i]))]
        ELSE <<Joined([i \in DOMAIN r.parts |->
                   CanonPart(r.parts[i], plain(r.parts[i]) \o maps(r.parts[i]))])>>

CanonText(p) ==
    CASE p.kind = "text" -> p.text
      [] p.kind = "nul" -> <<"NUL">>
      [] p.kind = "cohort" ->
           LET all == FlattenSeq([i \in DOMAIN p.readings |-> CanonReadings(p.readings[i])])
           IN  CohortText(p, IF all = <<>> THEN <<<<>>>> ELSE MergeEqual(all))

\* A word with the punctuation around it, a token each
WordsOf(token) ==
    token.before \o (IF token.word = "" THEN <<>> ELSE <<token.word>>) \o token.after

\* Lines: the words and the text. The forms of an FST stream are one cohort up
\* to the next other line; plain text loses all text but what precedes it. A
\* word without the tab that makes it a cohort is text.
LineItems ==
    LET Take1(items, i) ==
          LET p == input[i]
              word == [kind |-> "word", word |-> p.word, readings |-> p.readings]
          IN  CASE p.kind = "blank" -> items
                [] p.kind = "text" ->
                     IF format = "plain" /\ \E j \in 1..(i - 1) : input[j].kind = "words" THEN items
                     ELSE Append(items, [kind |-> "text", text |-> p.text])
                [] p.kind = "words" ->
                     items \o FlattenSeq([j \in DOMAIN p.tokens |->
                         [k \in DOMAIN WordsOf(p.tokens[j]) |->
                             [kind |-> "word", word |-> WordsOf(p.tokens[j])[k], readings |-> <<>>]]])
                [] p.kind = "cohort" /\ format # "niceline" /\ i > 1 /\ input[i - 1].kind = "cohort" ->
                     [items EXCEPT ![Len(items)].readings = @ \o p.readings]
                [] p.kind = "bare" ->
                     Append(items, [kind |-> "text", text |-> p.word])
                [] OTHER -> Append(items, word)
    IN  FoldLeft(Take1, <<>>, [i \in DOMAIN input |-> i])

\* Matxin: a node for every cohort, of its first reading; no text.
CanonNode(p) ==
    LET part == p.readings[1].parts[1]
        maps == SelectSeq(part.tags, IsMapping)
    IN  [form |-> p.word, lemma |-> part.lemma \o part.queue,
         mi |-> SelectSeq(part.tags, LAMBDA t : ~IsMapping(t)),
         si |-> IF maps = <<>> THEN <<>> ELSE maps[1]]

Nodes ==
    FlattenSeq([i \in DOMAIN s.output |->
        IF s.output[i].kind = "text" THEN <<>>
        ELSE [j \in DOMAIN s.output[i].cohorts |-> NodeOf(s.output[i].cohorts[j])]])

ExpectedNodes ==
    LET cohorts == SelectSeq(input, LAMBDA p : p.kind = "cohort")
    IN  [i \in DOMAIN cohorts |-> CanonNode(cohorts[i])]

Expected ==
    IF format = "apertium"
    THEN FlattenSeq([i \in DOMAIN input |-> CanonText(input[i])])
         \o (IF done /\ \E i \in DOMAIN input : input[i].kind = "nul" THEN <<"NUL">> ELSE <<>>)
    ELSE LineItems

Printed ==
    FlattenSeq([i \in DOMAIN s.output |->
        CASE format = "apertium" -> PrintApertium(s.output[i])
          [] format = "plain" -> Lines!PrintPlain(s.output[i])
          [] OTHER -> Lines!PrintLines(s.output[i])])

\* An escaped character before the first cohort overtakes other text there.
EscapeOvertakes ==
    \E j \in DOMAIN input : \E i \in 1..(j - 1) :
        /\ input[j].kind = "text" /\ Head(input[j].text) = "\\"
        /\ input[i].kind = "text" /\ Head(input[i].text) # "\\"
        /\ \A k \in i..j : input[k].kind = "text"

\* The end of a converted FST stream repeats part of text after its last form.
TextIsRepeated ==
    /\ format = "fstconv" /\ done
    /\ \E i \in DOMAIN input : /\ input[i].kind = "text"
                              /\ \A j \in i..Len(input) : input[j].kind # "cohort"

\* NicelineApplicator makes a cohort of a word without a tab all the same.
WordsWithoutTab == format = "niceline" /\ \E i \in DOMAIN input : input[i].kind = "bare"

\* A cohort whose first reading has parts ends the program (MatxinApplicator).
NodesKept ==
    LET whole == \A i \in DOMAIN s.cohorts : s.cohorts[i].readings = <<>> \/ ~EndsProgram(s.cohorts[i])
    IN  whole => IsPrefix(Nodes, ExpectedNodes) /\ (done => Nodes = ExpectedNodes)

\* With no rule that applies, what comes out is what went in: every cohort
\* with its readings and the text, in their places, across windows that end,
\* are looked back into, are held back and are flushed (runGrammarOnText,
\* processReading and printSingleWindow of the formats). Nothing comes out
\* that is not the beginning of it, and with -z all of a part is there at its
\* NUL. Of plain text the words are kept, and the text before the first of
\* them. A Matxin sentence has a node for each of its cohorts, in their order,
\* with the lemma, tags and mapping of the first reading. Left out are the
\* streams whose text gets out of place, is repeated, or is taken for words
\* (EscapeOvertakes, TextIsRepeated, WordsWithoutTab).
StreamIsKept ==
    CASE format = "matxin" -> NodesKept
      [] /\ format \in {"apertium", "niceline", "plain", "fst", "fstconv"}
         /\ ~EscapeOvertakes /\ ~TextIsRepeated /\ ~WordsWithoutTab ->
            /\ IsPrefix(Printed, Expected)
            /\ done => Printed = Expected
            /\ format = "apertium" /\ input # <<>> /\ Last(input).kind = "nul" => Printed = Expected
      [] OTHER -> TRUE

\* A window that is complete has the end tag on its last cohort and on no
\* other, so that rules can tell the end of the sentence; FST input, whose last
\* cohort is placed before the end is seen, does without on its last window,
\* and plain text on all that no look-back cut.
EndTagClosesWindows ==
    format \in {"apertium", "matxin", "niceline", "fst"} =>
        \A w \in DOMAIN s.windows \ (IF format = "fst" THEN {Len(s.windows)} ELSE {}) :
            LET cs == s.windows[w].cohorts
                complete == w # s.cSWindow /\ Len(cs) > 1
            IN  \A i \in DOMAIN cs :
                    s.cohorts[cs[i]].endtag <=> (complete /\ i = Len(cs))

\* No window grows past the hard limit, whatever was looked back into
\* (the hard limit of the readers; plain text has none).
WindowsWithinLimit ==
    format \in {"apertium", "matxin", "niceline", "fst"} =>
        \A w \in DOMAIN s.windows : SizeOf(s, w) <= HardLimit + 1

\* The word, from the end, that part k of a reading is in: that of the last part
\* up to it with a wordform tag.
WordOf(r, k) == Cardinality({j \in 1..k : r[j].wf # ""})
WordParts(r, word) == {k \in DOMAIN r : WordOf(r, k) = word}

\* Reading q of a word has the parts K of reading r, in order.
HasParts(q, r, K) ==
    Len(q) = Cardinality(K) /\ \A k \in K : q[Cardinality({j \in K : j <= k})].lemma = r[k].lemma

\* The words of a split multiword are, at its end, those of every reading of it
\* from the lowest part to the head, and no part of a reading is lost or gets
\* into a word of another (splitMwe).
NoPartIsLost ==
    format = "mwe" /\ input # <<>> =>
        LET p == Last(input)
            n == Len(SplitMwe(p))
            new == [word \in 1..n |-> s.output[Len(s.output) - word + 1]]
        IN  \/ n = 1 /\ new[1] = p
            \/ /\ \A i \in DOMAIN p.readings : \A k \in DOMAIN p.readings[i] :
                    LET r == p.readings[i]
                        word == WordOf(r, k)
                    IN  /\ word \in 1..n
                        /\ r[k].wf # "" => new[word].word = r[k].wf
                        /\ \E q \in Range(new[word].readings) : HasParts(q, r, WordParts(r, word))
               /\ \A word \in 1..n : Len(new[word].readings) =
                    Cardinality({i \in DOMAIN p.readings : WordParts(p.readings[i], word) # {}})
               /\ new[1].text = p.text

\* The tags of a sentence nest, and every word that hangs on a root, through
\* words or as a word without a parent after one, is in its own sentence once
\* (printSingleWindow and procNode of MatxinApplicator).
Nested(tags) ==
    LET Step(stack, t) ==
          CASE t.tag = "leaf" -> stack
            [] t.tag = "open" -> Append(stack, t.n)
            [] t.tag = "close" -> IF stack # <<>> /\ Last(stack) = t.n THEN Front(stack) ELSE <<0>>
    IN  FoldLeft(Step, <<>>, tags) = <<>>

RootsBefore(n) ==
    \E k \in DOMAIN s.sentences : \E i \in DOMAIN s.sentences[k].parents :
        s.sentences[k].parents[i] = 0 /\ s.sentences[k].first + i - 1 < n

Parent(x, n) == x.parents[n - x.first + 1]

HangOnRoot(x) ==
    LET words == x.first..(x.first + Len(x.parents) - 1)
        Within[k \in 0..Len(x.parents)] ==
          IF k = 0 THEN {n \in words : Parent(x, n) = 0 \/ (Parent(x, n) = NoParent /\ RootsBefore(n))}
          ELSE Within[k - 1] \cup {n \in words : Parent(x, n) \in Within[k - 1]}
    IN  Within[Len(x.parents)]

WordsAreInTheirSentence ==
    format = "tree" =>
        \A k \in DOMAIN s.sentences :
            LET x == s.sentences[k]
            IN  /\ Nested(x.tags)
                /\ \A n \in HangOnRoot(x) :
                      Cardinality({i \in DOMAIN x.tags : x.tags[i].n = n /\ x.tags[i].tag # "close"}) = 1
==============================================================================
