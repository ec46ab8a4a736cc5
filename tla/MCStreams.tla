------------------------------ MODULE MCStreams ------------------------------
(* Streams of up to MaxPieces pieces, with a window of at most a few cohorts. *)
EXTENDS StreamFormats, TLC

MCHardWords == {<<".">>}
MCSoftWords == {<<",">>}

Text(chars) == [kind |-> "text", text |-> chars]
Part(lemma, tags, queue) == [lemma |-> lemma, tags |-> tags, queue |-> queue]
R(parts) == [deleted |-> FALSE, parts |-> parts]
Deleted(parts) == [deleted |-> TRUE, parts |-> parts]
Cohort(word, static, readings) ==
    [kind |-> "cohort", word |-> word, static |-> static, readings |-> readings]

\* Text, an escaped bracket, a superblank with an escape in it; a form to be
\* escaped with two readings, one of them twice; joined parts and a queue; a
\* deleted reading; two mapping tags; an unknown word; delimiters.
Apertium == {
    Text(<<" ">>), Text(<<"\\", "[">>), Text(<<"[", "\\", "[", "b", "]">>), [kind |-> "nul"],
    Cohort(<<"a", "/">>, <<>>, <<R(<<Part(<<"a", "$">>, <<<<"n">>>>, <<>>)>>),
                                R(<<Part(<<"b">>, <<<<"@", "x">>, <<"@", "y">>>>, <<>>)>>),
                                R(<<Part(<<"a", "$">>, <<<<"n">>>>, <<>>)>>)>>),
    Cohort(<<"b">>, <<<<"s">>>>, <<R(<<Part(<<"b">>, <<<<"v">>>>, <<"#", "q">>),
                                      Part(<<"c">>, <<<<"p">>, <<"@", "x">>>>, <<>>)>>),
                                  Deleted(<<Part(<<"d">>, <<<<"n">>>>, <<>>)>>)>>),
    Cohort(<<",">>, <<>>, <<R(<<Part(<<"*", ",">>, <<>>, <<>>)>>)>>),
    Cohort(<<".">>, <<>>, <<Deleted(<<Part(<<".">>, <<>>, <<>>)>>)>>)}

Line(word, readings) == [kind |-> "cohort", word |-> word, readings |-> readings]
Blank == [kind |-> "blank"]
Markup == [kind |-> "text", text |-> "<s>"]
Tokens(tokens) == [kind |-> "words", tokens |-> tokens]
Token(before, word, after) == [before |-> before, word |-> word, after |-> after]

Niceline == {Line("a", <<"x", "y">>), Line(",", <<"x">>), Line(".", <<"x">>), Blank, Markup,
             [kind |-> "bare", word |-> "b"]}

Plain == {Tokens(<<Token(<<"(", "'">>, "a", <<",">>), Token(<<>>, "b", <<>>)>>),
          Tokens(<<Token(<<".", ",">>, "", <<>>), Token(<<>>, "c", <<".">>)>>), Blank, Markup}

\* No soft delimiter: past the soft limit one ends the program.
Fst == {Line("a", <<"x">>), Line(".", <<>>), Blank, Markup}

\* Parts of readings: a word of its own, with a blank or not, or none.
Sub(lemma, wf, blank) == [lemma |-> lemma, wf |-> wf, blank |-> blank]
Chains == {<<Sub("g", "go", "")>>,
           <<Sub("g", "go", ""), Sub("d", "da", " ")>>,
           <<Sub("h", "go", ""), Sub("e", "", ""), Sub("d", "da", "")>>,
           <<Sub("g", "go", ""), Sub("l", "le", ""), Sub("e", "", ""), Sub("d", "da", " ")>>,
           <<Sub("m", "mo", "")>>,
           <<Sub("k", "", ""), Sub("d", "go", "")>>}
Mwe == {[word |-> "dago", text |-> ".", readings |-> rs] :
            rs \in UNION {[1..n -> Chains] : n \in 0..2}}

\* What Matxin takes of Apertium; the not sign is not read as one.
MatxinPieces ==
    {p \in Apertium : p.kind = "text"} \cup
    {Cohort(<<"a">>, <<>>, <<R(<<Part(<<"a">>, <<<<"n">>, <<"@", "x">>>>, <<"#", "q">>)>>),
                             R(<<Part(<<"b">>, <<>>, <<>>)>>)>>),
     Cohort(<<"b">>, <<<<"s">>>>, <<R(<<Part(<<"b">>, <<<<"v">>>>, <<>>), Part(<<"c">>, <<<<"p">>>>, <<>>)>>)>>),
     Cohort(<<".">>, <<>>, <<R(<<Part(<<"~", ".">>, <<>>, <<>>)>>)>>)}

\* A parent for each word: none, the root, or a word of the sentence.
Tree == UNION {{p \in [1..n -> -1..n] : \A i \in 1..n : p[i] # i} : n \in 1..3}

MCPieces == [f \in Formats |->
    CASE f = "apertium" -> Apertium [] f = "niceline" -> Niceline [] f = "plain" -> Plain
      [] f \in {"fst", "fstconv"} -> Fst [] f = "mwe" -> Mwe
      [] f = "matxin" -> MatxinPieces [] f = "tree" -> Tree]

\* Two multiwords and two sentences show what more of them would.
MCMaxPieces == [f \in Formats |->
    CASE f \in {"mwe", "tree"} -> 2 [] f \in {"apertium", "matxin"} -> 5 [] OTHER -> 6]
==============================================================================
