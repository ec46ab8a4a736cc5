----------------------------- MODULE MatxinTree -----------------------------
(***************************************************************************)
(* MatxinApplicator::printSingleWindow and procNode: a window is written   *)
(* as the tree of its cohorts by their dependency parents. nodes and deps  *)
(* are members of the applicator and are never emptied: a sentence is      *)
(* written with the sentences before it. A cohort is its global number;    *)
(* what a NODE says of its word is left out, and so is its indentation.    *)
(***************************************************************************)
EXTENDS Integers, Sequences, FiniteSets, SequencesExt

NoParent == -1      \* DEP_NO_PARENT

\* known: the keys of nodes; deps: the children of every number
EmptyTree(Numbers) == [known |-> {}, deps |-> [n \in Numbers \cup {0} |-> <<>>]]

\* Variant: a new child takes the place of the others.
Hang_Alone(t, n, parent) ==
    LET root == IF t.deps[0] # <<>> THEN t.deps[0][1] ELSE Cardinality(t.known)
        under == IF parent = NoParent THEN root ELSE parent
    IN  [t EXCEPT !.known = @ \cup {n}, !.deps[under] = <<n>>]

\* A word without a parent hangs under the first root found so far; while
\* there is none, under the number of words so far.
Hang(t, n, parent) ==
    LET root == IF t.deps[0] # <<>> THEN t.deps[0][1] ELSE Cardinality(t.known)
        under == IF parent = NoParent THEN root ELSE parent
    IN  [t EXCEPT !.known = @ \cup {n}, !.deps[under] = Append(@, n)]

\* procNode: the tags written for the tree below n
ProcNode(t, n) ==
    LET Tags[k \in DOMAIN t.deps] ==
          LET below == FlattenSeq([i \in DOMAIN t.deps[k] |-> Tags[t.deps[k][i]]])
          IN  CASE k = 0 -> below
                [] k # 0 /\ t.deps[k] = <<>> -> <<[tag |-> "leaf", n |-> k]>>
                [] OTHER -> <<[tag |-> "open", n |-> k]>> \o below \o <<[tag |-> "close", n |-> k]>>
    IN  Tags[n]

\* The form of a NODE; what an entity stands for is written after it again.
FormOf(word) ==
    FlattenSeq([i \in DOMAIN word |->
        CASE word[i] = "&" -> <<"&amp;", "&">>
          [] word[i] = "\"" -> <<"&quot;", "\"">>
          [] OTHER -> <<word[i]>>])

\* printReading: the first reading of a cohort; a reading of several parts
\* ends the program.
NodeOf(c) ==
    LET r == c.readings[1]
        part == r.parts[1]
    IN  IF "noprint" \in DOMAIN r THEN [form |-> FormOf(c.word), lemma |-> <<>>, mi |-> <<>>, si |-> <<>>]
        ELSE [form |-> FormOf(c.word), lemma |-> part.lemma, mi |-> part.tags,
              si |-> IF part.mappings = <<>> THEN <<>> ELSE Last(part.mappings)]

EndsProgram(c) == "parts" \in DOMAIN c.readings[1] /\ Len(c.readings[1].parts) > 1

\* A sentence: the words from number first on, with their parents
PrintSentence(t, first, parents) ==
    LET hung == FoldLeft(LAMBDA u, i : Hang(u, first + i - 1, parents[i]),
                         t, [i \in DOMAIN parents |-> i])
    IN  [tree |-> [hung EXCEPT !.known = @ \cup {0}], tags |-> ProcNode(hung, 0)]
==============================================================================
