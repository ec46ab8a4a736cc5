---------------------------- MODULE StreamWindows ----------------------------
(***************************************************************************)
(* What the readers of every stream format share: cohorts and windows in   *)
(* allocation order, the pointers cSWindow, cCohort, lSWindow and lCohort  *)
(* (0 is null) into them, the three queues of Window, and what was         *)
(* written. The grammar changes nothing here: this is a conversion, or a   *)
(* grammar none of whose rules apply; what rules do to the windows is the  *)
(* subject of WindowPipeline and RuleEngine. A window is written as it is  *)
(* when printSingleWindow gets it.                                         *)
(***************************************************************************)
EXTENDS Integers, Sequences, SequencesExt

CONSTANTS
    NumWindows,   \* --num-windows
    SoftLimit,    \* --soft-limit
    HardLimit     \* --hard-limit

ASSUME StreamLimits ==
    NumWindows \in Nat \ {0} /\ SoftLimit \in Nat \ {0} /\ HardLimit \in Nat \ {0}

\* class: which of the delimiter sets the cohort matches, "none", "soft" or "hard"
NewCohort(word, static, readings, class) ==
    [word |-> word, static |-> static, readings |-> readings, class |-> class,
     text |-> <<>>, endtag |-> FALSE]

ZeroCohort == NewCohort("", <<>>, <<>>, "none")

NoStream ==
    [cohorts |-> <<>>, windows |-> <<>>,
     cSWindow |-> 0, cCohort |-> 0, lSWindow |-> 0, lCohort |-> 0,
     didLookback |-> FALSE,
     previous |-> <<>>, current |-> 0, next |-> <<>>,
     output |-> <<>>, reader |-> <<>>, crashed |-> FALSE]

AllocCohort(s, c) == [s EXCEPT !.cohorts = Append(@, c), !.cCohort = Len(s.cohorts) + 1]

\* The number of cohorts in a window, cohorts[0] included
SizeOf(s, w) == Len(s.windows[w].cohorts)

Put(s, w, c) == [s EXCEPT !.windows[w].cohorts = Append(@, c)]

\* allocAppendSingleWindow with cohorts[0] and the text before it
OpenWindow(s, text) ==
    LET zero == Len(s.cohorts) + 1
        w == Len(s.windows) + 1
    IN  [s EXCEPT !.cohorts = Append(@, ZeroCohort),
                  !.windows = Append(@, [cohorts |-> <<zero>>, text |-> text]),
                  !.next = Append(@, w),
                  !.cSWindow = w, !.lSWindow = w, !.cCohort = 0, !.didLookback = FALSE]

\* The current cohort carries the end tag and is the last of the current window.
CloseWindow(s) ==
    [Put(s, s.cSWindow, s.cCohort) EXCEPT
        !.cohorts[s.cCohort].endtag = TRUE,
        !.lSWindow = s.cSWindow, !.cSWindow = 0, !.didLookback = FALSE]

AppendCurrent(s) == IF s.cCohort # 0 THEN Put(s, s.cSWindow, s.cCohort) ELSE s

SoftEnds(s) ==
    /\ SizeOf(s, s.cSWindow) >= SoftLimit
    /\ s.cohorts[s.cCohort].class = "soft"

HardEnds(s) ==
    \/ SizeOf(s, s.cSWindow) >= HardLimit
    \/ s.cohorts[s.cCohort].class = "hard"

\* Variant: the cohort a window is cut after gets no end tag.
DelimitAt_NoEndTag(s, k) ==
    LET w == s.cSWindow
        all == s.windows[w].cohorts
        opened == OpenWindow(s, <<>>)
    IN  [opened EXCEPT
            !.windows[w].cohorts = SubSeq(all, 1, k),
            !.windows[opened.cSWindow].cohorts = @ \o SubSeq(all, k + 1, Len(all)),
            !.cCohort = s.cCohort, !.lSWindow = s.lSWindow]

\* delimitAt: what follows position k of the current window, the last of next,
\* moves to a new window.
DelimitAt(s, k) ==
    LET w == s.cSWindow
        all == s.windows[w].cohorts
        opened == OpenWindow(s, <<>>)
    IN  [opened EXCEPT
            !.windows[w].cohorts = SubSeq(all, 1, k),
            !.windows[opened.cSWindow].cohorts = @ \o SubSeq(all, k + 1, Len(all)),
            !.cohorts[all[k]].endtag = TRUE,
            !.cCohort = s.cCohort, !.lSWindow = s.lSWindow]

\* A window past the soft limit is searched once, from its end, for a cohort
\* that would have ended it.
SoftLookback(s) ==
    IF s.cSWindow = 0 \/ s.didLookback THEN s
    ELSE IF SizeOf(s, s.cSWindow) < SoftLimit THEN s
    ELSE LET all == s.windows[s.cSWindow].cohorts
             k == SelectLastInSeq(all, LAMBDA c : s.cohorts[c].class = "soft")
         IN  IF k = 0 THEN [s EXCEPT !.didLookback = TRUE] ELSE DelimitAt(s, k)

\* What printSingleWindow is given
Snapshot(s, w) ==
    [kind |-> "window", text |-> s.windows[w].text,
     cohorts |-> [i \in 1..(SizeOf(s, w) - 1) |-> s.cohorts[s.windows[w].cohorts[i + 1]]],
     zero |-> s.cohorts[s.windows[w].cohorts[1]]]

Say(s, text) == [s EXCEPT !.output = Append(@, [kind |-> "text", text |-> text])]

PrintFirst(s) ==
    [s EXCEPT !.output = Append(@, Snapshot(s, Head(s.previous))),
              !.previous = Tail(@)]

\* shuffleWindowsDown
Shuffle(s) ==
    [s EXCEPT !.previous = IF s.current = 0 THEN @ ELSE Append(@, s.current),
              !.current = IF s.next = <<>> THEN 0 ELSE Head(s.next),
              !.next = IF s.next = <<>> THEN @ ELSE Tail(@)]

\* shuffleWindowsDown and runGrammarOnWindow, which writes the windows that
\* are further back than the rules may look.
RunNext(s) ==
    LET t == Shuffle(s)
    IN  IF Len(t.previous) > NumWindows THEN PrintFirst(t) ELSE t

RunWhenFull(s) == IF Len(s.next) > NumWindows THEN RunNext(s) ELSE s

\* The end of the input: the last cohort ends its window, every window is run
\* and written.
Drain(s) ==
    LET ended == IF s.cCohort # 0 /\ s.cSWindow # 0 THEN CloseWindow(s) ELSE s
        Run[n \in 0..Len(ended.next)] == IF n = 0 THEN ended ELSE RunNext(Run[n - 1])
        last == Shuffle(Run[Len(ended.next)])
        Write[n \in 0..Len(last.previous)] == IF n = 0 THEN last ELSE PrintFirst(Write[n - 1])
    IN  [Write[Len(last.previous)] EXCEPT !.cSWindow = 0, !.cCohort = 0, !.lSWindow = 0, !.lCohort = 0]
==============================================================================
