-------------------------- MODULE WindowPipeline ---------------------------
(***************************************************************************)
(* How runGrammarOnText cuts a stream of cohorts into windows, keeps       *)
(* windows on both sides of the one being disambiguated, and writes them.  *)
(*                                                                         *)
(* A cohort is the number of its line in the input, counting cohorts only. *)
(* A window is the sequence of its cohorts; the >>> cohort every window    *)
(* starts with (cohorts[0]) is left out, so cohorts.size() is Size(w).     *)
(* What the rules do inside one window is modelled elsewhere; here running *)
(* the grammar may cut the window with DELIMIT any number of times.        *)
(* --dep-delimit is off.                                                   *)
(***************************************************************************)
EXTENDS Integers, Sequences

CONSTANTS
    NumWindows,   \* --num-windows: windows kept on each side of the current one
    SoftLimit,    \* --soft-limit
    HardLimit,    \* --hard-limit
    Classes,      \* what a cohort can match: sets drawn from {"soft", "hard"}
    MaxCohorts,   \* bound: cohorts in one input
    NoWindow      \* the null SingleWindow pointer

ASSUME LimitsAssumption ==
    /\ NumWindows \in Nat
    /\ SoftLimit \in Nat
    /\ HardLimit \in Nat
    /\ MaxCohorts \in Nat

ASSUME ClassesAssumption == Classes \subseteq SUBSET {"soft", "hard"}

ASSUME NoWindowAssumption == NoWindow \notin Seq(Nat)

VARIABLES
    pc,           \* where the program is in the handling of a line
    mode,         \* why windows are run: "stream", "flush" or "eof"
    class,        \* class[c]: which delimiter sets cohort c matches
    pending,      \* cCohort: the cohort still collecting readings, 0 for none
    open,         \* cSWindow is set; it is then the last window of next
    lookedBack,   \* did_soft_lookback
    previous, current, next,    \* the three window queues of Window
    endtag,       \* cohorts whose readings carry <<<
    output        \* cohorts printed so far

queues == <<previous, current, next>>
vars == <<pc, mode, class, pending, open, lookedBack, queues, endtag, output>>

\* Cohort lines read so far. The last one may still have no Cohort object.
Read == Len(class)

Size(w) == Len(w) + 1
LastOf(s) == s[Len(s)]

IsSoft(c) == "soft" \in class[c]
IsHard(c) == "hard" \in class[c]

\* cSWindow->appendCohort(c), where cSWindow is the window at the back of next
PushToLast(ws, c) == [ws EXCEPT ![Len(ws)] = Append(@, c)]

\* delimitAt on window w: the cohorts up to position k, and the others
Head2(w, k) == SubSeq(w, 1, k)
Tail2(w, k) == SubSeq(w, k + 1, Len(w))

Init ==
    /\ pc = "read" /\ mode = "stream"
    /\ class = <<>> /\ pending = 0
    /\ open = FALSE /\ lookedBack = FALSE
    /\ previous = <<>> /\ current = NoWindow /\ next = <<>>
    /\ endtag = {} /\ output = <<>>

-----------------------------------------------------------------------------
(* A cohort line: lookback, then place the pending cohort, then advance.   *)

ReadCohort ==
    /\ pc = "read" /\ Read < MaxCohorts
    /\ \E k \in Classes : class' = Append(class, k)
    /\ pc' = "lookback"
    /\ UNCHANGED <<mode, pending, open, lookedBack, queues, endtag, output>>

\* The open window is long enough to be searched, and was not searched before.
MustLookBack == open /\ Size(LastOf(next)) >= SoftLimit /\ ~lookedBack

SoftPositions(w) == {i \in 1..Len(w) : IsSoft(w[i])}

NoLookback ==
    /\ pc = "lookback" /\ ~MustLookBack
    /\ pc' = "place"
    /\ UNCHANGED <<mode, class, pending, open, lookedBack, queues, endtag, output>>

LookbackMisses ==
    /\ pc = "lookback" /\ MustLookBack
    /\ SoftPositions(LastOf(next)) = {}
    /\ lookedBack' = TRUE
    /\ pc' = "place"
    /\ UNCHANGED <<mode, class, pending, open, queues, endtag, output>>

\* The last soft delimiter in the open window ends it; what follows is the
\* new open window.
LookbackCuts ==
    /\ pc = "lookback" /\ MustLookBack
    /\ LET w == LastOf(next) IN
         \E k \in SoftPositions(w) :
            /\ \A i \in SoftPositions(w) : i <= k
            /\ next' = Append([next EXCEPT ![Len(next)] = Head2(w, k)], Tail2(w, k))
            /\ endtag' = endtag \cup {w[k]}
    /\ lookedBack' = FALSE
    /\ pc' = "place"
    /\ UNCHANGED <<mode, class, pending, open, previous, current, output>>

\* Variant: the hard limit is tested with > instead of >=.
EndsWindow_LateLimit ==
    \/ Size(LastOf(next)) >= SoftLimit /\ IsSoft(pending)
    \/ Size(LastOf(next)) > HardLimit
    \/ IsHard(pending)

\* The pending cohort ends the open window.
EndsWindow ==
    \/ Size(LastOf(next)) >= SoftLimit /\ IsSoft(pending)
    \/ Size(LastOf(next)) >= HardLimit
    \/ IsHard(pending)

OpenFirst ==
    /\ pc = "place" /\ pending = 0
    /\ next' = Append(next, <<>>)
    /\ open' = TRUE /\ lookedBack' = FALSE
    /\ pc' = "advance"
    /\ UNCHANGED <<mode, class, pending, previous, current, endtag, output>>

CloseAndOpen ==
    /\ pc = "place" /\ pending # 0 /\ EndsWindow
    /\ next' = Append(PushToLast(next, pending), <<>>)
    /\ endtag' = endtag \cup {pending}
    /\ pending' = 0 /\ lookedBack' = FALSE
    /\ pc' = "advance"
    /\ UNCHANGED <<mode, class, open, previous, current, output>>

AppendPending ==
    /\ pc = "place" /\ pending # 0 /\ ~EndsWindow
    /\ next' = PushToLast(next, pending)
    /\ pending' = 0
    /\ pc' = "advance"
    /\ UNCHANGED <<mode, class, open, lookedBack, previous, current, endtag, output>>

\* Variant: current is moved without asking whether there is one.
Shuffle_NoNullCheck ==
    /\ previous' = Append(previous, current)
    /\ IF next = <<>>
         THEN current' = NoWindow /\ next' = next
         ELSE current' = Head(next) /\ next' = Tail(next)

\* Window::shuffleWindowsDown
Shuffle ==
    /\ previous' = IF current = NoWindow THEN previous ELSE Append(previous, current)
    /\ IF next = <<>>
         THEN current' = NoWindow /\ next' = next
         ELSE current' = Head(next) /\ next' = Tail(next)

\* Variant: a window is run one window too early.
Advance_Early ==
    /\ pc = "advance" /\ Len(next) > NumWindows
    /\ Shuffle
    /\ pc' = "run"
    /\ UNCHANGED <<mode, class, pending, open, lookedBack, endtag, output>>

Advance ==
    /\ pc = "advance" /\ Len(next) > NumWindows + 1
    /\ Shuffle
    /\ pc' = "run"
    /\ UNCHANGED <<mode, class, pending, open, lookedBack, endtag, output>>

\* alloc_cohort for the line just read
NewPending ==
    /\ pc = "advance" /\ Len(next) <= NumWindows + 1
    /\ pending' = Read
    /\ pc' = "read"
    /\ UNCHANGED <<mode, class, open, lookedBack, queues, endtag, output>>

-----------------------------------------------------------------------------
(* runGrammarOnWindow.                                                     *)

PrintOldest ==
    /\ output' = output \o Head(previous)
    /\ previous' = Tail(previous)

FlushOldest ==
    /\ pc = "run" /\ Len(previous) > NumWindows
    /\ PrintOldest
    /\ UNCHANGED <<pc, mode, class, pending, open, lookedBack, current, next, endtag>>

\* Variant: the cohort that now ends the window gets no <<<.
Delimit_NoEndtag ==
    /\ pc = "run" /\ Len(previous) <= NumWindows
    /\ \E k \in 1..(Len(current) - 1) :
         /\ current' = Head2(current, k)
         /\ next' = <<Tail2(current, k)>> \o next
    /\ UNCHANGED <<pc, mode, class, pending, open, lookedBack, previous, endtag, output>>

\* A DELIMIT rule hits cohort k of the window, which is not its last one, and
\* the run starts over on what is left.
Delimit ==
    /\ pc = "run" /\ Len(previous) <= NumWindows
    /\ \E k \in 1..(Len(current) - 1) :
         /\ current' = Head2(current, k)
         /\ next' = <<Tail2(current, k)>> \o next
         /\ endtag' = endtag \cup {current[k]}
    /\ UNCHANGED <<pc, mode, class, pending, open, lookedBack, previous, output>>

FinishRun ==
    /\ pc = "run" /\ Len(previous) <= NumWindows
    /\ IF mode = "stream"
         THEN pending' = Read /\ pc' = "read"
         ELSE pending' = pending /\ pc' = "drain"
    /\ UNCHANGED <<mode, class, open, lookedBack, queues, endtag, output>>

-----------------------------------------------------------------------------
(* FLUSH, end of input, EXIT.                                              *)

\* The pending cohort goes into the open window and ends it.
SealPending ==
    IF pending # 0
      THEN /\ next' = PushToLast(next, pending)
           /\ endtag' = endtag \cup {pending}
           /\ pending' = 0 /\ open' = FALSE
      ELSE UNCHANGED <<next, endtag, pending, open>>

FlushCommand ==
    /\ pc = "read"
    /\ SealPending
    /\ mode' = "flush" /\ pc' = "drain"
    /\ UNCHANGED <<class, lookedBack, previous, current, output>>

EndOfInput ==
    /\ pc = "read"
    /\ SealPending
    /\ mode' = "eof" /\ pc' = "drain"
    /\ UNCHANGED <<class, lookedBack, previous, current, output>>

\* Variant: the last shuffle is missing, so the last window run is not printed.
DrainNext_NoLastShuffle ==
    /\ pc = "drain"
    /\ IF next = <<>> THEN UNCHANGED queues ELSE Shuffle
    /\ pc' = IF next = <<>> THEN "emit" ELSE "run"
    /\ UNCHANGED <<mode, class, pending, open, lookedBack, endtag, output>>

DrainNext ==
    /\ pc = "drain"
    /\ Shuffle
    /\ pc' = IF next = <<>> THEN "emit" ELSE "run"
    /\ UNCHANGED <<mode, class, pending, open, lookedBack, endtag, output>>

Emit ==
    /\ pc = "emit" /\ previous # <<>>
    /\ PrintOldest
    /\ UNCHANGED <<pc, mode, class, pending, open, lookedBack, current, next, endtag>>

\* Variant: FLUSH ends while windows are left to print.
EmitDone_Early ==
    /\ pc = "emit" /\ (previous = <<>> \/ mode = "flush")
    /\ IF mode = "flush"
         THEN pc' = "read" /\ mode' = "stream"
         ELSE pc' = "done" /\ mode' = mode
    /\ UNCHANGED <<class, pending, open, lookedBack, queues, endtag, output>>

EmitDone ==
    /\ pc = "emit" /\ previous = <<>>
    /\ IF mode = "flush"
         THEN pc' = "read" /\ mode' = "stream"
         ELSE pc' = "done" /\ mode' = mode
    /\ UNCHANGED <<class, pending, open, lookedBack, queues, endtag, output>>

\* EXIT: nothing that is still buffered is printed.
ExitCommand ==
    /\ pc = "read"
    /\ pc' = "exited"
    /\ UNCHANGED <<mode, class, pending, open, lookedBack, queues, endtag, output>>

Stopped == pc \in {"done", "exited"} /\ UNCHANGED vars

-----------------------------------------------------------------------------

PlaceLine == OpenFirst \/ CloseAndOpen \/ AppendPending
LookBack == NoLookback \/ LookbackMisses \/ LookbackCuts
RunWindow == FlushOldest \/ Delimit \/ FinishRun
Drain == DrainNext \/ Emit \/ EmitDone

\* What the program does by itself once it has a line.
Work == LookBack \/ PlaceLine \/ Advance \/ NewPending \/ RunWindow \/ Drain

\* What the input brings.
Line == ReadCohort \/ FlushCommand \/ EndOfInput \/ ExitCommand

Next == Line \/ Work \/ Stopped

Spec == Init /\ [][Next]_vars
FairSpec == Spec /\ WF_vars(Work)

-----------------------------------------------------------------------------
(* Properties. *)

Window == Seq(1..Read)

TypeOK ==
    /\ pc \in {"read", "lookback", "place", "advance", "run", "drain", "emit",
               "done", "exited"}
    /\ mode \in {"stream", "flush", "eof"}
    /\ class \in Seq(Classes) /\ Read <= MaxCohorts
    /\ pending \in 0..Read
    /\ open \in BOOLEAN /\ lookedBack \in BOOLEAN
    /\ previous \in Seq(Window) /\ next \in Seq(Window)
    /\ current \in Window \cup {NoWindow}
    /\ endtag \subseteq 1..Read
    /\ output \in Window

\* The line of cohort Read is being handled and has no Cohort object yet.
InHand ==
    \/ pc \in {"lookback", "place", "advance"}
    \/ pc = "run" /\ mode = "stream"

IsClosed(i) == i < Len(next) \/ ~open

Holds(w, c) == \E i \in 1..Len(w) : w[i] = c

\* Every cohort line read so far is printed, or in one of the windows, or is the
\* pending cohort, or is the line in hand: closing, cutting, shuffling, flushing
\* and freeing windows never drops a cohort.
NothingLost ==
    \A c \in 1..Read :
        \/ Holds(output, c)
        \/ \E i \in 1..Len(previous) : Holds(previous[i], c)
        \/ current # NoWindow /\ Holds(current, c)
        \/ \E i \in 1..Len(next) : Holds(next[i], c)
        \/ c = pending
        \/ c = Read /\ InHand

\* The cohorts printed are the first cohorts of the input, each once and in
\* input order, whatever DELIMIT, lookback and FLUSH did to the windows.
OutputInOrder == \A i \in 1..Len(output) : output[i] = i

\* <<< is on the last cohort of w and on no other, and w has a cohort.
Sealed(w) ==
    /\ w # <<>>
    /\ \A i \in 1..Len(w) : w[i] \in endtag <=> i = Len(w)

\* Every window the grammar sees, and every one waiting for it, is sealed with
\* <<<; the window still being filled has no <<< yet.
WindowsSealed ==
    /\ \A i \in 1..Len(previous) : Sealed(previous[i])
    /\ current # NoWindow => Sealed(current)
    /\ \A i \in 1..Len(next) :
         IF IsClosed(i) THEN Sealed(next[i])
         ELSE \A k \in 1..Len(next[i]) : next[i][k] \notin endtag

\* No cohort before the last one of w is a hard delimiter, and if w is longer
\* than the soft limit none is a soft delimiter; w respects the hard limit.
WellCut(w) ==
    /\ \A i \in 1..(Len(w) - 1) :
         /\ ~IsHard(w[i])
         /\ Size(w) > SoftLimit + 1 => ~IsSoft(w[i])
    /\ HardLimit > 0 => Size(w) <= HardLimit + 1

\* Delimiters and limits decide where windows end: a hard delimiter is the last
\* cohort of its window, the soft delimiters cut every window that outgrows the
\* soft limit, and no window outgrows the hard limit.
WindowsWellCut ==
    /\ \A i \in 1..Len(previous) : WellCut(previous[i])
    /\ current # NoWindow => WellCut(current)
    /\ \A i \in 1..Len(next) : WellCut(next[i])

\* When a window is run before the end of the input, NumWindows complete windows
\* follow it, so tests that span windows see the same context in every run.
Lookahead ==
    pc = "run" /\ mode = "stream" => Len(next) > NumWindows

\* After FLUSH and after the end of the input, every cohort read so far is
\* eventually printed, and with FLUSH the next line is read: cutting windows,
\* running them and draining the queues never goes on for ever.
EverythingPrinted ==
    mode \in {"flush", "eof"} ~> (pc \in {"read", "done"} /\ Len(output) = Read)

-----------------------------------------------------------------------------
(* WindowPipeline implements a first-in first-out stream of cohorts. *)

phase ==
    IF pc = "exited" THEN "dropped"
    ELSE IF pc = "done" THEN "closed"
    ELSE IF mode = "eof" THEN "closing"
    ELSE IF mode = "flush" THEN "flushing"
    ELSE "streaming"

Stream == INSTANCE CohortStream
            WITH accepted <- Read, written <- output, phase <- phase

\* The windows, the limits and the queues are invisible from outside: what is
\* printed is what a plain queue with FLUSH, EXIT and end of input may print.
ImplementsStream == Stream!Spec

=============================================================================
