----------------------------- MODULE RuleEngine -----------------------------
(***************************************************************************)
(* Running a grammar on one window: sections, the rule loop with its index *)
(* of rules worth trying, the cohort loop with its cache of failed         *)
(* attempts, and what the rule types do to the readings of a cohort.       *)
(*                                                                         *)
(* A reading is a set of tags; a rule's target is one tag, with tags that  *)
(* must be absent (the set A - B); a contextual test asks for a tag at a   *)
(* fixed offset, or for a variable. Set matching, scanning tests and tag   *)
(* formats are left out. Defaults: no --max-runs, --sections, --unsafe or  *)
(* --rules, no enclosures, no NOITERATE or DELAYED.                        *)
(***************************************************************************)
EXTENDS Integers, Sequences, FiniteSets

CONSTANTS
    Tags,          \* the tags of grammars and input
    Grammars,      \* grammars to try: functions from 0..n-1 to rules
    Windows,       \* windows to try: sequences of cohorts, each a sequence of tag sets
    EndTag,        \* <<<
    MaxPasses,     \* bound: passes over a section that keeps changing things (1000)
    MaxRestarts    \* bound: runs of one window started over (1000)

ASSUME BoundsAssumption == MaxPasses \in Nat \ {0} /\ MaxRestarts \in Nat

RuleType == {"SELECT", "REMOVE", "IFF", "ADD", "SUBSTITUTE", "PROTECT", "UNPROTECT",
             "SETVARIABLE", "REMVARIABLE", "REMCOHORT", "DELIMIT", "JUMP"}

\* A rule is numbered by its place in the grammar; section is its number, or -1
\* before and -2 after all sections.
ASSUME GrammarsAssumption ==
    \A g \in Grammars :
        /\ IsFiniteSet(DOMAIN g) /\ DOMAIN g \subseteq Nat /\ 0 \in DOMAIN g
        /\ \A j \in DOMAIN g :
             /\ g[j].type \in RuleType
             /\ g[j].target \in Tags /\ g[j].except \subseteq Tags
             /\ g[j].type \in {"ADD", "SUBSTITUTE"} => g[j].new \in Tags
             /\ g[j].section \in Nat \cup {-1, -2}

\* A window has a cohort, and a cohort a reading.
ASSUME WindowsAssumption ==
    /\ EndTag \in Tags
    /\ \A w \in Windows :
         /\ w \in Seq(Seq(SUBSET Tags)) /\ w # <<>>
         /\ \A c \in DOMAIN w : w[c] # <<>>

VARIABLES
    grammar,
    order,         \* the cohorts of the window, by local_number; >>> left out
    readings,      \* readings[c]: a sequence of [id, tags, locked]
    seen,          \* tags that set bits in possible_sets of a cohort
    flag,          \* the one variable the grammar uses is set
    ruleCohorts,   \* rule_to_cohorts
    valid,         \* valid_rules
    section, pass, restarts,
    active,        \* intersects
    iter, stray,   \* iter_rules: the rule, and whether it stands at end()
    cursor,        \* position of the last cohort tried
    type,          \* type: rule.type, or what IFF became for the last cohort
    cache,         \* index_ruleCohort_no
    ruleDid, did,  \* rule_did_something, section_did_something
    pc

window == <<order, readings, seen, flag>>
index == <<ruleCohorts, valid, active>>
run == <<section, pass, restarts, did>>
vars == <<grammar, window, index, run, iter, stray, cursor, type, cache, ruleDid, pc>>

Rules == DOMAIN grammar
Cohorts == {order[p] : p \in DOMAIN order}
Pos(c) == CHOOSE p \in DOMAIN order : order[p] = c
Least(S) == CHOOSE x \in S : \A y \in S : x <= y
Greatest(S) == CHOOSE x \in S : \A y \in S : x >= y

Magic == [id |-> 0, tags |-> {}, locked |-> FALSE]

-----------------------------------------------------------------------------
(* Which rules may concern which cohorts.                                  *)

IndexTags(j) == {grammar[j].target} \cup grammar[j].except

MayMatch(j, c) == IndexTags(j) \cap seen[c] # {}

\* runsections: section s runs the rules of all sections up to s
RunSection(s) ==
    {j \in Rules : IF s < 0 THEN grammar[j].section = s ELSE grammar[j].section \in 0..s}

LastSection == Greatest({grammar[j].section : j \in Rules} \cup {-1})

IndexWindow ==
    /\ ruleCohorts' = [j \in Rules |-> {c \in Cohorts : MayMatch(j, c)}]
    /\ valid' = {j \in Rules : \E c \in Cohorts : MayMatch(j, c)}

\* Variant: a rule that becomes valid is not added to the rules being run.
TagAdded_NotActive(c, t, cs) ==
    LET touched == {j \in Rules : t \in IndexTags(j)} IN
    /\ seen' = [seen EXCEPT ![c] = @ \cup {t}]
    /\ ruleCohorts' = [j \in Rules |-> IF j \in touched THEN cs[j] \cup {c} ELSE cs[j]]
    /\ valid' = valid \cup touched
    /\ UNCHANGED active

\* addTagToReading and updateValidRules for tag t on cohort c; cs is
\* rule_to_cohorts before it
TagAdded(c, t, cs) ==
    LET touched == {j \in Rules : t \in IndexTags(j)} IN
    /\ seen' = [seen EXCEPT ![c] = @ \cup {t}]
    /\ ruleCohorts' = [j \in Rules |-> IF j \in touched THEN cs[j] \cup {c} ELSE cs[j]]
    /\ valid' = valid \cup touched
    /\ active' = active \cup ((touched \ valid) \cap RunSection(section))

-----------------------------------------------------------------------------
(* What a rule matches on a cohort.                                        *)

TargetMatches(j, rd) ==
    grammar[j].target \in rd.tags /\ grammar[j].except \cap rd.tags = {}

HasTag(p, t) == p \in DOMAIN order /\ \E i \in DOMAIN readings[order[p]] :
                                          t \in readings[order[p]][i].tags

TestHolds(j, c) ==
    LET t == grammar[j].test IN
    CASE t.kind = "none" -> TRUE
      [] t.kind = "at"   -> HasTag(Pos(c) + t.off, t.tag) # t.neg
      [] t.kind = "var"  -> flag # t.neg

\* Variant: protected readings are matched like the others.
Immune_Never(j, c) == {}

\* Protected readings: no rule but UNPROTECT is matched against them.
Immune(j, c) ==
    {i \in DOMAIN readings[c] : readings[c][i].locked /\ grammar[j].type # "UNPROTECT"}

\* readings with matched_target, and with matched_tests
Targets(j, c) ==
    {i \in DOMAIN readings[c] \ Immune(j, c) : TargetMatches(j, readings[c][i])}
Good(j, c) == IF TestHolds(j, c) THEN Targets(j, c) ELSE {}

\* IFF is REMOVE until a reading matches the target and the tests.
TypeFor(j, c) ==
    IF grammar[j].type # "IFF" THEN grammar[j].type
    ELSE IF Good(j, c) # {} THEN "SELECT" ELSE "REMOVE"

Active(j, c) == Good(j, c) \cup Immune(j, c)

\* No reading is a target: the rest of the loop body is not reached.
Misses(j, c) ==
    Active(j, c) = {} /\ (grammar[j].type = "IFF" => Targets(j, c) = {})

\* Every reading is a target: nothing to do for SELECT and safe REMOVE.
AllActive(j, c) ==
    /\ Active(j, c) = DOMAIN readings[c]
    /\ TypeFor(j, c) = "SELECT" \/ (TypeFor(j, c) = "REMOVE" /\ ~grammar[j].unsafe)

-----------------------------------------------------------------------------
(* What a rule does to the readings of a cohort.                           *)

\* The elements of s at the positions in K, in their order.
Keep(s, K) ==
    LET at[n \in 0..Len(s)] ==
          IF n = 0 THEN <<>>
          ELSE IF n \in K THEN Append(at[n - 1], s[n]) ELSE at[n - 1]
    IN at[Len(s)]

\* Removed readings are swapped to the end, last one first, and cut off.
SwapOut(s, G) ==
    LET from[n \in 1..(Len(s) + 1)] ==
          IF n = Len(s) + 1 THEN s
          ELSE LET t == from[n + 1] IN
               IF n \in G THEN SubSeq([t EXCEPT ![n] = t[Len(t)]], 1, Len(t) - 1) ELSE t
    IN from[1]

\* For IFF the protected readings count as selected only if an earlier reading
\* has turned it into SELECT.
Held(j, c) ==
    {i \in Immune(j, c) :
        grammar[j].type = "SELECT" \/ \E g \in Good(j, c) : g < i}

AfterSelect(j, c) == Keep(readings[c], Good(j, c) \cup Held(j, c))

Removed(j, c) == IF grammar[j].type = "IFF" THEN Targets(j, c) ELSE Good(j, c)

\* Variant: the last readings are removed without asking whether that is safe.
AfterRemove_NoUndo(j, c) ==
    LET G == Removed(j, c) IN
    IF G = DOMAIN readings[c] THEN <<Magic>> ELSE SwapOut(readings[c], G)

\* A safe rule that would remove every reading removes none; an unsafe one
\* leaves the reading initEmptyCohort makes.
AfterRemove(j, c) ==
    LET G == Removed(j, c) IN
    IF G = DOMAIN readings[c]
      THEN IF grammar[j].unsafe THEN <<Magic>> ELSE readings[c]
      ELSE SwapOut(readings[c], G)

AfterAdd(j, c) ==
    [i \in DOMAIN readings[c] |->
        IF i \in Good(j, c)
          THEN [readings[c][i] EXCEPT !.tags = @ \cup {grammar[j].new}]
          ELSE readings[c][i]]

\* Readings that have the tag to be substituted
Substituted(j, c) == {i \in Good(j, c) : grammar[j].old \in readings[c][i].tags}

AfterSubstitute(j, c) ==
    [i \in DOMAIN readings[c] |->
        IF i \in Substituted(j, c)
          THEN [readings[c][i] EXCEPT !.tags = (@ \ {grammar[j].old}) \cup {grammar[j].new}]
          ELSE readings[c][i]]

AfterLock(j, c, lock) ==
    [i \in DOMAIN readings[c] |->
        IF i \in Good(j, c) THEN [readings[c][i] EXCEPT !.locked = lock] ELSE readings[c][i]]

WithEndTag(rds) == [i \in DOMAIN rds |-> [rds[i] EXCEPT !.tags = @ \cup {EndTag}]]

-----------------------------------------------------------------------------

Init ==
    /\ grammar \in Grammars
    /\ \E w \in Windows :
         /\ order = [p \in DOMAIN w |-> p]
         /\ readings = [c \in DOMAIN w |->
                [i \in DOMAIN w[c] |-> [id |-> i, tags |-> w[c][i], locked |-> FALSE]]]
         /\ seen = [c \in DOMAIN w |-> UNION {w[c][i] : i \in DOMAIN w[c]}]
    /\ flag = FALSE
    /\ ruleCohorts = [j \in DOMAIN grammar |-> {}] /\ valid = {} /\ active = {}
    /\ section = -1 /\ pass = 0 /\ restarts = 0 /\ did = FALSE
    /\ iter = 0 /\ stray = FALSE /\ cursor = 0 /\ type = "" /\ cache = {} /\ ruleDid = FALSE
    /\ pc = "begin"

\* label_runGrammarOnWindow_begin
Begin ==
    /\ pc = "begin"
    /\ restarts' = restarts + 1
    /\ cache' = {} /\ active' = {} /\ IndexWindow
    /\ section' = -1 /\ pass' = 0
    /\ pc' = IF restarts' > MaxRestarts THEN "done" ELSE "enter"
    /\ UNCHANGED <<grammar, window, did, iter, stray, cursor, type, ruleDid>>

\* label repeat_rule, for rule j
StartRule(j) ==
    /\ iter' = j
    /\ cursor' = 0 /\ ruleDid' = FALSE
    /\ type' = grammar[j].type
    /\ pc' = "try"

EnterSection ==
    /\ pc = "enter"
    /\ active' = valid \cap RunSection(section)
    /\ did' = FALSE /\ stray' = FALSE
    /\ IF active' # {} THEN StartRule(Least(active'))
       ELSE pc' = "leave" /\ UNCHANGED <<iter, cursor, ruleDid, type>>
    /\ UNCHANGED <<grammar, window, ruleCohorts, valid, section, pass, restarts, cache>>

\* Variant: the pass counter is not consulted.
LeaveSection_NoLimit ==
    /\ pc = "leave"
    /\ CASE section = -2 -> pc' = "done" /\ UNCHANGED <<section, pass>>
         [] section = -1 ->
              /\ section' = IF LastSection >= 0 THEN 0 ELSE -2
              /\ pass' = 0 /\ pc' = "enter"
         [] section >= 0 /\ ~did ->
              /\ section' = IF section < LastSection THEN section + 1 ELSE -2
              /\ pass' = 1 /\ pc' = "enter"
         [] OTHER -> pc' = "enter" /\ UNCHANGED <<section, pass>>
    /\ UNCHANGED <<grammar, window, index, restarts, did, iter, stray, cursor, type, cache, ruleDid>>

\* A section is run again while it changes things, then the next one is run.
LeaveSection ==
    /\ pc = "leave"
    /\ CASE section = -2 -> pc' = "done" /\ UNCHANGED <<section, pass>>
         [] section = -1 ->
              /\ section' = IF LastSection >= 0 THEN 0 ELSE -2
              /\ pass' = 0 /\ pc' = "enter"
         [] section >= 0 /\ ~did ->
              /\ section' = IF section < LastSection THEN section + 1 ELSE -2
              /\ pass' = 1 /\ pc' = "enter"
         [] OTHER ->
              /\ section' = IF pass >= MaxPasses THEN -2 ELSE section
              /\ pass' = pass + 1 /\ pc' = "enter"
    /\ UNCHANGED <<grammar, window, index, restarts, did, iter, stray, cursor, type, cache, ruleDid>>

\* The end of the cohort loop: REPEAT, the next rule, or the end of the rules.
NextRule ==
    /\ pc = "ended"
    /\ LET after == {j \in active : j > iter} IN
       IF ruleDid /\ grammar[iter].repeat
         THEN cache' = {} /\ StartRule(iter)
         ELSE /\ cache' = cache
              /\ IF ~stray /\ after # {} THEN StartRule(Least(after))
                 ELSE pc' = "leave" /\ UNCHANGED <<iter, cursor, ruleDid, type>>
    /\ UNCHANGED <<grammar, window, index, run, stray>>

-----------------------------------------------------------------------------
(* The cohort loop for rule iter.                                          *)

Left == {c \in ruleCohorts[iter] : c \in Cohorts /\ Pos(c) > cursor}

\* c is the cohort the loop has come to.
Now(c) == pc = "try" /\ c \in Left /\ \A d \in Left : Pos(c) <= Pos(d)

\* Reasons not to try the rule on c, tested with what type the last cohort left.
NotTried(c) ==
    \/ ~MayMatch(iter, c)
    \/ /\ Len(readings[c]) = 1
       /\ \/ type = "SELECT"
          \/ /\ type \in {"REMOVE", "IFF"}
             /\ ~grammar[iter].unsafe \/ readings[c][1] = Magic
    \/ type = "DELIMIT" /\ Pos(c) = Len(order)

Tried(c) == Now(c) /\ ~NotTried(c) /\ <<iter, c>> \notin cache
Acts(c) == Tried(c) /\ ~Misses(iter, c) /\ ~AllActive(iter, c)

EndCohorts ==
    /\ pc = "try" /\ Left = {}
    /\ pc' = "ended"
    /\ UNCHANGED <<grammar, window, index, run, iter, stray, cursor, type, cache, ruleDid>>

Skip(c) ==
    /\ Now(c) /\ (NotTried(c) \/ <<iter, c>> \in cache)
    /\ cursor' = Pos(c)
    /\ UNCHANGED <<grammar, window, index, run, iter, stray, type, cache, ruleDid, pc>>

\* Variant: the flag for the section is what the last cohort did.
Done_LastCohort(c, changed) ==
    /\ cursor' = Pos(c)
    /\ type' = TypeFor(iter, c)
    /\ ruleDid' = (ruleDid \/ changed)
    /\ did' = changed
    /\ UNCHANGED <<grammar, section, pass, restarts, iter, stray, pc>>

\* The loop body from the cache on: c is done, and has changed or not.
Done(c, changed) ==
    /\ cursor' = Pos(c)
    /\ type' = TypeFor(iter, c)
    /\ ruleDid' = (ruleDid \/ changed)
    /\ did' = (did \/ changed)
    /\ UNCHANGED <<grammar, section, pass, restarts, iter, stray, pc>>

Failed(c) == cache' = cache \cup {<<iter, c>>}
Cleared == cache' = {}

\* No target: the rule forgets the cohort unless only the tests failed.
Miss(c) ==
    /\ Tried(c) /\ Misses(iter, c)
    /\ Done(c, FALSE) /\ Failed(c)
    /\ ruleCohorts' =
         IF Targets(iter, c) = {} THEN [ruleCohorts EXCEPT ![iter] = @ \ {c}] ELSE ruleCohorts
    /\ UNCHANGED <<window, valid, active>>

NothingToDo(c) ==
    /\ Tried(c) /\ ~Misses(iter, c) /\ AllActive(iter, c)
    /\ Done(c, FALSE) /\ Failed(c)
    /\ UNCHANGED <<window, index>>

SetReadings(c, rds) ==
    /\ readings' = [readings EXCEPT ![c] = rds]
    /\ Done(c, rds # readings[c])

Select(c) ==
    /\ Acts(c) /\ TypeFor(iter, c) = "SELECT"
    /\ SetReadings(c, AfterSelect(iter, c)) /\ Cleared
    /\ UNCHANGED <<order, seen, flag, index>>

\* Variant: the failed attempts of other rules are kept.
Remove_KeepsCache(c) ==
    /\ Acts(c) /\ TypeFor(iter, c) = "REMOVE"
    /\ SetReadings(c, AfterRemove(iter, c)) /\ Failed(c)
    /\ UNCHANGED <<order, seen, flag, index>>

Remove(c) ==
    /\ Acts(c) /\ TypeFor(iter, c) = "REMOVE"
    /\ SetReadings(c, AfterRemove(iter, c))
    /\ IF Removed(iter, c) # {} THEN Cleared ELSE Failed(c)
    /\ UNCHANGED <<order, seen, flag, index>>

Add(c) ==
    /\ Acts(c) /\ type = "ADD"
    /\ SetReadings(c, AfterAdd(iter, c))
    /\ IF Good(iter, c) # {}
         THEN Cleared /\ TagAdded(c, grammar[iter].new, ruleCohorts)
         ELSE Failed(c) /\ UNCHANGED <<seen, index>>
    /\ UNCHANGED <<order, flag>>

Substitute(c) ==
    /\ Acts(c) /\ type = "SUBSTITUTE"
    /\ SetReadings(c, AfterSubstitute(iter, c))
    /\ IF Substituted(iter, c) # {}
         THEN Cleared /\ TagAdded(c, grammar[iter].new, ruleCohorts)
         ELSE Failed(c) /\ UNCHANGED <<seen, index>>
    /\ UNCHANGED <<order, flag>>

\* PROTECT and UNPROTECT count as no change.
Protect(c) ==
    /\ Acts(c) /\ type \in {"PROTECT", "UNPROTECT"}
    /\ readings' = [readings EXCEPT ![c] = AfterLock(iter, c, type = "PROTECT")]
    /\ Done(c, FALSE) /\ Failed(c)
    /\ UNCHANGED <<order, seen, flag, index>>

SetVariable(c) ==
    /\ Acts(c) /\ type \in {"SETVARIABLE", "REMVARIABLE"}
    /\ flag' = IF Good(iter, c) # {} THEN type = "SETVARIABLE" ELSE flag
    /\ Done(c, FALSE) /\ Failed(c)
    /\ UNCHANGED <<order, readings, seen, index>>

\* A rule of another type whose only active readings are protected ones.
OnlyProtected(c) ==
    /\ Acts(c) /\ type \in {"REMCOHORT", "DELIMIT", "JUMP"} /\ Good(iter, c) = {}
    /\ Done(c, FALSE) /\ Failed(c)
    /\ UNCHANGED <<window, index>>

Without(p) == [q \in 1..(Len(order) - 1) |-> IF q < p THEN order[q] ELSE order[q + 1]]

\* Variant: the new last cohort does not get <<<.
RemCohort_NoEndTag(c) ==
    /\ Acts(c) /\ type = "REMCOHORT" /\ Good(iter, c) # {}
    /\ order' = Without(Pos(c))
    /\ ruleDid' = TRUE /\ did' = TRUE
    /\ cursor' = Pos(c) - 1 /\ Failed(c)
    /\ ruleCohorts' = [j \in Rules |-> ruleCohorts[j] \ {c}]
    /\ UNCHANGED <<grammar, readings, seen, flag, valid, active, section, pass, restarts,
                   iter, stray, type, pc>>

\* The cohort leaves the window. If it was the last one, its successor as the
\* last one gets <<< and the loop ends; otherwise it goes on where c was.
RemCohort(c) ==
    /\ Acts(c) /\ type = "REMCOHORT" /\ Good(iter, c) # {}
    /\ order' = Without(Pos(c))
    /\ ruleDid' = TRUE /\ did' = TRUE
    /\ LET rest == [j \in Rules |-> ruleCohorts[j] \ {c}] IN
       IF EndTag \in readings[c][1].tags
         THEN /\ cursor' = Len(order) /\ Cleared
              /\ IF Len(order) > 1
                   THEN LET d == order[Len(order) - 1] IN
                        /\ readings' = [readings EXCEPT ![d] = WithEndTag(@)]
                        /\ TagAdded(d, EndTag, rest)
                   ELSE /\ ruleCohorts' = rest
                        /\ UNCHANGED <<readings, seen, valid, active>>
         ELSE /\ cursor' = Pos(c) - 1 /\ Failed(c)
              /\ ruleCohorts' = rest
              /\ UNCHANGED <<readings, seen, valid, active>>
    /\ UNCHANGED <<grammar, flag, section, pass, restarts, iter, stray, type, pc>>

\* The cohorts after c go to a window of their own and the run starts over.
Delimit(c) ==
    /\ Acts(c) /\ type = "DELIMIT" /\ Good(iter, c) # {}
    /\ order' = SubSeq(order, 1, Pos(c))
    /\ readings' = [readings EXCEPT ![c] = WithEndTag(@)]
    /\ seen' = [seen EXCEPT ![c] = @ \cup {EndTag}]
    /\ ruleDid' = TRUE /\ did' = TRUE /\ Failed(c)
    /\ pc' = "begin"
    /\ UNCHANGED <<grammar, flag, index, section, pass, restarts, iter, stray, cursor, type>>

\* interval_vector::lower_bound; NoRule is end(). For a t that is not in S it
\* passes over the interval after t.
NoRule == -1
LowerBound(S, t) ==
    LET over == {x \in S : x > t}
        later == {x \in over : x > Least(over) /\ x - 1 \notin S}
    IN IF t \in S THEN t
       ELSE IF over = {} \/ later = {} THEN NoRule ELSE Least(later)

\* The jump lands on the rule before the one lower_bound finds; before the
\* first one, the iterator is at end() and reads as rule 0.
Jump(c) ==
    /\ Acts(c) /\ type = "JUMP" /\ Good(iter, c) # {}
    /\ LET at == LowerBound(active, grammar[iter].to)
           before == {j \in active : at = NoRule \/ j < at}
       IN /\ StartRule(IF before = {} THEN 0 ELSE Greatest(before))
          /\ stray' = (before = {})
    /\ Failed(c)
    /\ UNCHANGED <<grammar, window, index, run>>

Stopped == pc = "done" /\ UNCHANGED vars

-----------------------------------------------------------------------------

TryCohort(c) ==
    \/ Skip(c) \/ Miss(c) \/ NothingToDo(c) \/ OnlyProtected(c)
    \/ Select(c) \/ Remove(c) \/ Add(c) \/ Substitute(c) \/ Protect(c)
    \/ SetVariable(c) \/ RemCohort(c) \/ Delimit(c) \/ Jump(c)

Work ==
    \/ Begin \/ EnterSection \/ LeaveSection \/ NextRule \/ EndCohorts
    \/ \E c \in Cohorts : TryCohort(c)

Next == Work \/ Stopped

Spec == Init /\ [][Next]_vars
FairSpec == Spec /\ WF_vars(Work)

-----------------------------------------------------------------------------
(* Properties. *)

Reading == [id : Nat, tags : SUBSET Tags, locked : BOOLEAN]

TypeOK ==
    /\ grammar \in Grammars
    /\ pc \in {"begin", "enter", "try", "ended", "leave", "done"}
    /\ readings \in Seq(Seq(Reading)) /\ order \in Seq(DOMAIN readings)
    /\ seen \in [DOMAIN readings -> SUBSET Tags]
    /\ \A c \in DOMAIN readings :
         /\ readings[c] # <<>>
         /\ \A i \in DOMAIN readings[c] : readings[c][i].tags \subseteq seen[c]
    /\ flag \in BOOLEAN /\ stray \in BOOLEAN /\ did \in BOOLEAN /\ ruleDid \in BOOLEAN
    /\ ruleCohorts \in [Rules -> SUBSET DOMAIN readings]
    /\ valid \subseteq Rules /\ active \subseteq valid
    /\ section \in -2..LastSection /\ pass \in 0..(MaxPasses + 1)
    /\ restarts \in 0..(MaxRestarts + 1)
    /\ iter \in Rules /\ cursor \in 0..Len(readings)
    /\ type \in RuleType \cup {""}
    /\ cache \subseteq Rules \X DOMAIN readings

\* Whether rule j, if it were tried on c now, would change the window.
WouldChange(j, c) ==
    LET t == TypeFor(j, c) IN
    /\ ~Misses(j, c) /\ ~AllActive(j, c)
    /\ CASE t = "SELECT" -> Len(readings[c]) > 1
         [] t = "REMOVE" -> AfterRemove(j, c) # readings[c]
         [] t = "ADD" -> AfterAdd(j, c) # readings[c]
         [] t = "SUBSTITUTE" -> AfterSubstitute(j, c) # readings[c]
         [] t = "REMCOHORT" -> Good(j, c) # {}
         [] t = "DELIMIT" -> Good(j, c) # {} /\ Pos(c) < Len(order)
         [] OTHER -> FALSE

\* A cached failure is still a failure: whatever other rules did to the window
\* since, the rule would not change the cohort if it were tried again.
CacheIsSound ==
    pc # "begin" =>
        \A e \in cache : e[2] \in Cohorts => ~WouldChange(e[1], e[2])

\* The index misses nothing: a rule of the section whose target matches a
\* reading is among the rules being run and has the cohort on its list, however
\* many tags were added and whatever failed before.
IndexIsComplete ==
    pc \in {"try", "ended"} =>
        \A j \in RunSection(section), c \in Cohorts :
            Targets(j, c) # {} => j \in active /\ c \in ruleCohorts[j]

\* A section is left for the next one only when no rule of it, or of an earlier
\* section, could change anything in the window.
SectionsSettle ==
    pc = "leave" /\ section >= 0 /\ ~did =>
        \A j \in RunSection(section), c \in Cohorts : ~WouldChange(j, c)

\* Rules without UNSAFE leave every cohort at least one of the readings it had,
\* IFF included, whichever of its readings the rule matches.
SafeRulesKeepAReading ==
    [][\A c \in Cohorts : ~grammar[iter].unsafe =>
          \E i \in DOMAIN readings[c], k \in DOMAIN readings'[c] :
              readings[c][i].id = readings'[c][k].id]_vars

\* A protected reading of a cohort stays, with its tags, until it is unprotected.
ProtectedKept ==
    [][\A c \in Cohorts : \A i \in DOMAIN readings[c] :
          readings[c][i].locked /\ type # "UNPROTECT" =>
             \E k \in DOMAIN readings'[c] :
                /\ readings'[c][k].id = readings[c][i].id
                /\ readings'[c][k].tags \ {EndTag} = readings[c][i].tags \ {EndTag}]_vars

\* Every reading of the last cohort of the window carries <<<, and no other.
EndTagOnLast ==
    \A c \in Cohorts : \A i \in DOMAIN readings[c] :
        EndTag \in readings[c][i].tags <=> Pos(c) = Len(order)

\* The run of a window ends.
Halts == <>(pc = "done")

=============================================================================
