# A TLA+ model of VISL CG-3

VISL CG-3 reads a stream of *cohorts* (a word form with its possible *readings*), cuts
it into *windows*, and runs the rules of a constraint grammar over one window at a time.
The rules remove, select, add and change readings, cohorts, dependencies and relations.
What is left is printed in the order it was read.

This directory holds TLA+ modules for the parts of the program that keep state, TLC
configurations that check them on small instances, and TLAPS proofs of what holds on
every instance. `PROJECT.json` lists the components, the runs, the code every definition
models, the hazards, and the theorems. Paths below are relative to `src/src/` of the
repository unless they start with `manual/` or `test/`.

1. [The system](#1-the-system): its parts, their state and what makes them right
2. [The modules](#2-the-modules): how state and actions correspond to the code
3. [The runs](#3-the-runs): what is checked, with which bounds and why they suffice
4. [Fairness and deadlock](#4-fairness-and-deadlock)
5. [The proofs](#5-the-proofs)
6. [Where the code and its documents disagree](#6-where-the-code-and-its-documents-disagree)
7. [What is not modelled](#7-what-is-not-modelled)
8. [Plan](#8-plan)

## 1. The system

The program is single-threaded: one loop reads lines, and everything else is called
from it. What makes it hard is not interleaving but *long sequences of calls over shared
mutable state*: every rule may change what every later rule, index, cache, iterator or
window relies on.

    input lines ──> window pipeline ──> rule engine ──> printer
                       │  windows          │  │  └── dependency tree, relations
                       │                   │  └───── readings and mappings
                       │                   └──────── contextual tests ── set matching
                       └── reflow of dependencies and relations        (tags, sets, caches)
    grammar text ──> parser ──> Grammar ──> indexes ──┘
                                 │  ^
                            binary grammar
    EXTERNAL rules <──> child processes

| Component | State | Operations | What makes it right |
|---|---|---|---|
| Window pipeline (`GrammarApplicator_runGrammar.cpp`, `Window.cpp`, `SingleWindow.cpp`) | `previous`, `current`, `next`; the open window; the cohort being read; `did_soft_lookback` | a cohort line, a reading line, FLUSH, EXIT, end of input; DELIMIT from a rule | no cohort is lost, printed twice or reordered; windows are sealed with `<<<` and obey the limits; a command is a barrier; everything is printed in the end |
| Rule engine (`GrammarApplicator_runRules.cpp`) | section, pass, `valid_rules`, `rule_to_cohorts`, the rule and cohort iterators, `index_ruleCohort_no`, readings and their flags | one operation per rule type; starting over after DELIMIT; REPEAT; JUMP | neither the index nor the cache hides work, safe rules leave a reading, protected readings stay, a run ends |
| Dependency tree (`GrammarApplicator_reflow.cpp`, `..._runRules.cpp`) | `dep_parent`, `dep_children`, `dep_self`, `cohort_map`, `dep_window` | SETPARENT, SETCHILD, ADDCOHORT, REMCOHORT, SPLITCOHORT, MERGECOHORTS, tags read again, freeing of a window | a tree; its two records agree; the map finds what is kept; changes keep the others' order |
| Contextual tests (`GrammarApplicator_runContextualTest.cpp`) | the stack of linked tests, the mark, the origin | a test at an offset, a scan one way or both ways, in one window or across windows; a test on the dependency tree or on relations | the scans and walks with their early exits give the answer the manual defines; they stay in reach; they end |
| Cohort iterators (`CohortIterator.cpp`) | the place reached, the cohorts seen | one step to the left, right, parent, ancestor, descendant, sibling | each visits what its name says, once, and ends |
| Set matching (`GrammarApplicator_matchSet.cpp`) | `possible_sets`, `index_readingSet_yes/_no`, `unif_tags`, `unif_sets`, `unif_sets_firstrun` | matching a tag, set, reading, cohort; a rule's loop over readings and tests | a remembered answer is the answer; a unified set means what its members mean one by one |
| Hash tables (`flat_unordered_map.hpp`, `flat_unordered_set.hpp`) | cells with marks for empty and deleted | insert, `operator[]`, erase, find, grow, clear | a finite map; every call returns |
| Ordered containers (`interval_vector.hpp`, `sorted_vector.hpp`) | sorted intervals or elements | insert, erase, lower_bound, intersect | sets of numbers |
| Relations (`Cohort.cpp`, reflow, rules) | `relations`, `relations_input`, `relation_map` | ADD, SET, REMRELATION(S), input tags, freeing of a window | relations point at the cohort that was meant; removed cohorts leave none |
| Readings and mappings (reflow, `Cohort.cpp`, rules) | the tags of a reading and its sub-readings, its mapping tag, hashes, `num_min`, `num_max`, deleted and delayed readings | adding, removing and reading tags again, splitting, unmapping, merging | one mapping per reading, none lost; hashes and numbers match the tags |
| Tags and varstrings (`Tag.cpp`) | interned tags | parsing, numeric comparison, templates | equal tags are one object |
| Grammar (`Grammar.cpp`, `Set.cpp`, `TagTrie.hpp`) | sets by hash and by name, tries, tests, templates, anchors, rules, indexes | adding a set, a tag, a test, a rule; reindex | every set and test means what was written; the indexes lose no match |
| Grammar parser (`TextualParser.cpp`, `parser_helpers.hpp`) | the grammar under construction, the rule at hand, where rules go, errors | one per statement; the end of the text | what is accepted is what is run; an error keeps the grammar from being used |
| Binary grammars (`BinaryGrammar*.cpp`) | the order in which tests were written, tests waiting for their links | write, read | reading what was written gives it back |
| Relabelling (`GrammarRelabel*`) | sets | map | as tags replaced in the sets |
| Grammar writer | none | print | formatting |
| External processors (`GrammarApplicator.cpp`, `process.hpp`) | two pipes and a child | write a window, read it back | the answer is applied to the window it was asked for; no deadlock |
| Streams of other formats (`ApertiumApplicator.cpp`, `MatxinApplicator.cpp`, `NicelineApplicator.cpp`, `FSTApplicator.cpp`, `PlaintextApplicator.cpp`) | as the pipeline, and the text between cohorts, Matxin's nodes and tree | a character or a line, printing a window, null flush | what is not touched by a rule comes out as it went in; limits and end tags as in the pipeline |
| Splitting of multiword cohorts (`MweSplitApplicator.cpp`) | the cohorts of a window | split at printing | every part of every reading is in one of the words, in order |
| Library (`libcg3.cpp`) | sentences | create, copy, run | copies are independent |
| Programs, text helpers, pools | options, buffers, freed objects | | |

Behaviours that are hard, and hard to test:

* **Caches and indices over changing data.** A rule that failed on a cohort is not tried
  again until something changes (`index_ruleCohort_no`); a rule is tried only on cohorts
  with one of its tags (`rule_to_cohorts`); a set is tried only where its bit is set
  (`possible_sets`). Each is right only if every change of the window updates or drops it.
* **State read before a call and used after it.** The rule loop holds iterators and a
  copy of the rule's type over calls that rebuild what they point into.
* **Objects shared and renamed.** Sets, tests and templates of a grammar are kept once
  for equal contents, under hashes that leave something out, and are renumbered, split,
  merged and written to a file while rules refer to them.
* **Sequences of rules.** DELIMIT starts the window over, REMCOHORT renumbers it, SPLIT-
  and MERGECOHORTS move dependencies, JUMP moves the rule iterator, PROTECT changes what
  counts as a match.
* **Numbers at a limit.** Soft and hard limits, the load of a hash table, windows at
  either end of the buffer, cohort number 0.
* **Freed windows.** Numbers of cohorts outlive the cohorts: dependencies, relations and
  lookups must cope.
* **A partner.** The child process of EXTERNAL reads and writes at its own pace.

There is no shared-memory concurrency, nothing is persisted, and there are no timeouts;
no hazard of those kinds is listed.

## 2. The modules

Every module leaves text, formatting and the details of tag matching aside: a cohort is
its number, a tag or a set is a value. What is kept is the control: guards, early returns,
their order, and every change of state.

### `WindowPipeline`, `CohortStream`

`runGrammarOnText` from the opening of a window to the last line. A cohort is the number
of its line; a window is the sequence of its cohorts without `cohorts[0]`.

| Model | Code |
|---|---|
| `previous`, `current`, `next` | the queues of `Window` |
| `pending`, `open` | `cCohort`, `cSWindow` |
| `lookedBack` | `did_soft_lookback` |
| `endtag` | the cohorts with `<<<` on every reading |
| `class[c]` | what the delimiter sets match of cohort c |
| `ReadCohort`; `NoLookback`, `LookbackMisses`, `LookbackCuts`; `OpenFirst`, `CloseAndOpen`, `AppendPending` | a cohort line, in the order of the code: look back for a soft delimiter, close the window before it, append it |
| `Advance`, `NewPending`, `FlushOldest`, `Delimit`, `FinishRun` | a window runs as soon as enough windows follow it; the oldest one is printed and freed; a rule may cut the window in hand |
| `FlushCommand`, `SealPending`, `DrainNext`, `Emit`, `EmitDone`, `EndOfInput`, `ExitCommand` | the commands and the end |

`CohortStream` says what a reader of the output relies on, with no window in sight:
cohorts are accepted, written first in first out; FLUSH and the end of the input write
everything accepted before anything else happens; EXIT drops the rest.

### `RuleEngine`

`runGrammarOnWindow` and `runRulesOnSingleWindow` for one window. A reading is a set of
tags with an identity and a PROTECT flag; a target is a tag, perhaps minus tags; a
contextual test looks at a fixed offset, or at a variable. `Tags` are the tags there are;
grammars and windows are made of them (`GrammarsAssumption`, `WindowsAssumption`: a window
has a cohort, a cohort a reading). The bookkeeping is complete:

| Model | Code |
|---|---|
| `valid`, `ruleCohorts`, `active` | `valid_rules`, `rule_to_cohorts`, their intersection with the section |
| `seen[c]` | the tags `indexSingleWindow` has seen on c, whose bits stay set in `possible_sets` |
| `iter`, `stray` | `iter_rules`, and whether it stands at `end()` |
| `cursor` | where the cohort loop has come to |
| `type` | the local `type`, which IFF turns into SELECT or REMOVE |
| `cache` | `index_ruleCohort_no` |
| `Begin`, `EnterSection`, `LeaveSection` | the loop over sections and passes, with starting over |
| `NextRule`, `Skip`, `Miss`, `NothingToDo`, `EndCohorts` | the rule loop and the cohort loop |
| `Select`, `Remove`, `Add`, `Substitute`, `Protect`, `SetVariable`, `RemCohort`, `Delimit`, `Jump`, `OnlyProtected` | one action per rule type, each with the whole of what the code does there, its clearing of caches and re-indexing included |

### `Dependency`

`tree` holds the two records of every attachment (`parent`, `children`), the numbers in
`cohort_map` and which cohorts are marked done. The operators `Attach`, `Erase`, `Forward`,
`Insert`, `Split` are `attachParentChild`, the erasing of a cohort, REMCOHORT's forwarding,
and so on; the actions `SetRelation`, `AddCohort`, `RemCohort`, `SplitCohort`,
`MergeCohorts`, `ReadTags`, `NextWindow` are the rules and the freeing of windows.
`wouldParentChildLoop` and `wouldParentChildCross` are guards of `SetRelation`. Numbers are
given by `cohort_counter`, so a cohort made by a rule has a higher number than its
neighbours. A null dereference is the step `Crash`, after which nothing happens.

### `FlatTable`, `KeyMap`

The open-addressing table behind global variables, anchors, relation numbers and caches:
cells that are empty, deleted or hold a key; probing by steps of 5 from the hash; growth by
copying, one key at a time (`ReserveRange`, `CopyOne`, `EndCopy`). A search in a table with
neither the key nor an empty cell is `pc = "spin"`. `KeyMap` is a finite map.

### `ContextTest`, `DepIterators`, `ContextMeaning`

One chain of linked tests. `runContextualTest` calls itself for the linked test as soon as
a cohort matches, so a state has the stack of calls; one step is one `runSingleTest`.
`Begin` finds the starting cohort (`getCohortInWindow`), `TestSelf` is the test of the
cohort itself under `S`, `TestAlong` a scan in one direction or an iterator of `p`, `pp` or
`cc`, `TestBoth` the alternating scan of `0*`, `TestTree` one cohort of `runDependencyTest`
(`c`, `c*`, `s`) or `runRelationTest` (`r:`), `CallLinked` the call in the middle of a
match. `runDependencyTest` calls itself under `c*`; its calls are the `levels` of the test,
and `deepSeen` is `dep_deep_seen`. `Single` is what `runSingleTest` concludes from a match, a
barrier and the origin.

`DepIterators` has what these walks go through and in which order: the iterators of
`CohortIterator.cpp` with their own treatment of windows, `l`, `r`, `ll`, `rr` and loops, the
dependencies a loop of `runDependencyTest` is over, and the related cohorts. The order is
`less_Cohort` (place in the window first) for the iterators, and that of the global numbers
for dependencies.

`ContextMeaning` has the reference, written from the manual with quantifiers and no walk at
all: `MeaningFrom` says which cohorts a test is about (`Scope`, by the line or by the tree
that `dep_parent` spans), up to where (`Reaches`), and what must hold of them.

### The grammar: `TagTrie`, `GrammarSets`, `ContextTests`, `TextualParser`, `GrammarIndex`, `BinaryGrammar`

A grammar `g` is a record whose fields are those of `Grammar` and of the parser; every
operator takes it and gives it back as the function of that name leaves it. A tag is a
value; a hash is a value made of what the code hashes (so hashes of different things differ,
and what the code leaves out of a hash is left out here).

| Module | Code | What of it |
|---|---|---|
| `TagTrie` | `TagTrie.hpp`, `Set.cpp`, tags in `TextualParser.cpp` | the tries of a LIST, plain and special, with terminal nodes; their hash; `parseTagList` with STRICT-TAGS and LIST-TAGS |
| `GrammarSets` | `Grammar.cpp`, `parser_helpers.hpp`, `Set.cpp` | `addSet` (an OR of lists collapses to a list, fail-fast tags are split off into a difference, equal contents share an object), set operators, inline sets, redefinition |
| `ContextTests` | `TextualParser.cpp`, `ContextualTest.cpp` | a contextual test as it is parsed, its links, alternatives, templates, `parseContextualTestPosition`; equal tests share an object on the heap; binding of templates; splitting of numeric branches (`f`) |
| `TextualParser` | `TextualParser.cpp`, `Rule.cpp`, `Grammar.cpp` | one operator per statement, in the order of its checks; errors drop a statement and stop at ten; `Begin` and `Finish` before and after the text |
| `GrammarIndex` | `Grammar.cpp` | `reindex`: what is used, which sets unify, numbers of sets, sections, KEEPORDER, `sets_by_tag`, `rules_by_tag`, `rules_by_set` |
| `BinaryGrammar` | `BinaryGrammar_write.cpp`, `BinaryGrammar_read.cpp` | the file as a sequence of records in the order written; tests after those they need; what is resolved after reading |
| `GrammarToolchain` | `main.cpp`, `cg_comp.cpp` | the state machine: read a statement, finish the text, reindex, write, read |
| `GrammarMeaning` | (the reference; matching of tries from `GrammarApplicator_matchSet.cpp`) | what a set expression and a test of the *text* mean, with no trie, hash, sharing or index |

### Readings and matching: `Readings`, `SetMatching`, `Matching`

| Model | Code |
|---|---|
| a reading: a sequence of parts, the main one first, each with `tags`, `mapping`, `mapped` | `Reading` with its chain `next` |
| `cohorts[c].possible`, `low`, `high`, `current`, `deleted` | `possible_sets`, `num_min`, `num_max`, `CT_NUM_CURRENT`, `deleted` |
| `yes`, `no` | `index_readingSet_yes`, `index_readingSet_no`, keyed by the hash of a reading |
| `s.ut`, `s.us`, `s.first` | `unif_tags`, `unif_sets`, `unif_sets_firstrun` during one rule |
| `AddTag`, `DelTag`, `Reflow`, `SplitMappings`, `Unmap`, `Merged` | `addTagToReading`, `delTagFromReading`, `reflowReading`, `splitMappings`, `unmapReading`, `mergeReadings` |
| `MatchList`, `MatchParts`, `MatchUnified`, `Remember`, `TestCohort` | `doesSetMatchReading_tags`, `doesSetMatchReading`, `doesSetMatchCohort` with its helpers |
| `RunRule` | one rule on one cohort: the loop over the readings with their tests, then what the rule does |
| `ResetIndexes`, `External` | the end of a window, and what a child process hands back |

`Matching` takes the rules in any order and on any cohort: what the loop of `RuleEngine`
may do, and more.

### Streams: `StreamWindows`, `ApertiumStream`, `LineStreams`, `MweSplit`, `MatxinTree`, `StreamFormats`

Each format has its own copy of `runGrammarOnText`. `StreamWindows` is what the copies have
in common: cohorts and windows in a record `s`, appending, delimiting, looking back, the queue
of windows and printing. `ApertiumStream` reads characters, among them escapes, superblanks,
joined parts, deleted readings and NULs, and `MatxinApplicator`'s version of the same.
`LineStreams` has Niceline, plain text and FST, the last one also converted to the native
format. `MweSplit` and `MatxinTree` are pure: the words of a split cohort, and the nested
nodes of a sentence. `StreamFormats` is the state machine: a piece of input is read, windows
are run and printed; its reference is what the input itself looks like when it is printed.

### How the modules fit together

`WindowPipeline` runs windows, and `StreamFormats` does with more detail for other formats
what it does for the native one. What happens in a run is `RuleEngine`, of which the
pipeline sees only that the window may be cut (`Delimit`). `RuleEngine`'s `TestHolds` is a
test at an offset; `ContextTest` is the general form of it, with a set that each word has or
has not. What a set matches is `SetMatching`, and what rules do to readings `Matching`.
`GrammarToolchain` makes the grammar all of them run; its `rules_by_tag` is what
`RuleEngine!IndexTags` stands for, its tests are those of `ContextTest`. `Dependency` is what
the rules do to the tree while windows come and go in the order `WindowPipeline` gives.
`FlatTable` is the container under `cache`, `yes`, `no` and the variables, which use it as a
set or a map.

## 3. The runs

Every passing run finishes in minutes and fires every action of its module between the
runs of that module; every property is paired with a mutant of the code it is about
(`PROJECT.json`, "mutants") that makes TLC report it violated.

| Run | What is asked | Bounds | Why they are enough |
|---|---|---|---|
| `pipeline` | `WindowsSealed`: `<<<` on the last cohort of every finished window only. `WindowsWellCut`: delimiters and limits. `Lookahead`: a window runs with its whole right context (`num_windows` windows). `ImplementsStream`: refinement of `CohortStream`, so nothing is lost, repeated or reordered. `EverythingPrinted`: after FLUSH and at the end of the input | 1 window of context, soft limit 3, hard limit 4, 6 cohorts, each plain, a soft or a hard delimiter | limits count `>>>`, so 6 cohorts fill two windows to the hard limit and a third one; the lookback has a delimiter in front, behind or nowhere; commands come at every point |
| `rules_settle` | `CacheIsSound`, `IndexIsComplete`, `SectionsSettle`: a rule is left untried only when it would do nothing. `SafeRulesKeepAReading`, `ProtectedKept` | all grammars of 3 rules from two menus, windows of 2 cohorts with up to 2 readings over 3 tags, 3 passes, 3 restarts | two rules undo or enable each other, the third one observes; four kinds of sections; the limit of passes is reached |
| `rules_cohorts` | `EndTagOnLast`, `Halts` | 3 rules from three menus (loops, jumps, cohorts), windows of 3 cohorts | removal at either end and in the middle; jumps forwards and back |
| `dep_tree` | `MapIsWindows`, `NoLoops`, `ChildrenAgree`, `ListedChildrenAgree`, `TreeKept`, `SpansAreAnnounced` | 2 windows of 1 cohort, cohorts up to 4, 5 rules, 2 recipes, 1 unresolved tag, no windows kept behind | 4 cohorts make every loop and split; the first window is freed while its numbers are in use |
| `flat_table` | `LookupsFindAll`, `ImplementsKeyMap` | 3 keys on one probe path, 2 values, capacity 4 at first and 8 reserved for a range, growing as the code does | the third key is pushed past two others; deletion marks, growth and refilling in every order |
| `contexts` | `AnswerIsMeant`: the scans answer what the reference defines. `StaysInReach`: a cohort that is looked at is never an enclosed one, is in another window only if the position says so or a child is there, is where the position says from the cohort the test started at (parent, ancestor, descendant, sibling, to the left, to the right, related), and is not behind a barrier. `TestsEnd` | lines of two windows of 4 + 1 words, one of them perhaps enclosed, 30 single tests, pairs and triples of tests; one window of four words with six trees, one of them with a loop and a parent that is not there, and relations, about 50 tests on them alone and 9 linked to 9; two windows of two words with two trees across them | every modifier of a position is in the menu, alone and linked; the target has words before and behind it in its window and a match in the next one, and each word may match, be a barrier, or both; the trees have a chain, branches to both sides, a root in the middle, a loop above and below the target, and children in the other window |
| `grammar` | `TargetsMeanWhatIsWritten`, `RulesAreAsWritten`: targets match, and rules test, what the text says, after parsing and after a round trip through a file. `IndexFindsMatches`, `BinaryIsTheGrammar`, `OrderIsKept` | eight families of texts of 4 to 8 statements, each statement one of a menu; three plain tags and readings with any of them, fail-fast, numeric, varstring, magic and mapping tags | a family per question: sets with every operator over lists that collapse, split or are equal; tests that are shared between rules, linked, alternatives, templates before and after their use; headings, INCLUDE, END, errors and anchors; tags that bind; settings; every kind of rule with every flag that excludes another. A set needs two operators and a test two levels to be wrong in a way one does not show |
| `streams` | `StreamIsKept`: what comes out is what went in, text included, but for streams with text that gets out of place, is repeated or is taken for a word. `EndTagClosesWindows`, `WindowsWithinLimit`, `NoPartIsLost`, `WordsAreInTheirSentence` | streams of up to 5 or 6 pieces of 4 to 8 kinds for each of six formats, limits 3 and 4, one window of context; two multiwords of up to two readings with up to four parts; two sentences with up to three words and all parent relations | six pieces pass both limits with a delimiter and text before, between and after; the second sentence meets what the first one left behind |
| `matching` | `AnswersAreFresh`: no remembered answer differs from a new one. `UnifiedAsExploded`, `ValuesAreCurrent`, `MappingsAreKept`, `PrintLosesNothing`, `ComparesAsTheTableSays` | three grammars of five or six rules, three windows of up to two cohorts with up to two readings at first and four later, any 3 rules, exchanges and resets in any order | a stale answer takes three steps: ask, change, ask again; the sets have every operator and both kinds of unification, a fail-fast tag, a number and a mapping tag; two readings have sub-readings with different mapping tags |

`expect: violation` runs show a statement of a document or comment that the code does not
keep; see section 6.

`NoLoops`, `ChildrenAgree`, `SpansAreAnnounced` and `TreeKept` are stated for input whose
attachments were all resolved (`Resolved`); what an unresolved one does is modelled, and
`ListedChildrenAgree` and `MapIsWindows` hold with it.

The limits of the code that a run replaces by a small one: 1000 passes over a section and
1000 restarts of a window (`MaxPasses`, `MaxRestarts`). They are counters that only stop
the loop, so a smaller one stops it earlier at the same places. `MaxCohorts`, `Windows`,
`WindowSize` and `MaxId` bound the input, `MaxPieces` that of the formats, `MaxSteps` the
rules run in `Matching`, and `MaxReadings` the readings they make.
`TargetsMeanWhatIsWritten` is checked where no list is part of another (`grammar_or` shows
the other case), `OrderIsKept` without alternatives in templates, `AnswerIsMeant` of the tests in the menu
(section 6 has the tests on dependencies it does not hold for), and `UnifiedAsExploded` of
`$$` sets made with OR, and of `&&` sets in targets. Where a reading has several members of
a `&&` set, the manual's explanation and its example differ in which of them may hold in the
tests: the property asks for a match if the first one does, and for none if no one does,
mixtures of members left out (section 6).

A type invariant is checked for the pipeline. `TypeOK` of `RuleEngine`, `Dependency`,
`FlatTable` and `ContextTest` is proved (section 5); in the other modules it says what the
variables hold, for readers.

## 4. Fairness and deadlock

The program is single-threaded, so `FairSpec` has weak fairness on `Work`, all steps the
program takes by itself: it is never preempted for ever by anything else in the model.
Lines of the input are not fair; nothing guarantees that there is another one.
`EverythingPrinted` therefore starts from a FLUSH that was read or from the end of the input.
`RuleEngine` and `ContextTest` take no input after `Init`; `Halts` and `TestsEnd` need
nothing but that the program goes on.

Deadlock is checked wherever the system runs to an end that is modelled as stuttering
(`Stopped`, `Spin`, `AtBound`). Three systems may really stop, and their runs say
`CHECK_DEADLOCK FALSE`: `Dependency` is what grammars may do to the tree, in any order, and
stops when all numbers up to `MaxId` are used; the grammar toolchain is done when the file
has been read, or has failed; a stream ends.

## 5. The proofs

All theorems are checked by TLAPS to the last leaf, for all values of the constants that
satisfy the named assumptions. TLC evaluates the assumptions in the runs above.

**`WindowPipelineProofs`** (any number of windows, any limits, any classes, any input).
`TypeCorrect`: `Spec => []TypeOK`, from `TypeInv`, which adds how `pc`, `mode`,
`pending` and `open` go together (`Control`): a window is open only if `next` is not empty,
a run has a current window, a line in hand has been read.
`OutputStaysInOrder` (`[]OutputInOrder`) and `NothingIsLost` (`[]NothingLost`) rest on
`InputOrder`, which neither property is without: output, `previous`, `current`, `next`,
pending and the line in hand, one after the other, are the consecutive numbers 1 to `Read`.
A `Lane` is a sequence of windows that adjoin; the lemmas say what appending, cutting,
shifting and printing do to a lane, and each action is one of these.
`PipelineImplementsStream` (`Spec => ImplementsStream`): every step is a step of
`CohortStream` or leaves its variables alone; printing a window writes the next cohorts
because of `InputOrder`.

For the shape of the windows the same module has `WindowsStaySealed`
(`[]WindowsSealed`): `SealInv` adds that no cohort still to come has `<<<`, so what is put
into a window does not end it; `InputOrder` keeps a cohort from being in two windows. `WindowsStayWellCut`
(`[]WindowsWellCut`): `CutInv` adds that the open window can still be cut well (`FillIn`): it
has no hard delimiter and, past the soft limit or once it was looked back over, no soft one. `LookaheadHolds` (`[]Lookahead`) follows from the types.

**`RuleEngineProofs`, `RuleRunProofs`** (any grammars, windows, sections
and limits). The lemmas say what each operation of a rule leaves of a cohort's readings
(`Outcome`), so that a theorem looks at outcomes and not at rule types.

| Theorem | Property | Invariant | Holds for |
|---|---|---|---|
| `TypeCorrect` | `TypeOK` | `TypeInv`: and where `iter`, `cursor` and `active` may point at each `pc` | every grammar |
| `SafeRulesLeaveAReading` | `SafeRulesKeepAReading` | `TypeInv` | every grammar |
| `ProtectedReadingsStay` | `ProtectedKept` | `TypeInv` | grammars without IFF |
| `IndexMissesNothing` | `IndexIsComplete` | `IndexInv`: the index covers the window, and `active` what is valid of the section | `NothingUncovered`: no SUBSTITUTE takes away a tag that a target excludes |
| `EndTagStaysLast` | `EndTagOnLast` | `EndOn`, over order and readings | `OnlyWindowsEnd`: no rule names `<<<`, no UNSAFE REMOVE or IFF |
| `FailuresStayFailures` | `CacheIsSound` | itself, with the types | `Quiet`: no PROTECT, UNPROTECT, SETVARIABLE, REMVARIABLE, REMCOHORT |
| `SectionsAreSettled` | `SectionsSettle` | `Swept`: while a pass has done nothing, no rule behind it could; with `IndexInv`, `CacheIsSound`, no protected reading and `iter` never at `end()` | `Quiet`, `NothingUncovered` and `Orderly`: no JUMP, no UNSAFE IFF |

A condition on the grammar in the last column is what the code needs, not what the proof
needs: for each one TLC finds a counterexample in a grammar outside it. A SUBSTITUTE that
takes away the excluded tag makes a target match where the index was told it does not, and
only added tags are indexed. Protection, variables and REMCOHORT change what a rule would do
and keep `index_ruleCohort_no`. IFF that has turned into SELECT keeps only the protected
readings after the first match. An UNSAFE rule may leave a cohort without tags. The grammars
of the runs are all grammars of three rules of a menu; where a menu is outside a
condition and the property holds all the same, the rules it would take are not in it
together. So the theorem says for which grammars the property can be relied on, and a run
that it also holds of the small ones around the limit.

**`DependencyProofs`** (any windows, rules and recipes). `RecordsAgree`
(`[]ChildrenAgree`), with loops allowed or not. `TreeInv` adds to agreement that numbers not
given yet occur nowhere (`Unused`): otherwise a new cohort would find children waiting for
it; and that `dep_self` is the cohort's own number. `TreeHasNoLoops` (`[]NoLoops`) assumes
`dep_block_loops` and no ALLOWLOOP rule. A loop is a non-empty set of cohorts closed under
`dep_parent`, which needs no transitive closure: each lemma takes such a set after the
operation and shows one before it.

The windows of the same module: `WInv` needs nothing resolved
and no tree without loops: cohorts are in the window they say, once, and `cohort_map` has
exactly those (`Lines`); what is listed as a child has that parent, is marked done, and has
a number that was given (`Listed`). `TypeCorrect`, `MapFollowsWindows` (`[]MapIsWindows`) and
`ListsAreTrue` (`[]ListedChildrenAgree`) follow from it: `ListsAreTrue` holds where the full
agreement of `RecordsAgree` does not, because an unresolved attachment leaves a parent
without the entry in its list, and never an entry without the parent.
`SpansGetAnnounced` (`[]SpansAreAnnounced`) is for resolved input, from `TreeInv`, `WInv`
and `Announced`: an attachment over windows made by a split goes the way the cohort's own
did, which was announced. `KinAreKept` (`TreeKept`, an action property): who is above whom
is read off the sets closed under `dep_parent`. A new cohort, an erased one and a split
(`TakesPlace`: the parts stand where the cohort stood) each turn a closed set into one that
agrees with it on the cohorts of both trees; so no transitive closure has to be computed.

**`FlatTableProofs`** (any keys, values, hash function and capacities). `LookupsAreRight`
(`[]LookupsFindAll`), `SizeIsRight`, `TypeCorrect`, `TableIsMap`
(`Spec => ImplementsKeyMap`). The invariant behind them is `Paths`: between the hash of a
stored key and its cell there is no empty cell; with `OneCellPerKey`, and, while the table
is copied, with what is still to be copied being apart from what is (`RestIsApart`). There
is one lemma per action that gives the invariant and the step of `KeyMap` together.

**`ContextTestProofs`** (any lines, windows, trees, relations, chains of tests, links and
options that `CasesAssumption` allows: of the tests `parseContextualTestPosition` makes it
leaves out S with a span on the line, and on the tree an offset, `@` and `ll` or `rr` with `p`;
the two records of an attachment agree, and an enclosed cohort is never the last of its window
nor linked to).
`TestsStayInReach` (`[]StaysInReach`) and `TypeCorrect`. `StaysInReach` speaks of the cohort
about to be tested and is not inductive. `Inv` says of every open call, also those that wait
for a linked test, that it is where its loop puts it:

| Loop | Where a call is (`CallOK`) |
|---|---|
| the test of the cohort itself | `OnSelf`: at the place the walk starts from |
| a scan one way, `p`, `pp`, `cc` | `OnLine`: a cohort of `LineScope` or of the lineage. Where the barrier is plain, nothing between the start and here has it. For the parents `WayUp`: `climbed` is how often the walk went up |
| `0*` | `OnBoth`: to the left (`Leftwards`) and to the right (`Rightwards`) it has come equally far, and all it passed is clear |
| `c`, `c*`, `s`, `r:` | `OnTree` and `OnLevels`: every level is about the cohort the level above has come to. No two are about the same one (`deepSeen`), and where the barrier is plain each of these is clear |

`SeenBy` ties `deepSeen` to the cohorts the levels are about; without it a loop in the tree
could bring a level back to a cohort already left. There is one lemma per action. What the
lemmas come down to is that one step of an iterator goes to the next visible cohort of the
window, or over the border where the position spans, or one parent up; that is shown from
the definitions of `DepIterators`, the order of cohorts by place included.

**`ReadingsProofs`** (any cohort, any number of readings and sub-readings, any mapping tags
and numbers). `PrintingLosesNothing`: of the readings that `mergeReadings` takes together, one with
the same tags, the same sub-readings with their mapping tags, and all the mapping tags of its
own is printed, and nothing is printed that was not there, a reading without a mapping tag
included. It assumes `SubMappingsAgree`: no two readings are told apart by the mapping tag of
a sub-reading only; the code loses one of such two. `NumericTagsCompare`: the cases of
`doesTagMatchReading` for two numeric tags are the manual's table for all numbers; of the
values in between only the neighbours of both matter, so any set of values with those
decides it. Both are about operators of `Readings`, which `PrintLosesNothing` and
`ComparesAsTheTableSays` evaluate in the states of `Matching`. `Matching` itself cannot be
extended by a module with theorems, since it reaches recursive operators.

**`StreamProofs`** (any streams, pieces, classes of words and limits; `StreamLimits`: the
limits are not zero, `PiecesAssumption`: what Apertium and Matxin read is a sequence of
characters, `MultiwordsAssumption`: a reading of a multiword is a non-empty sequence of
parts). `WindowsStayWithinLimit` (`[]WindowsWithinLimit`) and `EndTagsCloseWindows`
(`[]EndTagClosesWindows`) are about four copies of `runGrammarOnText` at once (plain
text has neither limits nor end tags, and the last window of FST input no end tag). Neither
property is inductive: what a look-back does to a window depends on which cohorts are in it,
and where the next end tag goes on which window and cohort the pointers are at. `StreamsInv`
has a core that all formats share,

* `Typed`: the windows hold cohorts that exist, each begins with its zero cohort, which is in
  no set of delimiters, and the one being filled is the last;
* `Once`: no cohort is in two places, so that a mark on one does not show in another window;
* `Fitting`: the window being filled has room for the cohort that ends it;
* `Marks`: end tags are where windows are complete;
* `Pending`: the cohort just read is in no window and has no end tag yet;

and what differs between them: Niceline has a cohort in hand whenever a window is open
(`Reading`), FST has a window open once it has any (`FstReading`) and loses the end tag of
the last at its end (`FstEnded`), Apertium and Matxin add the reader of characters
(`Between`). Each part of the readers has a lemma that says what it keeps: appending,
closing, cutting behind a delimiter, opening, running and printing. `Scans` says where
`Scan` and the reading of a cohort stop: at a character of the input, or nowhere. These are
recursive functions, and the library's induction theorems cannot be used on them; `UpTo`
takes their place: a set of numbers with 0 in it, and with each number the next one, has all
of them. It gives that the functions exist and what they return. A program that
has dereferenced null reads no more (`crashed`), so nothing is said of what it would do.

`MultiwordsKeepTheirParts` (`[]NoPartIsLost`): `WordsInv` says that the words of the last
multiword are the end of the output. What remains is a fact about `SplitMwe` for any readings:
`Nth` picks the k-th of the marked parts, pieces adjoin, and the part of number k falls in
the piece of its word (`PieceHasParts`), so that the pieces, which the code makes by cutting
a chain where the next wordform tag stands, are those the counting in `WordOf` asks for.

`OutputStaysInOrder`, `NothingIsLost`, `SizeIsRight` and the type invariants of `FlatTable`,
`RuleEngine`, `Dependency` and `ContextTest` are in no run: `ImplementsStream` and `ImplementsKeyMap` imply
what a reader of the output or a user of the table sees of them.

Only model-checked: `Halts`, `TestsEnd` and `EverythingPrinted` (liveness and ENABLED are out
of the provers' reach). Three more are left to TLC because each would need an induction over its data for every
helper on the way: `AnswerIsMeant` is about a function defined by recursion along the chain,
`StreamIsKept` compares folds over the input and the output, `WordsAreInTheirSentence` a walk
down a tree with one up it. The modules of the grammar and `SetMatching` compute with
recursive operators over tries, tests, texts and sets, which are out of the provers' reach
too, and with them the properties of `Matching` that are not about `Readings` alone.

## 6. Where the code and its documents disagree

Each of these is a run that TLC must find violated, with the lines quoted in "findings":

* `dep_remcohort`: REMCOHORT of a cohort with children and no parent dereferences null.
* `flat_table_full`: setting and unsetting a variable 16 times hangs the program.
* `grammar_or`: an OR of two lists of which one is part of the other stands for one of them.

TLC has shown these as well; they have no run of their own. Conditions of the properties or the
menus exclude them:

* NOT turns a barrier around: `(NOT 1* A BARRIER B)` goes on past B and stops at what is not
  B (`runContextualTest.cpp:112`, against `manual/cgkeywords.xml:127`). Leave out `~ t.not`
  in `BarrierIsPlain`.
* A protected reading makes SELECT act though its test fails (`runRules.cpp:547`, against
  `manual/cgkeywords.xml:573`).
* A JUMP to START runs rule 0 and no other, one to END runs the rule before the last, too
  (`runRules.cpp:1002`, against `manual/rules.xml:554`).
* `--dep-no-crossing` lets branches cross: the loop of `wouldParentChildCross` never uses its
  variable (`reflow.cpp:141`, against `options.hpp:151`).
* With `&&X` in a test and in the test linked to it, one failed link keeps X from matching
  any reading of this cohort again: `unif_sets` is taken back, `unif_sets_firstrun` is not
  (`matchSet.cpp:856`). Add `Link(Test(0, "Top"), Test(1, "Top"))` to `Unifying`.
* With `&&X` a rule may match though no member of X explains it: of a reading with several
  members all are kept, and each reading that a careful test or a second test asks may have
  another one (`matchSet.cpp:659`), where the manual's example has one rule for each member,
  and its explanation the one that satisfied the target first (`manual/sets.xml:249`, `264`).
  Leave out `MixesMembers` in `TargetAsExploded`.
* In Niceline input a word without a tab is read as a cohort (`NicelineApplicator.cpp:130`,
  against `manual/streamformats.xml:148`). Leave out `~WordsWithoutTab` in `StreamIsKept`.
* Of readings that the mapping tag of a sub-reading alone tells apart only one is printed
  (`reflow.cpp:727`). Leave out `SubMappingsAgree` in `PrintLosesNothing`.
* After a soft delimiter in FST input the window is null (`FSTApplicator.cpp:367`, against
  `manual/cgkeywords.xml:672`).

The others were met while modelling, most of them by TLC. Where one makes a property fail, the
menus, an assumption or a named condition of the property leave the case out (section 7 and
the notes in "hazards"); the rest are in what is modelled, and no property speaks of them.

Rules
* The cache of failed attempts is kept after REMCOHORT, against the comment at
  `runRules.cpp:475`: a test that the removal makes true is not tried again.
* IFF that becomes SELECT removes protected readings: the loop at line 652 is
  `for (size_t j = 0; i < j; ++j)` (`manual/rules.xml:475`).
* UNSAFE IFF skips a cohort with one reading because of what IFF became on the one before
  (lines 437 to 449).
* SUBSTITUTE that removes the tag B does not index the cohort for a target A - B.
* The branch of SUBSTITUTE for word forms inserts rules without asking whether the run
  includes them (1569 to 1572).
* A JUMP back over an ADD, a SUBSTITUTE or an undone IFF never ends: no limit counts jumps.
* `interval_vector::lower_bound` of a number in a gap skips an interval.
* BEFORE-SECTIONS runs again after DELIMIT.

Dependencies and windows
* A parent that the input does not contain is replaced by none (`reflow.cpp:273`), but
  comes back as a global number when SUBSTITUTE or REPLACE reads the tags again.
* A SPLITCOHORT recipe of one cohort, or with `2->p` and the default, writes one
  attachment over the other.
* Children of the root may be listed under the `>>>` of another window.
* Attachments of the input across windows do not set `dep_has_spanned`.
* Relations of other cohorts to a removed one stay (`manual/rules.xml:195`).
* Numbers of windows do not increase after DELIMIT; `--dep-delimit` leaves empty windows.
* `reflowRelationWindow` uses `cohorts[1]` of a window that may have only `>>>`.
* After DELIMIT the look ahead is longer than `manual/contexts.xml:70` says.

Contextual tests
* `S` with `N` ignores every barrier of the scan, not the one at its source.
* `0*` with S goes on past a barrier on the cohort of the test; every other position stops
  there. `BarrierIsPlain` leaves the case out.
* NOT with C depends on the order of the readings; NOT with `**` on the last cohort.
* `0*` from the last cohort of a window: with W the next window is not looked at, with NOT
  the scan to the left ends early.
* `l` and `r` with `cc`, `pp` and `p*` compare a cohort with the one before it on the walk
  (`runContextualTest.cpp:530`, against `manual/compatibility.xml:220`, which takes them
  relative to the cohort of the test): `lcc` finds nothing behind a first descendent, `rScc`
  fails where a descendent is to the left. Add `L(D("cc", "a"))` to `TreeFirsts`.
* `N` with `S` and a barrier has no effect on a test on dependencies, against
  `manual/dependencies.xml:243`: the cohort itself ends the walk down as any other.
* `NOT c` asks for a child that does not match, `NOT cc` for the last descendent not to;
  `ALL p**` and `S` with `ALL c` are answered by the first cohort that matches.
* A barrier stops `cc` in the order of the line, not along the branches.
* `c*` without a span goes on in another window when a child is there
  (`runContextualTest.cpp:737` is reached with a child the test was not run on). Add
  `D("c*", "a")` to the tests of the last of `TreeCases`.
* `dep_deep_seen` is not emptied when a test is run again from elsewhere: a `c*` linked to
  `1**` does not look again below a cohort the first run was at.
* `S` with a relation does not look at a cohort that has no relations at all.
* A walk to the ancestors whose loop lies outside the windows of the test does not end
  (`CohortIterator.cpp:270`).
* An offset of two or more that leaves its window lands on the border of the next one;
  `--always-span` does not count there; S with a span takes the old position in the new
  window.
* An enclosed group at the end of a window lets a scan slip into the next one.
* S with NONE holds although the cohort matches; ALL with `**`, S with O, and tests linked
  to a NOT scan answer what no reading of the manual gives.

Grammars
* A set of several parts whose OR collapses forgets which nodes of a trie end a tag list:
  `LIST B = (a b) b ; SET X = B OR C` asks for b and a (`Grammar.cpp:95`).
* `addSet` and `matchSet` set and ask FL_CAPTURE_UNIF among the flags of a rule, whose bits
  there mean NEAREST, IMMEDIATE and LOOKDELETED (`Grammar.cpp:826`, `matchSet.cpp:834`).
* `\`, `∩` and `∆` go wrong with composite tags: `trie_getTags` sorts the list it is still
  building, and keeps prefixes.
* `$$A` and `&&A` in one grammar are taken for a collision of hashes.
* A LIST that is defined a second time passes silently when its contents are those of a set
  of another name.
* The numeric branch of an `f` test re-points tests it is linked from and rules, but neither
  alternatives nor templates; with a template it dereferences null.
* Of a shorthand `[A, B]` only the last test has LOOKDELETED or LOOKDELAYED.
* NOT in compatibility mode becomes NEGATE on a test that other rules share (979, 988).
* KEEPORDER does not look at alternatives; the second `reindex` of textual grammars
  (`main.cpp:329` and `347`) finds no sets.
* An unknown set in a varstring tag ends the program with an exception nothing catches.
* UNMAP with UNMAPLAST is both SAFE and UNSAFE.
* STRICT-TAGS and LIST-TAGS are lost when their statement has an error; STRICT-TAGS keeps
  one hash and asks for another.

Matching and readings
* `possible_sets` of a cohort loses a set when a sub-reading fails it (`matchSet.cpp:921`);
  after UNMAP a set A - (@x) is not put back.
* The values of a cohort are stale after an exchange on another cohort took a number away.
* `$$X` with a set A - B or A + B binds B to what A matched (737 to 751), and the answer is
  remembered.
* The hash of a reading is not computed again when its sub-reading changes.
* `splitMappings` of a sub-reading makes stand-alone readings; ADD (@x) of a reading that has
  @x doubles it once; COPY (@y) of a reading with @x makes a second @x.
* With AFTER and tags that are not next to each other the place to insert runs past the end;
  without the tag it is the front (1372 to 1396).
* SUBSTITUTE of several tags that are to be removed leaves them; REPLACE of a reading without
  base form adds tag 0.
* COPY EXCEPT looks at the sub-reading and changes the copy of the head.
* A copied reading from the pool is not immutable, one made new is (`Reading.cpp:53`, `112`).
* `(B (<W=MAX>))`: a bag of tags has no cohort, and null is dereferenced.
* What a child process hands back is taken without checking base forms or the number of
  readings.

Streams
* Apertium and Matxin: an escaped character before the first cohort overtakes the text
  before it (135 to 152); `^` in a superblank starts a cohort (154); `\]` ends a superblank; a
  lemma with `*` anywhere loses its tags (comment at 466); an untagged word after `+` is lost;
  a sub-reading with two mapping tags is split off (603); an unterminated cohort takes the
  rest of the input, or never ends.
* Matxin: nodes and children of earlier windows are kept (788); words without a parent hang
  under the number of nodes, against the comment at 771; `&` and `"` are written escaped and
  plain (733 to 748); `<corpus>` comes after the sentences.
* Plain text: punctuation behind a word comes out reversed; text behind the first word is
  read and not written; no limits, no end tag.
* FST: the last window has no end tag after a blank line; text is repeated at the end.
* Format conversion: Matxin is in neither list of formats, FST cannot be written.

Elsewhere
* Freeing a window takes too many numbers from `relation_map` when rules added cohorts
  (`SingleWindow.cpp:96`).
* The walk up a dependency loop outside the span of a test does not end
  (`CohortIterator.cpp:270`).
* EXTERNAL writes the whole window before reading (`GrammarApplicator.cpp:673`); a new parent
  from there changes `dep_parent` without the lists of children (763).
* Cohorts of a copied sentence all have number 0 (`libcg3.cpp:282`), so they share their
  entries in the cache of failed attempts.
* MweSplit leaves cohorts behind when the parts turn out not to agree, and loses the blank
  after the last word.

## 7. What is not modelled

* `WindowPipeline`: `--dep-delimit`, IGNORE and RESUME, SETVAR and REMVAR as lines, and
  the text between cohorts (which is in `StreamFormats` for other formats).
* `RuleEngine`: rules that map, replace, append, copy and unmap (in `Matching`), EXECUTE,
  MOVE, SWITCH, EXTERNAL, DELAYED, `--max-runs`, `--sections`, `--unsafe`, `--rules`,
  `--trace`; sub-readings. ADDCOHORT, SPLITCOHORT, MERGECOHORTS, SETPARENT and SETCHILD are in
  `Dependency`. What a set matches is one tag.
* `Dependency`: how `reflowDependencyWindow` resolves the input (its result is enumerated),
  enclosures, and the walk's limit of 1000 steps.
* `FlatTable`: copying and swapping of whole tables; iterators going backwards.
* `ContextTest`: templates, parentheses, bags of tags, sub-readings, ATTACHTO, unification,
  removed cohorts, relations to cohorts of other windows, `@` with a dependency, groups of enclosed cohorts at
  the end of a window, links of enclosed cohorts; positions left out because the code's outcome
  is undefined (S with a span) or in disagreement with the manual (section 6).
* The grammar: characters and the parsing of tags, regular expressions, the syntax tree,
  the old revision of binary files (nothing writes it). Hashes are taken not to collide.
* `Matching`: regular expressions, variables, magic and static tags, tests that scan or have
  barriers (in `ContextTest`), protected, delayed and hidden readings, IFF and UNSAFE (in
  `RuleEngine`); one numeric key. Cases whose outcome is wrong or undefined are left out of
  the menus: tests of sub-readings, UNMAP with A - (@x), `$$` with - or +, `&&` in linked
  tests, exchanges that take tags away.
* `StreamFormats`: rules, variables and commands as lines, case conversion, weights.
* Not at all: how relations come about and their numbers across windows; `CohortSetIter`,
  `MultiCohortIterator` and `ChildrenIterator` (no test uses them); the pipes of EXTERNAL; sentences of the library; relabelling, the writer
  of grammars, programs and text helpers, which are rewriting, parsing and I/O.

## 8. Plan

Done: `WindowPipeline` with `CohortStream`, `RuleEngine`, `Dependency`, `FlatTable` with
`KeyMap`, `ContextTest` with `DepIterators` and `ContextMeaning`, the grammar modules with
`GrammarToolchain`, `Readings`, `SetMatching` and `Matching`, the formats with
`StreamFormats`. Left, in order of what matters for the output:

1. `Relations`: `relations`, `relations_input`, `relation_map` over windows that are cut
   and freed. Abstract specification: a graph on cohorts. Property: a relation leads to
   the cohort that was meant, or nowhere.
2. `Reflow`: the resolving of the input's numbers, as the initial states of `Dependency`.
3. Running templates and tests in parentheses in `ContextTest`.
4. `External`: the pipes and the child as an environment.
5. `IntervalVector`, `SortedVector`: against sets of numbers; `lower_bound` is used by JUMP.
6. Sentences of the library.

Runs: one passing run per state machine, `rules_settle` and `rules_cohorts` apart because
they ask different questions of different grammars; a run with a violation only for a
disagreement worth a repair.

Theorems: every safety property of `WindowPipeline`, `RuleEngine`, `Dependency` and
`FlatTable` that a run checks is proved, `StaysInReach` of the contextual tests, and of the
streams what concerns windows and multiwords. Left: for `Readings`, what adding mappings and
reflowing a reading keep (its folds would have to be unrolled by an induction over data); for
`MatxinTree`, that every word of a sentence is written once; for `Relations`, that it
implements its graph.
