----------------------------- MODULE Dependency -----------------------------
(***************************************************************************)
(* The dependency tree while rules run: SETPARENT, SETCHILD, ADDCOHORT,    *)
(* REMCOHORT, SPLITCOHORT, MERGECOHORTS and the rules that read the tags   *)
(* of a reading again, over windows that come and go.                      *)
(*                                                                         *)
(* The tree is kept twice: every cohort has the number of its parent       *)
(* (dep_parent) and the numbers of its children (dep_children), and        *)
(* cohort_map finds a cohort by its number. Number 0 is the >>> cohort of  *)
(* the current window. Here a cohort is its global_number.                 *)
(*                                                                         *)
(* The windows have been read and reflowDependencyWindow has resolved the  *)
(* attachments of the input, which is not part of this module.             *)
(***************************************************************************)
EXTENDS Naturals, Sequences, SequencesExt

CONSTANTS
    NumWindows,     \* --num-windows: windows kept behind the current one
    Windows,        \* bound: windows of the input
    WindowSize,     \* bound: cohorts in each window of the input
    MaxId,          \* bound: cohorts of the input and cohorts made by rules
    Rules,          \* SETPARENT and SETCHILD rules
    Recipes,        \* SPLITCOHORT recipes
    Tags,           \* numbers of parents that the input does not contain
    BlockLoops,     \* dep_block_loops, FALSE under --dep-allow-loops
    BlockCrossing,  \* dep_block_crossing, TRUE under --dep-no-crossing
    NoParent,       \* DEP_NO_PARENT
    NoTag           \* the cohort has no such tag

Ids == 1..MaxId
Root == 0
Nodes == Ids \cup {Root}
Inputs == 1..Windows * WindowSize

\* dep_target of a rule: whether it scans, where to, and the rule's flags.
RuleType == [makes : {"parent", "child"}, scan : BOOLEAN, dir : {"left", "right"},
             spans : BOOLEAN, nearest : BOOLEAN, allowloop : BOOLEAN, allowcross : BOOLEAN]

\* The recipe makes Len(link) cohorts. The i-th is attached to the link[i]-th,
\* or with 0 to the parent of the split cohort (i->p); the children go to the
\* tail-th (c->). No recipe attaches its own cohorts in a circle.
RecipeType(r) ==
    /\ r.link \in Seq(Nat) /\ Len(r.link) > 0
    /\ \A i \in 1..Len(r.link) : r.link[i] \in 0..Len(r.link)
    /\ r.tail \in 1..Len(r.link)
    /\ \A S \in SUBSET (1..Len(r.link)) : (\A i \in S : r.link[i] \in S) => S = {}

ASSUME SizeAssumption ==
    /\ NumWindows \in Nat /\ Windows \in Nat \ {0} /\ WindowSize \in Nat
    /\ MaxId \in Nat /\ Windows * WindowSize <= MaxId
ASSUME RulesAssumption == Rules \subseteq RuleType
ASSUME RecipesAssumption == \A r \in Recipes : RecipeType(r)
ASSUME TagsAssumption == Tags \subseteq Ids
ASSUME OptionsAssumption == BlockLoops \in BOOLEAN /\ BlockCrossing \in BOOLEAN
ASSUME NoneAssumption == NoParent \notin Nat /\ NoTag \notin Tags

VARIABLES
    tree,     \* the attachments, below
    tag,      \* tag[c]: the parent in the dependency tag of c, if never found
    cohorts,  \* cohorts[w]: the cohorts of window w in their order, without >>>
    window,   \* window[c]: the window cohort c is in (c->parent)
    current,  \* the window whose rules run
    lastRoot, \* the children of the last window's >>>, while that is not current
    counter,  \* cohort_counter: the number of the next cohort
    spanned,  \* dep_has_spanned: print dependencies with window numbers
    crashed   \* an empty cohort_map entry was dereferenced

vars == <<tree, tag, cohorts, window, current, lastRoot, counter, spanned, crashed>>

TreeType ==
    [map      : SUBSET Ids,                        \* the keys of cohort_map but 0
     self     : [Ids -> Nodes],                    \* dep_self, 0 when never set
     parent   : [Ids -> Nodes \cup {NoParent}],    \* dep_parent
     children : [Nodes -> SUBSET Ids],             \* dep_children
     done     : SUBSET Ids]                        \* cohorts marked CT_DEP_DONE

-----------------------------------------------------------------------------
(* The tree and what a rule may do to it. *)

Found(t, p) == p \in t.map \cup {Root}

\* S and everything above it in the tree that cohort_map can find.
UpClosed(t, S) == \A x \in S : t.parent[x] \in t.map => t.parent[x] \in S
\* a and its ancestors: the walk up from a.
Above(t, a) == {b \in t.map : \A S \in SUBSET t.map : a \in S /\ UpClosed(t, S) => b \in S}

\* Mutant: only the parent's own attachment is looked at.
WouldParentChildLoop_Direct(t, p, c) == p = c \/ (p # Root /\ c = t.parent[p])

WouldParentChildLoop(t, p, c) ==
    \/ p = c
    \/ /\ p # Root
       /\ p # t.parent[c]
       /\ p # t.parent[p]
       /\ c \in Above(t, p)

\* Only the parent's grandparent is looked at, once for each cohort in between.
WouldParentChildCross(t, p, c) ==
    LET low == IF p < c THEN p ELSE c
        high == IF p < c THEN c ELSE p
    IN  /\ low + 1 < high
        /\ p # Root
        /\ t.parent[p] \in t.map
        /\ t.parent[t.parent[p]] # NoParent
        /\ t.parent[t.parent[p]] \notin low..high

MayAttach(t, p, c, r) ==
    /\ ~ (~ r.allowloop /\ BlockLoops /\ WouldParentChildLoop(t, p, c))
    /\ ~ (~ r.allowcross /\ BlockCrossing /\ WouldParentChildCross(t, p, c))

\* The cohort that loses child c. A cohort without parent looks at itself.
LosesChild(t, c) == IF t.parent[c] = NoParent THEN c ELSE t.parent[c]

\* Mutant: the child stays in the list of the parent it had.
Attach_KeepsOldLink(t, p, cs) ==
    [t EXCEPT !.self = [x \in Ids |-> IF x \in cs \cup {p} THEN x ELSE t.self[x]],
              !.parent = [x \in Ids |-> IF x \in cs THEN p ELSE t.parent[x]],
              !.children[p] = @ \cup cs,
              !.done = @ \cup cs \cup ({p} \ {Root})]

\* The cohorts cs become children of p, whatever they were attached to.
Attach(t, p, cs) ==
    [map      |-> t.map,
     self     |-> [x \in Ids |-> IF x \in cs \cup {p} THEN x ELSE t.self[x]],
     parent   |-> [x \in Ids |-> IF x \in cs THEN p ELSE t.parent[x]],
     children |-> [x \in Nodes |->
                     (t.children[x] \ {c \in cs : LosesChild(t, c) = x /\ Found(t, x)})
                     \cup (IF x = p THEN cs ELSE {})],
     done     |-> t.done \cup cs \cup ({p} \ {Root})]

\* The map finds the new cohorts s. They have no parents and no children.
Fresh(t, s) ==
    [map      |-> t.map \cup s,
     self     |-> [x \in Ids |-> IF x \in s THEN 0 ELSE t.self[x]],
     parent   |-> [x \in Ids |-> IF x \in s THEN NoParent ELSE t.parent[x]],
     children |-> [x \in Nodes |-> IF x \in s THEN {} ELSE t.children[x]],
     done     |-> t.done \ s]
Insert(t, c) == Fresh(t, {c})

\* Cohort c leaves the map, and all children lists lose its dep_self. What the
\* removed cohort itself says of the tree is never read again: it is reset.
Erase(t, c) ==
    [map      |-> t.map \ {c},
     self     |-> [t.self EXCEPT ![c] = 0],
     parent   |-> [t.parent EXCEPT ![c] = NoParent],
     children |-> [x \in Nodes |-> IF x = c THEN {}
                                   ELSE IF Found(t, x) THEN t.children[x] \ {t.self[c]}
                                   ELSE t.children[x]],
     done     |-> t.done \ {c}]

\* rem_cohort looks up the parent once per child, and each child.
RemovalFindsAll(t, c) ==
    t.children[c] # {} => /\ t.children[c] \subseteq t.map
                          /\ Found(t, t.parent[c])

\* Mutant: the children become roots.
Forward_ToRoot(t, c) ==
    IF t.children[c] = {} THEN t ELSE Attach(t, Root, t.children[c])

\* The children of c are forwarded to its parent, then c goes.
Forward(t, c) ==
    IF t.children[c] = {} THEN t
    ELSE LET a == Attach(t, t.parent[c], t.children[c])
         IN  [a EXCEPT !.children[c] = @ \ t.children[c]]
Removed(t, c) == Erase(Forward(t, c), c)

\* SPLITCOHORT: Len(r.link) new cohorts from number n on take the place of c.
NewIds(r, n) == n..n + Len(r.link) - 1
Heads(r, n) == {x \in NewIds(r, n) : r.link[x - n + 1] = 0}
Linked(t, r, n) ==
    LET inner == NewIds(r, n) \ Heads(r, n)
        up(x) == n + r.link[x - n + 1] - 1
    IN  [map      |-> t.map,
         self     |-> [x \in Ids |-> IF x \in NewIds(r, n) THEN x ELSE t.self[x]],
         parent   |-> [x \in Ids |-> IF x \in inner THEN up(x) ELSE t.parent[x]],
         children |-> [x \in Nodes |-> t.children[x] \cup {y \in inner : up(y) = x}],
         done     |-> t.done \cup inner \cup {up(x) : x \in inner}]
Split(t, c, r, n) ==
    LET tail == n + r.tail - 1
        new  == Fresh(t, NewIds(r, n))
        kept == IF t.children[c] = {} THEN new
                ELSE Attach(new, tail, t.children[c])
        head == IF Heads(r, n) # {} /\ Found(t, t.parent[c])
                THEN Attach(kept, t.parent[c], Heads(r, n)) ELSE kept
    IN  Erase(Linked(head, r, n), c)

-----------------------------------------------------------------------------
(* The windows. *)

Place(c) == CHOOSE i \in DOMAIN cohorts[window[c]] : cohorts[window[c]][i] = c
\* The cohorts of the current window that the map finds (all: MapIsWindows).
Here == {c \in tree.map : window[c] = current}
InWindow(p, w) == IF p = Root THEN current = w ELSE window[p] = w
\* Mutant: the window of the child is taken to be the current one.
Spans_FromHere(p, cs) == ~ InWindow(p, current)

Spans(p, cs) == \E c \in cs : ~ InWindow(p, window[c])

\* What the number of c is in its own sentence of the input.
NumberInInput(c) == ((c - 1) % WindowSize) + 1

InputTree(parent) ==
    [map      |-> Inputs,
     self     |-> [c \in Ids |-> IF c \in Inputs THEN c ELSE 0],
     parent   |-> parent,
     children |-> [p \in Nodes |-> IF p = Root /\ Windows > 1 THEN {}
                                   ELSE {c \in Inputs : parent[c] = p}],
     done     |-> {c \in Inputs : parent[c] # NoParent}]

NoLoop(t) == \A S \in SUBSET t.map : (\A x \in S : t.parent[x] \in S) => S = {}

\* The first window begins. The input has no loops and no attachments between
\* windows. Every >>> answers to 0, and the last one read gets their children.
Init ==
    /\ window = [c \in Ids |-> IF c \in Inputs THEN ((c - 1) \div WindowSize) + 1 ELSE 1]
    /\ cohorts = [w \in 1..Windows |-> [i \in 1..WindowSize |-> (w - 1) * WindowSize + i]]
    /\ \E parent \in [Ids -> Nodes \cup {NoParent}] :
         /\ \A c \in Ids : parent[c] \in {Root, NoParent} \cup {p \in Inputs : window[p] = window[c]}
         /\ \A c \in Ids \ Inputs : parent[c] = NoParent
         /\ tree = InputTree(parent)
         /\ NoLoop(tree)
         /\ lastRoot = {c \in Inputs : parent[c] = Root}
    /\ tag \in [Ids -> Tags \cup {NoTag}]
    /\ \A c \in Ids : tag[c] # NoTag => c \in Inputs /\ tree.parent[c] = NoParent
    /\ current = 1
    /\ counter = Windows * WindowSize + 1
    /\ spanned = FALSE
    /\ crashed = FALSE

-----------------------------------------------------------------------------
(* SETPARENT and SETCHILD. *)

\* The cohorts the contextual target comes upon, nearest first.
Scan(c, r) ==
    LET line == IF r.spans THEN FlattenSeq(cohorts) ELSE cohorts[window[c]]
        at   == CHOOSE i \in DOMAIN line : line[i] = c
    IN  IF r.dir = "right" THEN SubSeq(line, at + 1, Len(line))
        ELSE Reverse(SubSeq(line, 1, at - 1))
             \o (IF r.spans THEN <<>> ELSE <<Root>>)

\* Which of those the rule tries, when the cohorts of m pass the tests. After
\* a failed attachment any rule goes on from there by steps of one.
Tried(s, r, m) ==
    LET hit == {i \in DOMAIN s : s[i] \in m /\ (r.scan \/ \A j \in 1..i : s[j] \in m)}
    IN  {i \in hit : r.nearest => \A j \in hit : i <= j}

\* What can be attached: rules do not look for >>> as a child.
Targets(c, r) ==
    ToSet(Scan(c, r)) \cap (tree.map \cup (IF r.makes = "parent" THEN {Root} ELSE {}))

ParentOf(r, c, x) == IF r.makes = "parent" THEN x ELSE c
ChildOf(r, c, x)  == IF r.makes = "parent" THEN c ELSE x

\* Both ends of an attempt get their dep_self, even of one that is blocked.
Numbered(t, cs) == [t EXCEPT !.self = [x \in Ids |-> IF x \in cs THEN x ELSE t.self[x]]]

SetRelation(c, r, m) ==
    LET s == Scan(c, r)
        tried == Tried(s, r, m)
        may(i) == MayAttach(tree, ParentOf(r, c, s[i]), ChildOf(r, c, s[i]), r)
        done(i) == may(i) /\ \A j \in tried : j < i => ~ may(j)
        seen(I) == IF I = {} THEN {} ELSE {c} \cup {s[i] : i \in I}
    IN  /\ c \in Here
        /\ \/ /\ \A i \in tried : ~ may(i)
              /\ tree' = Numbered(tree, seen(tried))
              /\ UNCHANGED spanned
           \/ \E i \in tried :
                LET p == ParentOf(r, c, s[i])
                    k == ChildOf(r, c, s[i])
                IN  /\ done(i)
                    /\ tree' = Attach(Numbered(tree, seen({j \in tried : j <= i})), p, {k})
                    /\ spanned' = (spanned \/ Spans(p, {k}))
        /\ UNCHANGED <<tag, cohorts, window, current, lastRoot, counter, crashed>>

-----------------------------------------------------------------------------
(* Rules that make and remove cohorts. WITHCHILD is left out.              *)

Crash == crashed' = TRUE /\ UNCHANGED <<tree, tag, cohorts, window, current, lastRoot, counter, spanned>>

\* ADDCOHORT BEFORE (k = 0) or AFTER (k = 1) cohort c.
AddCohort(c, k) ==
    /\ c \in Here /\ counter <= MaxId
    /\ tree' = Insert(tree, counter)
    /\ cohorts' = [cohorts EXCEPT ![current] = InsertAt(@, Place(c) + k, counter)]
    /\ window' = [window EXCEPT ![counter] = current]
    /\ counter' = counter + 1
    /\ UNCHANGED <<tag, current, lastRoot, spanned, crashed>>

RemCohort(c) ==
    /\ c \in Here
    /\ \/ /\ RemovalFindsAll(tree, c)
          /\ tree' = Removed(tree, c)
          /\ cohorts' = [cohorts EXCEPT ![current] = RemoveAt(@, Place(c))]
          /\ spanned' = (spanned \/ Spans(tree.parent[c], tree.children[c]))
          /\ UNCHANGED <<tag, window, current, lastRoot, counter, crashed>>
       \/ ~ RemovalFindsAll(tree, c) /\ Crash

SplitCohort(c, r) ==
    /\ c \in Here /\ counter + Len(r.link) - 1 <= MaxId
    /\ \/ /\ tree.children[c] \subseteq tree.map
          /\ tree' = Split(tree, c, r, counter)
          /\ cohorts' = [cohorts EXCEPT ![current] =
               LET i == Place(c)
               IN  SubSeq(@, 1, i - 1) \o [j \in 1..Len(r.link) |-> counter + j - 1]
                   \o SubSeq(@, i + 1, Len(@))]
          /\ window' = [x \in Ids |-> IF x \in NewIds(r, counter) THEN current ELSE window[x]]
          /\ counter' = counter + Len(r.link)
          /\ spanned' = (spanned \/ (\E k \in tree.children[c] : window[k] # current)
                                 \/ /\ Heads(r, counter) # {} /\ tree.parent[c] \in tree.map
                                    /\ window[tree.parent[c]] # current)
          /\ UNCHANGED <<tag, current, lastRoot, crashed>>
       \/ ~ tree.children[c] \subseteq tree.map /\ Crash

\* A new cohort after c, so in its place when c and d are removed, the first
\* of them first.
MergeCohorts(c, d) ==
    LET one  == IF Place(c) < Place(d) THEN c ELSE d
        two  == IF Place(c) < Place(d) THEN d ELSE c
        new  == Insert(tree, counter)
        rest == Removed(new, one)
    IN  /\ c \in Here /\ d \in Here \ {c} /\ counter <= MaxId
        /\ \/ /\ RemovalFindsAll(new, one) /\ RemovalFindsAll(rest, two)
              /\ tree' = Removed(rest, two)
              /\ cohorts' = [cohorts EXCEPT ![current] =
                   RemoveAt(ReplaceAt(@, Place(c), counter), Place(d))]
              /\ window' = [window EXCEPT ![counter] = current]
              /\ counter' = counter + 1
              /\ spanned' = (spanned \/ Spans(new.parent[one], new.children[one])
                                     \/ Spans(rest.parent[two], rest.children[two]))
              /\ UNCHANGED <<tag, current, lastRoot, crashed>>
           \/ ~ (RemovalFindsAll(new, one) /\ RemovalFindsAll(rest, two)) /\ Crash

-----------------------------------------------------------------------------
\* Mutant: the tag is taken at its word whatever rules have attached.
ReadTags_Always(c) ==
    /\ c \in Here /\ tag[c] # NoTag
    /\ tree' = [tree EXCEPT !.self[c] = NumberInInput(c), !.parent[c] = tag[c]]
    /\ UNCHANGED <<tag, cohorts, window, current, lastRoot, counter, spanned, crashed>>

\* SUBSTITUTE and REPLACE end in reflowReading, which adds every tag of the
\* reading anew. A cohort not marked CT_DEP_DONE takes the tag at its word.
ReadTags(c) ==
    /\ c \in Here /\ tag[c] # NoTag /\ c \notin tree.done
    /\ tree' = [tree EXCEPT !.self[c] = NumberInInput(c), !.parent[c] = tag[c]]
    /\ UNCHANGED <<tag, cohorts, window, current, lastRoot, counter, spanned, crashed>>

\* Mutant: freed cohorts stay in cohort_map.
NextWindow_KeepsMap ==
    /\ current < Windows
    /\ current' = current + 1
    /\ cohorts' = [w \in 1..Windows |-> IF w + NumWindows <= current THEN <<>> ELSE cohorts[w]]
    /\ tree' = [tree EXCEPT !.children[Root] = IF current + 1 = Windows THEN lastRoot ELSE {}]
    /\ UNCHANGED <<tag, window, lastRoot, counter, spanned, crashed>>

\* The next window begins. Windows too far behind are written and freed;
\* Cohort::clear takes a freed cohort out of the map and nothing else.
NextWindow ==
    /\ current < Windows
    /\ current' = current + 1
    /\ LET freed == {w \in 1..Windows : w + NumWindows <= current}
       IN  /\ cohorts' = [w \in 1..Windows |-> IF w \in freed THEN <<>> ELSE cohorts[w]]
           /\ tree' = [tree EXCEPT
                !.map = @ \ UNION {ToSet(cohorts[w]) : w \in freed},
                !.children[Root] = IF current + 1 = Windows THEN lastRoot ELSE {}]
    /\ UNCHANGED <<tag, window, lastRoot, counter, spanned, crashed>>

Next ==
    /\ ~ crashed
    /\ \/ \E c \in Here, r \in Rules : \E m \in SUBSET Targets(c, r) : SetRelation(c, r, m)
       \/ \E c \in Here, k \in {0, 1} : AddCohort(c, k)
       \/ \E c \in Here : RemCohort(c)
       \/ \E c \in Here, r \in Recipes : SplitCohort(c, r)
       \/ \E c, d \in Here : MergeCohorts(c, d)
       \/ \E c \in Here : ReadTags(c)
       \/ NextWindow

Spec == Init /\ [][Next]_vars

-----------------------------------------------------------------------------
(* Properties. *)

TypeOK ==
    /\ tree \in TreeType
    /\ tag \in [Ids -> Tags \cup {NoTag}]
    /\ cohorts \in [1..Windows -> Seq(Ids)]
    /\ window \in [Ids -> 1..Windows]
    /\ current \in 1..Windows
    /\ lastRoot \subseteq Ids
    /\ counter \in 1..MaxId + 1
    /\ spanned \in BOOLEAN
    /\ crashed \in BOOLEAN

\* cohort_map finds exactly the cohorts of the windows that are kept, however
\* many cohorts rules have made and removed, and no cohort is in two places.
MapIsWindows ==
    /\ tree.map = UNION {ToSet(cohorts[w]) : w \in 1..Windows}
    /\ \A w \in 1..Windows : \A i, j \in DOMAIN cohorts[w] :
         /\ window[cohorts[w][i]] = w
         /\ cohorts[w][i] = cohorts[w][j] => i = j

\* All parents that the input names were found in it.
Resolved == \A c \in Ids : tag[c] = NoTag

\* The tree stays a tree: without ALLOWLOOP no sequence of attachments,
\* removals, splits and merges makes a cohort its own ancestor, which is what
\* wouldParentChildLoop is there to prevent.
NoLoops == Resolved => NoLoop(tree)

\* The tree's two records of an attachment agree: a cohort is in the list of
\* children of a cohort exactly when that is its dep_parent.
ChildrenAgree ==
    Resolved => \A c, p \in tree.map : c \in tree.children[p] <=> tree.parent[c] = p

\* Whatever tags are read again, a cohort listed as a child of another one
\* says itself that it is: an attachment is not undone on one side only.
ListedChildrenAgree ==
    \A p \in tree.map : \A c \in tree.children[p] \cap tree.map : tree.parent[c] = p

\* Making, removing, splitting and merging cohorts leaves all other cohorts
\* above and below each other as they were (rem_cohort forwards the children).
Survivors == tree.map \cap tree'.map
KinKept == \A c \in Survivors : Above(tree', c) \cap Survivors = Above(tree, c) \cap Survivors
TreeKept ==
    [][Resolved /\ tree'.map # tree.map /\ current' = current => KinKept]_vars

\* Once a cohort of one window hangs under a cohort of another one, numbers
\* are printed with their windows (dep_has_spanned).
SpansAreAnnounced ==
    Resolved => \A c \in tree.map :
        tree.parent[c] \in tree.map /\ window[tree.parent[c]] # window[c] => spanned

\* A removed cohort's children find the parent they are forwarded to.
NeverCrashes == ~ crashed

=============================================================================
