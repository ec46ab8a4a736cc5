---------------------------- MODULE DepIterators ----------------------------
(***************************************************************************)
(* The cohorts a test on dependencies or relations comes upon, and their   *)
(* order: the iterators of CohortIterator.cpp, and what runDependencyTest  *)
(* and runRelationTest go through.                                         *)
(*                                                                         *)
(* l is the line of cohorts, a cohort is its place in l, and l[c].parent,  *)
(* l[c].children, l[c].rels are what the cohort keeps: dep_parent,         *)
(* dep_children and relations. top is the cohort that cohort_map has under *)
(* number 0, the >>> of the window whose rules run. No cohort is removed.  *)
(***************************************************************************)
EXTENDS Integers, Sequences, FiniteSetsExt

CONSTANTS
    NoParent,    \* DEP_NO_PARENT
    AnyRelation  \* the relation of r:*

ASSUME NoParentAssumption == NoParent \notin Nat

\* cohort_map: what a number finds, as a set with one cohort or none.
Find(l, top, n) == IF n = 0 THEN {top} ELSE {n} \cap DOMAIN l

\* dep_parent of the cohorts S, looked up.
Parents(l, top, S) == UNION {Find(l, top, l[c].parent) : c \in S}

\* local_number, and less_Cohort, which looks at the window last.
LocalNo(l, c) == Cardinality({d \in 1..c - 1 : l[d].win = l[c].win /\ ~ l[d].enclosed})
Less(l, c, d) ==
    IF LocalNo(l, c) = LocalNo(l, d) THEN l[c].win < l[d].win ELSE LocalNo(l, c) < LocalNo(l, d)

\* The test may go from one cohort to the other, as far as windows go.
InSpan(l, t, from, to) ==
    /\ l[to].win < l[from].win => t.span \in {"<", "W"}
    /\ l[to].win > l[from].win => t.span \in {">", "W"}

-----------------------------------------------------------------------------
(* l, r, ll and rr. *)

\* MASK_POS_LORR
Sided(t) == t.side # "none" \/ t.most # "none"

\* What l and r keep of a CohortSet: the cohorts before c, or c and those behind.
OnSide(l, t, c, S) ==
    CASE t.side = "l" -> {d \in S : Less(l, d, c)}
      [] t.side = "r" -> {d \in S : ~ Less(l, d, c)}
      [] t.side = "none"  -> S

\* With S the cohort c itself is put in.
Among(l, t, c, S) == OnSide(l, t, c, S) \cup (IF t.self THEN {c} ELSE {})

\* The first of a CohortSet and the last one.
Leftmost(l, S) == CHOOSE d \in S : \A e \in S \ {d} : Less(l, d, e)
Rightmost(l, S)  == CHOOSE d \in S : \A e \in S \ {d} : Less(l, e, d)

-----------------------------------------------------------------------------
(* The iterators of p, pp and cc. *)

\* DepParentIter: from c up to its parent, unless there is none, it is in a window
\* the test does not span, or it has been left before.
ParentIter(l, top, t, span, seen, c) ==
    {p \in Parents(l, top, {c}) : p \notin seen /\ (span \/ InSpan(l, t, c, p))}

\* DepAncestorIter: all ancestors in the windows spanned, the way up leading
\* through any window.
Ancestors(l, top, t, c) ==
    {d \in DOMAIN l : /\ InSpan(l, t, c, d)
                     /\ \A S \in SUBSET DOMAIN l : Parents(l, top, S \cup {c}) \subseteq S => d \in S}

\* DepDescendentIter: the way down leads through the windows spanned only.
Children(l, t, c, S) ==
    {d \in (UNION {l[e].children : e \in S}) \cap DOMAIN l : InSpan(l, t, c, d)}
Descendents(l, t, c) ==
    {d \in DOMAIN l :
        \A S \in SUBSET DOMAIN l : Children(l, t, c, S \cup {c}) \subseteq S => d \in S}

\* What the last two go through; the first goes from one to the next.
Iterated(l, top, t, c) ==
    CASE t.dep = "p"  -> {}
      [] t.dep = "pp" -> Among(l, t, c, Ancestors(l, top, t, c))
      [] t.dep = "cc" -> Among(l, t, c, Descendents(l, t, c))

-----------------------------------------------------------------------------
(* The loops of c, s and r: *)

\* dep_children of c, or of the cohort c is a child of: of the >>> of its window
\* for a root.
Family(l, t, c) ==
    IF t.dep \in {"c", "c*"} THEN l[c].children
    ELSE IF l[c].parent = 0
      THEN UNION {l[d].children : d \in {d \in DOMAIN l : l[d].win = l[c].win /\ LocalNo(l, d) = 0}}
    ELSE UNION {l[p].children : p \in {l[c].parent} \cap DOMAIN l}

\* runDependencyTest: the numbers it loops over. c is passed over unless there is
\* S, and put in if there is l or r too.
Deps(l, t, c) ==
    LET keep == CASE t.side = "l" -> {d \in DOMAIN l : Less(l, d, c)}
                  [] t.side = "r" -> {d \in DOMAIN l : Less(l, c, d)}
                  [] t.side = "none"  -> DOMAIN l
        S    == (Family(l, t, c) \cap keep) \cup (IF Sided(t) THEN {c} ELSE {})
    IN  IF t.self THEN S ELSE S \ {c}

\* runRelationTest: the cohorts related to c, in any window; with ll or rr one.
Named(l, t, c) ==
    (UNION {l[c].rels[n] : n \in {k \in DOMAIN l[c].rels : t.rel \in {k, AnyRelation}}}) \cap DOMAIN l
Related(l, t, c) ==
    LET S == Among(l, t, c, Named(l, t, c))
    IN  IF DOMAIN l[c].rels = {} \/ S = {} THEN {}
        ELSE CASE t.most = "ll" -> {Leftmost(l, S)}
               [] t.most = "rr" -> {Rightmost(l, S)}
               [] t.most = "none"   -> S

-----------------------------------------------------------------------------
(* The order of the loops. *)

\* Dependencies in the order of their numbers, everything else as in the line.
Foremost(l, t, S) ==
    CASE t.dep \in {"c", "c*", "s", "s*"} -> IF t.most = "rr" THEN Max(S) ELSE Min(S)
      [] t.dep \in {"pp", "cc"} -> IF t.most = "rr" THEN Rightmost(l, S) ELSE Leftmost(l, S)
      [] t.dep = "rel" -> Leftmost(l, S)

=============================================================================
