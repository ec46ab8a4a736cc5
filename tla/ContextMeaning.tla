--------------------------- MODULE ContextMeaning ---------------------------
(***************************************************************************)
(* What a chain of contextual tests means, as the manual has it, and what  *)
(* running one must not do.                                                *)
(***************************************************************************)
EXTENDS ContextTest

-----------------------------------------------------------------------------
(* The line. *)

\* How far d is from c among the cohorts that are not enclosed.
Rank(c) == Cardinality(Visible(line) \cap 1..c)
Far(c, d) == Rank(d) - Rank(c)
Distance(c, d) == IF Far(c, d) < 0 THEN -Far(c, d) ELSE Far(c, d)

\* d is passed on the way from c to e.
Between(c, d, e) == Distance(c, d) < Distance(c, e) /\ ((d < c /\ e < c) \/ (d > c /\ e > c) \/ d = c)

\* With @ a test counts from a border of the window, with < or > from one of the
\* window on that side if there is one.
Base(t, c) ==
    LET w == IF t.span = "<" /\ Before(Win(c)) # 0 THEN Before(Win(c))
             ELSE IF t.span = ">" /\ After(Win(c)) # 0 THEN After(Win(c)) ELSE Win(c)
    IN  IF ~ t.abs THEN c ELSE IF t.off < 0 THEN Last(cohorts[w]) ELSE cohorts[w][1]

\* The window of d is one that a test which stands on c is about.
Spanned(t, c, d) ==
    /\ Win(d) < Win(c) => SpansLeft(t) \/ AlwaysSpan
    /\ Win(d) > Win(c) => SpansRight(t) \/ AlwaysSpan

\* The cohorts of these windows.
Near(t, c) == {d \in Visible(line) : Spanned(t, c, d)}

LineScope(t, c) ==
    LET b   == Base(t, c)
        off == IF t.abs /\ t.off < 0 THEN t.off + 1 ELSE t.off
    IN  CASE t.scan = "none" -> {d \in Near(t, c) : Far(b, d) = off}
          [] t.scan # "none" /\ t.off < 0 -> {d \in Near(t, c) : Far(b, d) <= off}
          [] t.scan # "none" /\ t.off > 0 -> {d \in Near(t, c) : Far(b, d) >= off}
          [] OTHER -> Near(t, c) \ {b}

-----------------------------------------------------------------------------
(* The tree. It is what dep_parent says; the children follow from that.    *)

ParentIn(l, top, d) ==
    LET p == IF l[d].parent = 0 THEN top ELSE l[d].parent
    IN  IF p \in DOMAIN l THEN p ELSE NoCohort
ParentNode(d) == ParentIn(line, RootCohort, d)

\* The ancestors of d, the n-th one up, and how far up c is.
LineageIn(l, top, d) ==
    LET up[n \in 0..Len(l)] ==
          IF n = 0 THEN d
          ELSE LET e == up[n - 1] IN IF e = NoCohort THEN NoCohort ELSE ParentIn(l, top, e)
    IN  [n \in 1..Len(l) |-> up[n]]
Lineage(d) == LineageIn(line, RootCohort, d)
Over(d) == Range(Lineage(d)) \ {NoCohort}
Height(d, c) == LET up == Lineage(d) IN Min({n \in DOMAIN up : up[n] = c})

\* The cohorts on the way down from c to d, and d.
Branch(c, d) == {d} \cup ToSet(SubSeq(Lineage(d), 1, Height(d, c) - 1))

OfSide(t, c, d) == (t.side = "l" => d < c) /\ (t.side = "r" => d > c)

RelatedTo(t, c) ==
    IF t.rel = AnyRelation THEN UNION {line[c].rels[n] : n \in DOMAIN line[c].rels}
    ELSE IF t.rel \in DOMAIN line[c].rels THEN line[c].rels[t.rel] ELSE {}

\* c* goes down only where l and r hold and within the windows spanned, pp goes up
\* and cc goes down anywhere and then makes the choice. With ll and rr a relation is
\* to the outermost of the cohorts.
TreeScope(t, c) ==
    LET all == CASE t.dep = "p" /\ t.scan = "none" -> {ParentNode(c)} \ {NoCohort}
                 [] t.dep = "p" /\ t.scan # "none" -> Over(c) \ {c}
                 [] t.dep = "pp" -> Over(c)
                 [] t.dep = "c"  -> {d \in Cohorts : ParentNode(d) = c}
                 [] t.dep = "cc" -> {d \in Cohorts : c \in Over(d)}
                 [] t.dep = "c*" -> {d \in Cohorts : /\ c \in Over(d)
                                                     /\ \A e \in Branch(c, d) : OfSide(t, ParentNode(e), e)
                                                     /\ Branch(c, d) \subseteq Near(t, c)}
                 [] t.dep = "s"  -> {d \in Cohorts \ {c} : ParentNode(d) = ParentNode(c)
                                                            /\ ParentNode(c) # NoCohort}
                 [] t.dep = "rel" -> RelatedTo(t, c)
        here == IF t.dep = "c*" THEN all ELSE {d \in all \cap Near(t, c) : OfSide(t, c, d)}
    IN  CASE t.dep = "rel" /\ t.most = "ll" /\ here # {} -> {Min(here)}
          [] t.dep = "rel" /\ t.most = "rr" /\ here # {} -> {Max(here)}
          [] OTHER -> here

-----------------------------------------------------------------------------
(* A test and those linked to it. *)

\* The cohorts a test that stands on c is about.
Scope(t, c) ==
    (IF t.self THEN {c} ELSE {}) \cup (IF t.dep = "none" THEN LineScope(t, c) ELSE TreeScope(t, c))

\* The cohorts that are come to before d; b is where the test counts from. With S
\* c is the first of all.
Earlier(t, c, b, d) ==
    LET along == IF t.dep = "none" THEN {e \in LineScope(t, c) : Between(b, e, d)} ELSE {}
        up == IF t.dep = "p" /\ t.scan # "none" THEN {e \in Over(c) : Height(c, e) < Height(c, d)} ELSE {}
        down == IF t.dep = "c*" THEN Branch(c, d) \ {d} ELSE {}
    IN  IF d = c /\ t.self THEN {} ELSE along \cup up \cup down \cup (IF t.self THEN {c} ELSE {})

\* The scan comes to d: no barrier before it, the origin not passed. Both ways
\* are two scans at once.
Reaches(t, c, d, o) ==
    \A e \in Earlier(t, c, Base(t, c), d) :
        /\ t.barrier # NoSet /\ ~ (e = c /\ t.nb) => ~ SomeHas(e, t.barrier)
        /\ t.cbarrier # NoSet /\ ~ (e = c /\ t.nb) => ~ AllHave(e, t.cbarrier)
        /\ t.scan = "*" => ~ SomeHas(e, t.target)
        /\ ~ IsOrigin(t, e, o)

\* * is about the first cohort with a reading that matches, ** about them all, as
\* are the tests on the tree without *; a linked test stands where its predecessor
\* matched, or with x on the mark. NONE in the tree may be of nobody.
MeaningFrom ==
    LET Meaning[k \in DOMAIN chain, c \in Cohorts, m \in Cohorts,
                o \in Cohorts \cup {NoCohort}] ==
          LET t   == chain[k]
              b   == IF t.mark = "x" THEN m ELSE c
              q   == IF t.origin = "o" THEN NoCohort ELSE o
              hit == {d \in Scope(t, b) : Reaches(t, b, d, q)}
              is(d) == IF t.careful THEN AllHave(d, t.target) ELSE SomeHas(d, t.target)
              next(d) == \/ k = Len(chain)
                         \/ Meaning[k + 1, d, IF t.mark = "X" THEN d ELSE m,
                                    IF chain[k + 1].origin = "O" THEN d ELSE q]
              yes == CASE t.quant = "NONE" ->
                              (hit # {} \/ t.dep # "none") /\ \A d \in hit : ~ (is(d) /\ next(d))
                       [] t.quant = "ALL" -> hit # {} /\ \A d \in hit : is(d) /\ next(d)
                       [] t.not /\ k = Len(chain) -> \A d \in hit : ~ is(d)
                       [] t.not /\ k < Len(chain) -> \E d \in hit : ~ is(d) /\ next(d)
                       [] OTHER -> \E d \in hit : is(d) /\ next(d) /\ ~ IsOrigin(t, d, q)
          IN  yes # t.negate
    IN  Meaning

Meant == MeaningFrom[1, target, target, FirstOrigin]

-----------------------------------------------------------------------------
(* Properties. *)

LevelType == [cur : Cohorts, self : BOOLEAN, todo : SUBSET Cohorts]
CallType ==
    [test : DOMAIN chain, win : Nat \ {0}, pos : Int, from : Cohorts,
     origin : Cohorts \cup {NoCohort}, way : {"start", "self", "line", "both", "tree"},
     at : Cohorts \cup {NoCohort}, i : Nat, side : {"left", "right"}, left : Nat, lpos : Int,
     right : Nat, rpos : Int, linked : {"unknown", "yes", "no"}, todo : SUBSET Cohorts,
     climbed : SUBSET Cohorts, kept : BOOLEAN,
     levels : Seq(LevelType)]

TypeOK ==
    /\ LineType(line) /\ target \in Cohorts /\ mark \in Cohorts
    /\ deepSeen \subseteq (DOMAIN chain) \X Cohorts
    /\ calls \in Seq(CallType) /\ \A n \in DOMAIN calls : calls[n].test = n
    /\ Len(calls) <= Len(chain)
    /\ answer \in {"running", "yes", "no"}
    /\ calls = <<>> <=> answer # "running"

\* Whatever the scans went through, the answer is the one the manual gives to
\* the chain: the first match or any, before the barrier and the origin, in the
\* windows the test spans, among the ancestors, descendents, siblings or related
\* cohorts that the position names, with every linked test run from where the
\* last one matched.
AnswerIsMeant == answer # "running" => answer = (IF Meant THEN "yes" ELSE "no")

\* The links a test goes along again and again do not lead out of its windows: c*
\* without a span goes on from a cohort it may not look at, and r: never asks for
\* windows.
LinksWithin(t) ==
    \/ t.span = "W"
    \/ /\ t.dep \in {"c*", "s*"} => \A i \in Cohorts : \A j \in line[i].children : Win(j) = Win(i)
       /\ t.dep = "rel" =>
             \A i \in Cohorts : \A n \in DOMAIN line[i].rels :
                 \A j \in line[i].rels[n] \cap Cohorts : Win(j) = Win(i)

\* BARRIER has one meaning: no NOT, which turns it around, and no S with N, which
\* lifts it for the whole scan; with S the cohort itself comes first and stops the
\* scan, which it does not with 0*, with r: and among the cohorts of l and r; the
\* children of the root are those of the root that dep_parent leads to.
BarrierIsPlain(t) ==
    /\ t.barrier # NoSet /\ ~ t.not
    /\ t.self => ~ t.nb /\ ~ BothWays(t) /\ t.dep # "rel" /\ (Sided(t) => t.dep = "p")
    /\ t.dep = "c*" =>
          /\ LinksWithin(t)
          /\ \A i \in Cohorts : LocalNo(line, i) = 0 /\ line[i].children # {} => i = RootCohort

\* A test looks at no enclosed cohort, at none of another window unless its
\* position says so, and at none behind one that has the barrier, through however
\* many windows, levels of the tree and linked tests it was led.
StaysInReach ==
    Running /\ Here # NoCohort /\ ~ IsFar =>
        /\ ~ line[Here].enclosed
        /\ LinksWithin(Test) => Spanned(Test, Top.from, Here)
        /\ BarrierIsPlain(Test) =>
              \A e \in Earlier(Test, Top.from, Base(Test, Top.from), Here) : ~ SomeHas(e, Test.barrier)

\* Every contextual test ends, whatever windows it spans and loops there are in
\* the tree.
TestsEnd == <>(answer # "running")

=============================================================================
