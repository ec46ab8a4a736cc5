-------------------------- MODULE DependencyProofs --------------------------
(***************************************************************************)
(* Proofs about Dependency, for every number and size of windows, every    *)
(* set of rules and recipes and every sequence of rule applications.       *)
(*                                                                         *)
(* On input whose attachments could all be resolved: the two records of    *)
(* the tree agree (ChildrenAgree), with loops allowed or not; without      *)
(* loops in the input and in the rules' flags, there never is a loop       *)
(* (NoLoops); dependencies between windows are announced.                  *)
(*                                                                         *)
(* On any input: cohort_map finds the cohorts of the windows that are      *)
(* kept, lists of children are true whatever tags are read again, and      *)
(* making, removing, splitting and merging cohorts leaves the others above *)
(* and below each other as they were.                                      *)
(***************************************************************************)
EXTENDS Dependency, TLAPS

\* Number n has not been given to a cohort yet, nor has any greater number.
Unused(t, n) ==
    /\ \A c \in t.map : c < n
    /\ \A c \in Ids : t.parent[c] # NoParent => t.parent[c] < n
    /\ \A p \in Nodes : \A c \in t.children[p] : c < n

Agree(t) == \A c, p \in t.map : c \in t.children[p] <=> t.parent[c] = p

OwnNumber(t) == \A c \in Ids : t.self[c] \in {0, c}

\* What every operation on the tree keeps.
TreeInv(t, n) ==
    /\ t \in TreeType
    /\ Unused(t, n)
    /\ Agree(t)
    /\ OwnNumber(t)

-----------------------------------------------------------------------------
(* The operations on the tree keep its two records in agreement.           *)

\* Attaching cohorts of the map to a node the map finds keeps TreeInv.
LEMMA AttachAgrees ==
  ASSUME NEW t, NEW n \in Nat, TreeInv(t, n),
         NEW p, Found(t, p), NEW cs \in SUBSET t.map
  PROVE  TreeInv(Attach(t, p, cs), n)
<1> DEFINE u == Attach(t, p, cs)
<1>1. /\ t.map \in SUBSET Ids /\ t.self \in [Ids -> Nodes]
      /\ t.parent \in [Ids -> Nodes \cup {NoParent}]
      /\ t.children \in [Nodes -> SUBSET Ids] /\ t.done \in SUBSET Ids
  BY DEF TreeInv, TreeType
<1>2. p \in Nodes /\ cs \subseteq Ids /\ p # NoParent
  BY <1>1, NoneAssumption DEF Found, Nodes, Root, Ids
<1>3. /\ u.map = t.map
      /\ u.self = [x \in Ids |-> IF x \in cs \cup {p} THEN x ELSE t.self[x]]
      /\ u.parent = [x \in Ids |-> IF x \in cs THEN p ELSE t.parent[x]]
      /\ u.children = [x \in Nodes |->
                     (t.children[x] \ {c \in cs : LosesChild(t, c) = x /\ Found(t, x)})
                     \cup (IF x = p THEN cs ELSE {})]
      /\ u.done = t.done \cup cs \cup ({p} \ {Root})
  BY DEF Attach
<1>4. u \in TreeType
  <2>1. u.self \in [Ids -> Nodes]
    BY <1>1, <1>2, <1>3 DEF Nodes
  <2>2. u.parent \in [Ids -> Nodes \cup {NoParent}]
    BY <1>1, <1>2, <1>3
  <2>3. u.children \in [Nodes -> SUBSET Ids]
    BY <1>1, <1>2, <1>3
  <2>4. u.done \in SUBSET Ids /\ u.map \in SUBSET Ids
    BY <1>1, <1>2, <1>3 DEF Nodes
  <2> QED BY <2>1, <2>2, <2>3, <2>4 DEF Attach, TreeType
<1>5. Unused(u, n)
  <2>1. \A c \in cs : c < n
    BY DEF TreeInv, Unused
  <2>2. p = Root \/ p \in t.map
    BY DEF Found
  <2>3. n > 0 \/ cs = {}
    BY <2>1, <1>2, SizeAssumption DEF Ids
  <2>4. \A c \in Ids : u.parent[c] # NoParent => u.parent[c] < n
    BY <1>1, <1>2, <1>3, <2>1, <2>2, <2>3 DEF TreeInv, Unused, Root
  <2> QED BY <1>1, <1>2, <1>3, <2>1, <2>4 DEF TreeInv, Unused
<1>6. Agree(u)
  <2> SUFFICES ASSUME NEW c \in t.map, NEW x \in t.map
               PROVE  c \in u.children[x] <=> u.parent[c] = x
    BY <1>3 DEF Agree
  <2>1. c \in t.children[x] <=> t.parent[c] = x
    BY DEF TreeInv, Agree
  <2>2. c \in Ids /\ x \in Ids /\ x \in Nodes /\ x # NoParent /\ Found(t, x)
    BY <1>1, NoneAssumption DEF Nodes, Found, Ids
  <2>3. CASE c \in cs
    BY <1>3, <2>1, <2>2, <2>3 DEF LosesChild
  <2>4. CASE c \notin cs
    BY <1>3, <2>1, <2>2, <2>4
  <2> QED BY <2>3, <2>4
<1>7. OwnNumber(u)
  BY <1>1, <1>2, <1>3 DEF TreeInv, OwnNumber
<1> QED BY <1>4, <1>5, <1>6, <1>7 DEF TreeInv

\* Taking a cohort out of the map keeps TreeInv.
LEMMA EraseAgrees ==
  ASSUME NEW t, NEW n \in Nat, TreeInv(t, n), NEW c \in t.map
  PROVE  TreeInv(Erase(t, c), n)
<1> DEFINE u == Erase(t, c)
<1>1. /\ t.map \in SUBSET Ids /\ t.self \in [Ids -> Nodes]
      /\ t.parent \in [Ids -> Nodes \cup {NoParent}]
      /\ t.children \in [Nodes -> SUBSET Ids] /\ t.done \in SUBSET Ids
  BY DEF TreeInv, TreeType
<1>2. /\ u.map = t.map \ {c}
      /\ u.self = [t.self EXCEPT ![c] = 0]
      /\ u.parent = [t.parent EXCEPT ![c] = NoParent]
      /\ u.children = [x \in Nodes |-> IF x = c THEN {}
                                   ELSE IF Found(t, x) THEN t.children[x] \ {t.self[c]}
                                   ELSE t.children[x]]
      /\ u.done = t.done \ {c}
  BY DEF Erase
<1>3. u \in TreeType
  <2>1. u.self \in [Ids -> Nodes] /\ u.parent \in [Ids -> Nodes \cup {NoParent}]
    BY <1>1, <1>2 DEF Nodes, Root
  <2>2. u.children \in [Nodes -> SUBSET Ids]
    BY <1>1, <1>2
  <2>3. u.map \in SUBSET Ids /\ u.done \in SUBSET Ids
    BY <1>1, <1>2
  <2> QED BY <2>1, <2>2, <2>3 DEF Erase, TreeType
<1>4. Unused(u, n)
  <2>1. \A d \in Ids : u.parent[d] # NoParent => u.parent[d] < n
    BY <1>1, <1>2 DEF TreeInv, Unused
  <2>2. \A p \in Nodes : \A d \in u.children[p] : d < n
    BY <1>1, <1>2 DEF TreeInv, Unused
  <2> QED BY <1>2, <2>1, <2>2 DEF TreeInv, Unused
<1>5. Agree(u)
  <2> SUFFICES ASSUME NEW d \in t.map \ {c}, NEW x \in t.map \ {c}
               PROVE  d \in u.children[x] <=> u.parent[d] = x
    BY <1>2 DEF Agree
  <2>1. d \in t.children[x] <=> t.parent[d] = x
    BY DEF TreeInv, Agree
  <2>2. d # t.self[c]
    BY <1>1 DEF TreeInv, OwnNumber, Ids
  <2>3. d \in Ids /\ x \in Nodes
    BY <1>1 DEF Nodes
  <2> QED BY <1>1, <1>2, <2>1, <2>2, <2>3
<1>6. OwnNumber(u)
  BY <1>1, <1>2 DEF TreeInv, OwnNumber
<1> QED BY <1>3, <1>4, <1>5, <1>6 DEF TreeInv

\* New cohorts, with numbers that were not given before, are alone.
LEMMA FreshAgrees ==
  ASSUME NEW t, NEW n \in Nat, TreeInv(t, n), NEW m \in Nat, n <= m,
         NEW s \in SUBSET Ids, \A x \in s : n <= x /\ x < m
  PROVE  TreeInv(Fresh(t, s), m)
<1> DEFINE u == Fresh(t, s)
<1>1. /\ t.map \in SUBSET Ids /\ t.self \in [Ids -> Nodes]
      /\ t.parent \in [Ids -> Nodes \cup {NoParent}]
      /\ t.children \in [Nodes -> SUBSET Ids] /\ t.done \in SUBSET Ids
  BY DEF TreeInv, TreeType
<1>2. /\ u.map = t.map \cup s
      /\ u.self = [x \in Ids |-> IF x \in s THEN 0 ELSE t.self[x]]
      /\ u.parent = [x \in Ids |-> IF x \in s THEN NoParent ELSE t.parent[x]]
      /\ u.children = [x \in Nodes |-> IF x \in s THEN {} ELSE t.children[x]]
      /\ u.done = t.done \ s
  BY DEF Fresh
<1>3. u \in TreeType
  <2>1. u.self \in [Ids -> Nodes] /\ u.parent \in [Ids -> Nodes \cup {NoParent}]
    BY <1>1, <1>2 DEF Nodes, Root
  <2>2. u.children \in [Nodes -> SUBSET Ids]
    BY <1>1, <1>2
  <2>3. u.map \in SUBSET Ids /\ u.done \in SUBSET Ids
    BY <1>1, <1>2
  <2> QED BY <2>1, <2>2, <2>3 DEF Fresh, TreeType
<1>4. Unused(u, m)
  <2>1. \A d \in Ids : u.parent[d] # NoParent => u.parent[d] < m
    <3> SUFFICES ASSUME NEW d \in Ids, u.parent[d] # NoParent PROVE u.parent[d] < m
      OBVIOUS
    <3>1. t.parent[d] \in Nat /\ t.parent[d] < n /\ u.parent[d] = t.parent[d]
      BY <1>1, <1>2, SizeAssumption DEF TreeInv, Unused, Nodes, Ids, Root
    <3> QED BY <3>1
  <2>2. \A p \in Nodes : \A d \in u.children[p] : d < m
    <3> SUFFICES ASSUME NEW p \in Nodes, NEW d \in u.children[p] PROVE d < m
      OBVIOUS
    <3>1. d \in t.children[p] /\ d \in Nat /\ d < n
      BY <1>1, <1>2, SizeAssumption DEF TreeInv, Unused, Ids
    <3> QED BY <3>1
  <2>3. \A d \in t.map : d < m
    BY <1>1, SizeAssumption DEF TreeInv, Unused, Ids
  <2> QED BY <1>2, <2>1, <2>2, <2>3 DEF Unused
<1>5. Agree(u)
  <2> SUFFICES ASSUME NEW d \in t.map \cup s, NEW x \in t.map \cup s
               PROVE  d \in u.children[x] <=> u.parent[d] = x
    BY <1>2 DEF Agree
  <2>0. d \in Ids /\ x \in Ids
    BY <1>1
  <2>1. d \in Ids /\ x \in Ids /\ x \in Nodes /\ x # NoParent
    BY <2>0, NoneAssumption, SizeAssumption DEF Nodes, Ids
  <2>2. CASE d \in s
    <3>1. d \notin t.children[x]
      BY <1>1, <2>1, <2>2, SizeAssumption DEF TreeInv, Unused, Ids
    <3> QED BY <1>2, <2>1, <2>2, <3>1
  <2>3. CASE d \notin s /\ x \in s
    <3>1. t.parent[d] # x
      BY <1>1, <2>1, <2>3, SizeAssumption DEF TreeInv, Unused, Ids
    <3> QED BY <1>2, <2>1, <2>3, <3>1
  <2>4. CASE d \notin s /\ x \notin s
    BY <1>2, <2>1, <2>4 DEF TreeInv, Agree
  <2> QED BY <2>2, <2>3, <2>4
<1>6. OwnNumber(u)
  BY <1>1, <1>2 DEF TreeInv, OwnNumber
<1> QED BY <1>3, <1>4, <1>5, <1>6 DEF TreeInv

\* Attaching the new cohorts of a split to each other keeps TreeInv.
LEMMA LinkedAgrees ==
  ASSUME NEW t, NEW m \in Nat, TreeInv(t, m), NEW r \in Recipes, NEW n \in Ids,
         NewIds(r, n) \subseteq t.map,
         \A x \in NewIds(r, n) \ Heads(r, n) : t.parent[x] = NoParent
  PROVE  TreeInv(Linked(t, r, n), m)
<1> DEFINE u == Linked(t, r, n)
           inner == NewIds(r, n) \ Heads(r, n)
           up(x) == n + r.link[x - n + 1] - 1
<1>1. /\ t.map \in SUBSET Ids /\ t.self \in [Ids -> Nodes]
      /\ t.parent \in [Ids -> Nodes \cup {NoParent}]
      /\ t.children \in [Nodes -> SUBSET Ids] /\ t.done \in SUBSET Ids
  BY DEF TreeInv, TreeType
<1>2. /\ u.map = t.map
      /\ u.self = [x \in Ids |-> IF x \in NewIds(r, n) THEN x ELSE t.self[x]]
      /\ u.parent = [x \in Ids |-> IF x \in inner THEN up(x) ELSE t.parent[x]]
      /\ u.children = [x \in Nodes |-> t.children[x] \cup {y \in inner : up(y) = x}]
      /\ u.done = t.done \cup inner \cup {up(x) : x \in inner}
  BY DEF Linked
<1>3. \A x \in inner : up(x) \in NewIds(r, n)
  <2> SUFFICES ASSUME NEW x \in inner PROVE up(x) \in NewIds(r, n)
    OBVIOUS
  <2>1. RecipeType(r)
    BY RecipesAssumption
  <2>2. n \in Nat /\ Len(r.link) \in Nat
    BY <2>1, SizeAssumption DEF RecipeType, Ids
  <2>3. x \in n..n + Len(r.link) - 1 /\ r.link[x - n + 1] # 0
    BY DEF Heads, NewIds
  <2>4. x - n + 1 \in 1..Len(r.link)
    BY <2>2, <2>3
  <2>5. r.link[x - n + 1] \in 1..Len(r.link)
    BY <2>1, <2>2, <2>3, <2>4 DEF RecipeType
  <2> QED BY <2>2, <2>5 DEF NewIds
<1>4. inner \subseteq t.map /\ inner \subseteq Ids /\ NewIds(r, n) \subseteq Ids
  BY <1>1
<1> HIDE DEF u, inner, up
<1>5. u \in TreeType
  <2>1. u.self \in [Ids -> Nodes] /\ u.parent \in [Ids -> Nodes \cup {NoParent}]
    BY <1>1, <1>2, <1>3, <1>4 DEF Nodes
  <2>2. u.children \in [Nodes -> SUBSET Ids]
    BY <1>1, <1>2, <1>4
  <2>3. u.map \in SUBSET Ids /\ u.done \in SUBSET Ids
    BY <1>1, <1>2, <1>3, <1>4
  <2> QED BY <2>1, <2>2, <2>3 DEF Linked, TreeType, u
<1>6. Unused(u, m)
  <2>1. \A d \in Ids : u.parent[d] # NoParent => u.parent[d] < m
    BY <1>1, <1>2, <1>3, <1>4 DEF TreeInv, Unused
  <2>2. \A p \in Nodes : \A d \in u.children[p] : d < m
    BY <1>1, <1>2, <1>4 DEF TreeInv, Unused
  <2> QED BY <1>2, <2>1, <2>2 DEF TreeInv, Unused
<1>7. Agree(u)
  <2> SUFFICES ASSUME NEW d \in t.map, NEW x \in t.map
               PROVE  d \in u.children[x] <=> u.parent[d] = x
    BY <1>2 DEF Agree
  <2>1. d \in Ids /\ x \in Nodes /\ x # NoParent
    BY <1>1, NoneAssumption, SizeAssumption DEF Nodes, Ids
  <2>2. d \in t.children[x] <=> t.parent[d] = x
    BY DEF TreeInv, Agree
  <2>3. CASE d \in inner
    <3>1. t.parent[d] = NoParent
      BY <2>3 DEF inner
    <3> QED BY <1>2, <2>1, <2>2, <2>3, <3>1
  <2>4. CASE d \notin inner
    BY <1>2, <2>1, <2>2, <2>4
  <2> QED BY <2>3, <2>4
<1>8. OwnNumber(u)
  BY <1>1, <1>2 DEF TreeInv, OwnNumber
<1> QED BY <1>5, <1>6, <1>7, <1>8 DEF TreeInv, u

\* Removing a cohort is taking it out once its children are forwarded; its own
\* list of children no longer matters.
LEMMA RemovedIs ==
  ASSUME NEW t, t \in TreeType, NEW c \in t.map, RemovalFindsAll(t, c)
  PROVE  /\ t.children[c] = {} => Removed(t, c) = Erase(t, c)
         /\ t.children[c] # {} =>
              /\ Found(t, t.parent[c])
              /\ t.children[c] \in SUBSET t.map
              /\ Removed(t, c) = Erase(Attach(t, t.parent[c], t.children[c]), c)
<1>1. CASE t.children[c] = {}
  BY <1>1 DEF Removed, Forward
<1>2. CASE t.children[c] # {}
  <2> DEFINE a == Attach(t, t.parent[c], t.children[c])
             f == [a EXCEPT !.children[c] = @ \ t.children[c]]
  <2>1. Removed(t, c) = Erase(f, c)
    BY <1>2 DEF Removed, Forward
  <2>2. Found(t, t.parent[c]) /\ t.children[c] \in SUBSET t.map
    BY <1>2 DEF RemovalFindsAll
  <2>3. c \in Nodes
    BY DEF TreeType, Nodes
  <2>4. /\ f.map = a.map /\ f.self = a.self /\ f.parent = a.parent /\ f.done = a.done
        /\ \A x \in Nodes \ {c} : f.children[x] = a.children[x]
    BY <2>3 DEF Attach
  <2>5. Erase(f, c) = Erase(a, c)
    <3> HIDE DEF f, a
    <3>1. \A x : Found(f, x) <=> Found(a, x)
      BY <2>4 DEF Found
    <3>2. [x \in Nodes |-> IF x = c THEN {} ELSE IF Found(f, x) THEN f.children[x] \ {f.self[c]} ELSE f.children[x]]
          = [x \in Nodes |-> IF x = c THEN {} ELSE IF Found(a, x) THEN a.children[x] \ {a.self[c]} ELSE a.children[x]]
      BY <2>4, <3>1
    <3> QED BY <2>4, <3>2 DEF Erase
  <2> QED BY <1>2, <2>1, <2>2, <2>5
<1> QED BY <1>1, <1>2

\* The removed cohort, and only that, leaves the map.
LEMMA RemovedMap ==
  ASSUME NEW t, t \in TreeType, NEW c \in t.map, RemovalFindsAll(t, c)
  PROVE  Removed(t, c).map = t.map \ {c}
<1>1. CASE t.children[c] = {}
  <2>1. Removed(t, c) = Erase(t, c)
    BY <1>1, RemovedIs
  <2> QED BY <2>1 DEF Erase
<1>2. CASE t.children[c] # {}
  <2> DEFINE a == Attach(t, t.parent[c], t.children[c])
  <2>1. Removed(t, c) = Erase(a, c)
    BY <1>2, RemovedIs
  <2>2. a.map = t.map
    BY DEF Attach
  <2> HIDE DEF a
  <2> QED BY <2>1, <2>2 DEF Erase
<1> QED BY <1>1, <1>2

\* REMCOHORT keeps TreeInv.
LEMMA RemovedAgrees ==
  ASSUME NEW t, NEW n \in Nat, TreeInv(t, n), NEW c \in t.map, RemovalFindsAll(t, c)
  PROVE  TreeInv(Removed(t, c), n)
<1>1. t \in TreeType
  BY DEF TreeInv
<1>2. CASE t.children[c] = {}
  <2>1. Removed(t, c) = Erase(t, c)
    BY <1>1, <1>2, RemovedIs
  <2> QED BY <2>1, EraseAgrees
<1>3. CASE t.children[c] # {}
  <2> DEFINE a == Attach(t, t.parent[c], t.children[c])
  <2>1. /\ Found(t, t.parent[c]) /\ t.children[c] \in SUBSET t.map
        /\ Removed(t, c) = Erase(a, c)
    BY <1>1, <1>3, RemovedIs
  <2>2. TreeInv(a, n)
    BY <2>1, AttachAgrees
  <2>3. c \in a.map
    BY DEF Attach
  <2> QED BY <2>1, <2>2, <2>3, EraseAgrees
<1> QED BY <1>2, <1>3

\* The new cohorts' numbers.
LEMMA NewNumbers ==
  ASSUME NEW r \in Recipes, NEW n \in Ids, n + Len(r.link) - 1 <= MaxId
  PROVE  /\ n \in Nat /\ Len(r.link) \in Nat \ {0} /\ n + Len(r.link) \in Nat
         /\ NewIds(r, n) \in SUBSET Ids
         /\ \A x \in NewIds(r, n) : n <= x /\ x < n + Len(r.link)
         /\ Heads(r, n) \subseteq NewIds(r, n)
         /\ n + r.tail - 1 \in NewIds(r, n)
<1>1. RecipeType(r)
  BY RecipesAssumption
<1>2. n \in Nat /\ MaxId \in Nat /\ 1 <= n /\ Len(r.link) \in Nat \ {0}
  BY <1>1, SizeAssumption DEF Ids, RecipeType
<1>3. r.tail \in 1..Len(r.link)
  BY <1>1 DEF RecipeType
<1> QED BY <1>2, <1>3 DEF NewIds, Heads, Ids

\* SPLITCOHORT keeps TreeInv, and this is what the parents are before c goes.
LEMMA SplitParents ==
  ASSUME NEW t, NEW n \in Ids, TreeInv(t, n), NEW c \in t.map,
         NEW r \in Recipes, n + Len(r.link) - 1 <= MaxId, t.children[c] \subseteq t.map
  PROVE  \E u : /\ Split(t, c, r, n) = Erase(u, c)
                /\ TreeInv(u, n + Len(r.link))
                /\ u.map = t.map \cup NewIds(r, n)
                /\ \A x \in Ids : u.parent[x] =
                     IF x \in NewIds(r, n) \ Heads(r, n) THEN n + r.link[x - n + 1] - 1
                     ELSE IF x \in Heads(r, n)
                          THEN IF Found(t, t.parent[c]) THEN t.parent[c] ELSE NoParent
                     ELSE IF x \in t.children[c] THEN n + r.tail - 1
                     ELSE t.parent[x]
<1> DEFINE new  == Fresh(t, NewIds(r, n))
           tail == n + r.tail - 1
           m    == n + Len(r.link)
           kept == IF t.children[c] = {} THEN new ELSE Attach(new, tail, t.children[c])
           head == IF Heads(r, n) # {} /\ Found(t, t.parent[c])
                   THEN Attach(kept, t.parent[c], Heads(r, n)) ELSE kept
           u    == Linked(head, r, n)
<1>1. /\ n \in Nat /\ Len(r.link) \in Nat \ {0} /\ m \in Nat
      /\ NewIds(r, n) \in SUBSET Ids
      /\ \A x \in NewIds(r, n) : n <= x /\ x < m
      /\ Heads(r, n) \subseteq NewIds(r, n) /\ tail \in NewIds(r, n)
  BY NewNumbers
<1>2. /\ t.map \in SUBSET Ids /\ t.children[c] \in SUBSET t.map
      /\ \A x \in t.map : x < n
      /\ t.children[c] \cap NewIds(r, n) = {}
  <2>1. t.map \in SUBSET Ids /\ \A x \in t.map : x < n /\ x \in Nat
    BY SizeAssumption DEF TreeInv, TreeType, Unused, Ids
  <2> QED BY <2>1, <1>1, SizeAssumption DEF Ids
<1>3. /\ TreeInv(new, m) /\ new.map = t.map \cup NewIds(r, n)
      /\ \A x \in Ids : new.parent[x] = IF x \in NewIds(r, n) THEN NoParent ELSE t.parent[x]
  <2>1. n <= m
    BY <1>1
  <2>2. TreeInv(new, m)
    BY <1>1, <2>1, FreshAgrees
  <2> QED BY <2>2 DEF Fresh
<1>4. /\ TreeInv(kept, m) /\ kept.map = t.map \cup NewIds(r, n)
      /\ \A x \in Ids : kept.parent[x] = IF x \in NewIds(r, n) THEN NoParent
                                         ELSE IF x \in t.children[c] THEN tail ELSE t.parent[x]
  <2>1. CASE t.children[c] = {}
    BY <1>3, <2>1
  <2>2. CASE t.children[c] # {}
    <3>1. Found(new, tail) /\ t.children[c] \in SUBSET new.map
      BY <1>1, <1>2, <1>3 DEF Found
    <3> HIDE DEF new, tail, m
    <3>2. TreeInv(Attach(new, tail, t.children[c]), m)
      BY <1>1, <1>3, <3>1, AttachAgrees
    <3> QED BY <1>2, <1>3, <2>2, <3>2 DEF Attach
  <2> QED BY <2>1, <2>2
<1>5. /\ TreeInv(head, m) /\ head.map = t.map \cup NewIds(r, n)
      /\ \A x \in Ids : head.parent[x] =
            IF x \in Heads(r, n) THEN IF Found(t, t.parent[c]) THEN t.parent[c] ELSE NoParent
            ELSE IF x \in NewIds(r, n) THEN NoParent
            ELSE IF x \in t.children[c] THEN tail ELSE t.parent[x]
  <2> HIDE DEF kept, m, tail
  <2>1. CASE Heads(r, n) # {} /\ Found(t, t.parent[c])
    <3>1. Found(kept, t.parent[c]) /\ Heads(r, n) \in SUBSET kept.map
      BY <1>1, <1>4, <2>1 DEF Found
    <3>2. TreeInv(Attach(kept, t.parent[c], Heads(r, n)), m)
      BY <1>1, <1>4, <3>1, AttachAgrees
    <3> QED BY <1>1, <1>4, <2>1, <3>2 DEF Attach
  <2>2. CASE ~ (Heads(r, n) # {} /\ Found(t, t.parent[c]))
    BY <1>1, <1>4, <2>2
  <2> QED BY <2>1, <2>2
<1>6. Split(t, c, r, n) = Erase(u, c)
  BY DEF Split
<1>7. TreeInv(u, m)
  <2> HIDE DEF head, m
  <2>1. NewIds(r, n) \subseteq head.map
    BY <1>5
  <2>2. \A x \in NewIds(r, n) \ Heads(r, n) : head.parent[x] = NoParent
    BY <1>1, <1>5
  <2> QED BY <1>1, <1>5, <2>1, <2>2, LinkedAgrees
<1>8. /\ u.map = t.map \cup NewIds(r, n)
      /\ \A x \in Ids : u.parent[x] =
            IF x \in NewIds(r, n) \ Heads(r, n) THEN n + r.link[x - n + 1] - 1 ELSE head.parent[x]
  <2> HIDE DEF head
  <2> QED BY <1>5 DEF Linked
<1>9. \A x \in Ids : u.parent[x] =
                     IF x \in NewIds(r, n) \ Heads(r, n) THEN n + r.link[x - n + 1] - 1
                     ELSE IF x \in Heads(r, n)
                          THEN IF Found(t, t.parent[c]) THEN t.parent[c] ELSE NoParent
                     ELSE IF x \in t.children[c] THEN n + r.tail - 1
                     ELSE t.parent[x]
  <2> HIDE DEF head, u
  <2> QED BY <1>5, <1>8
<1> HIDE DEF u
<1> QED BY <1>6, <1>7, <1>8, <1>9

-----------------------------------------------------------------------------
(* The operations on the tree make no loops.                               *)

\* An attachment that wouldParentChildLoop lets pass closes no circle: the
\* part of a circle that is above the parent would be a circle before.
LEMMA AttachMakesNoLoop ==
  ASSUME NEW t, t \in TreeType, NoLoop(t), NEW c \in t.map, NEW p, Found(t, p),
         ~ WouldParentChildLoop(t, p, c)
  PROVE  NoLoop(Attach(t, p, {c}))
<1> DEFINE u == Attach(t, p, {c})
<1>1. /\ u.map = t.map /\ t.map \in SUBSET Ids
      /\ \A x \in Ids : u.parent[x] = IF x = c THEN p ELSE t.parent[x]
  BY DEF Attach, TreeType
<1> SUFFICES ASSUME NEW S \in SUBSET t.map, \A x \in S : u.parent[x] \in S
             PROVE  S = {}
  BY <1>1 DEF NoLoop
<1> HIDE DEF u
<1>2. CASE c \notin S
  <2>1. \A x \in S : t.parent[x] \in S
    BY <1>1, <1>2
  <2> QED BY <2>1 DEF NoLoop
<1>3. CASE c \in S
  <2>1. p \in S /\ p \in t.map /\ p # Root
    BY <1>1, <1>3, SizeAssumption DEF Root, Ids
  <2>2. CASE p = t.parent[c]
    <3>1. \A x \in S : t.parent[x] \in S
      BY <1>1, <2>1, <2>2
    <3> QED BY <3>1 DEF NoLoop
  <2>3. CASE p = t.parent[p]
    <3>1. {p} \in SUBSET t.map /\ \A x \in {p} : t.parent[x] \in {p}
      BY <2>1, <2>3
    <3>2. {p} = {}
      BY <3>1 DEF NoLoop
    <3> QED BY <3>2
  <2>4. CASE p # t.parent[c] /\ p # t.parent[p]
    <3>1. c \notin Above(t, p)
      BY <2>1, <2>4 DEF WouldParentChildLoop
    <3>2. PICK T \in SUBSET t.map : p \in T /\ UpClosed(t, T) /\ c \notin T
      BY <3>1 DEF Above
    <3>3. \A x \in S \cap T : t.parent[x] \in S \cap T
      <4> SUFFICES ASSUME NEW x \in S \cap T PROVE t.parent[x] \in S \cap T
        OBVIOUS
      <4>1. x # c /\ x \in Ids
        BY <1>1, <3>2
      <4>2. t.parent[x] \in S
        BY <1>1, <4>1
      <4> QED BY <4>2, <3>2 DEF UpClosed
    <3>4. S \cap T = {}
      BY <3>3 DEF NoLoop
    <3> QED BY <2>1, <3>2, <3>4
  <2> QED BY <2>2, <2>3, <2>4
<1> QED BY <1>2, <1>3

\* REMCOHORT makes no loop: a circle through forwarded children was a circle
\* through the removed cohort.
LEMMA RemovedMakesNoLoop ==
  ASSUME NEW t, NEW n \in Nat, TreeInv(t, n), NoLoop(t), NEW c \in t.map, RemovalFindsAll(t, c)
  PROVE  NoLoop(Removed(t, c))
<1> DEFINE a == Attach(t, t.parent[c], t.children[c])
           u == Removed(t, c)
<1>1. t \in TreeType /\ t.map \in SUBSET Ids
  BY DEF TreeInv, TreeType
<1>2. /\ u.map = t.map \ {c}
      /\ \A x \in t.map \ {c} :
            u.parent[x] = IF x \in t.children[c] THEN t.parent[c] ELSE t.parent[x]
  <2>1. CASE t.children[c] = {}
    <3>1. u = Erase(t, c)
      BY <1>1, <2>1, RemovedIs
    <3> QED BY <1>1, <2>1, <3>1 DEF Erase, TreeType
  <2>2. CASE t.children[c] # {}
    <3>1. u = Erase(a, c)
      BY <1>1, <2>2, RemovedIs
    <3>2. a.map = t.map /\ a.parent = [x \in Ids |-> IF x \in t.children[c] THEN t.parent[c] ELSE t.parent[x]]
      BY DEF Attach
    <3> HIDE DEF a
    <3>3. u.map = a.map \ {c} /\ u.parent = [a.parent EXCEPT ![c] = NoParent]
      BY <3>1 DEF Erase
    <3> QED BY <1>1, <3>2, <3>3
  <2> QED BY <2>1, <2>2
<1> HIDE DEF u, a
<1> SUFFICES ASSUME NEW S \in SUBSET (t.map \ {c}), \A x \in S : u.parent[x] \in S
             PROVE  S = {}
  BY <1>2 DEF NoLoop, u
<1>3. \A x \in t.map : x \in t.children[c] <=> t.parent[x] = c
  BY DEF TreeInv, Agree
<1>4. CASE S \cap t.children[c] = {}
  <2>1. \A x \in S : t.parent[x] \in S
    BY <1>2, <1>4
  <2> QED BY <2>1 DEF NoLoop
<1>5. CASE S \cap t.children[c] # {}
  <2>1. t.parent[c] \in S
    BY <1>2, <1>5
  <2>2. S \cup {c} \in SUBSET t.map /\ \A x \in S \cup {c} : t.parent[x] \in S \cup {c}
    BY <1>2, <1>3, <2>1
  <2> QED BY <2>2 DEF NoLoop
<1> QED BY <1>4, <1>5

\* A new cohort is in no loop.
LEMMA InsertMakesNoLoop ==
  ASSUME NEW t, NEW n \in Ids, t \in TreeType, NoLoop(t)
  PROVE  NoLoop(Insert(t, n))
<1> DEFINE u == Insert(t, n)
<1>1. /\ u.map = t.map \cup {n} /\ t.map \in SUBSET Ids
      /\ \A x \in Ids : u.parent[x] = IF x = n THEN NoParent ELSE t.parent[x]
  BY DEF Insert, Fresh, TreeType
<1> SUFFICES ASSUME NEW S \in SUBSET u.map, \A x \in S : u.parent[x] \in S
             PROVE  S = {}
  BY DEF NoLoop
<1> HIDE DEF u
<1>2. NoParent \notin Ids
  BY NoneAssumption, SizeAssumption DEF Ids
<1>3. n \notin S
  BY <1>1, <1>2
<1>4. S \in SUBSET t.map /\ \A x \in S : t.parent[x] \in S
  BY <1>1, <1>3
<1> QED BY <1>4 DEF NoLoop

\* SPLITCOHORT makes no loop: a circle through new cohorts reaches the head of
\* the recipe, so with the split cohort in their place it was a circle before.
LEMMA SplitMakesNoLoop ==
  ASSUME NEW t, NEW n \in Ids, TreeInv(t, n), NoLoop(t), NEW c \in t.map,
         NEW r \in Recipes, n + Len(r.link) - 1 <= MaxId, t.children[c] \subseteq t.map
  PROVE  NoLoop(Split(t, c, r, n))
<1> DEFINE N == NewIds(r, n)
           K == t.children[c]
<1>1. PICK u :
        /\ Split(t, c, r, n) = Erase(u, c)
        /\ TreeInv(u, n + Len(r.link))
        /\ u.map = t.map \cup NewIds(r, n)
        /\ \A x \in Ids : u.parent[x] =
             IF x \in NewIds(r, n) \ Heads(r, n) THEN n + r.link[x - n + 1] - 1
             ELSE IF x \in Heads(r, n)
                  THEN IF Found(t, t.parent[c]) THEN t.parent[c] ELSE NoParent
             ELSE IF x \in t.children[c] THEN n + r.tail - 1
             ELSE t.parent[x]
  BY SplitParents
<1>2. /\ n \in Nat /\ Len(r.link) \in Nat \ {0}
      /\ N \in SUBSET Ids
      /\ \A x \in N : n <= x /\ x < n + Len(r.link)
      /\ Heads(r, n) \subseteq N /\ n + r.tail - 1 \in N
  BY NewNumbers
<1>3. /\ t.map \in SUBSET Ids /\ \A x \in t.map : x < n
      /\ NoParent \notin Ids /\ t.map \cap N = {}
  <2>1. t.map \in SUBSET Ids /\ \A x \in t.map : x < n /\ x \in Nat
    BY SizeAssumption DEF TreeInv, TreeType, Unused, Ids
  <2>2. NoParent \notin Ids
    BY NoneAssumption, SizeAssumption DEF Ids
  <2> QED BY <2>1, <2>2, <1>2, SizeAssumption DEF Ids
<1>4. \A x \in t.map : x \in K <=> t.parent[x] = c
  BY DEF TreeInv, Agree
<1>5. /\ Split(t, c, r, n).map = u.map \ {c}
      /\ \A x \in u.map \ {c} : Split(t, c, r, n).parent[x] = u.parent[x]
  <2>1. u.parent \in [Ids -> Nodes \cup {NoParent}] /\ u.map \in SUBSET Ids
    BY <1>1 DEF TreeInv, TreeType
  <2> QED BY <1>1, <2>1 DEF Erase
<1> SUFFICES ASSUME NEW S \in SUBSET (u.map \ {c}), \A x \in S : u.parent[x] \in S
             PROVE  S = {}
  BY <1>5 DEF NoLoop
<1>6. S \in SUBSET Ids /\ S \in SUBSET (t.map \cup N)
  BY <1>1, <1>2, <1>3
<1>7. CASE S \cap N = {}
  <2>1. \A x \in S : x \notin K
    <3> SUFFICES ASSUME NEW x \in S, x \in K PROVE FALSE
      OBVIOUS
    <3>1. u.parent[x] \in N
      BY <1>1, <1>2, <1>6, <1>7
    <3> QED BY <1>7, <3>1
  <2>2. S \in SUBSET t.map /\ \A x \in S : t.parent[x] \in S
    BY <1>1, <1>2, <1>6, <1>7, <2>1
  <2> QED BY <2>2 DEF NoLoop
<1>8. CASE S \cap N # {}
  <2>1. PICK h \in S : h \in Heads(r, n)
    <3> DEFINE I == {i \in 1..Len(r.link) : n + i - 1 \in S}
    <3>1. RecipeType(r)
      BY RecipesAssumption
    <3>2. I \in SUBSET (1..Len(r.link)) /\ I # {}
      <4>1. PICK y \in S : y \in N
        BY <1>8
      <4>2. y \in n..n + Len(r.link) - 1
        BY <4>1 DEF NewIds
      <4>3. y - n + 1 \in 1..Len(r.link) /\ n + (y - n + 1) - 1 = y
        BY <4>2, <1>2
      <4> QED BY <4>1, <4>3
    <3>3. PICK i \in I : r.link[i] \notin I
      BY <3>1, <3>2 DEF RecipeType
    <3>4. i \in 1..Len(r.link) /\ r.link[i] \in 0..Len(r.link) /\ n + i - 1 \in S
      BY <3>1, <3>3 DEF RecipeType
    <3>5. n + i - 1 \in N /\ (n + i - 1) - n + 1 = i
      BY <1>2, <3>4 DEF NewIds
    <3>6. CASE r.link[i] = 0
      BY <3>4, <3>5, <3>6 DEF Heads
    <3>7. CASE r.link[i] # 0
      <4>1. n + i - 1 \notin Heads(r, n)
        BY <3>5, <3>7 DEF Heads
      <4>2. u.parent[n + i - 1] = n + r.link[i] - 1
        BY <1>1, <1>6, <3>4, <3>5, <4>1
      <4>3. r.link[i] \in 1..Len(r.link) /\ n + r.link[i] - 1 \in S
        BY <3>4, <3>7, <4>2
      <4> QED BY <3>3, <4>3
    <3> QED BY <3>6, <3>7
  <2>2. u.parent[h] = IF Found(t, t.parent[c]) THEN t.parent[c] ELSE NoParent
    BY <1>1, <1>6, <2>1
  <2>3. t.parent[c] \in S /\ t.parent[c] \notin N
    <3>1. Found(t, t.parent[c]) /\ t.parent[c] \in S
      BY <1>3, <1>6, <2>1, <2>2
    <3>2. t.parent[c] \in t.map
      BY <1>6, <3>1, SizeAssumption DEF Found, Root, Ids
    <3> QED BY <1>3, <3>1, <3>2
  <2>4. (S \ N) \cup {c} \in SUBSET t.map
    BY <1>6
  <2>5. \A x \in (S \ N) \cup {c} : t.parent[x] \in (S \ N) \cup {c}
    <3> SUFFICES ASSUME NEW x \in (S \ N), x \notin K PROVE t.parent[x] \in S \ N
      BY <1>4, <1>6, <2>3
    <3>1. u.parent[x] = t.parent[x]
      BY <1>1, <1>2, <1>6
    <3>2. t.parent[x] \in S /\ x \in t.map /\ t.parent[x] \in Ids
      BY <1>6, <3>1
    <3>3. t.parent[x] < n
      BY <1>3, <1>6, <3>2 DEF TreeInv, Unused
    <3> QED BY <1>2, <3>2, <3>3, SizeAssumption DEF Ids
  <2>6. (S \ N) \cup {c} = {}
    BY <2>4, <2>5 DEF NoLoop
  <2> QED BY <2>6
<1> QED BY <1>7, <1>8

-----------------------------------------------------------------------------
(* The inductive invariant. *)

IInv ==
    /\ TreeInv(tree, counter)
    /\ counter \in Nat
    /\ \A c \in Ids : tag[c] = NoTag
    /\ lastRoot \in SUBSET Ids /\ \A c \in lastRoot : c < counter

\* The input tree agrees with itself.
LEMMA InitIInv == Init /\ Resolved => IInv
<1> SUFFICES ASSUME Init, Resolved PROVE IInv
  OBVIOUS
<1> DEFINE K == Windows * WindowSize
<1>1. K \in Nat /\ K <= MaxId /\ MaxId \in Nat /\ Inputs = 1..K /\ Inputs \subseteq Ids
  BY SizeAssumption DEF Inputs, Ids
<1>2. PICK parent \in [Ids -> Nodes \cup {NoParent}] :
         /\ \A c \in Ids : parent[c] \in {Root, NoParent} \cup {p \in Inputs : window[p] = window[c]}
         /\ tree = InputTree(parent)
         /\ lastRoot = {c \in Inputs : parent[c] = Root}
  BY DEF Init
<1>3. counter = K + 1 /\ \A c \in Ids : tag[c] = NoTag
  BY DEF Init, Resolved
<1> HIDE DEF K
<1>4. /\ tree.map = Inputs
      /\ tree.self = [c \in Ids |-> IF c \in Inputs THEN c ELSE 0]
      /\ tree.parent = parent
      /\ tree.children = [p \in Nodes |-> IF p = Root /\ Windows > 1 THEN {}
                                          ELSE {c \in Inputs : parent[c] = p}]
      /\ tree.done = {c \in Inputs : parent[c] # NoParent}
  BY <1>2 DEF InputTree
<1>5. tree \in TreeType
  <2>1. tree.self \in [Ids -> Nodes]
    BY <1>1, <1>4 DEF Nodes, Root
  <2>2. tree.children \in [Nodes -> SUBSET Ids]
    BY <1>1, <1>4
  <2> QED BY <1>1, <1>2, <1>4, <2>1, <2>2 DEF TreeType, InputTree
<1>6. \A c \in Inputs : c < counter
  BY <1>1, <1>3
<1>7. Unused(tree, counter)
  <2>1. \A c \in Ids : tree.parent[c] # NoParent => tree.parent[c] < counter
    BY <1>1, <1>2, <1>3, <1>4, <1>6 DEF Root
  <2>2. \A p \in Nodes : tree.children[p] \subseteq Inputs
    BY <1>4
  <2> QED BY <1>4, <1>6, <2>1, <2>2 DEF Unused
<1>8. Agree(tree)
  <2> SUFFICES ASSUME NEW c \in Inputs, NEW p \in Inputs
               PROVE  c \in tree.children[p] <=> tree.parent[c] = p
    BY <1>4 DEF Agree
  <2>1. p \in Nodes /\ p # Root
    BY <1>1 DEF Nodes, Root
  <2> QED BY <1>4, <2>1
<1>9. OwnNumber(tree)
  BY <1>1, <1>4 DEF OwnNumber
<1> QED BY <1>1, <1>2, <1>3, <1>5, <1>6, <1>7, <1>8, <1>9 DEF IInv, TreeInv

\* An attempt to attach, even a failed one, sets numbers only.
LEMMA NumberedAgrees ==
  ASSUME NEW t, NEW n \in Nat, TreeInv(t, n), NEW cs
  PROVE  /\ TreeInv(Numbered(t, cs), n)
         /\ Numbered(t, cs).map = t.map
         /\ Numbered(t, cs).parent = t.parent
<1> DEFINE u == Numbered(t, cs)
<1>1. t \in TreeType /\ t.self \in [Ids -> Nodes]
  BY DEF TreeInv, TreeType
<1>2. /\ u.map = t.map /\ u.parent = t.parent /\ u.children = t.children /\ u.done = t.done
      /\ u.self = [x \in Ids |-> IF x \in cs THEN x ELSE t.self[x]]
      /\ u = [t EXCEPT !.self = [x \in Ids |-> IF x \in cs THEN x ELSE t.self[x]]]
  BY <1>1 DEF Numbered, TreeType
<1>3. u.self \in [Ids -> Nodes]
  BY <1>1, <1>2 DEF Nodes
<1>4. u \in TreeType
  BY <1>1, <1>2, <1>3 DEF TreeType
<1>5. Unused(u, n) /\ Agree(u)
  BY <1>2 DEF TreeInv, Unused, Agree
<1>6. OwnNumber(u)
  BY <1>1, <1>2 DEF TreeInv, OwnNumber
<1> QED BY <1>2, <1>4, <1>5, <1>6 DEF TreeInv

\* What a SETPARENT or SETCHILD that goes through attaches, and that it may.
LEMMA SetRelationAttaches ==
  ASSUME NEW c \in tree.map, NEW r \in Rules, NEW m \in SUBSET Targets(c, r),
         SetRelation(c, r, m)
  PROVE  \/ \E cs : tree' = Numbered(tree, cs)
         \/ \E cs : \E k \in tree.map : \E p :
              /\ Found(tree, p)
              /\ MayAttach(tree, p, k, r)
              /\ tree' = Attach(Numbered(tree, cs), p, {k})
<1> DEFINE s == Scan(c, r)
           tried == Tried(s, r, m)
           seen(I) == IF I = {} THEN {} ELSE {c} \cup {s[i] : i \in I}
<1>1. CASE tree' = Numbered(tree, seen(tried))
  BY <1>1
<1>2. CASE \E i \in tried :
             /\ MayAttach(tree, ParentOf(r, c, s[i]), ChildOf(r, c, s[i]), r)
             /\ tree' = Attach(Numbered(tree, seen({j \in tried : j <= i})),
                               ParentOf(r, c, s[i]), {ChildOf(r, c, s[i])})
  <2>1. PICK i \in tried :
             /\ MayAttach(tree, ParentOf(r, c, s[i]), ChildOf(r, c, s[i]), r)
             /\ tree' = Attach(Numbered(tree, seen({j \in tried : j <= i})),
                               ParentOf(r, c, s[i]), {ChildOf(r, c, s[i])})
    BY <1>2
  <2>2. s[i] \in m
    BY DEF Tried
  <2>3. s[i] \in tree.map \/ (r.makes = "parent" /\ s[i] = Root)
    BY <2>2 DEF Targets
  <2> HIDE DEF s, tried, seen
  <2>4. Found(tree, ParentOf(r, c, s[i])) /\ ChildOf(r, c, s[i]) \in tree.map
    BY <2>3 DEF ParentOf, ChildOf, Found
  <2> QED BY <2>1, <2>4
<1> HIDE DEF s, tried, seen
<1> QED BY <1>1, <1>2 DEF SetRelation, s, tried, seen

\* No rule changes what the input says.
LEMMA TagsStay == [Next]_vars => tag' = tag
<1>1. UNCHANGED vars => tag' = tag
  BY DEF vars
<1>2. \A c, r, m : SetRelation(c, r, m) => tag' = tag
  BY DEF SetRelation
<1>3. \A c, k : AddCohort(c, k) => tag' = tag
  BY DEF AddCohort
<1>4. \A c : RemCohort(c) => tag' = tag
  BY DEF RemCohort, Crash
<1>5. \A c, r : SplitCohort(c, r) => tag' = tag
  BY DEF SplitCohort, Crash
<1>6. \A c, d : MergeCohorts(c, d) => tag' = tag
  BY DEF MergeCohorts, Crash
<1>7. \A c : ReadTags(c) => tag' = tag
  BY DEF ReadTags
<1>8. NextWindow => tag' = tag
  BY DEF NextWindow
<1> QED BY <1>1, <1>2, <1>3, <1>4, <1>5, <1>6, <1>7, <1>8 DEF Next

\* Without unresolved tags every step keeps the invariant.
LEMMA StepIInv ==
  ASSUME IInv, [Next]_vars
  PROVE  IInv'
<1>1. CASE UNCHANGED vars
  BY <1>1 DEF IInv, vars
<1>2. ASSUME NEW c \in Here, NEW r \in Rules, NEW m \in SUBSET Targets(c, r), SetRelation(c, r, m)
      PROVE  IInv'
  <2>1. TreeInv(tree', counter)
    <3>1. CASE \E cs : tree' = Numbered(tree, cs)
      BY <3>1, NumberedAgrees DEF IInv
    <3>2. CASE \E cs : \E k \in tree.map : \E p :
              Found(tree, p) /\ tree' = Attach(Numbered(tree, cs), p, {k})
      <4>0. PICK cs, p : \E k \in tree.map : Found(tree, p) /\ tree' = Attach(Numbered(tree, cs), p, {k})
        BY <3>2
      <4>1. PICK k \in tree.map : Found(tree, p) /\ tree' = Attach(Numbered(tree, cs), p, {k})
        BY <4>0
      <4>2. TreeInv(Numbered(tree, cs), counter) /\ Numbered(tree, cs).map = tree.map /\ counter \in Nat
        BY NumberedAgrees DEF IInv
      <4>3. Found(Numbered(tree, cs), p) /\ {k} \in SUBSET Numbered(tree, cs).map
        BY <4>1, <4>2 DEF Found
      <4> QED BY <4>1, <4>2, <4>3, AttachAgrees
    <3>3. c \in tree.map
      BY DEF Here
    <3> QED BY <1>2, <3>1, <3>2, <3>3, SetRelationAttaches
  <2> QED BY <1>2, <2>1 DEF IInv, SetRelation
<1>3. ASSUME NEW c \in Here, NEW k \in {0, 1}, AddCohort(c, k)
      PROVE  IInv'
  <2>1. TreeInv(tree', counter + 1)
    <3>1. counter \in Ids /\ {counter} \in SUBSET Ids /\ counter <= counter + 1 /\ counter < counter + 1
          /\ counter + 1 \in Nat
      <4>1. counter > 0
        BY DEF IInv, TreeInv, Unused, TreeType, Here, Ids
      <4> QED BY <1>3, <4>1, SizeAssumption DEF AddCohort, Ids, IInv
    <3>2. TreeInv(Fresh(tree, {counter}), counter + 1)
      BY <3>1, FreshAgrees DEF IInv
    <3> QED BY <1>3, <3>2 DEF AddCohort, Insert
  <2> QED BY <1>3, <2>1 DEF IInv, AddCohort, Ids
<1>4. ASSUME NEW c \in Here, RemCohort(c)
      PROVE  IInv'
  <2>1. CASE RemovalFindsAll(tree, c) /\ tree' = Removed(tree, c) /\ UNCHANGED <<tag, lastRoot, counter>>
    <3>1. TreeInv(tree', counter)
      BY <2>1, RemovedAgrees DEF IInv, Here
    <3> QED BY <2>1, <3>1 DEF IInv
  <2>2. CASE Crash
    BY <2>2 DEF IInv, Crash
  <2> QED BY <1>4, <2>1, <2>2 DEF RemCohort
<1>5. ASSUME NEW c \in Here, NEW r \in Recipes, SplitCohort(c, r)
      PROVE  IInv'
  <2>1. CASE /\ tree.children[c] \subseteq tree.map /\ counter + Len(r.link) - 1 <= MaxId
             /\ tree' = Split(tree, c, r, counter) /\ counter' = counter + Len(r.link)
             /\ UNCHANGED <<tag, lastRoot>>
    <3>0. Len(r.link) \in Nat \ {0}
      BY RecipesAssumption DEF RecipeType
    <3>1. counter \in Ids /\ c \in tree.map
      <4>1. counter > 0
        BY DEF IInv, TreeInv, Unused, TreeType, Here, Ids
      <4> QED BY <2>1, <3>0, <4>1, SizeAssumption DEF Ids, IInv, Here
    <3>2. PICK u : /\ Split(tree, c, r, counter) = Erase(u, c)
                   /\ TreeInv(u, counter + Len(r.link))
                   /\ u.map = tree.map \cup NewIds(r, counter)
      BY <2>1, <3>1, SplitParents DEF IInv
    <3>3. counter' \in Nat /\ counter < counter'
      BY <2>1, <3>0 DEF IInv
    <3>4. TreeInv(tree', counter')
      BY <2>1, <3>1, <3>2, <3>3, EraseAgrees
    <3> QED BY <2>1, <3>3, <3>4 DEF IInv, Ids
  <2>2. CASE Crash
    BY <2>2 DEF IInv, Crash
  <2> QED BY <1>5, <2>1, <2>2 DEF SplitCohort
<1>6. ASSUME NEW c \in Here, NEW d \in Here, MergeCohorts(c, d)
      PROVE  IInv'
  <2> DEFINE one  == IF Place(c) < Place(d) THEN c ELSE d
             two  == IF Place(c) < Place(d) THEN d ELSE c
             new  == Insert(tree, counter)
             rest == Removed(new, one)
  <2>1. CASE Crash
    BY <2>1 DEF IInv, Crash
  <2>2. CASE /\ RemovalFindsAll(new, one) /\ RemovalFindsAll(rest, two)
             /\ tree' = Removed(rest, two) /\ counter' = counter + 1
             /\ UNCHANGED <<tag, lastRoot>>
    <3>1. /\ c \in tree.map /\ d \in tree.map /\ c # d
          /\ one \in tree.map /\ two \in tree.map /\ one # two
      BY <1>6 DEF MergeCohorts, Here
    <3>2. counter \in Ids /\ {counter} \in SUBSET Ids /\ counter <= counter + 1 /\ counter < counter + 1
          /\ counter + 1 \in Nat
      <4>1. counter > 0
        BY DEF IInv, TreeInv, Unused, TreeType, Here, Ids
      <4> QED BY <1>6, <4>1, SizeAssumption DEF MergeCohorts, Ids, IInv
    <3>3. TreeInv(new, counter + 1) /\ new.map = tree.map \cup {counter}
      <4>1. TreeInv(Fresh(tree, {counter}), counter + 1)
        BY <3>2, FreshAgrees DEF IInv
      <4> QED BY <4>1 DEF Insert, Fresh
    <3> HIDE DEF new, one, two
    <3>4. TreeInv(rest, counter + 1)
      BY <2>2, <3>1, <3>2, <3>3, RemovedAgrees
    <3>5. two \in rest.map
      <4>1. new \in TreeType /\ one \in new.map
        BY <3>1, <3>3 DEF TreeInv
      <4>2. rest.map = new.map \ {one}
        BY <2>2, <4>1, RemovedMap
      <4> QED BY <3>1, <3>3, <4>2
    <3> HIDE DEF rest
    <3>6. TreeInv(tree', counter')
      BY <2>2, <3>2, <3>4, <3>5, RemovedAgrees
    <3> QED BY <2>2, <3>2, <3>6 DEF IInv, Ids
  <2> QED BY <1>6, <2>1, <2>2 DEF MergeCohorts
<1>7. ASSUME NEW c \in Here, ReadTags(c)
      PROVE  IInv'
  BY <1>7 DEF ReadTags, IInv, Here, TreeInv, TreeType
<1>8. CASE NextWindow
  <2> DEFINE gone == UNION {ToSet(cohorts[w]) : w \in {w \in 1..Windows : w + NumWindows <= current}}
             root == IF current + 1 = Windows THEN lastRoot ELSE {}
  <2>1. tree' = [tree EXCEPT !.map = @ \ gone, !.children[Root] = root] /\ UNCHANGED <<tag, lastRoot, counter>>
    BY <1>8 DEF NextWindow
  <2>2. root \in SUBSET Ids /\ \A c \in root : c < counter
    BY DEF IInv
  <2> HIDE DEF gone, root
  <2>3. tree \in TreeType
    BY DEF IInv, TreeInv
  <2>4. /\ tree'.map = tree.map \ gone /\ tree'.parent = tree.parent /\ tree'.self = tree.self
        /\ tree'.done = tree.done /\ tree'.children = [tree.children EXCEPT ![Root] = root]
    BY <2>1, <2>3 DEF TreeType
  <2>5. tree' \in TreeType
    BY <2>1, <2>2, <2>3 DEF TreeType
  <2>6. Unused(tree', counter)
    BY <2>2, <2>3, <2>4 DEF IInv, TreeInv, Unused, TreeType
  <2>7. Agree(tree')
    <3> SUFFICES ASSUME NEW c \in tree.map \ gone, NEW p \in tree.map \ gone
                 PROVE  c \in tree'.children[p] <=> tree'.parent[c] = p
      BY <2>4 DEF Agree
    <3>1. p # Root /\ p \in Nodes
      BY <2>3 DEF TreeType, Root, Ids, Nodes
    <3> QED BY <2>3, <2>4, <3>1 DEF IInv, TreeInv, Agree, TreeType
  <2>8. OwnNumber(tree')
    BY <2>4 DEF IInv, TreeInv, OwnNumber
  <2> QED BY <2>1, <2>5, <2>6, <2>7, <2>8 DEF IInv, TreeInv
<1> QED BY <1>1, <1>2, <1>3, <1>4, <1>5, <1>6, <1>7, <1>8 DEF Next

\* The two records of the tree agree in every state of every run, with
\* --dep-allow-loops and ALLOWLOOP too: attachParentChild, rem_cohort and
\* SPLITCOHORT always change both. The input's attachments were all resolved.
THEOREM RecordsAgree ==
  Spec => []ChildrenAgree
<1>1. Init => (Resolved => IInv)
  BY InitIInv
<1>2. (Resolved => IInv) /\ [Next]_vars => (Resolved => IInv)'
  BY StepIInv, TagsStay DEF Resolved
<1>3. (Resolved => IInv) => ChildrenAgree
  BY DEF IInv, TreeInv, Agree, ChildrenAgree
<1> QED BY <1>1, <1>2, <1>3, PTL DEF Spec

\* Without ALLOWLOOP and --dep-allow-loops no step closes a circle.
LEMMA StepNoLoop ==
  ASSUME BlockLoops, \A r \in Rules : ~ r.allowloop,
         IInv, NoLoop(tree), [Next]_vars
  PROVE  NoLoop(tree')
<1>0. tree \in TreeType /\ counter \in Nat /\ TreeInv(tree, counter) /\ tree.map \in SUBSET Ids
  BY DEF IInv, TreeInv, TreeType
<1>00. Here \subseteq tree.map /\ \A c \in Here : c < counter /\ counter > 0
  BY <1>0, SizeAssumption DEF Here, TreeInv, Unused, Ids
<1>1. CASE UNCHANGED vars
  BY <1>1 DEF vars
<1>2. ASSUME NEW c \in Here, NEW r \in Rules, NEW m \in SUBSET Targets(c, r), SetRelation(c, r, m)
      PROVE  NoLoop(tree')
  <2>1. CASE \E cs : tree' = Numbered(tree, cs)
    <3>1. PICK cs : tree' = Numbered(tree, cs)
      BY <2>1
    <3>2. tree'.map = tree.map /\ tree'.parent = tree.parent
      BY <1>0, <3>1, NumberedAgrees
    <3> QED BY <3>2 DEF NoLoop
  <2>2. CASE \E cs : \E k \in tree.map : \E p :
              /\ Found(tree, p)
              /\ MayAttach(tree, p, k, r)
              /\ tree' = Attach(Numbered(tree, cs), p, {k})
    <3>1. PICK cs, p : \E k \in tree.map :
              /\ Found(tree, p) /\ MayAttach(tree, p, k, r)
              /\ tree' = Attach(Numbered(tree, cs), p, {k})
      BY <2>2
    <3>2. PICK k \in tree.map :
              /\ Found(tree, p) /\ MayAttach(tree, p, k, r)
              /\ tree' = Attach(Numbered(tree, cs), p, {k})
      BY <3>1
    <3> DEFINE t == Numbered(tree, cs)
    <3>3. t.map = tree.map /\ t.parent = tree.parent /\ t \in TreeType
      BY <1>0, NumberedAgrees DEF TreeInv
    <3> HIDE DEF t
    <3>4. ~ WouldParentChildLoop(tree, p, k)
      BY <3>2 DEF MayAttach
    <3>5. Above(t, p) = Above(tree, p)
      BY <3>3 DEF Above, UpClosed
    <3>6. ~ WouldParentChildLoop(t, p, k)
      BY <3>3, <3>4, <3>5 DEF WouldParentChildLoop
    <3>7. NoLoop(t) /\ Found(t, p) /\ k \in t.map
      BY <3>2, <3>3 DEF NoLoop, Found
    <3>8. NoLoop(Attach(t, p, {k}))
      BY <3>3, <3>6, <3>7, AttachMakesNoLoop
    <3> QED BY <3>2, <3>8 DEF t
  <2> QED BY <1>00, <1>2, <2>1, <2>2, SetRelationAttaches
<1>3. ASSUME NEW c \in Here, NEW k \in {0, 1}, AddCohort(c, k)
      PROVE  NoLoop(tree')
  <2>1. counter \in Ids
    BY <1>0, <1>00, <1>3, SizeAssumption DEF AddCohort, Ids
  <2> QED BY <1>0, <1>3, <2>1, InsertMakesNoLoop DEF AddCohort
<1>4. ASSUME NEW c \in Here, RemCohort(c)
      PROVE  NoLoop(tree')
  <2>1. CASE RemovalFindsAll(tree, c) /\ tree' = Removed(tree, c)
    BY <1>0, <1>00, <2>1, RemovedMakesNoLoop
  <2>2. CASE Crash
    BY <2>2 DEF Crash
  <2> QED BY <1>4, <2>1, <2>2 DEF RemCohort
<1>5. ASSUME NEW c \in Here, NEW r \in Recipes, SplitCohort(c, r)
      PROVE  NoLoop(tree')
  <2>1. CASE /\ tree.children[c] \subseteq tree.map /\ counter + Len(r.link) - 1 <= MaxId
             /\ tree' = Split(tree, c, r, counter)
    <3>1. Len(r.link) \in Nat \ {0}
      BY RecipesAssumption DEF RecipeType
    <3>2. counter \in Ids
      BY <1>0, <1>00, <2>1, <3>1, SizeAssumption DEF Ids
    <3> QED BY <1>0, <1>00, <2>1, <3>2, SplitMakesNoLoop
  <2>2. CASE Crash
    BY <2>2 DEF Crash
  <2> QED BY <1>5, <2>1, <2>2 DEF SplitCohort
<1>6. ASSUME NEW c \in Here, NEW d \in Here, MergeCohorts(c, d)
      PROVE  NoLoop(tree')
  <2> DEFINE one  == IF Place(c) < Place(d) THEN c ELSE d
             two  == IF Place(c) < Place(d) THEN d ELSE c
             new  == Insert(tree, counter)
             rest == Removed(new, one)
  <2>1. CASE Crash
    BY <2>1 DEF Crash
  <2>2. CASE /\ RemovalFindsAll(new, one) /\ RemovalFindsAll(rest, two)
             /\ tree' = Removed(rest, two)
    <3>1. /\ c \in tree.map /\ d \in tree.map /\ c # d
          /\ one \in tree.map /\ two \in tree.map /\ one # two
      BY <1>00, <1>6 DEF MergeCohorts
    <3>2. counter \in Ids /\ {counter} \in SUBSET Ids /\ counter <= counter + 1 /\ counter < counter + 1
          /\ counter + 1 \in Nat
      BY <1>0, <1>00, <1>6, SizeAssumption DEF MergeCohorts, Ids
    <3>3. TreeInv(new, counter + 1) /\ new.map = tree.map \cup {counter}
      <4>1. TreeInv(Fresh(tree, {counter}), counter + 1)
        BY <1>0, <3>2, FreshAgrees
      <4> QED BY <4>1 DEF Insert, Fresh
    <3>4. NoLoop(new)
      BY <1>0, <3>2, InsertMakesNoLoop
    <3> HIDE DEF new, one, two
    <3>5. TreeInv(rest, counter + 1) /\ NoLoop(rest)
      BY <2>2, <3>1, <3>2, <3>3, <3>4, RemovedAgrees, RemovedMakesNoLoop
    <3>6. two \in rest.map
      <4>1. new \in TreeType /\ one \in new.map
        BY <3>1, <3>3 DEF TreeInv
      <4>2. rest.map = new.map \ {one}
        BY <2>2, <4>1, RemovedMap
      <4> QED BY <3>1, <3>3, <4>2
    <3> HIDE DEF rest
    <3> QED BY <2>2, <3>2, <3>5, <3>6, RemovedMakesNoLoop
  <2> QED BY <1>6, <2>1, <2>2 DEF MergeCohorts
<1>7. ASSUME NEW c \in Here, ReadTags(c)
      PROVE  NoLoop(tree')
  BY <1>0, <1>00, <1>7 DEF ReadTags, IInv
<1>8. CASE NextWindow
  <2>1. tree'.map \subseteq tree.map /\ tree'.parent = tree.parent
    BY <1>0, <1>8 DEF NextWindow, TreeType
  <2> QED BY <2>1 DEF NoLoop
<1> QED BY <1>1, <1>2, <1>3, <1>4, <1>5, <1>6, <1>7, <1>8 DEF Next

\* The tree never gets a loop from SETPARENT, SETCHILD, ADDCOHORT, REMCOHORT,
\* SPLITCOHORT and MERGECOHORTS, however they follow each other, unless a rule
\* or the command line allows loops.
THEOREM TreeHasNoLoops ==
  ASSUME BlockLoops, \A r \in Rules : ~ r.allowloop
  PROVE  Spec => []NoLoops
<1>1. Init => (Resolved => IInv) /\ NoLoops
  BY InitIInv DEF Init, NoLoops
<1>2. (Resolved => IInv) /\ NoLoops /\ [Next]_vars => ((Resolved => IInv) /\ NoLoops)'
  BY StepIInv, StepNoLoop, TagsStay DEF NoLoops, Resolved
<1> QED BY <1>1, <1>2, PTL DEF Spec

-----------------------------------------------------------------------------
(* Windows, cohort_map, and who is above whom.                             *)

\* No cohort is in the line l twice.
Apart(l) == \A i, j \in DOMAIN l : l[i] = l[j] => i = j

\* Line l with other cohorts in the place of the i-th.
Spliced(l, i, new) == SubSeq(l, 1, i - 1) \o new \o SubSeq(l, i + 1, Len(l))

\* The lines co of the windows hold the cohorts of S, and those that wd says.
Lines(co, wd, S) ==
    /\ co \in [1..Windows -> Seq(Ids)]
    /\ S = UNION {ToSet(co[w]) : w \in 1..Windows}
    /\ \A w \in 1..Windows : Apart(co[w]) /\ \A i \in DOMAIN co[w] : wd[co[w][i]] = w

-----------------------------------------------------------------------------
(* Lines of cohorts.                                                       *)

\* Cohorts are numbered through the windows of the input.
LEMMA Quotient ==
  ASSUME NEW K \in Nat \ {0}, NEW q \in Nat, NEW r \in 0..(K - 1)
  PROVE  (q * K + r) \div K = q /\ (q * K + r) % K = r
<1> DEFINE x == q * K + r  d == x \div K  m == x % K
<1>1. x \in Nat
  OBVIOUS
<1>2. d \in Int /\ m \in 0..(K - 1) /\ x = K * d + m
  BY <1>1
<1>3. K * d + m = K * q + r
  BY <1>2
<1> HIDE DEF d, m, x
<1>4. ASSUME d > q PROVE FALSE
  <2> DEFINE y == K * d  z == K * q
  <2>1. K * d >= K * (q + 1) /\ K * (q + 1) = K * q + K /\ K * d \in Int /\ K * q \in Int
    BY <1>2, <1>4
  <2>2. K * d >= K * q + K
    BY <2>1
  <2>3. y \in Int /\ z \in Int /\ y >= z + K
    BY <2>1, <2>2
  <2>4. y + m = z + r /\ m >= 0 /\ m \in Int
    BY <1>2, <1>3
  <2> HIDE DEF y, z
  <2> QED BY <2>3, <2>4
<1>5. ASSUME d < q PROVE FALSE
  <2>1. K * q >= K * (d + 1)
    BY <1>2, <1>5
  <2> QED BY <1>2, <1>3, <2>1
<1>6. d = q
  BY <1>2, <1>4, <1>5
<1>7. m = r
  BY <1>2, <1>3, <1>6
<1> QED BY <1>6, <1>7 DEF d, m, x

\* A part of a line.
LEMMA PartFacts ==
  ASSUME NEW l \in Seq(Ids), Apart(l), NEW a \in Nat, NEW b \in Nat,
         1 <= a, b <= Len(l)
  PROVE  /\ SubSeq(l, a, b) \in Seq(Ids)
         /\ Apart(SubSeq(l, a, b))
         /\ ToSet(SubSeq(l, a, b)) = {l[i] : i \in a..b}
<1> DEFINE s == SubSeq(l, a, b)
<1>1. /\ s \in Seq(Ids) /\ DOMAIN s = 1..(IF a <= b THEN b - a + 1 ELSE 0)
      /\ \A i \in 1..(b - a + 1) : s[i] = l[a + i - 1]
  <2>1. \A i \in a..b : l[i] \in Ids
    OBVIOUS
  <2>2. CASE a <= b
    BY <2>1, <2>2
  <2>3. CASE ~ (a <= b)
    BY <2>1, <2>3
  <2> QED BY <2>2, <2>3
<1>2. DOMAIN l = 1..Len(l) /\ Len(l) \in Nat
  OBVIOUS
<1> HIDE DEF s
<1>3. Apart(s)
  <2> SUFFICES ASSUME NEW i \in DOMAIN s, NEW j \in DOMAIN s, s[i] = s[j] PROVE i = j
    BY DEF Apart
  <2>1. i \in 1..(b - a + 1) /\ j \in 1..(b - a + 1)
    BY <1>1
  <2>2. a + i - 1 \in DOMAIN l /\ a + j - 1 \in DOMAIN l
    BY <1>2, <2>1
  <2>4. l[a + i - 1] = l[a + j - 1]
    BY <1>1, <2>1
  <2>3. a + i - 1 = a + j - 1
    BY <2>2, <2>4 DEF Apart
  <2> QED BY <2>1, <2>3
<1>4. ToSet(s) = {l[i] : i \in a..b}
  <2>1. ASSUME NEW x \in ToSet(s) PROVE x \in {l[i] : i \in a..b}
    <3>1. PICK i \in DOMAIN s : s[i] = x
      BY DEF ToSet
    <3>2. i \in 1..(b - a + 1)
      BY <1>1
    <3> QED BY <1>1, <3>1, <3>2
  <2>2. ASSUME NEW i \in a..b PROVE l[i] \in ToSet(s)
    <3>1. i - a + 1 \in DOMAIN s /\ i - a + 1 \in 1..(b - a + 1) /\ a + (i - a + 1) - 1 = i
      BY <1>1
    <3>2. s[i - a + 1] = l[i]
      BY <1>1, <3>1
    <3> QED BY <3>1, <3>2 DEF ToSet
  <2> QED BY <2>1, <2>2
<1> QED BY <1>1, <1>3, <1>4 DEF s

\* A line after another one.
LEMMA JoinFacts ==
  ASSUME NEW x \in Seq(Ids), NEW y \in Seq(Ids), Apart(x), Apart(y),
         ToSet(x) \cap ToSet(y) = {}
  PROVE  /\ x \o y \in Seq(Ids)
         /\ Apart(x \o y)
         /\ ToSet(x \o y) = ToSet(x) \cup ToSet(y)
<1> DEFINE s == x \o y
<1>1. /\ s \in Seq(Ids) /\ DOMAIN s = 1..(Len(x) + Len(y))
      /\ \A i \in 1..Len(x) : s[i] = x[i]
      /\ \A i \in 1..Len(y) : s[Len(x) + i] = y[i]
      /\ Len(x) \in Nat /\ Len(y) \in Nat
      /\ DOMAIN x = 1..Len(x) /\ DOMAIN y = 1..Len(y)
  OBVIOUS
<1> HIDE DEF s
<1>2. \A i \in DOMAIN s : \/ i \in 1..Len(x) /\ s[i] = x[i]
                          \/ /\ i - Len(x) \in 1..Len(y) /\ s[i] = y[i - Len(x)]
                             /\ i \notin 1..Len(x)
  <2> SUFFICES ASSUME NEW i \in DOMAIN s, i \notin 1..Len(x)
               PROVE  i - Len(x) \in 1..Len(y) /\ s[i] = y[i - Len(x)]
    BY <1>1
  <2>1. i - Len(x) \in 1..Len(y) /\ Len(x) + (i - Len(x)) = i
    BY <1>1
  <2> QED BY <1>1, <2>1
<1>3. \A i \in 1..Len(x) : x[i] \in ToSet(x)
  BY <1>1 DEF ToSet
<1>4. \A i \in 1..Len(y) : y[i] \in ToSet(y)
  BY <1>1 DEF ToSet
<1>5. Apart(s)
  <2> SUFFICES ASSUME NEW i \in DOMAIN s, NEW j \in DOMAIN s, s[i] = s[j] PROVE i = j
    BY DEF Apart
  <2>1. CASE i \in 1..Len(x) /\ j \in 1..Len(x)
    BY <1>1, <2>1 DEF Apart
  <2>2. CASE i \in 1..Len(x) /\ j \notin 1..Len(x)
    BY <1>2, <1>3, <1>4, <2>2
  <2>3. CASE i \notin 1..Len(x) /\ j \in 1..Len(x)
    BY <1>2, <1>3, <1>4, <2>3
  <2>4. CASE i \notin 1..Len(x) /\ j \notin 1..Len(x)
    <3>1. /\ i - Len(x) \in DOMAIN y /\ j - Len(x) \in DOMAIN y
          /\ y[i - Len(x)] = y[j - Len(x)]
      BY <1>1, <1>2, <2>4
    <3>2. i - Len(x) = j - Len(x)
      BY <3>1 DEF Apart
    <3> QED BY <1>1, <3>2
  <2> QED BY <2>1, <2>2, <2>3, <2>4
<1>6. ToSet(s) \subseteq ToSet(x) \cup ToSet(y)
  <2> SUFFICES ASSUME NEW i \in DOMAIN s PROVE s[i] \in ToSet(x) \cup ToSet(y)
    BY DEF ToSet
  <2> QED BY <1>2, <1>3, <1>4
<1>7. ToSet(x) \subseteq ToSet(s)
  <2> SUFFICES ASSUME NEW i \in DOMAIN x PROVE x[i] \in ToSet(s)
    BY DEF ToSet
  <2>1. i \in DOMAIN s /\ s[i] = x[i]
    BY <1>1
  <2> QED BY <2>1 DEF ToSet
<1>8. ToSet(y) \subseteq ToSet(s)
  <2> SUFFICES ASSUME NEW i \in DOMAIN y PROVE y[i] \in ToSet(s)
    BY DEF ToSet
  <2>1. Len(x) + i \in DOMAIN s /\ s[Len(x) + i] = y[i]
    BY <1>1
  <2> QED BY <2>1 DEF ToSet
<1> QED BY <1>1, <1>5, <1>6, <1>7, <1>8 DEF s

\* A new cohort is put into a line.
LEMMA InsertedLine ==
  ASSUME NEW l \in Seq(Ids), Apart(l), NEW i \in 1..(Len(l) + 1),
         NEW e \in Ids, e \notin ToSet(l)
  PROVE  /\ InsertAt(l, i, e) \in Seq(Ids)
         /\ Apart(InsertAt(l, i, e))
         /\ ToSet(InsertAt(l, i, e)) = ToSet(l) \cup {e}
<1>0. \A a, b \in Nat : 1 <= a /\ b <= Len(l) =>
         /\ SubSeq(l, a, b) \in Seq(Ids) /\ Apart(SubSeq(l, a, b))
         /\ ToSet(SubSeq(l, a, b)) = {l[j] : j \in a..b}
  BY PartFacts
<1> DEFINE x == SubSeq(l, 1, i - 1)  y == SubSeq(l, i, Len(l))  one == <<e>>
<1>1. Len(l) \in Nat /\ i \in Nat /\ i - 1 \in Nat /\ i - 1 <= Len(l) /\ DOMAIN l = 1..Len(l)
  OBVIOUS
<1>2. ToSet(l) = {l[j] : j \in 1..Len(l)}
  BY <1>1 DEF ToSet
<1>3. x \in Seq(Ids) /\ Apart(x) /\ ToSet(x) = {l[j] : j \in 1..(i - 1)}
  BY ONLY <1>0, <1>1
<1>4. y \in Seq(Ids) /\ Apart(y) /\ ToSet(y) = {l[j] : j \in i..Len(l)}
  BY ONLY <1>0, <1>1
<1>5. one \in Seq(Ids) /\ Apart(one) /\ ToSet(one) = {e}
  <2>1. one \in Seq(Ids) /\ DOMAIN one = {1} /\ one[1] = e
    OBVIOUS
  <2> QED BY <2>1 DEF Apart, ToSet
<1>6. InsertAt(l, i, e) = (x \o one) \o y
  BY DEF InsertAt
<1>7. ToSet(x) \subseteq ToSet(l) /\ ToSet(y) \subseteq ToSet(l) /\ ToSet(l) = ToSet(x) \cup ToSet(y)
  BY <1>1, <1>2, <1>3, <1>4
<1>8. ToSet(x) \cap ToSet(y) = {}
  <2> SUFFICES ASSUME NEW j \in 1..(i - 1), NEW k \in i..Len(l), l[j] = l[k] PROVE FALSE
    BY <1>3, <1>4
  <2> QED BY <1>1 DEF Apart
<1> HIDE DEF x, y, one
<1>9. x \o one \in Seq(Ids) /\ Apart(x \o one) /\ ToSet(x \o one) = ToSet(x) \cup {e}
  BY <1>3, <1>5, <1>7, JoinFacts
<1>10. ToSet(x \o one) \cap ToSet(y) = {}
  BY <1>7, <1>8, <1>9
<1>11. /\ (x \o one) \o y \in Seq(Ids) /\ Apart((x \o one) \o y)
       /\ ToSet((x \o one) \o y) = ToSet(x) \cup {e} \cup ToSet(y)
  BY <1>4, <1>9, <1>10, JoinFacts
<1>12. ToSet((x \o one) \o y) = ToSet(l) \cup {e}
  BY <1>7, <1>11
<1> QED BY <1>6, <1>11, <1>12

\* A cohort is taken out of a line.
LEMMA RemovedLine ==
  ASSUME NEW l \in Seq(Ids), Apart(l), NEW i \in 1..Len(l)
  PROVE  /\ RemoveAt(l, i) \in Seq(Ids)
         /\ Apart(RemoveAt(l, i))
         /\ ToSet(RemoveAt(l, i)) = ToSet(l) \ {l[i]}
<1>0. \A a, b \in Nat : 1 <= a /\ b <= Len(l) =>
         /\ SubSeq(l, a, b) \in Seq(Ids) /\ Apart(SubSeq(l, a, b))
         /\ ToSet(SubSeq(l, a, b)) = {l[j] : j \in a..b}
  BY PartFacts
<1> DEFINE x == SubSeq(l, 1, i - 1)  y == SubSeq(l, i + 1, Len(l))
<1>1. Len(l) \in Nat /\ i \in Nat /\ i - 1 \in Nat /\ i - 1 <= Len(l) /\ i + 1 \in Nat /\ DOMAIN l = 1..Len(l)
  OBVIOUS
<1>2. ToSet(l) = {l[j] : j \in 1..Len(l)}
  BY <1>1 DEF ToSet
<1>3. x \in Seq(Ids) /\ Apart(x) /\ ToSet(x) = {l[j] : j \in 1..(i - 1)}
  BY ONLY <1>0, <1>1
<1>4. y \in Seq(Ids) /\ Apart(y) /\ ToSet(y) = {l[j] : j \in (i + 1)..Len(l)}
  BY ONLY <1>0, <1>1
<1>5. RemoveAt(l, i) = x \o y
  BY DEF RemoveAt
<1>6. \A j, k \in 1..Len(l) : l[j] = l[k] => j = k
  BY <1>1 DEF Apart
<1>7. ToSet(x) \cap ToSet(y) = {}
  BY <1>1, <1>3, <1>4, <1>6
<1>8. ToSet(x) \cup ToSet(y) = ToSet(l) \ {l[i]}
  <2>1. ASSUME NEW j \in 1..Len(l), j # i PROVE l[j] \in ToSet(x) \cup ToSet(y)
    BY <1>1, <1>3, <1>4, <2>1
  <2>2. ASSUME NEW j \in (1..(i - 1)) \cup ((i + 1)..Len(l))
        PROVE  l[j] \in ToSet(l) \ {l[i]}
    BY <1>1, <1>2, <1>6
  <2> QED BY <1>2, <1>3, <1>4, <2>1, <2>2
<1> HIDE DEF x, y
<1>9. /\ x \o y \in Seq(Ids) /\ Apart(x \o y)
      /\ ToSet(x \o y) = ToSet(x) \cup ToSet(y)
  BY <1>3, <1>4, <1>7, JoinFacts
<1> QED BY <1>5, <1>8, <1>9

\* A new cohort takes the place of another one.
LEMMA ReplacedLine ==
  ASSUME NEW l \in Seq(Ids), Apart(l), NEW i \in 1..Len(l),
         NEW e \in Ids, e \notin ToSet(l)
  PROVE  /\ ReplaceAt(l, i, e) \in Seq(Ids) /\ Len(ReplaceAt(l, i, e)) = Len(l)
         /\ Apart(ReplaceAt(l, i, e))
         /\ ToSet(ReplaceAt(l, i, e)) = (ToSet(l) \ {l[i]}) \cup {e}
         /\ \A j \in 1..Len(l) : j # i => ReplaceAt(l, i, e)[j] = l[j]
<1> DEFINE s == ReplaceAt(l, i, e)
<1>1. Len(l) \in Nat /\ DOMAIN l = 1..Len(l) /\ i \in DOMAIN l
  OBVIOUS
<1>2. s = [l EXCEPT ![i] = e]
  BY DEF ReplaceAt
<1>3. s \in Seq(Ids) /\ DOMAIN s = 1..Len(l)
  BY <1>1, <1>2
<1>4. Len(s) = Len(l)
  BY ONLY <1>1, <1>3
<1>5. s[i] = e /\ \A j \in 1..Len(l) : j # i => s[j] = l[j]
  BY <1>1, <1>2
<1>6. \A j \in 1..Len(l) : l[j] # e
  BY <1>1 DEF ToSet
<1> HIDE DEF s
<1>7. Apart(s)
  BY <1>1, <1>3, <1>5, <1>6 DEF Apart
<1>8. ToSet(s) = (ToSet(l) \ {l[i]}) \cup {e}
  <2>1. ASSUME NEW j \in 1..Len(l) PROVE s[j] \in (ToSet(l) \ {l[i]}) \cup {e}
    <3>1. CASE j = i
      BY <1>5, <3>1
    <3>2. CASE j # i
      BY <1>1, <1>5, <3>2 DEF ToSet, Apart
    <3> QED BY <3>1, <3>2
  <2>2. ASSUME NEW j \in 1..Len(l), j # i PROVE l[j] \in ToSet(s)
    BY <1>3, <1>5, <2>2 DEF ToSet
  <2>3. e \in ToSet(s)
    BY <1>1, <1>3, <1>5 DEF ToSet
  <2> QED BY <1>1, <1>3, <2>1, <2>2, <2>3 DEF ToSet
<1> QED BY <1>3, <1>4, <1>5, <1>7, <1>8 DEF s

\* New cohorts take the place of a split one.
LEMMA SplicedLine ==
  ASSUME NEW l \in Seq(Ids), Apart(l), NEW i \in 1..Len(l),
         NEW new \in Seq(Ids), Apart(new), ToSet(l) \cap ToSet(new) = {}
  PROVE  /\ Spliced(l, i, new) \in Seq(Ids)
         /\ Apart(Spliced(l, i, new))
         /\ ToSet(Spliced(l, i, new)) = (ToSet(l) \ {l[i]}) \cup ToSet(new)
<1>0. \A a, b \in Nat : 1 <= a /\ b <= Len(l) =>
         /\ SubSeq(l, a, b) \in Seq(Ids) /\ Apart(SubSeq(l, a, b))
         /\ ToSet(SubSeq(l, a, b)) = {l[j] : j \in a..b}
  BY PartFacts
<1> DEFINE x == SubSeq(l, 1, i - 1)  y == SubSeq(l, i + 1, Len(l))
<1>5. l \in Seq(Ids) /\ Apart(l)
  OBVIOUS
<1>1. Len(l) \in Nat /\ i \in Nat /\ i - 1 \in Nat /\ i - 1 <= Len(l) /\ i + 1 \in Nat /\ DOMAIN l = 1..Len(l)
  OBVIOUS
<1>2. ToSet(l) = {l[j] : j \in 1..Len(l)}
  BY <1>1 DEF ToSet
<1>3. x \in Seq(Ids) /\ Apart(x) /\ ToSet(x) = {l[j] : j \in 1..(i - 1)}
  BY ONLY <1>0, <1>1
<1>4. y \in Seq(Ids) /\ Apart(y) /\ ToSet(y) = {l[j] : j \in (i + 1)..Len(l)}
  BY ONLY <1>0, <1>1
<1>6. \A j, m \in 1..Len(l) : l[j] = l[m] => j = m
  BY <1>1 DEF Apart
<1>7. ToSet(x) \cap ToSet(y) = {}
  BY <1>1, <1>3, <1>4, <1>6
<1>8. ToSet(x) \cup ToSet(y) = ToSet(l) \ {l[i]}
  <2>1. ASSUME NEW j \in 1..Len(l), j # i PROVE l[j] \in ToSet(x) \cup ToSet(y)
    BY <1>1, <1>3, <1>4, <2>1
  <2>2. ASSUME NEW j \in (1..(i - 1)) \cup ((i + 1)..Len(l))
        PROVE  l[j] \in ToSet(l) \ {l[i]}
    BY <1>1, <1>2, <1>6
  <2> QED BY <1>2, <1>3, <1>4, <2>1, <2>2
<1> HIDE DEF x, y
<1>10. x \o new \in Seq(Ids) /\ Apart(x \o new) /\ ToSet(x \o new) = ToSet(x) \cup ToSet(new)
  BY <1>3, <1>8, JoinFacts
<1>14. Spliced(l, i, new) = (x \o new) \o y
  BY DEF Spliced, x, y
<1>11. ToSet(x \o new) \cap ToSet(y) = {}
  BY <1>7, <1>8, <1>10
<1>12. /\ (x \o new) \o y \in Seq(Ids) /\ Apart((x \o new) \o y)
       /\ ToSet((x \o new) \o y) = ToSet(x) \cup ToSet(new) \cup ToSet(y)
  BY <1>4, <1>10, <1>11, JoinFacts
<1>13. ToSet((x \o new) \o y) = (ToSet(l) \ {l[i]}) \cup ToSet(new)
  BY <1>8, <1>12
<1> QED BY <1>12, <1>13, <1>14

\* The line of one window changes. Cohorts that the map loses were in it, and
\* cohorts that the map gets are in it.
LEMMA LineChanges ==
  ASSUME NEW co, NEW wd, NEW S, Lines(co, wd, S), NEW w \in 1..Windows,
         NEW l \in Seq(Ids), Apart(l),
         NEW wd2, \A x \in S : wd2[x] = wd[x], \A x \in ToSet(l) : wd2[x] = w
  PROVE  Lines([co EXCEPT ![w] = l], wd2, (S \ ToSet(co[w])) \cup ToSet(l))
<1> DEFINE new == [co EXCEPT ![w] = l]
           T == (S \ ToSet(co[w])) \cup ToSet(l)
<1>1. /\ co \in [1..Windows -> Seq(Ids)]
      /\ S = UNION {ToSet(co[v]) : v \in 1..Windows}
      /\ \A v \in 1..Windows : Apart(co[v]) /\ \A i \in DOMAIN co[v] : wd[co[v][i]] = v
  BY DEF Lines
<1>2. /\ new \in [1..Windows -> Seq(Ids)] /\ new[w] = l
      /\ \A v \in 1..Windows : v # w => new[v] = co[v]
  BY <1>1
<1> HIDE DEF new
<1>3. \A v \in 1..Windows : \A x \in ToSet(co[v]) : x \in S /\ wd[x] = v
  BY <1>1 DEF ToSet
<1>4. ASSUME NEW v \in 1..Windows
      PROVE  Apart(new[v]) /\ \A i \in DOMAIN new[v] : wd2[new[v][i]] = v
  <2>1. CASE v = w
    <3>1. \A i \in DOMAIN l : l[i] \in ToSet(l)
      BY DEF ToSet
    <3> QED BY <1>2, <2>1, <3>1
  <2>2. CASE v # w
    <3>1. \A i \in DOMAIN co[v] : co[v][i] \in ToSet(co[v])
      BY DEF ToSet
    <3> QED BY <1>1, <1>2, <1>3, <2>2, <3>1
  <2> QED BY <2>1, <2>2
<1>5. T = UNION {ToSet(new[v]) : v \in 1..Windows}
  <2>1. ASSUME NEW x \in T PROVE \E v \in 1..Windows : x \in ToSet(new[v])
    <3>1. CASE x \in ToSet(l)
      BY <1>2, <3>1
    <3>2. CASE x \notin ToSet(l)
      <4>1. PICK v \in 1..Windows : x \in ToSet(co[v])
        BY <1>1, <3>2
      <4> QED BY <1>2, <3>2, <4>1
    <3> QED BY <3>1, <3>2
  <2>2. ASSUME NEW v \in 1..Windows, NEW x \in ToSet(new[v]) PROVE x \in T
    <3>1. CASE v = w
      BY <1>2, <3>1
    <3>2. CASE v # w
      <4>1. x \in S /\ wd[x] = v /\ x \notin ToSet(co[w])
        BY <1>2, <1>3, <3>2
      <4> QED BY <4>1
    <3> QED BY <3>1, <3>2
  <2> HIDE DEF T
  <2> QED BY <2>1, <2>2
<1> QED BY <1>2, <1>4, <1>5 DEF Lines, new

\* A cohort of the current window has a place in its line.
LEMMA PlaceIsFound ==
  ASSUME NEW S, Lines(cohorts, window, S), NEW c \in S, window[c] = current,
         current \in 1..Windows
  PROVE  /\ Place(c) \in 1..Len(cohorts[current])
         /\ cohorts[current][Place(c)] = c
         /\ cohorts[current] \in Seq(Ids) /\ Apart(cohorts[current])
         /\ \A x \in ToSet(cohorts[current]) : x \in S /\ window[x] = current
<1>1. /\ cohorts \in [1..Windows -> Seq(Ids)]
      /\ S = UNION {ToSet(cohorts[v]) : v \in 1..Windows}
      /\ \A v \in 1..Windows : Apart(cohorts[v]) /\ \A i \in DOMAIN cohorts[v] : window[cohorts[v][i]] = v
  BY DEF Lines
<1>2. \A v \in 1..Windows : \A x \in ToSet(cohorts[v]) : x \in S /\ window[x] = v
  BY <1>1 DEF ToSet
<1>3. c \in ToSet(cohorts[current])
  BY <1>1, <1>2
<1>4. \E i \in DOMAIN cohorts[current] : cohorts[current][i] = c
  BY <1>3 DEF ToSet
<1>5. Place(c) = CHOOSE i \in DOMAIN cohorts[current] : cohorts[current][i] = c
  BY DEF Place
<1>6. Place(c) \in DOMAIN cohorts[current] /\ cohorts[current][Place(c)] = c
  BY <1>4, <1>5
<1>7. DOMAIN cohorts[current] = 1..Len(cohorts[current])
  BY <1>1
<1> QED BY <1>1, <1>2, <1>6, <1>7

-----------------------------------------------------------------------------
(* Lists of children.                                                      *)

\* A cohort that is listed as a child of another one says so itself, and is
\* marked CT_DEP_DONE. Number n and greater ones have not been given.
Listed(t, n) ==
    /\ t \in TreeType
    /\ \A c \in t.map : c < n
    /\ \A p \in Nodes : \A c \in t.children[p] : c < n
    /\ \A p \in t.map : \A c \in t.children[p] \cap t.map : t.parent[c] = p /\ c \in t.done

\* Attaching cohorts.
LEMMA AttachListed ==
  ASSUME NEW t, NEW n \in Nat, Listed(t, n),
         NEW p, Found(t, p), NEW cs \in SUBSET t.map
  PROVE  Listed(Attach(t, p, cs), n)
<1> DEFINE u == Attach(t, p, cs)
<1>1. /\ t.map \in SUBSET Ids /\ t.self \in [Ids -> Nodes]
      /\ t.parent \in [Ids -> Nodes \cup {NoParent}]
      /\ t.children \in [Nodes -> SUBSET Ids] /\ t.done \in SUBSET Ids
  BY DEF Listed, TreeType
<1>2. p \in Nodes /\ cs \subseteq Ids /\ p # NoParent
  BY <1>1, NoneAssumption, SizeAssumption DEF Found, Nodes, Root, Ids
<1>3. /\ u.map = t.map
      /\ u.self = [x \in Ids |-> IF x \in cs \cup {p} THEN x ELSE t.self[x]]
      /\ u.parent = [x \in Ids |-> IF x \in cs THEN p ELSE t.parent[x]]
      /\ u.children = [x \in Nodes |->
                     (t.children[x] \ {c \in cs : LosesChild(t, c) = x /\ Found(t, x)})
                     \cup (IF x = p THEN cs ELSE {})]
      /\ u.done = t.done \cup cs \cup ({p} \ {Root})
  BY DEF Attach
<1>4. u \in TreeType
  <2>1. u.self \in [Ids -> Nodes] /\ u.parent \in [Ids -> Nodes \cup {NoParent}]
    BY <1>1, <1>2, <1>3 DEF Nodes
  <2>2. u.children \in [Nodes -> SUBSET Ids]
    BY <1>1, <1>2, <1>3
  <2>3. u.done \in SUBSET Ids /\ u.map \in SUBSET Ids
    BY <1>1, <1>2, <1>3 DEF Nodes
  <2> QED BY <2>1, <2>2, <2>3 DEF Attach, TreeType
<1>5. \A x \in Nodes : \A c \in u.children[x] : c < n
  BY <1>3 DEF Listed
<1>6. ASSUME NEW x \in t.map, NEW c \in u.children[x] \cap t.map
      PROVE  u.parent[c] = x /\ c \in u.done
  <2>1. x \in Nodes /\ x # NoParent /\ Found(t, x) /\ c \in Ids
    BY <1>1, NoneAssumption, SizeAssumption DEF Nodes, Found, Ids
  <2>2. CASE c \in cs
    <3>1. c \in t.children[x] => t.parent[c] = x
      BY DEF Listed
    <3>2. x = p
      BY <1>3, <2>1, <2>2, <3>1 DEF LosesChild
    <3> QED BY <1>3, <2>1, <2>2, <3>2
  <2>3. CASE c \notin cs
    <3>1. c \in t.children[x]
      BY <1>3, <2>1, <2>3
    <3>2. t.parent[c] = x /\ c \in t.done
      BY <3>1 DEF Listed
    <3> QED BY <1>3, <2>1, <2>3, <3>2
  <2> QED BY <2>2, <2>3
<1> QED BY <1>3, <1>4, <1>5, <1>6 DEF Listed

\* Making cohorts.
LEMMA FreshListed ==
  ASSUME NEW t, NEW n \in Nat, Listed(t, n), NEW m \in Nat, n <= m,
         NEW s \in SUBSET Ids, \A x \in s : n <= x /\ x < m
  PROVE  Listed(Fresh(t, s), m)
<1> DEFINE u == Fresh(t, s)
<1>1. /\ t.map \in SUBSET Ids /\ t.self \in [Ids -> Nodes]
      /\ t.parent \in [Ids -> Nodes \cup {NoParent}]
      /\ t.children \in [Nodes -> SUBSET Ids] /\ t.done \in SUBSET Ids
  BY DEF Listed, TreeType
<1>2. /\ u.map = t.map \cup s
      /\ u.self = [x \in Ids |-> IF x \in s THEN 0 ELSE t.self[x]]
      /\ u.parent = [x \in Ids |-> IF x \in s THEN NoParent ELSE t.parent[x]]
      /\ u.children = [x \in Nodes |-> IF x \in s THEN {} ELSE t.children[x]]
      /\ u.done = t.done \ s
  BY DEF Fresh
<1>3. u \in TreeType
  <2>1. u.self \in [Ids -> Nodes] /\ u.parent \in [Ids -> Nodes \cup {NoParent}]
    BY <1>1, <1>2 DEF Nodes, Root
  <2>2. u.children \in [Nodes -> SUBSET Ids]
    BY <1>1, <1>2
  <2>3. u.map \in SUBSET Ids /\ u.done \in SUBSET Ids
    BY <1>1, <1>2
  <2> QED BY <2>1, <2>2, <2>3 DEF Fresh, TreeType
<1>4. \A x \in Ids : x \in Nat
  BY SizeAssumption DEF Ids
<1>5. \A x \in u.map : x < m
  BY <1>1, <1>2, <1>4 DEF Listed
<1>6. \A p \in Nodes : \A c \in u.children[p] : c < m
  <2> SUFFICES ASSUME NEW p \in Nodes, NEW d \in u.children[p] PROVE d < m
    OBVIOUS
  <2>1. d \in t.children[p] /\ d \in Nat /\ d < n
    BY <1>1, <1>2, <1>4 DEF Listed
  <2> QED BY <2>1
<1>7. ASSUME NEW x \in u.map, NEW c \in u.children[x] \cap u.map
      PROVE  u.parent[c] = x /\ c \in u.done
  <2>1. x \in Nodes /\ x \notin s /\ c \in t.children[x] /\ c \in Ids /\ x \in t.map
    BY <1>1, <1>2, <1>7 DEF Nodes
  <2>2. c \notin s
    BY <1>4, <2>1 DEF Listed
  <2>3. t.parent[c] = x /\ c \in t.done
    BY <1>2, <2>1, <2>2 DEF Listed
  <2> QED BY <1>2, <2>1, <2>2, <2>3
<1> QED BY <1>3, <1>5, <1>6, <1>7 DEF Listed

\* Taking a cohort out of the map.
LEMMA EraseListed ==
  ASSUME NEW t, NEW n \in Nat, Listed(t, n), NEW c \in t.map
  PROVE  Listed(Erase(t, c), n)
<1> DEFINE u == Erase(t, c)
<1>1. /\ t.map \in SUBSET Ids /\ t.self \in [Ids -> Nodes]
      /\ t.parent \in [Ids -> Nodes \cup {NoParent}]
      /\ t.children \in [Nodes -> SUBSET Ids] /\ t.done \in SUBSET Ids
  BY DEF Listed, TreeType
<1>2. /\ u.map = t.map \ {c}
      /\ u.self = [t.self EXCEPT ![c] = 0]
      /\ u.parent = [t.parent EXCEPT ![c] = NoParent]
      /\ u.children = [x \in Nodes |-> IF x = c THEN {}
                                   ELSE IF Found(t, x) THEN t.children[x] \ {t.self[c]}
                                   ELSE t.children[x]]
      /\ u.done = t.done \ {c}
  BY DEF Erase
<1>3. u \in TreeType
  <2>1. u.self \in [Ids -> Nodes] /\ u.parent \in [Ids -> Nodes \cup {NoParent}]
    BY <1>1, <1>2 DEF Nodes, Root
  <2>2. u.children \in [Nodes -> SUBSET Ids]
    BY <1>1, <1>2
  <2>3. u.map \in SUBSET Ids /\ u.done \in SUBSET Ids
    BY <1>1, <1>2
  <2> QED BY <2>1, <2>2, <2>3 DEF Erase, TreeType
<1>4. \A x \in Nodes : u.children[x] \subseteq t.children[x]
  BY <1>1, <1>2
<1>5. \A x \in Nodes : \A d \in u.children[x] : d < n
  BY <1>4 DEF Listed
<1>6. ASSUME NEW x \in u.map, NEW d \in u.children[x] \cap u.map
      PROVE  u.parent[d] = x /\ d \in u.done
  <2>1. x \in Nodes /\ x \in t.map /\ d \in t.map /\ d # c /\ d \in Ids
    BY <1>1, <1>2, <1>6 DEF Nodes
  <2>2. t.parent[d] = x /\ d \in t.done
    BY <1>4, <1>6, <2>1 DEF Listed
  <2> QED BY <1>1, <1>2, <2>1, <2>2
<1> QED BY <1>2, <1>3, <1>5, <1>6 DEF Listed

\* Attaching the new cohorts of a split to each other.
LEMMA LinkedListed ==
  ASSUME NEW t, NEW m \in Nat, Listed(t, m), NEW r \in Recipes, NEW n \in Ids,
         NewIds(r, n) \subseteq t.map,
         \A x \in NewIds(r, n) \ Heads(r, n) : t.parent[x] = NoParent
  PROVE  Listed(Linked(t, r, n), m)
<1> DEFINE u == Linked(t, r, n)
           inner == NewIds(r, n) \ Heads(r, n)
           up(x) == n + r.link[x - n + 1] - 1
<1>1. /\ t.map \in SUBSET Ids /\ t.self \in [Ids -> Nodes]
      /\ t.parent \in [Ids -> Nodes \cup {NoParent}]
      /\ t.children \in [Nodes -> SUBSET Ids] /\ t.done \in SUBSET Ids
  BY DEF Listed, TreeType
<1>2. /\ u.map = t.map
      /\ u.self = [x \in Ids |-> IF x \in NewIds(r, n) THEN x ELSE t.self[x]]
      /\ u.parent = [x \in Ids |-> IF x \in inner THEN up(x) ELSE t.parent[x]]
      /\ u.children = [x \in Nodes |-> t.children[x] \cup {y \in inner : up(y) = x}]
      /\ u.done = t.done \cup inner \cup {up(x) : x \in inner}
  BY DEF Linked
<1>3. \A x \in inner : up(x) \in NewIds(r, n)
  <2> SUFFICES ASSUME NEW x \in inner PROVE up(x) \in NewIds(r, n)
    OBVIOUS
  <2>1. RecipeType(r)
    BY RecipesAssumption
  <2>2. n \in Nat /\ Len(r.link) \in Nat
    BY <2>1, SizeAssumption DEF RecipeType, Ids
  <2>3. x \in n..n + Len(r.link) - 1 /\ r.link[x - n + 1] # 0
    BY DEF Heads, NewIds
  <2>4. x - n + 1 \in 1..Len(r.link)
    BY <2>2, <2>3
  <2>5. r.link[x - n + 1] \in 1..Len(r.link)
    BY SMTT(60), <2>1, <2>2, <2>3, <2>4 DEF RecipeType
  <2> QED BY <2>2, <2>5 DEF NewIds
<1>4. inner \subseteq t.map /\ inner \subseteq Ids /\ NewIds(r, n) \subseteq Ids
  BY <1>1
<1>5. \A x \in inner : t.parent[x] = NoParent
  OBVIOUS
<1> HIDE DEF u, inner, up
<1>6. u \in TreeType
  <2>1. u.self \in [Ids -> Nodes] /\ u.parent \in [Ids -> Nodes \cup {NoParent}]
    BY <1>1, <1>2, <1>3, <1>4 DEF Nodes
  <2>2. u.children \in [Nodes -> SUBSET Ids]
    BY <1>1, <1>2, <1>4
  <2>3. u.map \in SUBSET Ids /\ u.done \in SUBSET Ids
    BY <1>1, <1>2, <1>3, <1>4
  <2> QED BY <2>1, <2>2, <2>3 DEF Linked, TreeType, u
<1>7. \A p \in Nodes : \A d \in u.children[p] : d < m
  BY <1>1, <1>2, <1>4 DEF Listed
<1>8. ASSUME NEW x \in t.map, NEW d \in u.children[x] \cap t.map
      PROVE  u.parent[d] = x /\ d \in u.done
  <2>1. d \in Ids /\ x \in Nodes /\ x # NoParent
    BY <1>1, NoneAssumption, SizeAssumption DEF Nodes, Ids
  <2>2. d \in t.children[x] => t.parent[d] = x /\ d \in t.done
    BY DEF Listed
  <2>3. CASE d \in inner
    <3>1. d \notin t.children[x]
      BY <1>5, <2>1, <2>2, <2>3
    <3> QED BY <1>2, <2>1, <2>3, <3>1
  <2>4. CASE d \notin inner
    BY <1>2, <2>1, <2>2, <2>4
  <2> QED BY <2>3, <2>4
<1> QED BY <1>2, <1>6, <1>7, <1>8 DEF Listed, u

\* Taking a cohort out of the tree, its children forwarded.
LEMMA RemovedListed ==
  ASSUME NEW t, NEW n \in Nat, Listed(t, n), NEW c \in t.map, RemovalFindsAll(t, c)
  PROVE  Listed(Removed(t, c), n) /\ Removed(t, c).map = t.map \ {c}
<1>1. t \in TreeType
  BY DEF Listed
<1>2. Removed(t, c).map = t.map \ {c}
  BY <1>1, RemovedMap
<1>3. CASE t.children[c] = {}
  <2>1. Removed(t, c) = Erase(t, c)
    BY <1>1, <1>3, RemovedIs
  <2> QED BY <1>2, <2>1, EraseListed
<1>4. CASE t.children[c] # {}
  <2> DEFINE a == Attach(t, t.parent[c], t.children[c])
  <2>1. /\ Found(t, t.parent[c]) /\ t.children[c] \in SUBSET t.map
        /\ Removed(t, c) = Erase(a, c)
    BY <1>1, <1>4, RemovedIs
  <2>2. Listed(a, n)
    BY <2>1, AttachListed
  <2>3. c \in a.map
    BY DEF Attach
  <2> QED BY <1>2, <2>1, <2>2, <2>3, EraseListed
<1> QED BY <1>3, <1>4

\* Giving cohorts their numbers.
LEMMA NumberedListed ==
  ASSUME NEW t, NEW n \in Nat, Listed(t, n), NEW cs
  PROVE  Listed(Numbered(t, cs), n) /\ Numbered(t, cs).map = t.map
<1> DEFINE u == Numbered(t, cs)
<1>1. t \in TreeType /\ t.self \in [Ids -> Nodes]
  BY DEF Listed, TreeType
<1>2. /\ u.map = t.map /\ u.parent = t.parent /\ u.children = t.children /\ u.done = t.done
      /\ u.self = [x \in Ids |-> IF x \in cs THEN x ELSE t.self[x]]
      /\ u = [t EXCEPT !.self = [x \in Ids |-> IF x \in cs THEN x ELSE t.self[x]]]
  BY <1>1 DEF Numbered, TreeType
<1>3. u.self \in [Ids -> Nodes]
  BY <1>1, <1>2 DEF Nodes
<1>4. u \in TreeType
  BY <1>1, <1>2, <1>3 DEF TreeType
<1> QED BY <1>2, <1>4 DEF Listed

\* Splitting a cohort.
LEMMA SplitListed ==
  ASSUME NEW t, NEW n \in Ids, Listed(t, n), NEW c \in t.map,
         NEW r \in Recipes, n + Len(r.link) - 1 <= MaxId, t.children[c] \subseteq t.map
  PROVE  /\ Listed(Split(t, c, r, n), n + Len(r.link))
         /\ Split(t, c, r, n).map = (t.map \ {c}) \cup NewIds(r, n)
<1> DEFINE new  == Fresh(t, NewIds(r, n))
           tail == n + r.tail - 1
           m    == n + Len(r.link)
           kept == IF t.children[c] = {} THEN new ELSE Attach(new, tail, t.children[c])
           head == IF Heads(r, n) # {} /\ Found(t, t.parent[c])
                   THEN Attach(kept, t.parent[c], Heads(r, n)) ELSE kept
           u    == Linked(head, r, n)
<1>1. /\ n \in Nat /\ Len(r.link) \in Nat \ {0} /\ m \in Nat
      /\ NewIds(r, n) \in SUBSET Ids
      /\ \A x \in NewIds(r, n) : n <= x /\ x < m
      /\ Heads(r, n) \subseteq NewIds(r, n) /\ tail \in NewIds(r, n)
  BY NewNumbers
<1>2. /\ t.map \in SUBSET Ids /\ t.children[c] \in SUBSET t.map
      /\ t.map \cap NewIds(r, n) = {}
  <2>1. t.map \in SUBSET Ids /\ \A x \in t.map : x < n /\ x \in Nat
    BY SizeAssumption DEF Listed, TreeType, Ids
  <2> QED BY <2>1, <1>1, SizeAssumption DEF Ids
<1>3. /\ Listed(new, m) /\ new.map = t.map \cup NewIds(r, n)
      /\ \A x \in Ids : x \in NewIds(r, n) => new.parent[x] = NoParent
  <2>1. n <= m
    BY <1>1
  <2>2. Listed(new, m)
    BY <1>1, <2>1, FreshListed
  <2> QED BY <2>2 DEF Fresh
<1>4. /\ Listed(kept, m) /\ kept.map = t.map \cup NewIds(r, n)
      /\ \A x \in Ids : x \in NewIds(r, n) => kept.parent[x] = NoParent
  <2>1. CASE t.children[c] = {}
    BY <1>3, <2>1
  <2>2. CASE t.children[c] # {}
    <3>1. Found(new, tail) /\ t.children[c] \in SUBSET new.map
      BY <1>1, <1>2, <1>3 DEF Found
    <3> HIDE DEF new, tail, m
    <3>2. Listed(Attach(new, tail, t.children[c]), m)
      BY <1>1, <1>3, <3>1, AttachListed
    <3>3. t.children[c] \cap NewIds(r, n) = {}
      BY <1>2
    <3> QED BY <1>3, <2>2, <3>2, <3>3 DEF Attach
  <2> QED BY <2>1, <2>2
<1>5. /\ Listed(head, m) /\ head.map = t.map \cup NewIds(r, n)
      /\ \A x \in Ids : x \in NewIds(r, n) \ Heads(r, n) => head.parent[x] = NoParent
  <2> HIDE DEF kept, m, tail
  <2>1. CASE Heads(r, n) # {} /\ Found(t, t.parent[c])
    <3>1. Found(kept, t.parent[c]) /\ Heads(r, n) \in SUBSET kept.map
      BY <1>1, <1>4, <2>1 DEF Found
    <3>2. Listed(Attach(kept, t.parent[c], Heads(r, n)), m)
      BY <1>1, <1>4, <3>1, AttachListed
    <3> QED BY <1>1, <1>4, <2>1, <3>2 DEF Attach
  <2>2. CASE ~ (Heads(r, n) # {} /\ Found(t, t.parent[c]))
    BY <1>1, <1>4, <2>2
  <2> QED BY <2>1, <2>2
<1>6. Split(t, c, r, n) = Erase(u, c)
  BY DEF Split
<1>7. Listed(u, m)
  <2> HIDE DEF head, m
  <2>1. NewIds(r, n) \subseteq head.map
    BY <1>5
  <2>2. \A x \in NewIds(r, n) \ Heads(r, n) : head.parent[x] = NoParent
    BY <1>1, <1>5
  <2> QED BY <1>1, <1>5, <2>1, <2>2, LinkedListed
<1>8. u.map = t.map \cup NewIds(r, n)
  <2> HIDE DEF head
  <2> QED BY <1>5 DEF Linked
<1> HIDE DEF u
<1>9. c \in u.map /\ Erase(u, c).map = u.map \ {c}
  BY <1>8 DEF Erase
<1>10. Listed(Erase(u, c), m)
  BY <1>1, <1>7, <1>9, EraseListed
<1> QED BY <1>2, <1>6, <1>8, <1>9, <1>10

-----------------------------------------------------------------------------
(* The inductive invariant, which holds whatever the input names.          *)

WInv ==
    /\ Listed(tree, counter)
    /\ Lines(cohorts, window, tree.map)
    /\ tag \in [Ids -> Tags \cup {NoTag}]
    /\ \A c \in Ids : tag[c] # NoTag => c \in Inputs
    /\ window \in [Ids -> 1..Windows]
    /\ current \in 1..Windows
    /\ lastRoot \in SUBSET Ids /\ \A c \in lastRoot : c < counter
    /\ counter \in 1..MaxId + 1
    /\ spanned \in BOOLEAN
    /\ crashed \in BOOLEAN

\* The windows of the input are in cohort_map.
LEMMA InitLines == Init => Lines(cohorts, window, Inputs) /\ window \in [Ids -> 1..Windows]
<1> SUFFICES ASSUME Init PROVE Lines(cohorts, window, Inputs) /\ window \in [Ids -> 1..Windows]
  OBVIOUS
<1> DEFINE K == WindowSize
<1>1. /\ window = [c \in Ids |-> IF c \in Inputs THEN ((c - 1) \div K) + 1 ELSE 1]
      /\ cohorts = [w \in 1..Windows |-> [i \in 1..K |-> (w - 1) * K + i]]
  BY DEF Init
<1>2. /\ Windows \in Nat \ {0} /\ K \in Nat /\ Inputs = 1..Windows * K /\ Inputs \subseteq Ids
  BY SizeAssumption DEF Inputs, Ids
<1>13. K \in Nat /\ Windows \in Nat /\ Inputs \subseteq Ids
  BY <1>2
<1> HIDE DEF K
<1>11. \A w \in 1..Windows : DOMAIN cohorts[w] = 1..K /\ \A i \in 1..K : cohorts[w][i] = (w - 1) * K + i
  BY <1>1
<1>12. \A c \in Inputs : window[c] = ((c - 1) \div K) + 1
  BY <1>1, <1>2
<1>3. ASSUME NEW w \in 1..Windows, NEW i \in 1..K
      PROVE  cohorts[w][i] \in Inputs /\ window[cohorts[w][i]] = w
  <2> DEFINE c == (w - 1) * K + i
  <2>1. cohorts[w][i] = c /\ w - 1 \in Nat /\ K \in Nat \ {0} /\ i - 1 \in 0..(K - 1) /\ w - 1 <= Windows - 1
    BY <1>2, <1>11
  <2>2. (w - 1) * K \in Nat /\ (w - 1) * K <= (Windows - 1) * K /\ (Windows - 1) * K + K = Windows * K
    BY <1>2, <2>1
  <2>3. c \in 1..Windows * K /\ c - 1 = (w - 1) * K + (i - 1)
    <3> DEFINE x == (w - 1) * K  y == (Windows - 1) * K  z == Windows * K
    <3>1. x \in Nat /\ x <= y /\ y + K = z /\ y \in Int
      BY <1>2, <2>2
    <3> HIDE DEF x, y, z
    <3>2. x + i \in 1..z /\ (x + i) - 1 = x + (i - 1)
      BY <1>2, <3>1
    <3> QED BY <3>2 DEF x, z
  <2>4. (c - 1) \div K = w - 1
    BY <2>1, <2>3, Quotient
  <2>5. c \in Inputs /\ window[c] = (w - 1) + 1
    BY <1>2, <1>12, <2>3, <2>4
  <2> HIDE DEF c
  <2> QED BY <1>2, <2>1, <2>5
<1>4. ASSUME NEW c \in Inputs
      PROVE  \E w \in 1..Windows : \E i \in 1..K : cohorts[w][i] = c /\ window[c] = w
  <2> DEFINE q == (c - 1) \div K  r == (c - 1) % K
  <2>1. c \in Nat /\ c >= 1 /\ c <= Windows * K /\ K # 0
    BY <1>2
  <2>2. q \in Int /\ r \in 0..(K - 1) /\ c - 1 = K * q + r
    BY <1>2, <2>1
  <2> HIDE DEF q, r
  <2>3. q \in 0..(Windows - 1)
    <3>1. ASSUME q < 0 PROVE FALSE
      <4> DEFINE x == K * q
      <4>1. x <= K * (0 - 1) /\ K * (0 - 1) = 0 - K /\ x \in Int
        BY <1>2, <2>2, <3>1
      <4> HIDE DEF x
      <4>2. c - 1 = x + r
        BY <2>2 DEF x
      <4> QED BY <1>2, <2>1, <2>2, <4>1, <4>2
    <3>2. ASSUME q >= Windows PROVE FALSE
      <4> DEFINE x == K * q  y == Windows * K
      <4>1. x >= y /\ x \in Int /\ y \in Int
        BY <1>2, <2>2, <3>2
      <4>2. c - 1 = x + r /\ c <= y
        BY <2>1, <2>2
      <4> HIDE DEF x, y
      <4> QED BY <1>2, <2>1, <2>2, <4>1, <4>2
    <3> QED BY <1>2, <2>2, <3>1, <3>2
  <2>4. q + 1 \in 1..Windows /\ r + 1 \in 1..K
    BY <1>2, <2>1, <2>2, <2>3
  <2>5. cohorts[q + 1][r + 1] = c
    <3>1. cohorts[q + 1][r + 1] = (q + 1 - 1) * K + (r + 1)
      BY <1>11, <1>13, <2>2, <2>4
    <3>2. (q + 1 - 1) * K = K * q
      BY <1>2, <2>2
    <3> DEFINE x == K * q
    <3>3. c - 1 = x + r /\ x \in Int
      BY <1>2, <2>2
    <3> HIDE DEF x
    <3>4. x + (r + 1) = c
      BY <1>2, <2>1, <2>2, <3>3
    <3> QED BY <3>1, <3>2, <3>4 DEF x
  <2>6. window[c] = q + 1
    BY <1>12 DEF q
  <2> QED BY <2>4, <2>5, <2>6
<1>6. window \in [Ids -> 1..Windows]
  <2>1. \A c \in Inputs : window[c] \in 1..Windows
    BY <1>4
  <2>2. \A c \in Ids : window[c] = IF c \in Inputs THEN window[c] ELSE 1
    BY <1>1
  <2>3. \A c \in Ids : window[c] \in 1..Windows
    BY <1>2, <2>1, <2>2
  <2> QED BY <1>1, <2>3
<1>7. cohorts \in [1..Windows -> Seq(Ids)]
  <2>1. \A w \in 1..Windows : cohorts[w] = [i \in 1..K |-> cohorts[w][i]]
    BY <1>1
  <2>2. \A w \in 1..Windows : cohorts[w] \in Seq(Ids)
    <3> SUFFICES ASSUME NEW w \in 1..Windows PROVE [i \in 1..K |-> cohorts[w][i]] \in Seq(Ids)
      BY <2>1
    <3> QED BY <1>3, <1>13
  <2> QED BY <1>1, <2>2
<1>8. Inputs = UNION {ToSet(cohorts[w]) : w \in 1..Windows}
  <2>1. \A w \in 1..Windows : ToSet(cohorts[w]) = {cohorts[w][i] : i \in 1..K}
    BY <1>11 DEF ToSet
  <2>2. ASSUME NEW c \in Inputs PROVE \E w \in 1..Windows : c \in ToSet(cohorts[w])
    <3>1. PICK w \in 1..Windows : \E i \in 1..K : cohorts[w][i] = c
      BY <1>4
    <3> QED BY <2>1, <3>1
  <2>3. ASSUME NEW w \in 1..Windows PROVE ToSet(cohorts[w]) \subseteq Inputs
    BY <1>3, <2>1
  <2> QED BY <2>2, <2>3
<1>9. ASSUME NEW w \in 1..Windows PROVE Apart(cohorts[w])
  <2>1. \A i, j \in 1..K : cohorts[w][i] = cohorts[w][j] => i = j
    <3> SUFFICES ASSUME NEW i \in 1..K, NEW j \in 1..K, cohorts[w][i] = cohorts[w][j] PROVE i = j
      OBVIOUS
    <3> DEFINE x == (w - 1) * K
    <3>1. x \in Int /\ cohorts[w][i] = x + i /\ cohorts[w][j] = x + j
      BY <1>2, <1>11
    <3>2. i \in Int /\ j \in Int
      BY <1>2
    <3>3. x + i = x + j
      BY <3>1
    <3> HIDE DEF x
    <3>4. \A a, b, y \in Int : y + a = y + b => a = b
      OBVIOUS
    <3> QED BY ONLY <3>1, <3>2, <3>3, <3>4
  <2> QED BY <1>11, <2>1 DEF Apart
<1>10. \A w \in 1..Windows : \A i \in DOMAIN cohorts[w] : window[cohorts[w][i]] = w
  BY <1>3, <1>11
<1> QED BY <1>6, <1>7, <1>8, <1>9, <1>10 DEF Lines

\* The invariant holds of the input.
LEMMA InitWInv == Init => WInv
<1> SUFFICES ASSUME Init PROVE WInv
  OBVIOUS
<1> DEFINE K == Windows * WindowSize
<1>1. K \in Nat /\ K <= MaxId /\ MaxId \in Nat /\ Inputs = 1..K /\ Inputs \subseteq Ids
  BY SizeAssumption DEF Inputs, Ids
<1>2. PICK parent \in [Ids -> Nodes \cup {NoParent}] :
         /\ tree = InputTree(parent)
         /\ lastRoot = {c \in Inputs : parent[c] = Root}
  BY DEF Init
<1>3. /\ counter = K + 1 /\ current = 1 /\ spanned = FALSE /\ crashed = FALSE
      /\ tag \in [Ids -> Tags \cup {NoTag}]
      /\ \A c \in Ids : tag[c] # NoTag => c \in Inputs
  BY DEF Init
<1> HIDE DEF K
<1>4. /\ tree.map = Inputs
      /\ tree.self = [c \in Ids |-> IF c \in Inputs THEN c ELSE 0]
      /\ tree.parent = parent
      /\ tree.children = [p \in Nodes |-> IF p = Root /\ Windows > 1 THEN {}
                                          ELSE {c \in Inputs : parent[c] = p}]
      /\ tree.done = {c \in Inputs : parent[c] # NoParent}
  BY <1>2 DEF InputTree
<1>5. tree \in TreeType
  <2>1. tree.self \in [Ids -> Nodes]
    BY <1>1, <1>4 DEF Nodes, Root
  <2>2. tree.children \in [Nodes -> SUBSET Ids]
    BY <1>1, <1>4
  <2> QED BY <1>1, <1>2, <1>4, <2>1, <2>2 DEF TreeType, InputTree
<1>6. \A c \in Inputs : c < counter
  BY <1>1, <1>3
<1>7. \A p \in Nodes : tree.children[p] \subseteq {c \in Inputs : parent[c] = p}
  BY <1>4
<1>8. ASSUME NEW p \in tree.map, NEW c \in tree.children[p] \cap tree.map
      PROVE  tree.parent[c] = p /\ c \in tree.done
  <2>1. p \in Nodes /\ p # NoParent
    BY <1>1, <1>4, NoneAssumption DEF Nodes
  <2> QED BY <1>4, <1>7, <2>1
<1>9. Listed(tree, counter)
  BY <1>4, <1>5, <1>6, <1>7, <1>8 DEF Listed
<1>10. counter \in 1..MaxId + 1 /\ current \in 1..Windows
  <2>1. 1 \in 1..Windows
    BY SizeAssumption
  <2> QED BY <1>1, <1>3, <2>1
<1>11. lastRoot \in SUBSET Ids /\ \A c \in lastRoot : c < counter
  BY <1>1, <1>2, <1>6
<1> QED BY <1>3, <1>4, <1>9, <1>10, <1>11, InitLines DEF WInv

\* The cohorts of the current window.
LEMMA HereFacts ==
  ASSUME WInv, NEW c \in Here
  PROVE  /\ c \in tree.map /\ c \in Ids /\ counter \in Nat /\ counter > 0
         /\ Place(c) \in 1..Len(cohorts[current])
         /\ cohorts[current][Place(c)] = c
         /\ cohorts[current] \in Seq(Ids) /\ Apart(cohorts[current])
         /\ \A x \in ToSet(cohorts[current]) : x \in tree.map /\ window[x] = current /\ x < counter
<1>1. c \in tree.map /\ window[c] = current
  BY DEF Here
<1>2. Lines(cohorts, window, tree.map) /\ current \in 1..Windows
  BY DEF WInv
<1>3. counter \in Nat /\ counter > 0 /\ tree.map \in SUBSET Ids /\ \A x \in tree.map : x < counter
  BY SizeAssumption DEF WInv, Listed, TreeType
<1> QED BY <1>1, <1>2, <1>3, PlaceIsFound

\* SETPARENT and SETCHILD keep the invariant.
LEMMA SetRelationWInv ==
  ASSUME WInv, NEW c \in Here, NEW r \in Rules, NEW m \in SUBSET Targets(c, r),
         SetRelation(c, r, m)
  PROVE  WInv'
<1>1. Listed(tree, counter) /\ counter \in Nat /\ c \in tree.map
  BY HereFacts DEF WInv
<1>2. Listed(tree', counter) /\ tree'.map = tree.map
  <2>1. CASE \E cs : tree' = Numbered(tree, cs)
    BY <1>1, <2>1, NumberedListed
  <2>2. CASE \E cs : \E k \in tree.map : \E p :
            Found(tree, p) /\ tree' = Attach(Numbered(tree, cs), p, {k})
    <3>0. PICK cs, p : \E k \in tree.map : Found(tree, p) /\ tree' = Attach(Numbered(tree, cs), p, {k})
      BY <2>2
    <3>1. PICK k \in tree.map : Found(tree, p) /\ tree' = Attach(Numbered(tree, cs), p, {k})
      BY <3>0
    <3>2. Listed(Numbered(tree, cs), counter) /\ Numbered(tree, cs).map = tree.map
      BY <1>1, NumberedListed
    <3>3. Found(Numbered(tree, cs), p) /\ {k} \in SUBSET Numbered(tree, cs).map
      BY <3>1, <3>2 DEF Found
    <3>4. Listed(tree', counter)
      BY <1>1, <3>1, <3>2, <3>3, AttachListed
    <3> QED BY <3>1, <3>2, <3>4 DEF Attach
  <2> QED BY <1>1, <2>1, <2>2, SetRelationAttaches
<1>3. UNCHANGED <<tag, cohorts, window, current, lastRoot, counter, crashed>>
  BY DEF SetRelation
<1>4. spanned' \in BOOLEAN
  BY DEF SetRelation, WInv, Spans
<1> QED BY <1>2, <1>3, <1>4 DEF WInv

\* ADDCOHORT keeps the invariant.
LEMMA AddCohortWInv ==
  ASSUME WInv, NEW c \in Here, NEW k \in {0, 1}, AddCohort(c, k)
  PROVE  WInv'
<1> DEFINE line == cohorts[current]
           new  == InsertAt(line, Place(c) + k, counter)
<1>1. /\ tree' = Insert(tree, counter)
      /\ cohorts' = [cohorts EXCEPT ![current] = new]
      /\ window' = [window EXCEPT ![counter] = current]
      /\ counter' = counter + 1 /\ counter <= MaxId
      /\ UNCHANGED <<tag, current, lastRoot, spanned, crashed>>
  BY DEF AddCohort, WInv, Lines
<1>2. /\ counter \in Ids /\ {counter} \in SUBSET Ids /\ counter \in Nat /\ counter + 1 \in Nat
      /\ counter <= counter + 1 /\ counter < counter + 1 /\ counter + 1 \in 1..MaxId + 1
  BY <1>1, HereFacts, SizeAssumption DEF Ids
<1>3. /\ line \in Seq(Ids) /\ Apart(line) /\ Place(c) + k \in 1..(Len(line) + 1)
      /\ counter \notin ToSet(line) /\ counter \notin tree.map
      /\ ToSet(line) \subseteq tree.map
  <2>1. /\ line \in Seq(Ids) /\ Apart(line) /\ Place(c) \in 1..Len(line)
        /\ \A x \in ToSet(line) : x \in tree.map
    BY HereFacts
  <2>2. Place(c) + k \in 1..(Len(line) + 1)
    <3>1. Len(line) \in Nat
      BY <2>1
    <3> QED BY <2>1, <3>1
  <2>3. counter \notin tree.map
    BY <1>2 DEF WInv, Listed
  <2> QED BY <2>1, <2>2, <2>3
<1> HIDE DEF line
<1>4. new \in Seq(Ids) /\ Apart(new) /\ ToSet(new) = ToSet(line) \cup {counter}
  BY <1>2, <1>3, InsertedLine
<1> HIDE DEF new
<1>5. Listed(Fresh(tree, {counter}), counter + 1)
  BY <1>2, FreshListed DEF WInv
<1>6. Listed(tree', counter') /\ tree'.map = tree.map \cup {counter}
  BY <1>1, <1>5 DEF Insert, Fresh
<1>7. window' \in [Ids -> 1..Windows]
  BY <1>1 DEF WInv
<1>8. Lines(cohorts', window', tree'.map)
  <2>1. Lines(cohorts, window, tree.map) /\ current \in 1..Windows /\ window \in [Ids -> 1..Windows]
        /\ tree.map \in SUBSET Ids
    BY DEF WInv, Listed, TreeType
  <2>2. \A x \in tree.map : window'[x] = window[x]
    BY <1>1, <1>3, <2>1
  <2>3. \A x \in ToSet(new) : window'[x] = current
    <3>1. \A x \in ToSet(line) : window[x] = current
      BY HereFacts DEF line
    <3> QED BY <1>1, <1>2, <1>3, <1>4, <2>1, <2>2, <3>1
  <2>4. Lines(cohorts', window', (tree.map \ ToSet(cohorts[current])) \cup ToSet(new))
    BY ZenonT(60), <1>1, <1>4, <2>1, <2>2, <2>3, LineChanges
  <2>5. (tree.map \ ToSet(cohorts[current])) \cup ToSet(new) = tree'.map
    BY <1>3, <1>4, <1>6 DEF line
  <2> QED BY <2>4, <2>5
<1>9. \A x \in lastRoot : x < counter'
  BY <1>1, <1>2, SizeAssumption DEF WInv, Ids
<1> QED BY <1>1, <1>2, <1>6, <1>7, <1>8, <1>9 DEF WInv

\* A rule that would dereference nothing changes nothing else.
LEMMA CrashWInv == WInv /\ Crash => WInv'
  BY DEF WInv, Crash

\* REMCOHORT keeps the invariant.
LEMMA RemCohortWInv ==
  ASSUME WInv, NEW c \in Here, RemCohort(c)
  PROVE  WInv'
<1> DEFINE line == cohorts[current]
           new  == RemoveAt(line, Place(c))
<1>1. CASE Crash
  BY <1>1, CrashWInv
<1>2. CASE /\ RemovalFindsAll(tree, c)
           /\ tree' = Removed(tree, c)
           /\ cohorts' = [cohorts EXCEPT ![current] = new]
           /\ spanned' = (spanned \/ Spans(tree.parent[c], tree.children[c]))
           /\ UNCHANGED <<tag, window, current, lastRoot, counter, crashed>>
  <2>1. /\ line \in Seq(Ids) /\ Apart(line) /\ Place(c) \in 1..Len(line) /\ line[Place(c)] = c
        /\ \A x \in ToSet(line) : x \in tree.map /\ window[x] = current
        /\ c \in tree.map /\ counter \in Nat
    BY HereFacts
  <2> HIDE DEF line
  <2>2. new \in Seq(Ids) /\ Apart(new) /\ ToSet(new) = ToSet(line) \ {c}
    BY <2>1, RemovedLine
  <2> HIDE DEF new
  <2>3. Listed(tree', counter) /\ tree'.map = tree.map \ {c}
    BY <1>2, <2>1, RemovedListed DEF WInv
  <2>4. Lines(cohorts', window, tree'.map)
    <3>1. Lines(cohorts, window, tree.map) /\ current \in 1..Windows
      BY DEF WInv
    <3>2. \A x \in ToSet(new) : window[x] = current
      BY <2>1, <2>2
    <3>3. Lines(cohorts', window, (tree.map \ ToSet(cohorts[current])) \cup ToSet(new))
      BY <1>2, <2>2, <3>1, <3>2, LineChanges
    <3>4. c \in ToSet(line)
      BY <2>1 DEF ToSet
    <3>5. (tree.map \ ToSet(cohorts[current])) \cup ToSet(new) = tree'.map
      BY <2>1, <2>2, <2>3, <3>4 DEF line
    <3> QED BY <3>3, <3>5
  <2>5. spanned' \in BOOLEAN
    BY <1>2 DEF WInv, Spans
  <2> QED BY <1>2, <2>3, <2>4, <2>5 DEF WInv
<1> QED BY <1>1, <1>2 DEF RemCohort, WInv, Lines

\* SPLITCOHORT keeps the invariant.
LEMMA SplitCohortWInv ==
  ASSUME WInv, NEW c \in Here, NEW r \in Recipes, SplitCohort(c, r)
  PROVE  WInv'
<1> DEFINE line == cohorts[current]
           i    == Place(c)
           k    == Len(r.link)
           N    == NewIds(r, counter)
           mid  == [j \in 1..k |-> counter + j - 1]
           new  == Spliced(line, i, mid)
<1>1. CASE Crash
  BY <1>1, CrashWInv
<1>2. CASE /\ counter + k - 1 <= MaxId
           /\ tree.children[c] \subseteq tree.map
           /\ tree' = Split(tree, c, r, counter)
           /\ cohorts' = [cohorts EXCEPT ![current] = new]
           /\ window' = [x \in Ids |-> IF x \in N THEN current ELSE window[x]]
           /\ counter' = counter + k
           /\ spanned' \in BOOLEAN
           /\ UNCHANGED <<tag, current, lastRoot, crashed>>
  <2>1. /\ line \in Seq(Ids) /\ Apart(line) /\ i \in 1..Len(line) /\ line[i] = c
        /\ \A x \in ToSet(line) : x \in tree.map /\ window[x] = current
        /\ c \in tree.map /\ counter \in Nat /\ counter > 0
    BY HereFacts
  <2>2. k \in Nat \ {0}
    BY RecipesAssumption DEF RecipeType
  <2>3. counter \in Ids
    BY SMTT(60), <1>2, <2>1, <2>2, SizeAssumption DEF Ids
  <2>4. N \in SUBSET Ids /\ N = counter..(counter + k - 1) /\ \A x \in N : counter <= x /\ x \in Nat
    BY <1>2, <2>1, <2>2, <2>3, NewNumbers, SizeAssumption DEF NewIds
  <2>5. /\ Lines(cohorts, window, tree.map) /\ current \in 1..Windows
        /\ window \in [Ids -> 1..Windows] /\ tree.map \in SUBSET Ids
        /\ Listed(tree, counter) /\ \A x \in tree.map : x < counter
    BY DEF WInv, Listed, TreeType
  <2>6. tree.map \cap N = {}
    BY <2>1, <2>4, <2>5, SizeAssumption DEF Ids
  <2>7. /\ Listed(tree', counter') /\ tree'.map = (tree.map \ {c}) \cup N
    <3>1. /\ Listed(Split(tree, c, r, counter), counter + k)
          /\ Split(tree, c, r, counter).map = (tree.map \ {c}) \cup N
      <4>1. counter + Len(r.link) - 1 <= MaxId /\ tree.children[c] \subseteq tree.map
        BY <1>2
      <4> QED BY <2>1, <2>3, <2>5, <4>1, SplitListed
    <3> HIDE DEF N, k
    <3> QED BY <1>2, <3>1
  <2>8. new \in Seq(Ids) /\ Apart(new) /\ ToSet(new) = (ToSet(line) \ {c}) \cup N
    <3>1. mid \in Seq(Ids) /\ Apart(mid) /\ ToSet(mid) = N
      <4>1. DOMAIN mid = 1..k /\ \A j \in 1..k : mid[j] = counter + j - 1 /\ counter + j - 1 \in N
        BY <2>1, <2>2, <2>4
      <4>2. \A x \in N : x - counter + 1 \in 1..k /\ counter + (x - counter + 1) - 1 = x
        BY <2>1, <2>2, <2>4
      <4>3. mid \in Seq(Ids)
        <5>1. N \subseteq Ids /\ k \in Nat
          BY <2>2, <2>4
        <5> HIDE DEF N, k
        <5> QED BY <4>1, <5>1
      <4> HIDE DEF mid, N
      <4>4. Apart(mid)
        BY <2>1, <2>2, <4>1 DEF Apart
      <4>5. ToSet(mid) \subseteq N
        BY <4>1 DEF ToSet
      <4>6. ASSUME NEW x \in N PROVE x \in ToSet(mid)
        <5>1. x - counter + 1 \in DOMAIN mid /\ mid[x - counter + 1] = x
          BY <4>1, <4>2
        <5> QED BY <5>1 DEF ToSet
      <4> QED BY <4>3, <4>4, <4>5, <4>6
    <3> HIDE DEF line, i, mid, N
    <3>2. ToSet(line) \cap ToSet(mid) = {}
      BY <2>1, <2>6, <3>1
    <3> QED BY <2>1, <3>1, <3>2, SplicedLine
  <2> HIDE DEF new, N
  <2>9. Lines(cohorts', window', tree'.map)
    <3>1. \A x \in tree.map : window'[x] = window[x]
      BY <1>2, <2>5, <2>6
    <3>2. \A x \in ToSet(new) : window'[x] = current
      BY <1>2, <2>1, <2>4, <2>8, <3>1
    <3>3. Lines(cohorts', window', (tree.map \ ToSet(cohorts[current])) \cup ToSet(new))
      BY <1>2, <2>5, <2>8, <3>1, <3>2, LineChanges
    <3>4. c \in ToSet(line)
      BY <2>1 DEF ToSet
    <3>5. (tree.map \ ToSet(cohorts[current])) \cup ToSet(new) = tree'.map
      BY <2>1, <2>7, <2>8, <3>4 DEF line
    <3> QED BY <3>3, <3>5
  <2>10. window' \in [Ids -> 1..Windows]
    BY <1>2, <2>5
  <2>11. counter' \in 1..MaxId + 1 /\ \A x \in lastRoot : x < counter'
    <3> HIDE DEF k
    <3>1. counter' \in 1..MaxId + 1 /\ counter < counter'
      BY <1>2, <2>1, <2>2, SizeAssumption
    <3>2. \A x \in lastRoot : x < counter /\ x \in Nat
      BY SizeAssumption DEF WInv, Ids
    <3> QED BY <2>1, <3>1, <3>2
  <2> QED BY <1>2, <2>7, <2>9, <2>10, <2>11 DEF WInv
<1>3. (spanned \/ (\E x \in tree.children[c] : window[x] # current)
                 \/ /\ Heads(r, counter) # {} /\ tree.parent[c] \in tree.map
                    /\ window[tree.parent[c]] # current) \in BOOLEAN
  OBVIOUS
<1> QED BY <1>1, <1>2, <1>3 DEF SplitCohort, Spliced, WInv, Lines, N

\* MERGECOHORTS keeps the invariant: the new cohort is where the rule's own one
\* was, and both are gone.
LEMMA MergeCohortsWInv ==
  ASSUME WInv, NEW c \in Here, NEW d \in Here, MergeCohorts(c, d)
  PROVE  WInv'
<1> DEFINE one  == IF Place(c) < Place(d) THEN c ELSE d
           two  == IF Place(c) < Place(d) THEN d ELSE c
           new  == Insert(tree, counter)
           rest == Removed(new, one)
           line == cohorts[current]
           mid  == ReplaceAt(line, Place(c), counter)
           last == RemoveAt(mid, Place(d))
<1>1. CASE Crash
  BY <1>1, CrashWInv
<1>2. CASE /\ RemovalFindsAll(new, one) /\ RemovalFindsAll(rest, two)
           /\ tree' = Removed(rest, two)
           /\ cohorts' = [cohorts EXCEPT ![current] = last]
           /\ window' = [window EXCEPT ![counter] = current]
           /\ counter' = counter + 1
           /\ spanned' \in BOOLEAN
           /\ UNCHANGED <<tag, current, lastRoot, crashed>>
  <2>1. c # d /\ counter <= MaxId
    BY DEF MergeCohorts
  <2>2. /\ counter \in Ids /\ {counter} \in SUBSET Ids /\ counter \in Nat /\ counter + 1 \in Nat
        /\ counter <= counter + 1 /\ counter < counter + 1 /\ counter + 1 \in 1..MaxId + 1
    BY <2>1, HereFacts, SizeAssumption DEF Ids
  <2>3. /\ line \in Seq(Ids) /\ Apart(line)
        /\ Place(c) \in 1..Len(line) /\ line[Place(c)] = c
        /\ Place(d) \in 1..Len(line) /\ line[Place(d)] = d
        /\ \A x \in ToSet(line) : x \in tree.map /\ window[x] = current
        /\ c \in tree.map /\ d \in tree.map
    BY HereFacts
  <2>4. /\ Lines(cohorts, window, tree.map) /\ current \in 1..Windows
        /\ window \in [Ids -> 1..Windows] /\ tree.map \in SUBSET Ids
        /\ Listed(tree, counter) /\ counter \notin tree.map
    BY <2>2 DEF WInv, Listed, TreeType
  <2>5. /\ one \in tree.map /\ two \in tree.map /\ one # two /\ {one, two} = {c, d}
    BY <2>1, <2>3
  <2>6. Listed(new, counter + 1) /\ new.map = tree.map \cup {counter}
    <3>1. Listed(Fresh(tree, {counter}), counter + 1)
      BY <2>2, <2>4, FreshListed
    <3> QED BY <3>1 DEF Insert, Fresh
  <2> HIDE DEF new, one, two, line
  <2>7. Listed(rest, counter + 1) /\ rest.map = new.map \ {one}
    BY <1>2, <2>2, <2>5, <2>6, RemovedListed
  <2> HIDE DEF rest
  <2>8. Listed(tree', counter + 1) /\ tree'.map = rest.map \ {two}
    BY <1>2, <2>2, <2>5, <2>6, <2>7, RemovedListed
  <2>9. tree'.map = (tree.map \ {c, d}) \cup {counter}
    BY <2>4, <2>5, <2>6, <2>7, <2>8
  <2>10. counter \notin ToSet(line) /\ Place(c) # Place(d)
    BY <2>1, <2>3, <2>4
  <2>11. /\ mid \in Seq(Ids) /\ Apart(mid) /\ Len(mid) = Len(line)
         /\ ToSet(mid) = (ToSet(line) \ {c}) \cup {counter}
         /\ mid[Place(d)] = d
    <3>1. /\ ReplaceAt(line, Place(c), counter) \in Seq(Ids)
          /\ Len(ReplaceAt(line, Place(c), counter)) = Len(line)
          /\ Apart(ReplaceAt(line, Place(c), counter))
          /\ ToSet(ReplaceAt(line, Place(c), counter)) = (ToSet(line) \ {line[Place(c)]}) \cup {counter}
          /\ \A j \in 1..Len(line) : j # Place(c) => ReplaceAt(line, Place(c), counter)[j] = line[j]
      BY <2>2, <2>3, <2>10, ReplacedLine
    <3> QED BY <2>3, <2>10, <3>1
  <2> HIDE DEF mid
  <2>12. last \in Seq(Ids) /\ Apart(last) /\ ToSet(last) = ToSet(mid) \ {d}
    <3>1. Place(d) \in 1..Len(mid)
      BY <2>3, <2>11
    <3> QED BY <2>11, <3>1, RemovedLine
  <2> HIDE DEF last
  <2>13. Lines(cohorts', window', tree'.map)
    <3>1. \A x \in tree.map : window'[x] = window[x]
      BY <1>2, <2>4
    <3>2. \A x \in ToSet(last) : window'[x] = current
      BY <1>2, <2>2, <2>3, <2>4, <2>11, <2>12, <3>1
    <3>3. Lines(cohorts', window', (tree.map \ ToSet(cohorts[current])) \cup ToSet(last))
      BY <1>2, <2>4, <2>12, <3>1, <3>2, LineChanges
    <3>4. c \in ToSet(line) /\ d \in ToSet(line)
      BY <2>3 DEF ToSet
    <3>5. (tree.map \ ToSet(line)) \cup ToSet(last) = (tree.map \ {c, d}) \cup {counter}
      BY <2>3, <2>4, <2>11, <2>12, <3>4
    <3> QED BY <2>9, <3>3, <3>5 DEF line
  <2>14. window' \in [Ids -> 1..Windows]
    BY <1>2, <2>4
  <2>15. \A x \in lastRoot : x < counter'
    BY <1>2, <2>2, SizeAssumption DEF WInv, Ids
  <2> QED BY <1>2, <2>2, <2>8, <2>13, <2>14, <2>15 DEF WInv
<1>3. (spanned \/ Spans(new.parent[one], new.children[one])
               \/ Spans(rest.parent[two], rest.children[two])) \in BOOLEAN
  OBVIOUS
<1> QED BY <1>1, <1>2, <1>3 DEF MergeCohorts, WInv, Lines

\* Reading the tag of a cohort anew keeps the invariant: one that is listed as
\* a child is marked, and its tag is not read.
LEMMA ReadTagsWInv ==
  ASSUME WInv, NEW c \in Here, ReadTags(c)
  PROVE  WInv'
<1>1. /\ tag[c] # NoTag /\ c \notin tree.done
      /\ tree' = [tree EXCEPT !.self[c] = NumberInInput(c), !.parent[c] = tag[c]]
      /\ UNCHANGED <<tag, cohorts, window, current, lastRoot, counter, spanned, crashed>>
  BY DEF ReadTags
<1>2. tree \in TreeType /\ c \in Ids /\ c \in tree.map
  BY HereFacts DEF WInv, Listed
<1>3. tag[c] \in Ids
  BY <1>1, <1>2, TagsAssumption DEF WInv
<1>4. NumberInInput(c) \in Ids
  <2>1. c \in Inputs
    BY <1>1, <1>2 DEF WInv
  <2>2. c \in 1..Windows * WindowSize /\ Windows \in Nat \ {0} /\ WindowSize \in Nat
    BY <2>1, SizeAssumption DEF Inputs
  <2>3. WindowSize # 0
    BY <2>2
  <2>4. WindowSize <= Windows * WindowSize /\ Windows * WindowSize <= MaxId /\ MaxId \in Nat
    BY <2>2, SizeAssumption
  <2>5. (c - 1) % WindowSize \in 0..(WindowSize - 1)
    BY <2>2, <2>3
  <2> QED BY <2>2, <2>4, <2>5 DEF NumberInInput, Ids
<1>5. /\ tree'.map = tree.map /\ tree'.children = tree.children /\ tree'.done = tree.done
      /\ tree'.parent = [tree.parent EXCEPT ![c] = tag[c]]
      /\ tree' \in TreeType
  BY <1>1, <1>2, <1>3, <1>4 DEF TreeType, Nodes
<1>6. ASSUME NEW p \in tree.map, NEW x \in tree.children[p] \cap tree.map
      PROVE  tree'.parent[x] = p /\ x \in tree.done
  <2>1. tree.parent[x] = p /\ x \in tree.done
    BY DEF WInv, Listed
  <2> QED BY <1>1, <1>2, <1>5, <2>1 DEF TreeType
<1>7. Listed(tree', counter)
  BY <1>5, <1>6 DEF WInv, Listed
<1> QED BY <1>1, <1>5, <1>7 DEF WInv

\* The next window keeps the invariant: what is freed leaves the map, and what
\* is not stays in it.
LEMMA NextWindowWInv ==
  ASSUME WInv, NextWindow
  PROVE  WInv'
<1> DEFINE freed == {w \in 1..Windows : w + NumWindows <= current}
           gone  == UNION {ToSet(cohorts[w]) : w \in freed}
           root  == IF current + 1 = Windows THEN lastRoot ELSE {}
<1>1. /\ current < Windows /\ current' = current + 1
      /\ cohorts' = [w \in 1..Windows |-> IF w \in freed THEN <<>> ELSE cohorts[w]]
      /\ tree' = [tree EXCEPT !.map = @ \ gone, !.children[Root] = root]
      /\ UNCHANGED <<tag, window, lastRoot, counter, spanned, crashed>>
  BY DEF NextWindow
<1>2. root \in SUBSET Ids /\ \A c \in root : c < counter
  BY DEF WInv
<1>3. freed \subseteq 1..Windows
  OBVIOUS
<1> HIDE DEF root, freed
<1>4. /\ tree \in TreeType /\ Listed(tree, counter)
      /\ cohorts \in [1..Windows -> Seq(Ids)]
      /\ tree.map = UNION {ToSet(cohorts[w]) : w \in 1..Windows}
      /\ \A w \in 1..Windows : Apart(cohorts[w]) /\ \A i \in DOMAIN cohorts[w] : window[cohorts[w][i]] = w
  BY DEF WInv, Listed, Lines
<1>5. /\ tree'.map = tree.map \ gone /\ tree'.parent = tree.parent /\ tree'.done = tree.done
      /\ tree'.children = [tree.children EXCEPT ![Root] = root] /\ tree'.self = tree.self
      /\ tree' \in TreeType
  <2> HIDE DEF gone
  <2> QED BY <1>1, <1>2, <1>4 DEF TreeType
<1>6. Listed(tree', counter)
  <2>1. \A p \in Nodes : \A c \in tree'.children[p] : c < counter
    BY <1>2, <1>4, <1>5 DEF Listed, TreeType
  <2>2. ASSUME NEW p \in tree'.map, NEW c \in tree'.children[p] \cap tree'.map
        PROVE  tree'.parent[c] = p /\ c \in tree'.done
    <3>1. p \in tree.map /\ p # Root /\ p \in Nodes
      <4>1. p \in tree.map
        BY <1>5
      <4>2. p \in Ids
        BY <1>4, <4>1 DEF TreeType
      <4> QED BY <4>1, <4>2, SizeAssumption DEF Root, Nodes, Ids
    <3>2. c \in tree.children[p] \cap tree.map
      BY <1>4, <1>5, <3>1 DEF TreeType
    <3> QED BY <1>4, <1>5, <3>1, <3>2 DEF Listed
  <2>3. \A c \in tree'.map : c < counter
    BY <1>4, <1>5 DEF Listed
  <2> QED BY <1>5, <2>1, <2>2, <2>3 DEF Listed
<1>7. Lines(cohorts', window, tree'.map)
  <2>1. \A w \in 1..Windows : \A x \in ToSet(cohorts[w]) : window[x] = w
    BY <1>4 DEF ToSet
  <2>2. <<>> \in Seq(Ids) /\ Apart(<<>>) /\ ToSet(<<>>) = {} /\ DOMAIN <<>> = {}
    BY DEF Apart, ToSet
  <2>3. \A w \in 1..Windows : cohorts'[w] = IF w \in freed THEN <<>> ELSE cohorts[w]
    BY <1>1
  <2>4. cohorts' \in [1..Windows -> Seq(Ids)]
    BY <1>1, <1>4, <2>2
  <2>5. \A w \in 1..Windows : Apart(cohorts'[w]) /\ \A i \in DOMAIN cohorts'[w] : window[cohorts'[w][i]] = w
    BY <1>4, <2>2, <2>3
  <2>6. tree'.map = UNION {ToSet(cohorts'[w]) : w \in 1..Windows}
    <3>1. ASSUME NEW x \in tree'.map PROVE \E w \in 1..Windows : x \in ToSet(cohorts'[w])
      <4>1. PICK w \in 1..Windows : x \in ToSet(cohorts[w])
        BY <1>4, <1>5
      <4>2. w \notin freed
        BY <1>5, <4>1
      <4> QED BY <2>3, <4>1, <4>2
    <3>2. ASSUME NEW w \in 1..Windows, NEW x \in ToSet(cohorts'[w]) PROVE x \in tree'.map
      <4>1. w \notin freed /\ x \in ToSet(cohorts[w])
        BY <2>2, <2>3, <3>2
      <4>2. x \notin gone
        BY <1>3, <2>1, <4>1
      <4> QED BY <1>4, <1>5, <4>1, <4>2
    <3> QED BY <3>1, <3>2
  <2> QED BY <2>4, <2>5, <2>6 DEF Lines
<1>8. current' \in 1..Windows
  BY <1>1, SizeAssumption DEF WInv
<1> QED BY <1>1, <1>6, <1>7, <1>8 DEF WInv

\* Every step keeps the invariant.
LEMMA StepWInv == WInv /\ [Next]_vars => WInv'
<1> SUFFICES ASSUME WInv, [Next]_vars PROVE WInv'
  OBVIOUS
<1>1. CASE UNCHANGED vars
  BY <1>1 DEF WInv, vars
<1>2. CASE Next
  BY <1>2, SetRelationWInv, AddCohortWInv, RemCohortWInv, SplitCohortWInv, MergeCohortsWInv,
     ReadTagsWInv, NextWindowWInv DEF Next
<1> QED BY <1>1, <1>2

\* All states of all runs are of the types the module says.
THEOREM TypeCorrect ==
  Spec => []TypeOK
<1>1. WInv => TypeOK
  BY DEF WInv, Listed, Lines, TypeOK
<1> QED BY <1>1, InitWInv, StepWInv, PTL DEF Spec

\* cohort_map finds exactly the cohorts of the windows that are kept, each of
\* which is in its window once, however many cohorts rules have made, removed,
\* split and merged and whatever has been written and freed.
THEOREM MapFollowsWindows ==
  Spec => []MapIsWindows
<1>1. WInv => MapIsWindows
  BY DEF WInv, Lines, Apart, MapIsWindows
<1> QED BY <1>1, InitWInv, StepWInv, PTL DEF Spec

\* A cohort that another one lists as its child has that one as its parent,
\* whatever the input names and whichever tags are read again: what is listed
\* is marked CT_DEP_DONE, and the tags of marked cohorts are left alone.
THEOREM ListsAreTrue ==
  Spec => []ListedChildrenAgree
<1>1. WInv => ListedChildrenAgree
  BY DEF WInv, Listed, ListedChildrenAgree
<1> QED BY <1>1, InitWInv, StepWInv, PTL DEF Spec

-----------------------------------------------------------------------------
(* Parents after an operation, on input whose attachments were resolved.   *)

\* Removing a cohort: its children have its parent.
LEMMA RemovedParents ==
  ASSUME NEW t, NEW n \in Nat, TreeInv(t, n), NEW c \in t.map, RemovalFindsAll(t, c)
  PROVE  /\ Removed(t, c).map = t.map \ {c}
         /\ t.children[c] = {x \in t.map : t.parent[x] = c}
         /\ \A x \in t.map \ {c} :
              Removed(t, c).parent[x] = IF t.parent[x] = c THEN t.parent[c] ELSE t.parent[x]
<1> DEFINE a == Attach(t, t.parent[c], t.children[c])
           u == Removed(t, c)
<1>1. t \in TreeType /\ t.map \in SUBSET Ids
  BY DEF TreeInv, TreeType
<1>2. t.children[c] = {x \in t.map : t.parent[x] = c}
  <2>1. t.children[c] \subseteq t.map
    BY DEF RemovalFindsAll
  <2> QED BY <2>1 DEF TreeInv, Agree
<1>3. u.map = t.map \ {c}
  BY <1>1, RemovedMap
<1>4. CASE t.children[c] = {}
  <2>1. u = Erase(t, c)
    BY <1>1, <1>4, RemovedIs
  <2>2. \A x \in t.map \ {c} : u.parent[x] = t.parent[x]
    BY <1>1, <2>1 DEF Erase, TreeType
  <2> HIDE DEF u
  <2> QED BY <1>2, <1>3, <1>4, <2>2 DEF u
<1>5. CASE t.children[c] # {}
  <2>1. u = Erase(a, c)
    BY <1>1, <1>5, RemovedIs
  <2>2. a.parent = [x \in Ids |-> IF x \in t.children[c] THEN t.parent[c] ELSE t.parent[x]]
    BY DEF Attach
  <2> HIDE DEF a
  <2>3. u.parent = [a.parent EXCEPT ![c] = NoParent]
    BY <2>1 DEF Erase
  <2>4. \A x \in t.map \ {c} : u.parent[x] = IF x \in t.children[c] THEN t.parent[c] ELSE t.parent[x]
    BY <1>1, <2>2, <2>3
  <2> HIDE DEF u
  <2> QED BY <1>2, <1>3, <2>4 DEF u
<1> QED BY <1>4, <1>5

\* Making a cohort: it has no parent, and is none.
LEMMA InsertParents ==
  ASSUME NEW t, NEW n \in Ids, TreeInv(t, n)
  PROVE  /\ TreeInv(Insert(t, n), n + 1)
         /\ Insert(t, n).map = t.map \cup {n} /\ n \notin t.map
         /\ Insert(t, n).parent[n] = NoParent
         /\ \A x \in t.map : Insert(t, n).parent[x] = t.parent[x] /\ t.parent[x] # n
<1>1. /\ n \in Nat /\ n + 1 \in Nat /\ n <= n + 1 /\ n < n + 1 /\ {n} \in SUBSET Ids
      /\ n # NoParent
  BY NoneAssumption, SizeAssumption DEF Ids
<1>2. TreeInv(Fresh(t, {n}), n + 1)
  BY <1>1, FreshAgrees
<1>3. t.map \in SUBSET Ids /\ n \notin t.map
  BY <1>1 DEF TreeInv, TreeType, Unused
<1>4. \A x \in t.map : t.parent[x] # n
  <2> SUFFICES ASSUME NEW x \in t.map, t.parent[x] = n PROVE FALSE
    OBVIOUS
  <2>1. x \in Ids /\ t.parent[x] < n
    BY <1>1, <1>3 DEF TreeInv, Unused
  <2> QED BY <1>1, <2>1
<1> QED BY <1>2, <1>3, <1>4 DEF Insert, Fresh

\* In tree u the new cohorts N take the place that c has in tree t: those of H
\* have its parent, its children are under one of N, and the way up from a new
\* cohort leads to one of H before it leads to an old cohort.
TakesPlace(t, u, c, N, H) ==
    /\ u.map = (t.map \ {c}) \cup N /\ t.map \cap N = {} /\ H \subseteq N
    /\ \A x \in N \ H : u.parent[x] \notin t.map
    /\ \A x \in H : Found(t, t.parent[c]) => u.parent[x] = t.parent[c]
    /\ \A x \in H : ~ Found(t, t.parent[c]) => u.parent[x] = NoParent
    /\ \A x \in t.map \ {c} : t.parent[x] = c => u.parent[x] \in N
    /\ \A x \in t.map \ {c} : t.parent[x] # c => u.parent[x] = t.parent[x]
    /\ \A x \in t.map : t.parent[x] \notin N
    /\ \A S : S \cap N # {} /\ (\A x \in S \cap N : u.parent[x] \in N => u.parent[x] \in S)
              => S \cap H # {}

\* Splitting a cohort: the new ones take its place.
LEMMA SplitTakesPlace ==
  ASSUME NEW t, NEW n \in Ids, TreeInv(t, n), NEW c \in t.map,
         NEW r \in Recipes, n + Len(r.link) - 1 <= MaxId, t.children[c] \subseteq t.map
  PROVE  TakesPlace(t, Split(t, c, r, n), c, NewIds(r, n), Heads(r, n))
<1> DEFINE N == NewIds(r, n)
           s == Split(t, c, r, n)
<1>1. PICK u :
        /\ s = Erase(u, c)
        /\ TreeInv(u, n + Len(r.link))
        /\ u.map = t.map \cup N
        /\ \A x \in Ids : u.parent[x] =
             IF x \in N \ Heads(r, n) THEN n + r.link[x - n + 1] - 1
             ELSE IF x \in Heads(r, n)
                  THEN IF Found(t, t.parent[c]) THEN t.parent[c] ELSE NoParent
             ELSE IF x \in t.children[c] THEN n + r.tail - 1
             ELSE t.parent[x]
  BY SplitParents
<1>2. /\ n \in Nat /\ Len(r.link) \in Nat \ {0}
      /\ N \in SUBSET Ids
      /\ \A x \in N : n <= x /\ x < n + Len(r.link)
      /\ Heads(r, n) \subseteq N /\ n + r.tail - 1 \in N
  BY NewNumbers
<1>3. /\ t.map \in SUBSET Ids /\ \A x \in t.map : x < n
      /\ NoParent \notin Ids /\ t.map \cap N = {}
  <2>1. t.map \in SUBSET Ids /\ \A x \in t.map : x < n /\ x \in Nat
    BY SizeAssumption DEF TreeInv, TreeType, Unused, Ids
  <2>2. NoParent \notin Ids
    BY NoneAssumption, SizeAssumption DEF Ids
  <2> QED BY <2>1, <2>2, <1>2, SizeAssumption DEF Ids
<1>4. \A x \in t.map : x \in t.children[c] <=> t.parent[x] = c
  BY DEF TreeInv, Agree
<1>5. /\ s.map = (t.map \ {c}) \cup N
      /\ \A x \in (t.map \ {c}) \cup N : s.parent[x] = u.parent[x] /\ x \in Ids
  <2>1. u.parent \in [Ids -> Nodes \cup {NoParent}] /\ u.map \in SUBSET Ids
    BY <1>1 DEF TreeInv, TreeType
  <2> HIDE DEF s, N
  <2> QED BY <1>1, <1>3, <2>1 DEF Erase
<1> HIDE DEF s
<1>6. \A x \in t.map : t.parent[x] \notin N
  <2> SUFFICES ASSUME NEW x \in t.map, t.parent[x] \in N PROVE FALSE
    OBVIOUS
  <2>1. t.parent[x] < n /\ n <= t.parent[x] /\ t.parent[x] \in Nat
    BY <1>2, <1>3, NoneAssumption, SizeAssumption DEF TreeInv, Unused, Ids
  <2> QED BY <1>2, <2>1
<1>7. RecipeType(r)
  BY RecipesAssumption
<1>8. ASSUME NEW x \in N \ Heads(r, n)
      PROVE  /\ x - n + 1 \in 1..Len(r.link) /\ r.link[x - n + 1] \in 1..Len(r.link)
             /\ s.parent[x] = n + r.link[x - n + 1] - 1
  <2>1. x \in n..n + Len(r.link) - 1 /\ r.link[x - n + 1] # 0
    BY DEF Heads, NewIds
  <2>2. x - n + 1 \in 1..Len(r.link)
    BY <1>2, <2>1
  <2>3. r.link[x - n + 1] \in 1..Len(r.link)
    BY SMTT(60), <1>2, <1>7, <2>1, <2>2 DEF RecipeType
  <2> HIDE DEF N
  <2> QED BY <1>1, <1>5, <2>2, <2>3
<1>9. ASSUME NEW S, S \cap N # {}, \A x \in S \cap N : s.parent[x] \in N => s.parent[x] \in S
      PROVE  S \cap Heads(r, n) # {}
  <2> DEFINE I == {i \in 1..Len(r.link) : n + i - 1 \in S}
  <2>1. I \in SUBSET (1..Len(r.link)) /\ I # {}
    <3>1. PICK y \in S : y \in N
      BY <1>9
    <3>2. y \in n..n + Len(r.link) - 1
      BY <3>1 DEF NewIds
    <3>3. y - n + 1 \in 1..Len(r.link) /\ n + (y - n + 1) - 1 = y
      BY <3>2, <1>2
    <3> QED BY <3>1, <3>3
  <2>2. PICK i \in I : r.link[i] \notin I
    BY <1>7, <2>1 DEF RecipeType
  <2>3. i \in 1..Len(r.link) /\ r.link[i] \in 0..Len(r.link) /\ n + i - 1 \in S
    BY <1>7, <2>2 DEF RecipeType
  <2>4. n + i - 1 \in N /\ (n + i - 1) - n + 1 = i
    BY <1>2, <2>3 DEF NewIds
  <2>5. CASE r.link[i] = 0
    BY <2>3, <2>4, <2>5 DEF Heads
  <2>6. CASE r.link[i] # 0
    <3>1. n + i - 1 \in N \ Heads(r, n)
      BY <2>4, <2>6 DEF Heads
    <3>2. s.parent[n + i - 1] = n + r.link[i] - 1
      BY <1>8, <2>4, <3>1
    <3>3. r.link[i] \in 1..Len(r.link) /\ n + r.link[i] - 1 \in N
      BY SMTT(60), <1>2, <2>3, <2>6 DEF NewIds
    <3>4. n + r.link[i] - 1 \in S
      BY <1>9, <2>3, <2>4, <3>2, <3>3
    <3> QED BY <2>2, <3>3, <3>4
  <2> QED BY <2>5, <2>6
<1>10. \A x \in N \ Heads(r, n) : s.parent[x] \notin t.map
  <2> SUFFICES ASSUME NEW x \in N \ Heads(r, n) PROVE s.parent[x] \notin t.map
    OBVIOUS
  <2>1. s.parent[x] >= n /\ s.parent[x] \in Int
    BY <1>2, <1>8
  <2> QED BY <1>2, <1>3, <2>1
<1> HIDE DEF N
<1>11. /\ \A x \in Heads(r, n) : Found(t, t.parent[c]) => s.parent[x] = t.parent[c]
       /\ \A x \in Heads(r, n) : ~ Found(t, t.parent[c]) => s.parent[x] = NoParent
  BY <1>1, <1>2, <1>5
<1>12. /\ \A x \in t.map \ {c} : t.parent[x] = c => s.parent[x] \in N
       /\ \A x \in t.map \ {c} : t.parent[x] # c => s.parent[x] = t.parent[x]
  <2> SUFFICES ASSUME NEW x \in t.map \ {c}
               PROVE  /\ t.parent[x] = c => s.parent[x] \in N
                      /\ t.parent[x] # c => s.parent[x] = t.parent[x]
    OBVIOUS
  <2>1. x \in Ids /\ x \notin N /\ x \notin Heads(r, n) /\ s.parent[x] = u.parent[x]
    BY <1>2, <1>3, <1>5
  <2>2. u.parent[x] = IF x \in t.children[c] THEN n + r.tail - 1 ELSE t.parent[x]
    BY <1>1, <2>1
  <2> QED BY <1>2, <1>4, <2>1, <2>2
<1> QED BY <1>2, <1>3, <1>5, <1>6, <1>9, <1>10, <1>11, <1>12 DEF TakesPlace, s, N

-----------------------------------------------------------------------------
(* Dependencies between windows are announced.                             *)

\* When a cohort of t hangs under one of another window, sp says so.
Announced(t, wd, sp) ==
    \A x \in t.map : t.parent[x] \in t.map /\ wd[t.parent[x]] # wd[x] => sp

\* What a SETPARENT or SETCHILD that goes through announces.
LEMMA SetRelationAnnounces ==
  ASSUME NEW c \in tree.map, NEW r \in Rules, NEW m \in SUBSET Targets(c, r),
         SetRelation(c, r, m)
  PROVE  \/ \E cs : tree' = Numbered(tree, cs) /\ spanned' = spanned
         \/ \E cs : \E k \in tree.map : \E p :
              /\ Found(tree, p)
              /\ tree' = Attach(Numbered(tree, cs), p, {k})
              /\ spanned' = (spanned \/ Spans(p, {k}))
<1> DEFINE s == Scan(c, r)
           tried == Tried(s, r, m)
           seen(I) == IF I = {} THEN {} ELSE {c} \cup {s[i] : i \in I}
<1>1. CASE tree' = Numbered(tree, seen(tried)) /\ UNCHANGED spanned
  BY <1>1
<1>2. CASE \E i \in tried :
             /\ tree' = Attach(Numbered(tree, seen({j \in tried : j <= i})),
                               ParentOf(r, c, s[i]), {ChildOf(r, c, s[i])})
             /\ spanned' = (spanned \/ Spans(ParentOf(r, c, s[i]), {ChildOf(r, c, s[i])}))
  <2>1. PICK i \in tried :
             /\ tree' = Attach(Numbered(tree, seen({j \in tried : j <= i})),
                               ParentOf(r, c, s[i]), {ChildOf(r, c, s[i])})
             /\ spanned' = (spanned \/ Spans(ParentOf(r, c, s[i]), {ChildOf(r, c, s[i])}))
    BY <1>2
  <2>2. s[i] \in m
    BY DEF Tried
  <2>3. s[i] \in tree.map \/ (r.makes = "parent" /\ s[i] = Root)
    BY <2>2 DEF Targets
  <2> HIDE DEF s, tried, seen
  <2>4. Found(tree, ParentOf(r, c, s[i])) /\ ChildOf(r, c, s[i]) \in tree.map
    BY <2>3 DEF ParentOf, ChildOf, Found
  <2> QED BY <2>1, <2>4
<1> HIDE DEF s, tried, seen
<1> QED BY <1>1, <1>2 DEF SetRelation, s, tried, seen

\* Forwarding the children of a removed cohort to a parent in another window
\* is announced, when wd says where the cohorts are.
LEMMA RemovedAnnounced ==
  ASSUME NEW t, NEW n \in Nat, TreeInv(t, n), NEW c \in t.map, RemovalFindsAll(t, c),
         NEW wd, NEW sp, Announced(t, wd, sp), NEW sp2,
         sp => sp2,
         \A x \in t.children[c] : t.parent[c] \in t.map /\ wd[t.parent[c]] # wd[x] => sp2
  PROVE  Announced(Removed(t, c), wd, sp2)
<1> DEFINE u == Removed(t, c)
<1>1. /\ u.map = t.map \ {c}
      /\ t.children[c] = {x \in t.map : t.parent[x] = c}
      /\ \A x \in t.map \ {c} :
           u.parent[x] = IF t.parent[x] = c THEN t.parent[c] ELSE t.parent[x]
  BY RemovedParents
<1> HIDE DEF u
<1> SUFFICES ASSUME NEW x \in u.map, u.parent[x] \in u.map, wd[u.parent[x]] # wd[x] PROVE sp2
  BY DEF Announced, u
<1>2. CASE t.parent[x] = c
  BY <1>1, <1>2
<1>3. CASE t.parent[x] # c
  BY <1>1, <1>3 DEF Announced
<1> QED BY <1>2, <1>3

SpanInv == IInv /\ WInv /\ Announced(tree, window, spanned)

\* The input has no dependencies between windows.
LEMMA InitSpanInv == Init /\ Resolved => SpanInv
<1> SUFFICES ASSUME Init, Resolved PROVE Announced(tree, window, spanned)
  BY InitIInv, InitWInv DEF SpanInv
<1>1. PICK parent \in [Ids -> Nodes \cup {NoParent}] :
         /\ \A c \in Ids : parent[c] \in {Root, NoParent} \cup {p \in Inputs : window[p] = window[c]}
         /\ tree = InputTree(parent)
  BY DEF Init
<1>2. tree.map = Inputs /\ tree.parent = parent
  BY <1>1 DEF InputTree
<1>3. Root \notin Inputs /\ NoParent \notin Inputs /\ Inputs \subseteq Ids
  BY NoneAssumption, SizeAssumption DEF Root, Inputs, Ids
<1> QED BY <1>1, <1>2, <1>3 DEF Announced

\* Every step announces what it makes.
LEMMA StepSpanInv ==
  ASSUME SpanInv, [Next]_vars
  PROVE  SpanInv'
<1>0. IInv' /\ WInv'
  BY StepIInv, StepWInv DEF SpanInv
<1>00. /\ TreeInv(tree, counter) /\ counter \in Nat /\ tree.map \in SUBSET Ids
       /\ Announced(tree, window, spanned) /\ window \in [Ids -> 1..Windows]
       /\ current \in 1..Windows
  BY DEF SpanInv, IInv, WInv, TreeInv, TreeType
<1> SUFFICES Announced(tree', window', spanned')
  BY <1>0 DEF SpanInv, Announced
<1>1. CASE UNCHANGED vars
  BY <1>00, <1>1 DEF Announced, vars
<1>2. ASSUME NEW c \in Here, NEW r \in Rules, NEW m \in SUBSET Targets(c, r), SetRelation(c, r, m)
      PROVE  Announced(tree', window', spanned')
  <2>1. window' = window /\ c \in tree.map
    BY <1>2 DEF SetRelation, Here
  <2>2. CASE \E cs : tree' = Numbered(tree, cs) /\ spanned' = spanned
    <3>1. tree'.map = tree.map /\ tree'.parent = tree.parent /\ spanned' = spanned
      BY <1>00, <2>2, NumberedAgrees
    <3> QED BY <1>00, <2>1, <3>1 DEF Announced
  <2>3. CASE \E cs : \E k \in tree.map : \E p :
              /\ Found(tree, p)
              /\ tree' = Attach(Numbered(tree, cs), p, {k})
              /\ spanned' = (spanned \/ Spans(p, {k}))
    <3>1. PICK cs, p : \E k \in tree.map :
              /\ Found(tree, p)
              /\ tree' = Attach(Numbered(tree, cs), p, {k})
              /\ spanned' = (spanned \/ Spans(p, {k}))
      BY <2>3
    <3>2. PICK k \in tree.map :
              /\ Found(tree, p)
              /\ tree' = Attach(Numbered(tree, cs), p, {k})
              /\ spanned' = (spanned \/ Spans(p, {k}))
      BY <3>1
    <3>3. Numbered(tree, cs).map = tree.map /\ Numbered(tree, cs).parent = tree.parent
      BY <1>00, NumberedAgrees
    <3>4. tree'.map = tree.map /\ \A x \in Ids : tree'.parent[x] = IF x = k THEN p ELSE tree.parent[x]
      BY <3>2, <3>3 DEF Attach
    <3>5. Root \notin tree.map
      BY <1>00, SizeAssumption DEF Root, Ids
    <3>6. p \in tree.map /\ window[p] # window[k] => spanned'
      BY <3>2, <3>5 DEF Spans, InWindow
    <3> QED BY <1>00, <2>1, <3>2, <3>4, <3>6 DEF Announced
  <2> QED BY <1>2, <2>1, <2>2, <2>3, SetRelationAnnounces
<1>3. ASSUME NEW c \in Here, NEW k \in {0, 1}, AddCohort(c, k)
      PROVE  Announced(tree', window', spanned')
  <2>1. /\ tree' = Insert(tree, counter) /\ window' = [window EXCEPT ![counter] = current]
        /\ counter <= MaxId /\ spanned' = spanned
    BY <1>3 DEF AddCohort
  <2>2. counter \in Ids
    BY <2>1, HereFacts, SizeAssumption DEF SpanInv, Ids
  <2>3. /\ tree'.map = tree.map \cup {counter} /\ counter \notin tree.map
        /\ tree'.parent[counter] = NoParent
        /\ \A x \in tree.map : tree'.parent[x] = tree.parent[x] /\ tree.parent[x] # counter
    BY <1>00, <2>1, <2>2, InsertParents
  <2>4. \A x \in tree.map : window'[x] = window[x]
    BY <1>00, <2>1, <2>3
  <2>5. NoParent \notin Ids
    BY NoneAssumption, SizeAssumption DEF Ids
  <2> QED BY <1>00, <2>1, <2>2, <2>3, <2>4, <2>5 DEF Announced
<1>4. ASSUME NEW c \in Here, RemCohort(c)
      PROVE  Announced(tree', window', spanned')
  <2>1. CASE /\ RemovalFindsAll(tree, c) /\ tree' = Removed(tree, c)
             /\ spanned' = (spanned \/ Spans(tree.parent[c], tree.children[c]))
             /\ UNCHANGED window
    <3>1. Root \notin tree.map /\ c \in tree.map
      BY <1>00, SizeAssumption DEF Root, Ids, Here
    <3>2. \A x \in tree.children[c] :
             tree.parent[c] \in tree.map /\ window[tree.parent[c]] # window[x] => spanned'
      BY <2>1, <3>1 DEF Spans, InWindow
    <3>3. spanned => spanned'
      BY <2>1
    <3>4. Announced(Removed(tree, c), window, spanned')
      BY <1>00, <2>1, <3>1, <3>2, <3>3, RemovedAnnounced
    <3> QED BY <2>1, <3>4
  <2>2. CASE Crash
    BY <1>00, <2>2 DEF Announced, Crash
  <2> QED BY <1>4, <2>1, <2>2 DEF RemCohort
<1>5. ASSUME NEW c \in Here, NEW r \in Recipes, SplitCohort(c, r)
      PROVE  Announced(tree', window', spanned')
  <2> DEFINE N == NewIds(r, counter)
             H == Heads(r, counter)
  <2>1. CASE /\ tree.children[c] \subseteq tree.map /\ counter + Len(r.link) - 1 <= MaxId
             /\ tree' = Split(tree, c, r, counter)
             /\ window' = [x \in Ids |-> IF x \in N THEN current ELSE window[x]]
             /\ spanned' = (spanned \/ (\E k \in tree.children[c] : window[k] # current)
                                    \/ /\ H # {} /\ tree.parent[c] \in tree.map
                                       /\ window[tree.parent[c]] # current)
    <3>1. Len(r.link) \in Nat \ {0}
      BY RecipesAssumption DEF RecipeType
    <3>2. counter \in Ids /\ c \in tree.map
      <4>1. counter > 0
        BY HereFacts DEF SpanInv
      <4> QED BY <1>00, <2>1, <3>1, <4>1, SizeAssumption DEF Ids, Here
    <3>3. TakesPlace(tree, tree', c, N, H)
      BY <1>00, <2>1, <3>2, SplitTakesPlace
    <3>4. N \subseteq Ids
      BY <1>00, <2>1, <3>2, NewNumbers
    <3>5. \A x \in tree.map : x \in tree.children[c] <=> tree.parent[x] = c
      BY <1>00, <3>2 DEF TreeInv, Agree
    <3> HIDE DEF N, H
    <3>6. /\ \A x \in N : window'[x] = current
          /\ \A x \in tree.map : window'[x] = window[x]
      BY <1>00, <2>1, <3>3, <3>4 DEF TakesPlace
    <3>7. NoParent \notin Ids
      BY NoneAssumption, SizeAssumption DEF Ids
    <3> SUFFICES ASSUME NEW x \in tree'.map, tree'.parent[x] \in tree'.map,
                        window'[tree'.parent[x]] # window'[x]
                 PROVE  spanned'
      BY DEF Announced
    <3>8. CASE x \in N \ H
      BY <3>3, <3>6, <3>8 DEF TakesPlace
    <3>9. CASE x \in H
      <4>1. tree'.parent[x] = tree.parent[c]
        BY <1>00, <3>3, <3>4, <3>7, <3>9 DEF TakesPlace
      <4>2. tree.parent[c] \in tree.map /\ x \in N
        BY <3>2, <3>3, <3>9, <4>1 DEF TakesPlace
      <4>3. window[tree.parent[c]] # current
        BY <3>6, <4>1, <4>2
      <4>4. H # {}
        BY <3>9
      <4>5. H # {} /\ tree.parent[c] \in tree.map /\ window[tree.parent[c]] # current => spanned'
        BY <2>1
      <4> QED BY <4>2, <4>3, <4>4, <4>5
    <3>10. CASE x \in tree.map /\ tree.parent[x] = c
      <4>1. tree'.parent[x] \in N
        BY <3>3, <3>10 DEF TakesPlace
      <4>2. x \in tree.children[c] /\ window[x] # current
        BY <3>5, <3>6, <3>10, <4>1
      <4>3. (\E k \in tree.children[c] : window[k] # current) => spanned'
        BY <2>1
      <4> QED BY <4>2, <4>3
    <3>11. CASE x \in tree.map /\ tree.parent[x] # c
      <4>1. tree'.parent[x] = tree.parent[x] /\ tree.parent[x] \in tree.map
        BY <3>3, <3>11 DEF TakesPlace
      <4>2. spanned
        BY <1>00, <3>6, <3>11, <4>1 DEF Announced
      <4> QED BY <2>1, <4>2
    <3> QED BY <3>3, <3>8, <3>9, <3>10, <3>11 DEF TakesPlace
  <2>2. CASE Crash
    BY <1>00, <2>2 DEF Announced, Crash
  <2> QED BY <1>5, <2>1, <2>2 DEF SplitCohort
<1>6. ASSUME NEW c \in Here, NEW d \in Here, MergeCohorts(c, d)
      PROVE  Announced(tree', window', spanned')
  <2> DEFINE one  == IF Place(c) < Place(d) THEN c ELSE d
             two  == IF Place(c) < Place(d) THEN d ELSE c
             new  == Insert(tree, counter)
             rest == Removed(new, one)
             sp   == spanned \/ Spans(new.parent[one], new.children[one])
  <2>1. CASE Crash
    BY <1>00, <2>1 DEF Announced, Crash
  <2>2. CASE /\ RemovalFindsAll(new, one) /\ RemovalFindsAll(rest, two)
             /\ tree' = Removed(rest, two)
             /\ window' = [window EXCEPT ![counter] = current]
             /\ spanned' = (spanned \/ Spans(new.parent[one], new.children[one])
                                    \/ Spans(rest.parent[two], rest.children[two]))
    <3>1. /\ c \in tree.map /\ d \in tree.map /\ c # d
          /\ one \in tree.map /\ two \in tree.map /\ one # two /\ counter <= MaxId
      BY <1>6 DEF MergeCohorts, Here
    <3>2. counter \in Ids /\ counter + 1 \in Nat
      <4>1. counter > 0
        BY HereFacts DEF SpanInv
      <4> QED BY SMTT(60), <1>00, <3>1, <4>1, SizeAssumption DEF Ids
    <3>3. /\ TreeInv(new, counter + 1) /\ new.map = tree.map \cup {counter}
          /\ counter \notin tree.map /\ new.parent[counter] = NoParent
          /\ \A x \in tree.map : new.parent[x] = tree.parent[x] /\ tree.parent[x] # counter
      BY <1>00, <3>2, InsertParents
    <3> HIDE DEF new, one, two
    <3>4. /\ NoParent \notin Ids /\ Root \notin Ids /\ NoParent # one /\ NoParent # two
          /\ new.map \subseteq Ids
      BY SMTT(60), <1>00, <3>1, <3>2, <3>3, NoneAssumption, SizeAssumption DEF Ids, Root
    <3>5. \A x \in tree.map : window'[x] = window[x]
      BY <1>00, <2>2, <3>3
    <3>6. /\ rest.map = new.map \ {one}
          /\ new.children[one] = {x \in new.map : new.parent[x] = one}
          /\ \A x \in new.map \ {one} :
               rest.parent[x] = IF new.parent[x] = one THEN new.parent[one] ELSE new.parent[x]
          /\ TreeInv(rest, counter + 1)
      BY <2>2, <3>1, <3>2, <3>3, RemovedParents, RemovedAgrees
    <3> HIDE DEF rest
    <3>7. two \in rest.map
      BY <3>1, <3>3, <3>6
    <3>8. /\ tree'.map = rest.map \ {two}
          /\ rest.children[two] = {x \in rest.map : rest.parent[x] = two}
      BY <2>2, <3>2, <3>6, <3>7, RemovedParents
    <3>9. Announced(new, window', spanned)
      BY <1>00, <3>3, <3>4, <3>5 DEF Announced
    <3>10. Announced(rest, window', sp)
      <4>1. ASSUME NEW x \in new.children[one], new.parent[one] \in new.map,
                   window'[new.parent[one]] # window'[x]
            PROVE  sp
        <5>1. x \in tree.map /\ new.parent[one] \in tree.map
          BY <3>1, <3>3, <3>4, <3>6, <4>1
        <5>2. ~ InWindow(new.parent[one], window[x])
          BY <1>00, <3>4, <3>5, <4>1, <5>1 DEF InWindow
        <5> QED BY <5>2 DEF Spans
      <4>2. spanned => sp
        OBVIOUS
      <4>3. RemovalFindsAll(new, one) /\ one \in new.map
        BY <2>2, <3>1, <3>3
      <4> HIDE DEF sp
      <4>4. Announced(Removed(new, one), window', sp)
        BY <3>2, <3>3, <3>9, <4>1, <4>2, <4>3, RemovedAnnounced
      <4> QED BY <4>4 DEF rest
    <3>11. Announced(tree', window', spanned')
      <4>1. ASSUME NEW x \in rest.children[two], rest.parent[two] \in rest.map,
                   window'[rest.parent[two]] # window'[x]
            PROVE  spanned'
        <5>1. x \in tree.map
          BY <3>3, <3>4, <3>6, <3>8
        <5>2. rest.parent[two] \in tree.map
          BY <3>1, <3>3, <3>6, <3>7, <4>1
        <5>3. ~ InWindow(rest.parent[two], window[x])
          BY <1>00, <3>4, <3>5, <4>1, <5>1, <5>2 DEF InWindow
        <5> QED BY <2>2, <5>3 DEF Spans
      <4>2. sp => spanned'
        BY <2>2
      <4>3. RemovalFindsAll(rest, two)
        BY <2>2
      <4> HIDE DEF sp
      <4>4. Announced(Removed(rest, two), window', spanned')
        BY <3>2, <3>6, <3>7, <3>10, <4>1, <4>2, <4>3, RemovedAnnounced
      <4> QED BY <2>2, <4>4
    <3> QED BY <3>11
  <2> QED BY <1>6, <2>1, <2>2 DEF MergeCohorts
<1>7. ASSUME NEW c \in Here, ReadTags(c)
      PROVE  Announced(tree', window', spanned')
  BY <1>00, <1>7 DEF ReadTags, SpanInv, IInv, Here
<1>8. CASE NextWindow
  <2>1. /\ tree'.map \subseteq tree.map /\ tree'.parent = tree.parent
        /\ window' = window /\ spanned' = spanned
    BY <1>00, <1>8 DEF NextWindow, TreeInv, TreeType
  <2> QED BY <1>00, <2>1 DEF Announced
<1> QED BY <1>1, <1>2, <1>3, <1>4, <1>5, <1>6, <1>7, <1>8 DEF Next

\* Whenever a cohort of one window is attached to one of another window, by a
\* rule or because the cohort between them was removed, split or merged, the
\* output will number cohorts with their windows.
THEOREM SpansGetAnnounced ==
  Spec => []SpansAreAnnounced
<1>1. Init => (Resolved => SpanInv)
  BY InitSpanInv
<1>2. (Resolved => SpanInv) /\ [Next]_vars => (Resolved => SpanInv)'
  BY StepSpanInv, TagsStay DEF Resolved
<1>3. (Resolved => SpanInv) => SpansAreAnnounced
  BY DEF SpanInv, Announced, SpansAreAnnounced
<1> QED BY <1>1, <1>2, <1>3, PTL DEF Spec

-----------------------------------------------------------------------------
(* Who is above whom.                                                      *)

Closed(t) == {S \in SUBSET t.map : UpClosed(t, S)}
Both(t, u) == t.map \cap u.map

\* The cohorts of both trees are above and below each other as they were.
Kin(t, u) == \A c \in Both(t, u) : Above(u, c) \cap Both(t, u) = Above(t, c) \cap Both(t, u)

\* It is enough that every closed part of each tree is, among the cohorts of
\* both, a closed part of the other one.
LEMMA ClosedMeansKin ==
  ASSUME NEW t, NEW u,
         \A S \in Closed(t) : \E T \in Closed(u) : S \cap Both(t, u) = T \cap Both(t, u),
         \A T \in Closed(u) : \E S \in Closed(t) : S \cap Both(t, u) = T \cap Both(t, u)
  PROVE  Kin(t, u)
<1> SUFFICES ASSUME NEW c \in Both(t, u), NEW b \in Both(t, u)
             PROVE  b \in Above(u, c) <=> b \in Above(t, c)
  BY DEF Kin
<1>1. ASSUME b \in Above(u, c) PROVE b \in Above(t, c)
  <2> SUFFICES ASSUME NEW S \in Closed(t), c \in S PROVE b \in S
    BY DEF Above, Both, Closed
  <2>1. PICK T \in Closed(u) : S \cap Both(t, u) = T \cap Both(t, u)
    OBVIOUS
  <2>2. b \in T
    BY <1>1, <2>1 DEF Above, Closed
  <2> QED BY <2>1, <2>2
<1>2. ASSUME b \in Above(t, c) PROVE b \in Above(u, c)
  <2> SUFFICES ASSUME NEW T \in Closed(u), c \in T PROVE b \in T
    BY DEF Above, Both, Closed
  <2>1. PICK S \in Closed(t) : S \cap Both(t, u) = T \cap Both(t, u)
    OBVIOUS
  <2>2. b \in S
    BY <1>2, <2>1 DEF Above, Closed
  <2> QED BY <2>1, <2>2
<1> QED BY <1>1, <1>2

\* One operation after another.
LEMMA KinOfKin ==
  ASSUME NEW t, NEW u, NEW v, Kin(t, u), Kin(u, v), Both(t, v) \subseteq u.map
  PROVE  Kin(t, v)
<1> SUFFICES ASSUME NEW c \in Both(t, v), NEW b \in Both(t, v)
             PROVE  b \in Above(v, c) <=> b \in Above(t, c)
  BY DEF Kin
<1>1. c \in Both(t, u) /\ b \in Both(t, u) /\ c \in Both(u, v) /\ b \in Both(u, v)
  BY DEF Both
<1>2. b \in Above(u, c) <=> b \in Above(t, c)
  BY <1>1 DEF Kin
<1>3. b \in Above(v, c) <=> b \in Above(u, c)
  BY <1>1 DEF Kin
<1> QED BY <1>2, <1>3

\* ADDCOHORT leaves kin as they are.
LEMMA InsertKeepsKin ==
  ASSUME NEW t, NEW n \in Ids, TreeInv(t, n)
  PROVE  Kin(t, Insert(t, n))
<1> DEFINE u == Insert(t, n)
<1>1. /\ u.map = t.map \cup {n} /\ n \notin t.map
      /\ \A x \in t.map : u.parent[x] = t.parent[x] /\ t.parent[x] # n
  BY InsertParents
<1>2. u.parent[n] \notin u.map
  <2>1. t.map \subseteq Ids /\ u.parent[n] = NoParent
    BY InsertParents DEF TreeInv, TreeType
  <2>2. NoParent \notin Ids
    BY NoneAssumption, SizeAssumption DEF Ids
  <2> QED BY <1>1, <2>1, <2>2
<1> HIDE DEF u
<1>3. ASSUME NEW S \in Closed(t)
      PROVE  \E T \in Closed(u) : S \cap Both(t, u) = T \cap Both(t, u)
  <2>1. S \in Closed(u)
    BY <1>1 DEF Closed, UpClosed
  <2> QED BY <2>1
<1>4. ASSUME NEW T \in Closed(u)
      PROVE  \E S \in Closed(t) : S \cap Both(t, u) = T \cap Both(t, u)
  <2>1. T \cap t.map \in Closed(t)
    BY <1>1 DEF Closed, UpClosed
  <2>2. (T \cap t.map) \cap Both(t, u) = T \cap Both(t, u)
    BY DEF Both
  <2> QED BY <2>1, <2>2
<1>5. Kin(t, u)
  BY <1>3, <1>4, ClosedMeansKin
<1> QED BY <1>5 DEF u

\* REMCOHORT does: what was above the cohort is above its children.
LEMMA RemovedKeepsKin ==
  ASSUME NEW t, NEW n \in Nat, TreeInv(t, n), NEW c \in t.map, RemovalFindsAll(t, c)
  PROVE  Kin(t, Removed(t, c))
<1> DEFINE u == Removed(t, c)
<1>1. /\ u.map = t.map \ {c}
      /\ \A x \in t.map \ {c} :
           u.parent[x] = IF t.parent[x] = c THEN t.parent[c] ELSE t.parent[x]
  BY RemovedParents
<1> HIDE DEF u
<1>2. Both(t, u) = t.map \ {c}
  BY <1>1 DEF Both
<1>3. ASSUME NEW S \in Closed(t)
      PROVE  \E T \in Closed(u) : S \cap Both(t, u) = T \cap Both(t, u)
  <2>1. S \ {c} \in SUBSET u.map
    BY <1>1 DEF Closed
  <2>2. UpClosed(u, S \ {c})
    <3> SUFFICES ASSUME NEW x \in S \ {c}, u.parent[x] \in u.map PROVE u.parent[x] \in S \ {c}
      BY DEF UpClosed
    <3>1. CASE t.parent[x] = c
      BY <1>1, <3>1 DEF Closed, UpClosed
    <3>2. CASE t.parent[x] # c
      BY <1>1, <3>2 DEF Closed, UpClosed
    <3> QED BY <3>1, <3>2
  <2>3. S \cap Both(t, u) = (S \ {c}) \cap Both(t, u)
    BY <1>2
  <2> QED BY <2>1, <2>2, <2>3 DEF Closed
<1>4. ASSUME NEW T \in Closed(u)
      PROVE  \E S \in Closed(t) : S \cap Both(t, u) = T \cap Both(t, u)
  <2>0. T \in SUBSET (t.map \ {c})
    BY <1>1 DEF Closed
  <2>1. CASE \E y \in T : t.parent[y] = c
    <3> DEFINE S == T \cup {c}
    <3>1. UpClosed(t, S)
      <4> SUFFICES ASSUME NEW x \in S, t.parent[x] \in t.map, t.parent[x] # c PROVE t.parent[x] \in T
        BY DEF UpClosed
      <4>1. CASE x = c
        <5>1. PICK y \in T : t.parent[y] = c
          BY <2>1
        <5>2. u.parent[y] = t.parent[c]
          BY <1>1, <2>0, <5>1
        <5> QED BY <1>1, <4>1, <5>2 DEF Closed, UpClosed
      <4>2. CASE x \in T
        <5>1. u.parent[x] = t.parent[x]
          BY <1>1, <2>0, <4>2
        <5> QED BY <1>1, <4>2, <5>1 DEF Closed, UpClosed
      <4> QED BY <4>1, <4>2
    <3>2. S \in Closed(t) /\ S \cap Both(t, u) = T \cap Both(t, u)
      BY <1>2, <2>0, <3>1 DEF Closed
    <3> QED BY <3>2
  <2>2. CASE \A y \in T : t.parent[y] # c
    <3>1. T \in Closed(t)
      BY <1>1, <2>0, <2>2 DEF Closed, UpClosed
    <3> QED BY <3>1
  <2> QED BY <2>1, <2>2
<1>5. Kin(t, u)
  BY <1>3, <1>4, ClosedMeansKin
<1> QED BY <1>5 DEF u

\* SPLITCOHORT does: the new cohorts are where the split one was.
LEMMA SplitKeepsKin ==
  ASSUME NEW t, NEW u, NEW c \in t.map, NEW N, NEW H, TakesPlace(t, u, c, N, H),
         t.map \subseteq Ids, N \subseteq Ids
  PROVE  Kin(t, u)
<1>1. /\ u.map = (t.map \ {c}) \cup N /\ t.map \cap N = {} /\ H \subseteq N
      /\ \A x \in N \ H : u.parent[x] \notin t.map
      /\ \A x \in H : Found(t, t.parent[c]) => u.parent[x] = t.parent[c]
      /\ \A x \in H : ~ Found(t, t.parent[c]) => u.parent[x] = NoParent
      /\ \A x \in t.map \ {c} : t.parent[x] = c => u.parent[x] \in N
      /\ \A x \in t.map \ {c} : t.parent[x] # c => u.parent[x] = t.parent[x]
      /\ \A x \in t.map : t.parent[x] \notin N
  BY DEF TakesPlace
<1>2. \A S : S \cap N # {} /\ (\A x \in S \cap N : u.parent[x] \in N => u.parent[x] \in S)
              => S \cap H # {}
  BY DEF TakesPlace
<1>3. NoParent \notin Ids /\ u.map \subseteq Ids /\ Root \notin Ids
  <2>1. NoParent \notin Ids /\ Root \notin Ids
    BY NoneAssumption, SizeAssumption DEF Ids, Root
  <2> QED BY <1>1, <2>1
<1>4. Both(t, u) = t.map \ {c}
  BY <1>1 DEF Both
<1>5. ASSUME NEW S \in Closed(t)
      PROVE  \E T \in Closed(u) : S \cap Both(t, u) = T \cap Both(t, u)
  <2> DEFINE T == (S \ {c}) \cup {x \in N : c \in S}
  <2>0. S \subseteq t.map
    BY DEF Closed
  <2>1. T \in SUBSET u.map /\ T \cap Both(t, u) = S \cap Both(t, u)
    BY <1>1, <1>4, <2>0
  <2>2. UpClosed(u, T)
    <3> SUFFICES ASSUME NEW x \in T, u.parent[x] \in u.map PROVE u.parent[x] \in T
      BY DEF UpClosed
    <3>1. CASE x \in N \ H
      BY <1>1, <2>0, <3>1
    <3>2. CASE x \in H
      <4>1. u.parent[x] = t.parent[c] /\ Found(t, t.parent[c])
        BY <1>1, <1>3, <3>2
      <4>2. t.parent[c] \in t.map /\ t.parent[c] # c /\ c \in S
        BY <1>1, <1>3, <2>0, <3>2, <4>1 DEF Found
      <4> QED BY <4>1, <4>2 DEF Closed, UpClosed
    <3>3. CASE x \in S \ {c} /\ t.parent[x] = c
      <4>1. c \in S
        BY <3>3 DEF Closed, UpClosed
      <4> QED BY <1>1, <2>0, <3>3, <4>1
    <3>4. CASE x \in S \ {c} /\ t.parent[x] # c
      <4>1. u.parent[x] = t.parent[x] /\ t.parent[x] \in t.map
        BY <1>1, <2>0, <3>4
      <4> QED BY <3>4, <4>1 DEF Closed, UpClosed
    <3> QED BY <3>1, <3>2, <3>3, <3>4
  <2> QED BY <2>1, <2>2 DEF Closed
<1>6. ASSUME NEW T \in Closed(u)
      PROVE  \E S \in Closed(t) : S \cap Both(t, u) = T \cap Both(t, u)
  <2> DEFINE S == (T \ N) \cup {x \in {c} : T \cap N # {}}
  <2>0. T \subseteq u.map /\ UpClosed(u, T)
    BY DEF Closed
  <2>1. S \in SUBSET t.map /\ T \cap Both(t, u) = S \cap Both(t, u)
    BY <1>1, <1>4, <2>0
  <2>2. UpClosed(t, S)
    <3> SUFFICES ASSUME NEW x \in S, t.parent[x] \in t.map PROVE t.parent[x] \in S
      BY DEF UpClosed
    <3>1. CASE x = c
      <4>1. T \cap N # {}
        BY <1>1, <2>0, <3>1
      <4>2. \A y \in T \cap N : u.parent[y] \in N => u.parent[y] \in T
        BY <1>1, <2>0 DEF UpClosed
      <4>3. PICK h \in T : h \in H
        BY <1>2, <4>1, <4>2
      <4>4. u.parent[h] = t.parent[c]
        BY <1>1, <3>1, <4>3 DEF Found
      <4>5. CASE t.parent[c] = c
        BY <3>1, <4>5
      <4>6. CASE t.parent[c] # c
        BY <1>1, <2>0, <3>1, <4>3, <4>4, <4>6 DEF UpClosed
      <4> QED BY <4>5, <4>6
    <3>2. CASE x \in T \ N /\ t.parent[x] = c
      <4>1. u.parent[x] \in N
        BY <1>1, <2>0, <3>2
      <4>2. u.parent[x] \in T
        BY <1>1, <2>0, <3>2, <4>1 DEF UpClosed
      <4> QED BY <3>2, <4>1, <4>2
    <3>3. CASE x \in T \ N /\ t.parent[x] # c
      <4>1. u.parent[x] = t.parent[x] /\ t.parent[x] \in u.map /\ t.parent[x] \notin N
        BY <1>1, <2>0, <3>3
      <4> QED BY <2>0, <3>3, <4>1 DEF UpClosed
    <3> QED BY <3>1, <3>2, <3>3
  <2> QED BY <2>1, <2>2 DEF Closed
<1> QED BY <1>5, <1>6, ClosedMeansKin

\* Every step that makes or removes cohorts leaves the others as they were.
LEMMA StepKeepsKin ==
  ASSUME IInv, WInv, Next, tree'.map # tree.map, current' = current
  PROVE  Kin(tree, tree')
<1>0. tree \in TreeType /\ counter \in Nat /\ TreeInv(tree, counter) /\ tree.map \in SUBSET Ids
  BY DEF IInv, TreeInv, TreeType
<1>00. Here \subseteq tree.map /\ \A c \in Here : c < counter /\ counter > 0
  BY <1>0, SizeAssumption DEF Here, TreeInv, Unused, Ids
<1>1. ASSUME NEW c \in Here, NEW r \in Rules, NEW m \in SUBSET Targets(c, r), SetRelation(c, r, m)
      PROVE  FALSE
  <2>1. CASE \E cs : tree' = Numbered(tree, cs)
    BY <1>0, <2>1, NumberedAgrees
  <2>2. CASE \E cs : \E k \in tree.map : \E p : tree' = Attach(Numbered(tree, cs), p, {k})
    <3>1. PICK cs, k, p : tree' = Attach(Numbered(tree, cs), p, {k})
      BY <2>2
    <3>2. Numbered(tree, cs).map = tree.map
      BY <1>0, NumberedAgrees
    <3> QED BY <3>1, <3>2 DEF Attach
  <2> QED BY <1>00, <1>1, <2>1, <2>2, SetRelationAttaches
<1>2. ASSUME NEW c \in Here, NEW k \in {0, 1}, AddCohort(c, k)
      PROVE  Kin(tree, tree')
  <2>1. counter \in Ids /\ tree' = Insert(tree, counter)
    BY <1>0, <1>00, <1>2, SizeAssumption DEF AddCohort, Ids
  <2> QED BY <1>0, <2>1, InsertKeepsKin
<1>3. ASSUME NEW c \in Here, RemCohort(c)
      PROVE  Kin(tree, tree')
  <2>1. RemovalFindsAll(tree, c) /\ tree' = Removed(tree, c)
    BY <1>3 DEF RemCohort, Crash
  <2> QED BY <1>0, <1>00, <2>1, RemovedKeepsKin
<1>4. ASSUME NEW c \in Here, NEW r \in Recipes, SplitCohort(c, r)
      PROVE  Kin(tree, tree')
  <2>1. /\ tree.children[c] \subseteq tree.map /\ counter + Len(r.link) - 1 <= MaxId
        /\ tree' = Split(tree, c, r, counter)
    BY <1>4 DEF SplitCohort, Crash
  <2>2. Len(r.link) \in Nat \ {0}
    BY RecipesAssumption DEF RecipeType
  <2>3. counter \in Ids /\ c \in tree.map
    BY <1>0, <1>00, <2>1, <2>2, SizeAssumption DEF Ids
  <2>4. NewIds(r, counter) \subseteq Ids
    BY <2>1, <2>3, NewNumbers
  <2>5. TakesPlace(tree, tree', c, NewIds(r, counter), Heads(r, counter))
    BY <1>0, <2>1, <2>3, SplitTakesPlace
  <2> QED BY <1>0, <2>3, <2>4, <2>5, SplitKeepsKin
<1>5. ASSUME NEW c \in Here, NEW d \in Here, MergeCohorts(c, d)
      PROVE  Kin(tree, tree')
  <2> DEFINE one  == IF Place(c) < Place(d) THEN c ELSE d
             two  == IF Place(c) < Place(d) THEN d ELSE c
             new  == Insert(tree, counter)
             rest == Removed(new, one)
  <2>1. /\ RemovalFindsAll(new, one) /\ RemovalFindsAll(rest, two)
        /\ tree' = Removed(rest, two)
    BY <1>5 DEF MergeCohorts, Crash
  <2>2. /\ c \in tree.map /\ d \in tree.map /\ c # d
        /\ one \in tree.map /\ two \in tree.map /\ one # two
    BY <1>00, <1>5 DEF MergeCohorts
  <2>3. counter \in Ids /\ counter + 1 \in Nat
    BY <1>0, <1>00, <1>5, SizeAssumption DEF MergeCohorts, Ids
  <2>4. /\ TreeInv(new, counter + 1) /\ new.map = tree.map \cup {counter}
        /\ counter \notin tree.map /\ Kin(tree, new)
    BY <1>0, <2>3, InsertParents, InsertKeepsKin
  <2> HIDE DEF new, one, two
  <2>5. one \in new.map
    BY <2>2, <2>4
  <2>6. Kin(new, rest) /\ rest.map = new.map \ {one} /\ TreeInv(rest, counter + 1)
    BY <2>1, <2>3, <2>4, <2>5, RemovedKeepsKin, RemovedParents, RemovedAgrees
  <2> HIDE DEF rest
  <2>7. two \in rest.map
    BY <2>2, <2>4, <2>6
  <2>8. Kin(rest, tree') /\ tree'.map = rest.map \ {two}
    BY <2>1, <2>3, <2>6, <2>7, RemovedKeepsKin, RemovedParents
  <2>9. Kin(tree, rest)
    <3>1. Both(tree, rest) \subseteq new.map
      BY <2>6 DEF Both
    <3> QED BY <2>4, <2>6, <3>1, KinOfKin
  <2>10. Both(tree, tree') \subseteq rest.map
    BY <2>8 DEF Both
  <2> QED BY <2>8, <2>9, <2>10, KinOfKin
<1>6. ASSUME NEW c \in Here, ReadTags(c)
      PROVE  FALSE
  BY <1>0, <1>00, <1>6 DEF ReadTags, IInv
<1>7. CASE NextWindow
  <2>1. current \in Nat /\ current' = current + 1
    BY <1>7, SizeAssumption DEF NextWindow, WInv
  <2> QED BY <2>1
<1> QED BY <1>1, <1>2, <1>3, <1>4, <1>5, <1>6, <1>7 DEF Next

\* Whoever was above another cohort is above it still, and nobody else is, when
\* cohorts were made, removed, split and merged between and around them: the
\* children of what goes find what was above it.
THEOREM KinAreKept ==
  Spec => TreeKept
<1> DEFINE A == Resolved /\ tree'.map # tree.map /\ current' = current => KinKept
<1>1. Init => (Resolved => IInv) /\ WInv
  BY InitIInv, InitWInv
<1>2. (Resolved => IInv) /\ WInv /\ [Next]_vars => (Resolved => IInv)' /\ WInv'
  BY StepIInv, StepWInv, TagsStay DEF Resolved
<1>3. (Resolved => IInv) /\ WInv /\ [Next]_vars => [A]_vars
  BY StepKeepsKin DEF Kin, Both, KinKept, Survivors
<1> QED BY <1>1, <1>2, <1>3, PTL DEF Spec, TreeKept

=============================================================================
