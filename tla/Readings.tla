------------------------------ MODULE Readings ------------------------------
(***************************************************************************)
(* The readings of a cohort and the sets that may match them: adding and   *)
(* deleting tags, splitting a reading on its mapping tags, joining readings*)
(* for printing, and the smallest and largest numeric value of a cohort.   *)
(*                                                                         *)
(* A reading is a sequence of parts, itself and its sub-readings. The word *)
(* form and base form every part starts with, the order numbers of the     *)
(* readings and the rules that hit them are left out. The hash of a part   *)
(* is what it is computed from.                                            *)
(***************************************************************************)
EXTENDS Integers, Sequences, FiniteSets, SequencesExt, FiniteSetsExt

CONSTANTS
    SetDef,        \* the sets of the grammar, by name
    MappingTags,   \* tags with the mapping prefix
    Comparison     \* numeric tags: [op, val] of each

NumMin == -1000    \* NUMERIC_MIN: <W=MIN> stands for the smallest of the cohort
NumMax == 1000     \* NUMERIC_MAX
NoTag == ""

Sets == DOMAIN SetDef
Numerical == DOMAIN Comparison
Reading(tags) == [tags |-> tags, mapping |-> NoTag, mapped |-> FALSE]

-----------------------------------------------------------------------------
(* Kinds of sets: [kind |-> "list", paths, ff], ["set", parts, ops],       *)
(* ["$$" or "&&", parts: one set], ["any"].                                *)

PartsOf(X) == IF SetDef[X].kind \in {"list", "any"} THEN {} ELSE ToSet(SetDef[X].parts)
OwnTags(X) == IF SetDef[X].kind = "list"
              THEN UNION {ToSet(p) : p \in ToSet(SetDef[X].paths)} ELSE {}

TagsOf[X \in Sets] == OwnTags(X) \cup UNION {TagsOf[Y] : Y \in PartsOf(X)}

\* ST_TAG_UNIFY or ST_SET_UNIFY; ST_CHILD_UNIFY, ST_SPECIAL, ST_MAPPING
Unifies(X) == SetDef[X].kind \in {"$$", "&&"}
IsChildUnify[X \in Sets] == Unifies(X) \/ \E Y \in PartsOf(X) : IsChildUnify[Y]
IsSpecial[X \in Sets] ==
    \/ IsChildUnify[X] \/ OwnTags(X) \cap Numerical # {}
    \/ \E Y \in PartsOf(X) : IsSpecial[Y]
IsMapping(X) == TagsOf[X] \cap MappingTags # {}

\* sets_any: the sets no tag of a cohort can rule out
AnySets == {X \in Sets : SetDef[X].kind = "any" \/ IsSpecial[X]}

\* sets_by_tag
SetsByTag(t) == {X \in Sets \ AnySets : t \in TagsOf[X]}

-----------------------------------------------------------------------------
(* Parts of readings.                                                      *)

TagSet(p) == ToSet(p.tags)

\* hash_plain and hash, as rehash sets them. The hash of the sub-readings,
\* folded into hash as well, tells readings apart that no set tells apart.
HashPlain(p) == TagSet(p) \ {p.mapping}
Hash(p) == <<HashPlain(p), p.mapping>>

\* A cohort: readings, deleted, possible (possible_sets), current
\* (CT_NUM_CURRENT), low and high (num_min and num_max), and whether
\* addTagToReading has ended the program over a second mapping tag.
AddTag(co, i, k, t) ==
    LET p == co.readings[i][k] IN
    [co EXCEPT
        !.possible = @ \cup SetsByTag(t),
        !.current  = @ /\ t \notin Numerical,
        !.quit     = @ \/ (t \in MappingTags /\ p.mapping \notin {NoTag, t}),
        !.readings[i][k] = [p EXCEPT !.tags = Append(@, t),
                                     !.mapping = IF t \in MappingTags THEN t ELSE @]]

DelTag(co, i, k, t) ==
    [co EXCEPT !.current = FALSE,
               !.readings[i][k].tags = SelectSeq(@, LAMBDA u : u # t),
               !.readings[i][k].mapping = IF @ = t THEN NoTag ELSE @]

AddTags(co, i, k, ts) == FoldLeft(LAMBDA c, t : AddTag(c, i, k, t), co, ts)

\* reflowReading: the part is rebuilt from its list of tags.
Reflow(co, i, k) ==
    AddTags([co EXCEPT !.possible = @ \cup AnySets,
                       !.readings[i][k].tags = <<>>,
                       !.readings[i][k].mapping = NoTag],
            i, k, co.readings[i][k].tags)

\* Cohort::appendReading; a copy of a reading carries its sub-readings along.
AppendReading(co, rd) == [co EXCEPT !.readings = Append(@, rd), !.current = FALSE]

-----------------------------------------------------------------------------
(* Mapping tags: a reading has one; with more it is split.                 *)

\* Variant: the mapping tag the reading already has is forgotten.
SplitMappings_Forgets(co, i, k, maps, mapped) ==
    LET bare == IF co.readings[i][k].mapping = NoTag THEN co
                ELSE DelTag(co, i, k, co.readings[i][k].mapping)
        Copy(c, t) ==
            LET c2 == AppendReading(c, SubSeq(c.readings[i], k, Len(c.readings[i])))
                c3 == AddTag(c2, Len(c2.readings), 1, t)
            IN [c3 EXCEPT !.readings[Len(c2.readings)][1].mapped = mapped]
        c == FoldLeft(Copy, bare, Front(maps))
    IN [AddTag(c, i, k, Last(maps)) EXCEPT !.readings[i][k].mapped = mapped]

SplitMappings(co, i, k, maps, mapped) ==
    LET own   == co.readings[i][k].mapping
        all   == IF own = NoTag THEN maps ELSE Append(maps, own)
        bare  == IF own = NoTag THEN co ELSE DelTag(co, i, k, own)
        plain == HashPlain(bare.readings[i][k])
        Similar(c, t) == \E rd \in ToSet(c.readings) :
                            HashPlain(rd[1]) = plain /\ rd[1].mapping = t
        Copy(c, t) ==
            IF Similar(c, t) THEN c ELSE
            LET c2 == AppendReading(c, SubSeq(c.readings[i], k, Len(c.readings[i])))
                c3 == AddTag(c2, Len(c2.readings), 1, t)
            IN [c3 EXCEPT !.readings[Len(c2.readings)][1].mapped = mapped]
        c == FoldLeft(Copy, bare, Front(all))
    IN [AddTag(c, i, k, Last(all)) EXCEPT !.readings[i][k].mapped = mapped]

\* unmapReading
Unmap(co, i, k) ==
    LET own == co.readings[i][k].mapping
        c   == IF own = NoTag THEN co ELSE DelTag(co, i, k, own)
    IN [c EXCEPT !.readings[i][k].mapped = FALSE]

-----------------------------------------------------------------------------
(* Printing: readings that differ in their mapping tags only are joined,   *)
(* and one without is hidden if there is one with.                         *)

PlainHashes(rd) == [k \in DOMAIN rd |-> HashPlain(rd[k])]
Mappings(rd) == Cardinality({k \in DOMAIN rd : rd[k].mapping # NoTag})

\* The readings marked deleted: of those with the plain hashes of a reading,
\* only the last before it is looked at.
Hidden(rds) ==
    {i \in DOMAIN rds :
        LET Before == {j \in 1..(i - 1) : PlainHashes(rds[j]) = PlainHashes(rds[i])}
            After  == {j \in (i + 1)..Len(rds) : PlainHashes(rds[j]) = PlainHashes(rds[i])}
        IN \/ Mappings(rds[i]) = 0 /\ Before # {} /\ Mappings(rds[Max(Before)]) # 0
           \/ Mappings(rds[i]) = 0 /\ After # {} /\ Mappings(rds[Min(After)]) # 0}

\* Variant: sub-readings do not keep readings apart.
MergeKey_Main(rd) == <<HashPlain(rd[1]), Mappings(rd)>>

\* hp + nm, without --trace
MergeKey(rd) == <<PlainHashes(rd), Mappings(rd)>>

\* mergeReadings. A reading made of several has the tags of the first, then
\* the mapping tags of all; the parts below the first keep theirs.
Merged(rds) ==
    LET keys == {MergeKey(rds[i]) : i \in DOMAIN rds}
        Of(key) == {i \in DOMAIN rds : MergeKey(rds[i]) = key}
        Joined(key) ==
            LET first == rds[Min(Of(key))]
                maps  == {rds[i][1].mapping : i \in Of(key)} \ {NoTag}
            IN [tags   |-> HashPlain(first[1]), maps |-> maps,
                subs   |-> Tail(first), hidden |-> Min(Of(key)) \in Hidden(rds)]
        Single(i) == [tags |-> HashPlain(rds[i][1]), maps |-> {rds[i][1].mapping} \ {NoTag},
                      subs |-> Tail(rds[i]), hidden |-> i \in Hidden(rds)]
    IN IF Cardinality(keys) = Len(rds)
       THEN {Single(i) : i \in DOMAIN rds}
       ELSE {Joined(key) : key \in keys}

\* The key of mergeReadings counts mapping tags and does not tell which they are:
\* of readings that the mapping tag of a sub-reading alone tells apart, one is
\* taken for the other, or hidden for it.
FullHashes(rd) == [k \in DOMAIN rd |-> Hash(rd[k])]
SubMappingsAgree(rds) ==
    \A r, q \in ToSet(rds) :
        PlainHashes(r) = PlainHashes(q) /\ (Mappings(r) = Mappings(q) \/ Mappings(r) = 0)
        => FullHashes(Tail(r)) = FullHashes(Tail(q))

\* What is printed as m stands for the reading rd: all it has but its own mapping
\* tag. Every reading is printed as something that has this tag too, and every
\* mapping tag printed, or the lack of one, was that of a reading.
Prints(m, rd) == m.tags = HashPlain(rd[1]) /\ FullHashes(m.subs) = FullHashes(Tail(rd))
PrintedMaps(m) == IF m.maps = {} THEN {NoTag} ELSE m.maps
LosesNothing(rds) ==
    LET out == {m \in Merged(rds) : ~m.hidden}
    IN /\ \A rd \in ToSet(rds) : \E m \in out :
                Prints(m, rd) /\ {rd[1].mapping} \ {NoTag} \subseteq m.maps
       /\ \A m \in out : \A t \in PrintedMaps(m) :
                \E rd \in ToSet(rds) : Prints(m, rd) /\ rd[1].mapping = t

-----------------------------------------------------------------------------
(* Numeric tags.                                                           *)

Values(co) == {Comparison[t].val : t \in UNION {TagSet(rd[1]) \cap Numerical :
                                                    rd \in ToSet(co.readings)}}
Lowest(co)  == IF Values(co) = {} THEN NumMin ELSE Min(Values(co))
Highest(co) == IF Values(co) = {} THEN NumMax ELSE Max(Values(co))

\* updateMinMax
UpdateMinMax(co) ==
    IF co.current THEN co
    ELSE [co EXCEPT !.low = Lowest(co), !.high = Highest(co), !.current = TRUE]

\* Variant: a lower bound reaches an upper bound that it only touches.
Compare_Touching(op, x, iop, y) ==
    LET up == {"<", "<="} down == {">", ">="} IN
    CASE op = "=" /\ iop = "="   -> x = y
      [] op = "=" /\ iop = "!="  -> x # y
      [] op = "=" /\ iop = "<"   -> x < y
      [] op = "=" /\ iop = "<="  -> x <= y
      [] op = "=" /\ iop = ">"   -> x > y
      [] op = "=" /\ iop = ">="  -> x >= y
      [] op = "!=" /\ iop = "="  -> x # y
      [] op = "!=" /\ iop = "!=" -> x = y
      [] op = "<" /\ iop = "="   -> x > y
      [] op = "<=" /\ iop = "="  -> x >= y
      [] op = ">" /\ iop = "="   -> x < y
      [] op = ">=" /\ iop = "="  -> x <= y
      [] op \in up /\ iop \in down -> x >= y
      [] op \in down /\ iop \in up -> x <= y
      [] OTHER -> TRUE

\* doesTagMatchReading, T_NUMERICAL: tag op x of the grammar against iop y
Compare(op, x, iop, y) ==
    LET up == {"<", "<="} down == {">", ">="} IN
    CASE op = "=" /\ iop = "="   -> x = y
      [] op = "=" /\ iop = "!="  -> x # y
      [] op = "=" /\ iop = "<"   -> x < y
      [] op = "=" /\ iop = "<="  -> x <= y
      [] op = "=" /\ iop = ">"   -> x > y
      [] op = "=" /\ iop = ">="  -> x >= y
      [] op = "!=" /\ iop = "="  -> x # y
      [] op = "!=" /\ iop = "!=" -> x = y
      [] op = "<" /\ iop = "="   -> x > y
      [] op = "<=" /\ iop = "="  -> x >= y
      [] op = ">" /\ iop = "="   -> x < y
      [] op = ">=" /\ iop = "="  -> x <= y
      [] op \in up /\ iop \in down -> IF op = "<=" /\ iop = ">=" THEN x >= y ELSE x > y
      [] op \in down /\ iop \in up -> IF op = ">=" /\ iop = "<=" THEN x <= y ELSE x < y
      [] OTHER -> TRUE

\* What the manual's table means: two tags compare when some value fits both, and
\* two inequalities when they are the same. Values are not whole numbers: those of
\* V count halves.
Fits(op, x, v) ==
    CASE op = "=" -> v = 2 * x [] op = "!=" -> v # 2 * x
      [] op = "<" -> v < 2 * x [] op = "<=" -> v <= 2 * x
      [] op = ">" -> v > 2 * x [] op = ">=" -> v >= 2 * x
Operators == {"=", "!=", "<", "<=", ">", ">="}
ComparesAsTable(op, x, iop, y, V) ==
    Compare(op, x, iop, y) <=>
        IF op = "!=" /\ iop = "!=" THEN x = y
        ELSE \E v \in V : Fits(op, x, v) /\ Fits(iop, y, v)
=============================================================================
