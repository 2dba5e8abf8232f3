----------------------------- MODULE FieldSearch -----------------------------
(* A field of a model over its life: values are ingested, which may widen the *)
(* types it declares, and a search leaf, prepared against the types of that   *)
(* moment, judges what is stored then and later.                              *)
EXTENDS LeafComparison

CONSTANTS Pools,          \* the values that may come together in one field, with what
                          \* is asked of it: operators, operands and bounds of ranges
          MaxStored       \* bound: the values of the field that are looked at

\* A number is admitted by the type it is classified as, and by each type that
\* one may widen to; a temporal value is of a temporal type.
ValueFits(v) ==
    /\ v.kind = "number" =>
         /\ AdmitsNumeric(NaturalType(v), v.num)
         /\ \A t \in NumericType : AdmitsNumeric(t, v.num) =>
              \A u \in WidensTo(t) : AdmitsNumeric(u, v.num)
    /\ IsTime(v) => v.time.type \in TemporalType

ASSUME ValuesFit == \A p \in Pools : \A v \in p.values : ValueFits(v)

VARIABLES pool,           \* this field's values and questions
          stored,         \* what was ingested of them
          declared,       \* the field's TypeSet
          leaf            \* the prepared leaf, with the types it was made for

vars == <<pool, stored, declared, leaf>>

NoLeaf == [types |-> {}, exp |-> NoExpansion]

Init == /\ pool \in Pools
        /\ stored = {}
        /\ declared = {}
        /\ leaf = NoLeaf

\* A write changes the model only where no declared type admits the value.
Ingest(v) ==
    /\ Cardinality(stored) < MaxStored
    /\ stored' = stored \cup {v}
    /\ declared' = IF Admits(declared, v) THEN declared
                                          ELSE AddType(declared, NaturalType(v))
    /\ UNCHANGED <<pool, leaf>>

\* Once per query; a leaf no declared type takes the operand of is refused.
Prepare(op, operands) ==
    /\ leaf = NoLeaf
    /\ LET e == ExpandLeaf(op, operands, declared)
       IN  e # NoExpansion /\ leaf' = [types |-> declared, exp |-> e]
    /\ UNCHANGED <<pool, stored, declared>>

PrepareAny ==
    \/ \E op \in pool.ops \ UnaryOps, v \in pool.operands : Prepare(op, <<v>>)
    \/ \E op \in pool.ops \cap UnaryOps : Prepare(op, <<>>)
    \/ \E op \in RangeOps, lo, hi \in pool.bounds : Prepare(op, <<lo, hi>>)

Next == (\E v \in pool.values : Ingest(v)) \/ PrepareAny

Spec == Init /\ [][Next]_vars

-----------------------------------------------------------------------------

\* However a field's types widen, every number ever stored in it is admitted by
\* one of them: CollapseNumeric's invariant over a whole history.  A number the
\* field no longer admitted would be skipped by every comparison.
StoredStaysAdmitted == \A v \in stored : Admits(declared, v)

Judged(v) == leaf # NoLeaf /\ Admits(leaf.types, v)
Op == leaf.exp.op
Operand(i) == leaf.exp.operands[i]
Matches(v) == EvalLeaf(leaf.exp, v)

\* The worth of a number, in ten-thousandths.
Worth(d) == d.u * 10 ^ (4 - d.s)
Order(a, b) == Sign(Worth(a) - Worth(b))

\* Rounded, folded, replaced by a test for presence or dropped: a number that
\* the leaf's types admit compares with the operand as the two numbers do.  One
\* that is compared with something else than a number is only different from it.
NumbersCompareExactly ==
    \A v \in stored : v.kind = "number" /\ Judged(v) =>
        /\ Op \in CompareOps =>
             Matches(v) = IF IsNumber(Operand(1))
                          THEN CmpResult(Order(v.num, Operand(1).num), Op)
                          ELSE Op = "NE"
        /\ Op \in RangeOps =>
             Matches(v) = /\ IsNumber(Operand(1)) /\ IsNumber(Operand(2))
                          /\ InRange(Order(Operand(1).num, v.num),
                                     Order(v.num, Operand(2).num), Op)

-----------------------------------------------------------------------------

\* Where a reading falls among the values a type can hold.  Only a zoned one
\* that is compared with a zoned one is an instant.
Grain(t) == CASE t = "YEAR"       -> YearLength
              [] t = "YEAR_MONTH" -> MonthLength
              [] t = "LOCAL_DATE" -> DayLength
              [] OTHER            -> Millisecond
Wall(x, t) == CASE t = "LOCAL_TIME" -> TimeOfDay(x.wall)
                [] t = x.type       -> x.wall - x.offset
                [] OTHER            -> x.wall
Place(x, t) == Wall(x, t) \div Grain(t)

\* A time of day and a date have nothing in common.
Comparable(t, u) == \/ "LOCAL_TIME" \notin {t, u}
                    \/ {t, u} \subseteq {"LOCAL_TIME", "LOCAL_DATE_TIME", "ZONED_DATE_TIME"}

\* The operand is one of the values the type can hold.
Exact(x, t) == CASE x.type = t         -> TRUE
                 [] t = "LOCAL_TIME"   -> FloorTo(DayLength, x.wall) = EpochDate
                 [] Grain(t) = Millisecond -> TRUE
                 [] OTHER              -> x.wall = FloorTo(Grain(t), x.wall)

\* Chronological order, to the millisecond, with the operand itself where it is
\* finer than the stored type; equality with what that type could hold of it.
CompareTimes(op, x, y) ==
    LET t == x.type
        place == Sign(Place(x, t) - Place(y, t))
    IN  CASE op = "EQ" -> place = 0 /\ Exact(y, t)
          [] op = "NE" -> place # 0
          [] OTHER     -> CmpResult(IF Exact(y, t) \/ t = "LOCAL_TIME" THEN place
                                    ELSE Sign(x.wall - y.wall), op)

\* A temporal value compares with an operand of any precision as time does:
\* operands are floored once per hop and the operator changes at most once.
\* NE is only false in the period that holds the operand, and a range is one of
\* whole periods.
TimesCompareChronologically ==
    \A v \in stored :
        IsTime(v) /\ v.kind = "string" /\ Judged(v) /\ leaf.types \subseteq TemporalType =>
            /\ Op \in CompareOps =>
                 Matches(v) = IF Comparable(v.time.type, Operand(1).time.type)
                              THEN CompareTimes(Op, v.time, Operand(1).time)
                              ELSE Op = "NE"
            /\ Op \in RangeOps =>
                 LET t == v.time.type
                     lo == Operand(1).time
                     hi == Operand(2).time
                 IN  Matches(v) = /\ Comparable(t, lo.type) /\ Comparable(t, hi.type)
                                  /\ InRange(Place(lo, t) - Place(v.time, t),
                                             Place(v.time, t) - Place(hi, t), Op)

\* A LIKE leaf matches what its pattern means, found by a scan that only ever
\* comes back to the last '%'.
LikeIsGlob ==
    \A v \in stored :
        leaf # NoLeaf /\ Op = "LIKE" /\ v.kind = "string" =>
            Matches(v) = (WellFormed[Operand(1).text] /\ Glob[Operand(1).text, v.text])
=============================================================================
