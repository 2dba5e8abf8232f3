------------------------------- MODULE Numerics -------------------------------
(* The numeric types of a field: how a value is classified and the types of a  *)
(* field collapse into one (numeric.go, datatype.go), what a type admits       *)
(* (numeric_admit.go), and how an operand becomes one condition per type       *)
(* (numeric_bucket.go).  The widths are parameters: the code's 2^31, 2^63,     *)
(* 2^127, 15 digits and scales 292 and 18 are far beyond what TLC can count.   *)
EXTENDS Decimals, Sequences

CONSTANTS IntegerMax, LongMax, Int128Max,   \* each type spans -Max-1 .. Max
          DoublePrecision, DoubleScale,
          BigScale, BigDigits, BigExp       \* BIG_DECIMAL: a definite fit

\* Each family from its narrowest type to the one without bounds.
IntegerTypes == <<"INTEGER", "LONG", "BIG_INTEGER", "UNBOUND_INTEGER">>
DecimalTypes == <<"DOUBLE", "BIG_DECIMAL", "UNBOUND_DECIMAL">>

IntegerFamily == {IntegerTypes[i] : i \in DOMAIN IntegerTypes}
DecimalFamily == {DecimalTypes[i] : i \in DOMAIN DecimalTypes}
NumericType == IntegerFamily \cup DecimalFamily

Widest(family, types) ==
    family[CHOOSE i \in DOMAIN family :
             family[i] \in types /\ \A j \in DOMAIN family : family[j] \in types => j <= i]

-----------------------------------------------------------------------------

InSpan(n, max) == -max - 1 <= n /\ n <= max

ClassifyInteger(n) == CASE InSpan(n, IntegerMax) -> "INTEGER"
                        [] InSpan(n, LongMax)    -> "LONG"
                        [] InSpan(n, Int128Max)  -> "BIG_INTEGER"
                        [] OTHER                 -> "UNBOUND_INTEGER"

IsDoubleEnvelope(d) == Precision(d) <= DoublePrecision /\ Abs(d.s) <= DoubleScale

\* A definite fit, or one digit more where the number at the full scale fits.
IsInt128Decimal(d) ==
    /\ d.s <= BigScale
    /\ \/ Precision(d) <= BigDigits /\ Precision(d) - d.s <= BigExp
       \/ /\ Precision(d) <= BigDigits + 1 /\ Precision(d) - d.s <= BigExp + 1
          /\ SetScale(d, BigScale) # NoDecimal
          /\ InSpan(SetScale(d, BigScale).u, Int128Max)

ClassifyDecimal(d) == CASE IsDoubleEnvelope(d) -> "DOUBLE"
                        [] IsInt128Decimal(d)  -> "BIG_DECIMAL"
                        [] OTHER               -> "UNBOUND_DECIMAL"

\* The widening lattice; a value of a type may go into a field of each of these.
WidensTo(t) ==
    CASE t = "INTEGER"         -> NumericType \ {"INTEGER"}
      [] t = "LONG"            -> NumericType \ {"INTEGER", "LONG", "DOUBLE"}
      [] t = "BIG_INTEGER"     -> {"UNBOUND_INTEGER", "UNBOUND_DECIMAL"}
      [] t = "UNBOUND_DECIMAL" -> {}
      [] OTHER                 -> {"UNBOUND_DECIMAL"}

IsAssignableTo(t, u) == t = u \/ t = "NULL" \/ (t \in NumericType /\ u \in WidensTo(t))

\* Mutant of CollapseNumeric: the widest decimal, whatever else is declared.
CollapseToWidest(types) == IF types \cap DecimalFamily = {}
                           THEN Widest(IntegerTypes, types)
                           ELSE Widest(DecimalTypes, types)

\* One type every given one can be assigned to.
CollapseNumeric(types) ==
    LET widest == Widest(DecimalTypes, types)
    IN  IF types \cap DecimalFamily = {} THEN Widest(IntegerTypes, types)
        ELSE IF \A t \in types : IsAssignableTo(t, widest) THEN widest
        ELSE "UNBOUND_DECIMAL"

\* TypeSet.Add: NULL gives way to any other type and the numeric ones collapse.
AddType(types, t) ==
    LET all == types \cup {t}
        concrete == IF all = {"NULL"} THEN all ELSE all \ {"NULL"}
        numeric == concrete \cap NumericType
    IN  IF Cardinality(numeric) < 2 THEN concrete
        ELSE (concrete \ numeric) \cup {CollapseNumeric(numeric)}

-----------------------------------------------------------------------------

Whole(n) == [u |-> n, s |-> 0]
Span(max) == [lo |-> Whole(-max - 1), hi |-> Whole(max)]
DoubleMax == [u |-> 10 ^ DoublePrecision - 1, s |-> DoublePrecision - 1 - DoubleScale]

\* The magnitudes of a bounded type.
Bounds(t) == CASE t = "INTEGER"     -> Span(IntegerMax)
               [] t = "LONG"        -> Span(LongMax)
               [] t = "BIG_INTEGER" -> Span(Int128Max)
               [] t = "DOUBLE"      -> [lo |-> [DoubleMax EXCEPT !.u = -@], hi |-> DoubleMax]
               [] t = "BIG_DECIMAL" -> [lo |-> [u |-> -Int128Max - 1, s |-> BigScale],
                                        hi |-> [u |-> Int128Max, s |-> BigScale]]

ToRange(d, bounds) == CASE Cmp(d, bounds.lo) < 0 -> "below"
                        [] Cmp(d, bounds.hi) > 0 -> "above"
                        [] OTHER                 -> "in"

IsDoubleBucketPrecise(d) == Precision(d) <= DoublePrecision /\ d.s <= DoubleScale

\* Whether a field of type t can hold the number, asked by ingestion and search.
AdmitsNumeric(t, d) ==
    LET stripped == StripTrailingZeros(d)
    IN  /\ t \in NumericType
        /\ t \in IntegerFamily => stripped.s <= 0
        /\ t \notin {"UNBOUND_INTEGER", "UNBOUND_DECIMAL"} => ToRange(stripped, Bounds(t)) = "in"
        /\ t = "DOUBLE" => IsDoubleBucketPrecise(stripped)

-----------------------------------------------------------------------------

ComparingOps == {"GT", "GTE", "LT", "LTE"}

\* Mutant of RoundingModeFor: the strict and the inclusive operators swapped.
RoundingModeSwapped(op) == IF op \in {"GT", "LTE"} THEN "ceiling" ELSE "floor"

\* The rounded operand keeps the comparison's meaning on the type's values.
RoundingModeFor(op) == IF op \in {"GTE", "LT"} THEN "ceiling" ELSE "floor"

RoundDoubleImprecise(d, mode) ==
    LET clamped == IF d.s > DoubleScale THEN RoundToScale(d, DoubleScale, mode) ELSE d
    IN  IF Precision(clamped) > DoublePrecision
        THEN RoundToPrecision(d, DoublePrecision, mode)
        ELSE clamped

Condition(t, op, d) == [type |-> t, op |-> op, value |-> d]

\* Everything the type holds is on the matching side of the operand: present.
OutOfRange(t, op, pos) ==
    IF (pos = "above" /\ op \in {"LT", "LTE"}) \/ (pos = "below" /\ op \in {"GT", "GTE"})
    THEN {Condition(t, "NOT_NULL", Zero(0))} ELSE {}

InRangeDecimal(t, op, d) ==
    CASE t = "BIG_DECIMAL" \/ IsDoubleBucketPrecise(d) -> {Condition(t, op, d)}
      [] op \in ComparingOps -> {Condition(t, op, RoundDoubleImprecise(d, RoundingModeFor(op)))}
      [] OTHER -> {}

ExpandDecimal(t, op, d) ==
    LET pos == ToRange(d, Bounds(t))
    IN  CASE t = "UNBOUND_DECIMAL" -> {Condition(t, op, d)}
          [] pos = "in"            -> InRangeDecimal(t, op, d)
          [] OTHER                 -> OutOfRange(t, op, pos)

\* A fraction is rounded, or drops the family where the operator compares no order.
FoldToInt(op, d) == CASE d.s <= 0            -> d
                      [] op \in ComparingOps -> RoundToScale(d, 0, RoundingModeFor(op))
                      [] OTHER               -> NoDecimal

ExpandInteger(t, op, d) ==
    LET n == FoldToInt(op, d)
        pos == ToRange(n, Bounds(t))
    IN  CASE n = NoDecimal                        -> {}
          [] t = "UNBOUND_INTEGER" \/ pos = "in" -> {Condition(t, op, n)}
          [] OTHER                               -> OutOfRange(t, op, pos)

ExpandNumericOperand(d, types, op) ==
    UNION {ExpandDecimal(t, op, d) : t \in types \cap DecimalFamily} \cup
    UNION {ExpandInteger(t, op, d) : t \in types \cap IntegerFamily}
=============================================================================
