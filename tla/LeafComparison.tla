---------------------------- MODULE LeafComparison ----------------------------
(* The comparison of one search leaf (eval_leaf.go, parse_typed.go): ExpandLeaf *)
(* parses the operand once against the types the field declares, EvalLeaf      *)
(* judges one stored value against what it made of it.                         *)
(*                                                                              *)
(* A JSON scalar, stored or an operand, is its kind and text with everything   *)
(* the text can be read as: a number (num), a temporal value (time), a UUID     *)
(* (uuid, of which form).  Parsing itself is external.                          *)
EXTENDS Numerics, Temporals, LikePattern

NoTime == [type |-> "none", wall |-> 0, offset |-> 0]

Scalar(kind, text) == [kind |-> kind, text |-> text, num |-> NoDecimal,
                       time |-> NoTime, uuid |-> 0, strict |-> FALSE]
IsNumber(v) == v.num # NoDecimal
IsTime(v) == v.time # NoTime
IsUuid(v) == v.uuid # 0           \* in one of the forms uuid.Parse takes

TrueText  == <<116, 114, 117, 101>>
FalseText == <<102, 97, 108, 115, 101>>

\* strings.Compare, by code points.
CompareText(a, b) ==
    LET n == CHOOSE n \in 0 .. Len(a) :
               /\ n <= Len(b) /\ \A i \in 1 .. n : a[i] = b[i]
               /\ n < Len(a) /\ n < Len(b) => a[n + 1] # b[n + 1]
    IN  IF n < Len(a) /\ n < Len(b) THEN Sign(a[n + 1] - b[n + 1])
        ELSE Sign(Len(a) - Len(b))

-----------------------------------------------------------------------------

UnaryOps   == {"IS_NULL", "NOT_NULL"}
CompareOps == ComparingOps \cup {"EQ", "NE"}
RangeOps   == {"BETWEEN", "BETWEEN_INCLUSIVE"}

\* The operators on text: the relation, and what each adds to it.
Text(rel, blind, negated) == [rel |-> rel, blind |-> blind, negated |-> negated]
StringOp ==
    [LIKE             |-> Text("like", FALSE, FALSE),
     IEQ              |-> Text("equals", TRUE, FALSE),
     INE              |-> Text("equals", TRUE, TRUE),
     CONTAINS         |-> Text("contains", FALSE, FALSE),
     NOT_CONTAINS     |-> Text("contains", FALSE, TRUE),
     ICONTAINS        |-> Text("contains", TRUE, FALSE),
     INOT_CONTAINS    |-> Text("contains", TRUE, TRUE),
     STARTS_WITH      |-> Text("starts", FALSE, FALSE),
     NOT_STARTS_WITH  |-> Text("starts", FALSE, TRUE),
     ISTARTS_WITH     |-> Text("starts", TRUE, FALSE),
     INOT_STARTS_WITH |-> Text("starts", TRUE, TRUE),
     ENDS_WITH        |-> Text("ends", FALSE, FALSE),
     NOT_ENDS_WITH    |-> Text("ends", FALSE, TRUE),
     IENDS_WITH       |-> Text("ends", TRUE, FALSE),
     INOT_ENDS_WITH   |-> Text("ends", TRUE, TRUE)]
StringOps == DOMAIN StringOp
LeafOps == UnaryOps \cup CompareOps \cup RangeOps \cup StringOps

\* The operators that assert the absence of a relation.
IsNegativeOp(op) == op = "NE" \/ (op \in StringOps /\ StringOp[op].negated)

CmpResult(c, op) == CASE op = "EQ"  -> c = 0
                      [] op = "NE"  -> c # 0
                      [] op = "GT"  -> c > 0
                      [] op = "GTE" -> c >= 0
                      [] op = "LT"  -> c < 0
                      [] op = "LTE" -> c <= 0

EqNeResult(equal, op) == (op = "EQ" /\ equal) \/ (op = "NE" /\ ~equal)

InRange(lo, hi, op) == IF op = "BETWEEN_INCLUSIVE" THEN lo <= 0 /\ hi <= 0
                                                   ELSE lo < 0 /\ hi < 0

-----------------------------------------------------------------------------
\* ExpandLeaf.  An expansion holds one set of conditions per family of types.

\* ParseStringOrNull of the types that are neither numeric nor temporal.
\* An operand has to be a UUID in its canonical form.
ParsesAs(v, t) == CASE t = "STRING"    -> TRUE
                    [] t = "CHARACTER" -> Len(v.text) = 1
                    [] t = "BOOLEAN"   -> v.text \in {TrueText, FalseText}
                    [] t = "UUID_TYPE" -> IsUuid(v) /\ v.strict
                    [] OTHER           -> FALSE

NoExpansion == [op |-> "none", operands |-> <<>>, numeric |-> {}, temporal |-> {}, others |-> {}]

Expansion(op, operands) == [NoExpansion EXCEPT !.op = op, !.operands = operands]

Others(types, v) == {t \in types \ (NumericType \cup TemporalType) : ParsesAs(v, t)}

\* Some family takes the operand, which it may still drop every condition of.
Engages(v, types) == \/ IsNumber(v) /\ types \cap NumericType # {}
                     \/ IsTime(v) /\ types \cap TemporalType # {}
                     \/ Others(types, v) # {}

\* The operand is read as ingestion reads a value: without trailing zeros.
ExpandCompare(op, v, types) ==
    IF ~Engages(v, types) THEN NoExpansion
    ELSE [Expansion(op, <<v>>) EXCEPT
            !.numeric = IF IsNumber(v)
                        THEN ExpandNumericOperand(StripTrailingZeros(v.num), types, op) ELSE {},
            !.temporal = IF IsTime(v) THEN ExpandTemporalOperand(v.time, types, op) ELSE {},
            !.others = Others(types, v)]

\* The bounds are compared as they are: nothing is rounded or moved.
ExpandBetween(op, lo, hi, types) ==
    LET numeric == IF IsNumber(lo) /\ IsNumber(hi) THEN types \cap NumericType ELSE {}
        ranges == IF ~(IsTime(lo) /\ IsTime(hi)) THEN {}
                  ELSE UNION {{[type |-> t, lo |-> l, hi |-> h] :
                                 l \in ResolveMillis(lo.time, t), h \in ResolveMillis(hi.time, t)} :
                              t \in types \cap TemporalType}
    IN  IF numeric = {} /\ ranges = {} /\ "STRING" \notin types THEN NoExpansion
        ELSE [Expansion(op, <<lo, hi>>) EXCEPT !.numeric = numeric, !.temporal = ranges,
                                               !.others = types \cap {"STRING"}]

\* NoExpansion where the operand parses into no declared type, or the bounds
\* are not two.
ExpandLeaf(op, operands, types) ==
    CASE op \in CompareOps                       -> ExpandCompare(op, operands[1], types)
      [] op \in RangeOps /\ Len(operands) = 2    -> ExpandBetween(op, operands[1], operands[2], types)
      [] op \in UnaryOps \cup StringOps          -> Expansion(op, operands)
      [] OTHER                                   -> NoExpansion

-----------------------------------------------------------------------------
\* EvalLeaf: what the families of the stored value's own kind answer.

AdmittedConditions(e, v) == {c \in e.numeric : AdmitsNumeric(c.type, v.num)}
OwnTypeConditions(e, v) == {c \in e.temporal : IsTime(v) /\ c.type = v.time.type}

NumberMatches(c, v) == c.op = "NOT_NULL" \/ CmpResult(Cmp(v.num, c.value), c.op)

OtherCandidates(e, v) ==
    {t \in e.others : CASE t = "BOOLEAN"   -> v.kind = "boolean"
                        [] t = "CHARACTER" -> v.kind = "string" /\ Len(v.text) = 1
                        [] t = "UUID_TYPE" -> v.kind = "string" /\ IsUuid(v)
                        [] OTHER           -> v.kind = "string"}

OtherMatches(t, e, v) ==
    LET operand == e.operands[1]
    IN  CASE t = "BOOLEAN"   -> EqNeResult(v.text = operand.text, e.op)
          [] t = "UUID_TYPE" -> EqNeResult(v.uuid = operand.uuid, e.op)
          [] OTHER           -> CmpResult(CompareText(v.text, operand.text), e.op)

\* A number that cannot be read is decided: no operator matches it.
Undecided(e, v) ==
    /\ v.kind = "number" => IsNumber(v) /\ AdmittedConditions(e, v) = {}
    /\ v.kind = "string" => OwnTypeConditions(e, v) = {} /\ OtherCandidates(e, v) = {}
    /\ v.kind = "boolean" => OtherCandidates(e, v) = {}

EvalCompare(e, v) ==
    \/ /\ v.kind = "number" /\ IsNumber(v)
       /\ \E c \in AdmittedConditions(e, v) : NumberMatches(c, v)
    \/ /\ v.kind = "string"
       /\ \E c \in OwnTypeConditions(e, v) :
            CmpResult(Sign(Millis(v.time) - c.millis), c.op)
    \/ \E t \in OtherCandidates(e, v) : OtherMatches(t, e, v)
    \/ Undecided(e, v) /\ IsNegativeOp(e.op)

EvalBetween(e, v) ==
    \/ /\ v.kind = "number" /\ IsNumber(v)
       /\ \E t \in e.numeric : AdmitsNumeric(t, v.num)
       /\ InRange(Cmp(e.operands[1].num, v.num), Cmp(v.num, e.operands[2].num), e.op)
    \/ /\ v.kind = "string"
       /\ \E r \in OwnTypeConditions(e, v) :
            InRange(Sign(r.lo - Millis(v.time)), Sign(Millis(v.time) - r.hi), e.op)
    \/ /\ v.kind = "string" /\ "STRING" \in e.others
       /\ InRange(CompareText(e.operands[1].text, v.text),
                  CompareText(v.text, e.operands[2].text), e.op)

Fold(text) == [i \in DOMAIN text |-> IF text[i] \in 65 .. 90 THEN text[i] + 32 ELSE text[i]]
Occurs(part, text, at) == \A i \in DOMAIN part : text[at + i] = part[i]

Related(rel, text, operand) ==
    LET room == Len(text) - Len(operand)
    IN  CASE rel = "contains" -> \E at \in 0 .. room : Occurs(operand, text, at)
          [] rel = "starts"   -> room >= 0 /\ Occurs(operand, text, 0)
          [] rel = "ends"     -> room >= 0 /\ Occurs(operand, text, room)
          [] rel = "equals"   -> text = operand
          [] rel = "like"     -> LikeMatches(operand, text)

\* A value of another kind is never turned into text: it has no such relation.
EvalStringOp(e, v) ==
    LET how == StringOp[e.op]
        operand == e.operands[1].text
        related == IF how.blind THEN Related(how.rel, Fold(v.text), Fold(operand))
                                ELSE Related(how.rel, v.text, operand)
    IN  IF v.kind = "string" THEN related # how.negated ELSE how.negated

\* Absent and null match no operator but IS_NULL, the negative ones included.
EvalLeaf(e, v) ==
    LET present == v.kind \notin {"absent", "null"}
    IN  CASE e.op = "IS_NULL"      -> ~present
          [] e.op = "NOT_NULL"     -> present
          [] ~present              -> FALSE
          [] e.op \in CompareOps   -> EvalCompare(e, v)
          [] e.op \in RangeOps     -> EvalBetween(e, v)
          [] e.op \in StringOps    -> EvalStringOp(e, v)

-----------------------------------------------------------------------------
\* Ingestion, which is the engine's.

\* The type ingestion gives a value by itself (the engine's, from the kernel's
\* classifiers): numbers by value, without trailing zeros.  Null is no type of
\* a scalar: it marks a field that holds nothing else.
NaturalType(v) ==
    CASE v.kind = "number"  -> LET d == StripTrailingZeros(v.num)
                               IN  IF d.s <= 0 THEN ClassifyInteger(SetScale(d, 0).u)
                                               ELSE ClassifyDecimal(d)
      [] v.kind = "null"    -> "NULL"
      [] v.kind = "boolean" -> "BOOLEAN"
      [] OTHER              -> IF IsTime(v) THEN v.time.type
                               ELSE IF v.strict THEN "UUID_TYPE" ELSE "STRING"

Admits(types, v) == CASE v.kind = "number" -> \E t \in types : AdmitsNumeric(t, v.num)
                      [] v.kind = "null"   -> types # {}
                      [] OTHER             -> NaturalType(v) \in types
=============================================================================
