---------------------------- MODULE AttributeOrder ----------------------------
(* The order of a search's answer (order_class.go, order_compare.go): the class *)
(* a field's types compare in, and the comparison of two entities by a sequence *)
(* of keys.  A key's value may have come under another type than the class was  *)
(* chosen for; it is read as the JSON library reads it (external).              *)
EXTENDS Filters

CONSTANTS DoubleBits,    \* of a double's significand: 53
          DoubleLeast,   \* the least double is 2^-DoubleLeast: 2^-1074
          DoubleTop      \* finite ones are below 2^DoubleTop: 2^1024

ASSUME DoubleAssumption == DoubleBits \in Nat /\ DoubleLeast \in Nat /\ DoubleTop \in Nat

ScalarClass(t) == CASE t \in NumericType                        -> "numeric"
                    [] t = "BOOLEAN"                            -> "bool"
                    [] t \in {"STRING", "CHARACTER", "UUID_TYPE"} -> "text"
                    [] t \in TemporalType                       -> "temporal"
                    [] OTHER                                    -> "unsortable"

\* The fold of a sort: stored times are text, in their chronological order.
AsStored(class) == IF class = "temporal" THEN "text" ELSE class

\* One class for all the types that are not null, or none.
ClassifyTypesFold(types) ==
    LET classes == {AsStored(ScalarClass(t)) : t \in types \ {"NULL"}}
    IN  IF Cardinality(classes) = 1 THEN CHOOSE k \in classes : TRUE ELSE "unsortable"

MetaClass(field) == IF field \in TemporalMeta THEN "temporal" ELSE "text"

\* A key of an order, of a path of names (of one, in the meta), and the OrderSpec
\* it becomes with its class.
SortKey(source, path, desc) == [source |-> source, path |-> path, desc |-> desc]
OrderSpec(key, fields) ==
    [source |-> key.source, path |-> key.path, desc |-> key.desc,
     kind |-> IF key.source = "meta" THEN MetaClass(key.path[1].name)
              ELSE ClassifyTypesFold(Declared(fields, FoldSubscripts(key.path)))]

-----------------------------------------------------------------------------
\* A double is the integer it is a multiple of the least one by; infinity is one
\* more than the finite ones can be, and NaN is no number at all.
Infinity == 2 ^ (DoubleTop + DoubleLeast)
NaN == Infinity + 1

\* The multiple of step next to n / m, the even one of two.
NearestMultiple(n, m, step) ==
    LET q == n \div (m * step)
        twice == 2 * (n % (m * step))
        up == twice > m * step \/ (twice = m * step /\ q % 2 = 1)
    IN  step * (q + IF up THEN 1 ELSE 0)

\* strconv.ParseFloat of a number: the nearest double, of DoubleBits bits or of
\* fewer where they would be below the least double.
ToDouble(d) ==
    LET n == Abs(d.u) * 2 ^ DoubleLeast * 10 ^ (IF d.s < 0 THEN -d.s ELSE 0)
        m == 10 ^ (IF d.s > 0 THEN d.s ELSE 0)
        width == CHOOSE k \in 0 .. DoubleTop + DoubleLeast :
                   /\ n \div m < 2 ^ (k + DoubleBits)
                   /\ k > 0 => n \div m >= 2 ^ (k - 1 + DoubleBits)
    IN  Sign(d.u) * IF Cmp([d EXCEPT !.u = Abs(@)], Whole(2 ^ DoubleTop)) >= 0
                    THEN Infinity ELSE NearestMultiple(n, m, 2 ^ width)

\* The texts, in small letters, that ParseFloat takes for no finite number.
NaNText == <<110, 97, 110>>
InfinityTexts == {<<105, 110, 102>>, <<105, 110, 102, 105, 110, 105, 116, 121>>}
Signed(texts, sign) == {<<sign>> \o t : t \in texts}

TextToDouble(v) ==
    CASE Fold(v.text) = NaNText                                          -> NaN
      [] Fold(v.text) \in InfinityTexts \cup Signed(InfinityTexts, 43) -> Infinity
      [] Fold(v.text) \in Signed(InfinityTexts, 45)                     -> -Infinity
      [] IsNumber(v)                                                     -> ToDouble(v.num)
      [] OTHER                                                           -> 0

\* gjson.Result: Float, Bool, String, and Num, which only a number has.
AsFloat(v) == CASE v.kind = "number"                          -> ToDouble(v.num)
                [] v.kind = "string"                          -> TextToDouble(v)
                [] v.kind = "boolean" /\ v.text = TrueText -> ToDouble(Whole(1))
                [] OTHER                                      -> 0

\* ParseBool of a text in small letters: "1", "t" or "true".
AsBool(v) == CASE v.kind = "number"  -> ToDouble(v.num) # 0
               [] v.kind = "string"  -> Fold(v.text) \in {<<49>>, <<116>>, TrueText}
               [] v.kind = "boolean" -> v.text = TrueText
               [] OTHER              -> FALSE

\* A scalar's own text, numbers being integers here; of an object or an array only the bracket its text starts with.
AsText(v) == CASE v.kind = "object" -> <<123>>
               [] v.kind = "array"  -> <<91>>
               [] OTHER             -> v.text

\* A time of the entity's meta is its milliseconds, which a double holds; a stored
\* text is no number.
Instant(v, source) == CASE source = "meta"     -> Millis(v.time)
                        [] v.kind = "number" -> ToDouble(v.num)
                        [] OTHER             -> 0

\* NaN is neither less nor greater than anything.
CompareFloat(p, q) == CASE NaN \in {p, q} -> 0
                        [] p < q         -> -1
                        [] p > q         -> 1
                        [] OTHER         -> 0

CompareBool(p, q) == CASE p = q -> 0 [] p -> 1 [] OTHER -> -1

\* compareOrderValues; an entity's id is compared as text whatever the class.
CompareValues(v, w, s) ==
    CASE s.source = "meta" /\ s.path[1].name = "id" -> CompareText(v.text, w.text)
      [] s.kind = "numeric"  -> CompareFloat(AsFloat(v), AsFloat(w))
      [] s.kind = "bool"     -> CompareBool(AsBool(v), AsBool(w))
      [] s.kind = "temporal" -> CompareFloat(Instant(v, s.source), Instant(w, s.source))
      [] OTHER               -> CompareText(AsText(v), AsText(w))

-----------------------------------------------------------------------------

\* orderMetaLeaf: an empty text of the meta is missing.
OrderMetaLeaf(entity, field) ==
    LET v == FieldResult(Object(entity.meta), field)
    IN  IF v.kind = "string" /\ v.text = <<>> THEN Absent ELSE v

\* A path addresses one value or none; an empty one addresses none.
OrderLeafValue(entity, s) ==
    CASE s.source = "meta" -> OrderMetaLeaf(entity, s.path[1].name)
      [] s.path = <<>>     -> Absent
      [] OTHER             -> CHOOSE v \in Resolve({entity.data}, s.path) : TRUE

HasValue(entity, s) == OrderLeafValue(entity, s).kind \notin {"absent", "null"}

\* Mutant of KeyOrder: a key one of the two has no value for decides nothing.
KeyOrderOfBoth(a, b, s) ==
    LET c == CompareValues(OrderLeafValue(a, s), OrderLeafValue(b, s), s)
    IN  IF HasValue(a, s) /\ HasValue(b, s) THEN IF s.desc THEN -c ELSE c ELSE 0

\* lessByOrderKey: -1 where a comes first, 0 where the key does not decide.  No
\* value comes last in either direction.
KeyOrder(a, b, s) ==
    LET c == CompareValues(OrderLeafValue(a, s), OrderLeafValue(b, s), s)
    IN  CASE ~HasValue(a, s) -> IF HasValue(b, s) THEN 1 ELSE 0
          [] ~HasValue(b, s) -> -1
          [] OTHER           -> IF s.desc THEN -c ELSE c

\* The first key that decides, or else the ids.
LessByOrder(a, b, specs) ==
    LET Decides(i) == KeyOrder(a, b, specs[i]) # 0
    IN  IF \E i \in DOMAIN specs : Decides(i)
        THEN \E i \in DOMAIN specs : /\ KeyOrder(a, b, specs[i]) < 0
                                     /\ \A j \in 1 .. i - 1 : ~Decides(j)
        ELSE CompareText(a.meta.id.text, b.meta.id.text) < 0
=============================================================================
