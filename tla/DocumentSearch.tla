---------------------------- MODULE DocumentSearch ----------------------------
(* Entities are saved if their unique keys let them be, and extend the schema   *)
(* of their model; the schema is persisted and read back, in the spelling of    *)
(* this version or of an older one; a search translates and prepares its        *)
(* condition and its order against the schema it finds and judges and sorts the *)
(* entities stored then and later.                                              *)
EXTENDS AttributeOrder, UniqueClaims

CONSTANTS Collections,    \* what may be saved of one model, its unique keys, what is asked:
                          \* [entities, keys, conditions, orders]
          MaxStored       \* bound: the number of saves

VARIABLES scope,          \* this model's collection
          stored,         \* the entities saved
          model,          \* the schema tree, as the executor holds it
          search          \* the condition, its prepared filter, the order's specs, and
                          \* what was stored then

vars == <<scope, stored, model, search>>

NoSearch == [condition |-> Function, node |-> Unprepared, order |-> <<>>, seen |-> {}]

Init == /\ scope \in Collections
        /\ stored = {} /\ model = EmptyNode /\ search = NoSearch

Save(entity) ==
    /\ Cardinality(stored) < MaxStored
    /\ \A key \in scope.keys : Granted(key, entity, stored)
    /\ stored' = stored \cup {entity}
    /\ model' = Extend(model, entity.data)
    /\ UNCHANGED <<scope, search>>

\* MarshalModelNode, and UnmarshalModelNode by whoever searches next.
Reload(wire) == /\ Readable(wire)
                /\ model' = FromWire(wire)
                /\ UNCHANGED <<scope, stored, search>>

\* A node was written under one label once, whatever else it carried.
RECURSIVE SingleLabel(_)
SingleLabel(w) ==
    [w EXCEPT !.kinds = {},
              !.kind = CASE w.kinds = {}         -> @
                         [] "OBJECT" \in w.kinds -> "OBJECT"
                         [] OTHER                -> "ARRAY",
              !.children = [name \in DOMAIN @ |-> SingleLabel(@[name])],
              !.element = {SingleLabel(e) : e \in @}]

\* FieldsMapFromSchema, ConditionToFilter and Prepare, once per search; a key
\* whose types have no one class cannot be sorted by.
Ask(c, order) ==
    LET fields == CollectFields(model, <<>>)
        filter == IF c.form = "everything" THEN MatchAll ELSE ConditionToFilter(c, fields)
        specs == [i \in DOMAIN order |-> OrderSpec(order[i], fields)]
    IN  /\ search = NoSearch
        /\ Prepare(filter) # Unprepared
        /\ \A i \in DOMAIN specs : specs[i].kind # "unsortable"
        /\ search' = [condition |-> c, node |-> Prepare(filter), order |-> specs, seen |-> stored]
        /\ UNCHANGED <<scope, stored, model>>

Next == \/ \E entity \in scope.entities : Save(entity)
        \/ Reload(ToWire(model))
        \/ Reload(SingleLabel(ToWire(model)))
        \/ \E c \in scope.conditions, order \in scope.orders : Ask(c, order)

Spec == Init /\ [][Next]_vars

-----------------------------------------------------------------------------

\* The values of a document with every path that addresses them, by their index
\* or by the wildcard.
RECURSIVE Values(_, _)
Values(v, path) ==
    LET Below(sub, x) == Values(x, [path EXCEPT ![Len(path)].subs = Append(@, sub)])
    IN  {<<path, v>>} \cup
        CASE v.kind = "object" ->
               UNION {Values(v.members[m], Append(path, Hop1(m))) : m \in DOMAIN v.members}
          [] v.kind = "array" ->
               UNION {Below(i - 1, v.elems[i]) \cup Below(Star, v.elems[i]) : i \in DOMAIN v.elems}
          [] OTHER -> {}

At(entity, path) == {pv[2] : pv \in {pv \in Values(entity.data, <<>>) : pv[1] = path}}

\* However entities came to declare it and however often the schema was written
\* and read, a search for a scalar by a path it is stored at is accepted and
\* finds the entity: the key a search makes of a path is the one the flattening
\* gave the field.
FindsWhatItHolds ==
    LET fields == CollectFields(model, <<>>)
        Finds(entity, path, v) ==
            LET node == Prepare(ConditionToFilter(Simple(path, "EQ", v), fields))
            IN  node # Unprepared /\ Match(node, entity)
    IN  \A entity \in stored : \A pv \in Values(entity.data, <<>>) :
            IsScalar(pv[2]) => Finds(entity, pv[1], pv[2])

-----------------------------------------------------------------------------

\* A stored value equals an operand that reads as the same.
Equal(v, operand) ==
    CASE v.kind = "number"  -> IsNumber(operand) /\ Cmp(v.num, operand.num) = 0
      [] IsScalar(v)        -> \/ v.text = operand.text
                               \/ /\ IsTime(v) /\ IsTime(operand)
                                  /\ Millis(v.time) = Millis(operand.time)
      [] OTHER              -> FALSE

\* Some value at a path; IS_NULL of a path with a wildcard asks for a null
\* element, without one for a value that is null or is not there.
Holds(op, values, operand, wild) ==
    LET present == {v \in values : v.kind \notin {"null", "absent"}}
    IN  CASE op = "EQ"       -> \E v \in present : Equal(v, operand)
          [] op = "NE"       -> \E v \in present : ~Equal(v, operand)
          [] op = "NOT_NULL" -> present # {}
          [] op = "IS_NULL"  -> IF wild THEN values \ present # {} ELSE present = {}

Wild(path) == \E i \in DOMAIN path : \E j \in DOMAIN path[i].subs : path[i].subs[j] = Star

\* What a condition means, of the entity's values.
RECURSIVE Means(_, _)
Means(c, entity) ==
    CASE c.form = "everything" -> TRUE
      [] c.form = "simple"     -> Holds(c.op, At(entity, c.path), c.value, Wild(c.path))
      [] c.form = "lifecycle"  ->
           LET field == CanonicalMeta(c.field)
           IN  Holds(c.op, {entity.meta[m] : m \in {field} \cap DOMAIN entity.meta}, c.value, FALSE)
      [] c.form = "array"      ->
           \A i \in Tested(c.values) :
               Holds(c.op, At(entity, ElementPath(c.path, i - 1)), c.values[i], FALSE)
      [] c.form = "group"      ->
           CASE c.op = "AND" -> \A i \in DOMAIN c.conditions : Means(c.conditions[i], entity)
             [] c.op = "OR"  -> \E i \in DOMAIN c.conditions : Means(c.conditions[i], entity)
             [] c.op = "NOT" -> ~Means(c.conditions[1], entity)

\* Asks for a value only, never for the absence of one.
RECURSIVE Affirmative(_)
Affirmative(c) == CASE c.form = "everything" -> TRUE
                    [] c.form = "group" -> /\ c.op # "NOT"
                                           /\ \A i \in DOMAIN c.conditions :
                                                  Affirmative(c.conditions[i])
                    [] OTHER            -> c.op \in {"EQ", "NOT_NULL"}

\* A search answers what its condition means of every entity that was stored
\* when it was prepared: a position is a position, whatever was not tested, and
\* NOT over a wildcard is of every element.  An entity stored since may hold
\* what the prepared types do not admit, and is never found wrongly for it.
AnswersTheCondition ==
    search # NoSearch =>
        \A entity \in stored :
            /\ entity \in search.seen =>
                   Match(search.node, entity) = Means(search.condition, entity)
            /\ Affirmative(search.condition) /\ Match(search.node, entity) =>
                   Means(search.condition, entity)

-----------------------------------------------------------------------------

\* The lesser of two values of one kind, where there is no doubt of it: numbers
\* that differ as doubles, Booleans, and times of one type and offset, whose
\* texts are in their order.
Lesser(v, w) ==
    /\ IsScalar(v) /\ IsScalar(w)
    /\ CASE v.kind = "number" /\ w.kind = "number" ->
               Cmp(v.num, w.num) < 0 /\ ToDouble(v.num) # ToDouble(w.num)
         [] v.kind = "boolean" /\ w.kind = "boolean" -> v.text = FalseText /\ w.text = TrueText
         [] IsTime(v) /\ IsTime(w) -> /\ v.time.type = w.time.type
                                      /\ v.time.offset = w.time.offset
                                      /\ Millis(v.time) < Millis(w.time)
         [] OTHER -> FALSE

Less(a, b) == LessByOrder(a, b, search.order)

\* One of two entities comes first, and what comes before what comes before an
\* entity comes before it.
Strict(entities) ==
    LET before == {p \in entities \X entities : Less(p[1], p[2])}
    IN  \A a, b \in entities :
            /\ a # b => (<<a, b>> \in before <=> <<b, a>> \notin before)
            /\ \A c \in entities : {<<a, b>>, <<b, c>>} \subseteq before => <<a, c>> \in before

\* A numeric key reads a text of this entity as NaN.
ReadsNaN(entity) ==
    \E i \in DOMAIN search.order :
        /\ search.order[i].kind = "numeric"
        /\ AsFloat(OrderLeafValue(entity, search.order[i])) = NaN

\* "LessByOrder is this engine's strict-less-than comparator": whatever values
\* came under the key's class, it puts any entities in one order.
ComparesStrictly == Strict(stored)

\* Whatever the keys and directions, whatever is missing, and whatever values of
\* other types came after the order's classes were chosen, but for a text that a
\* numeric key reads as NaN (see ComparesStrictly): the comparison puts any
\* entities in one order.  Its first key sorts numbers, as far as a double tells
\* them apart, times and Booleans that were there as what they are; what has no
\* value, or an empty one in its meta, comes last.
SortsStrictly ==
    LET key == search.order[1]
        Value(a) == OrderLeafValue(a, key)
        IsFirst(a, b) == IF key.desc THEN Lesser(Value(b), Value(a)) ELSE Lesser(Value(a), Value(b))
        Empty(a) == Value(a).kind \in {"absent", "null"}
                    \/ (key.source = "meta" /\ Value(a).text = <<>>)
    IN  search.order # <<>> =>
          /\ Strict({a \in stored : ~ReadsNaN(a)})
          /\ \A a, b \in stored :
               /\ ~Empty(a) /\ Empty(b) => Less(a, b)
               /\ {a, b} \subseteq search.seen /\ IsFirst(a, b) => Less(a, b)

\* Each field of the key is there in both, and the same JSON value.
Agree(key, data, other) ==
    \A i \in DOMAIN key :
        LET v == ValueAt(key[i], data)
            w == ValueAt(key[i], other)
        IN  /\ IsScalar(v) /\ v.kind = w.kind
            /\ IF v.kind = "number" THEN Cmp(v.num, w.num) = 0 ELSE v.text = w.text

\* No two entities agree on a unique key, in whatever form their numbers are
\* written; and none is refused for one it does not agree with, whatever its
\* texts look like.
UniqueKeysHold ==
    \A key \in scope.keys, a \in stored :
        /\ \A b \in stored \ {a} : ~Agree(key, a.data, b.data)
        /\ \A e \in scope.entities :
             Claim(key, e.data) \notin {NoClaim, PartialKey} /\ Claim(key, e.data) = Claim(key, a.data)
               => Agree(key, a.data, e.data)
=============================================================================
