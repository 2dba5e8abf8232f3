------------------------------- MODULE Filters -------------------------------
(* From a condition to an answer: the translation of a client's condition into *)
(* the filter backends are given (condition_filter.go, operand.go), the         *)
(* preparation of the filter once per query (prepared_filter.go) and its match  *)
(* with one entity (filter_match.go, filter_path_resolve.go).                   *)
(*                                                                              *)
(* A path is its parsed form, a sequence of hops, each a name with its          *)
(* subscripts: an index from zero, or Star.  What the path grammar refuses      *)
(* stays out.  Every refusal is the one error.                                  *)
EXTENDS ModelSchema

Star == -1
Hop1(name) == [name |-> name, subs |-> <<>>]

\* Conditions (predicate/condition.go).
Simple(path, op, value) == [form |-> "simple", path |-> path, op |-> op, value |-> value]
Lifecycle(field, op, value) == [form |-> "lifecycle", field |-> field, op |-> op, value |-> value]
ArrayClause(path, op, values) == [form |-> "array", path |-> path, op |-> op, values |-> values]
Group(op, conditions) == [form |-> "group", op |-> op, conditions |-> conditions]
Function == [form |-> "function"]

GroupOps == {"AND", "OR", "NOT"}

-----------------------------------------------------------------------------
\* DesugarCondition: a positional clause becomes one leaf per value.

\* A trailing wildcard becomes the position; a path without one has it added.
ElementPath(path, i) ==
    [path EXCEPT ![Len(path)].subs =
        IF @ # <<>> /\ @[Len(@)] = Star THEN [@ EXCEPT ![Len(@)] = i] ELSE Append(@, i)]

Tested(values) == {i \in DOMAIN values : values[i].kind # "null"}

\* Mutant of Position: the position among the values that are not null.
PositionAmongTested(values, i) == Cardinality({j \in Tested(values) : j < i})

\* A null value tests nothing and keeps its position.
Position(values, i) == i - 1

RECURSIVE LeavesOf(_, _)
LeavesOf(c, i) ==
    IF i > Len(c.values) THEN <<>>
    ELSE (IF i \in Tested(c.values)
          THEN <<Simple(ElementPath(c.path, Position(c.values, i)), c.op, c.values[i])>>
          ELSE <<>>) \o LeavesOf(c, i + 1)

\* A clause of one value is that leaf, one of none is refused.
DesugarArray(c) ==
    LET leaves == LeavesOf(c, 1)
    IN  CASE Len(leaves) = 0 -> [form |-> "refused"]
          [] Len(leaves) = 1 -> leaves[1]
          [] OTHER           -> Group("AND", leaves)

-----------------------------------------------------------------------------

IsScalar(v) == v.kind \in {"string", "number", "boolean"}

\* The shape of an operand, which no operator is given another of.
ValidOperand(op, v) ==
    CASE v.kind = "null"  -> op \in UnaryOps
      [] v.kind = "array" -> /\ op \in RangeOps /\ Len(v.elems) = 2
                             /\ \A i \in 1 .. 2 : IsScalar(v.elems[i])
      [] OTHER            -> IsScalar(v) /\ op \notin RangeOps

\* Meta fields have fixed types; previousTransition is a name of another.
MetaFields == {"id", "state", "creationDate", "lastUpdateTime", "transitionForLatestSave",
               "transactionId"}
TemporalMeta == {"creationDate", "lastUpdateTime"}
CanonicalMeta(field) ==
    IF field = "previousTransition" THEN "transitionForLatestSave" ELSE field

\* A Filter: a leaf's values are its operand, or the two bounds of a range.
Leaf(op, source, path, values, types) ==
    [op |-> op, source |-> source, path |-> path, values |-> values, declared |-> types,
     children |-> <<>>]
Tree(op, children) == [Leaf(op, "none", <<>>, <<>>, {}) EXCEPT !.children = children]
Refused == Tree("refused", <<>>)
MatchAll == Tree("", <<>>)

Operands(v) == CASE v.kind = "array" -> v.elems
                 [] v.kind = "null"  -> <<>>
                 [] OTHER            -> <<v>>

\* The path of the field, under which an array's element is recorded once.
RECURSIVE FoldSubscripts(_)
FoldSubscripts(path) ==
    IF path = <<>> THEN <<>>
    ELSE <<Head(path).name>> \o [i \in DOMAIN Head(path).subs |-> "[*]"]
         \o FoldSubscripts(Tail(path))

SimpleToFilter(c, fields) ==
    IF c.path = <<>> \/ c.op \notin LeafOps \/ ~ValidOperand(c.op, c.value) THEN Refused
    ELSE Leaf(c.op, "data", c.path, Operands(c.value), Declared(fields, FoldSubscripts(c.path)))

LifecycleToFilter(c) ==
    LET field == CanonicalMeta(c.field)
    IN  IF c.op \notin LeafOps \/ ~ValidOperand(c.op, c.value) THEN Refused
        ELSE Leaf(c.op, "meta", field, Operands(c.value),
                  IF field \in TemporalMeta THEN {"ZONED_DATE_TIME"} ELSE {"STRING"})

\* A group takes its children in order and fails with the first that fails.
RECURSIVE ConditionToFilter(_, _)
ConditionToFilter(c, fields) ==
    LET children == [i \in DOMAIN c.conditions |-> ConditionToFilter(c.conditions[i], fields)]
    IN  CASE c.form = "simple"    -> SimpleToFilter(c, fields)
          [] c.form = "lifecycle" -> LifecycleToFilter(c)
          [] c.form = "array"     -> ConditionToFilter(DesugarArray(c), fields)
          [] c.form = "group"     ->
               IF c.op \notin GroupOps \/ \E i \in DOMAIN children : children[i] = Refused
               THEN Refused ELSE Tree(c.op, children)
          [] OTHER                -> Refused

-----------------------------------------------------------------------------

Node(op, children) == [op |-> op, children |-> children]
Unprepared == Node("refused", <<>>)

WellShaped(f) == /\ \A i \in DOMAIN f.values : IsScalar(f.values[i])
                 /\ f.op \notin UnaryOps => Len(f.values) = IF f.op \in RangeOps THEN 2 ELSE 1

\* One expansion per leaf.  A leaf that could only ever answer no is refused: an
\* operator, a path, an operand, a type or a pattern that leaves it nothing.
PrepareLeaf(f) ==
    LET sound == /\ f.op \in LeafOps
                 /\ f.source = "data" => f.path # <<>>
                 /\ f.source = "meta" => f.path \in MetaFields
                 /\ WellShaped(f)
                 /\ f.op = "LIKE" => WellFormed[f.values[1].text]
        exp == IF sound THEN ExpandLeaf(f.op, f.values, f.declared) ELSE NoExpansion
    IN  IF exp = NoExpansion THEN Unprepared
        ELSE [op |-> "leaf", source |-> f.source, path |-> f.path, exp |-> exp]

RECURSIVE PrepareNode(_)
PrepareNode(f) ==
    LET children == [i \in DOMAIN f.children |-> PrepareNode(f.children[i])]
    IN  CASE f.op \notin GroupOps                               -> PrepareLeaf(f)
          [] f.op = "NOT" /\ Len(children) # 1                     -> Unprepared
          [] \E i \in DOMAIN children : children[i] = Unprepared -> Unprepared
          [] OTHER                                               -> Node(f.op, children)

\* Only the root may have no operator: the search for everything.
Prepare(f) == IF f.op = "" THEN Node("AND", <<>>) ELSE PrepareNode(f)

-----------------------------------------------------------------------------

FieldResult(v, name) ==
    IF v.kind = "object" /\ name \in DOMAIN v.members THEN v.members[name] ELSE Absent
IndexResult(v, i) ==
    IF v.kind = "array" /\ i < Len(v.elems) THEN v.elems[i + 1] ELSE Absent

Elements(v) == IF v.kind = "array" THEN {v.elems[i] : i \in DOMAIN v.elems} ELSE {}

\* One subscript after the other, of every value so far; an element addressed
\* twice is judged once.
RECURSIVE Subscripts(_, _)
Subscripts(values, subs) ==
    CASE subs = <<>>       -> values
      [] Head(subs) = Star -> Subscripts(UNION {Elements(v) : v \in values}, Tail(subs))
      [] OTHER             -> Subscripts({IndexResult(v, Head(subs)) : v \in values}, Tail(subs))

RECURSIVE Resolve(_, _)
Resolve(values, path) ==
    IF path = <<>> THEN values
    ELSE Resolve(Subscripts({FieldResult(v, Head(path).name) : v \in values}, Head(path).subs),
                 Tail(path))

\* An entity is its data and its meta, of which an unset time is absent.
StoredAll(n, entity) ==
    IF n.source = "meta" THEN {FieldResult(Object(entity.meta), n.path)}
                         ELSE Resolve({entity.data}, n.path)

\* Some addressed value satisfies a leaf; a leaf that addresses none does not hold.
RECURSIVE Match(_, _)
Match(n, entity) ==
    CASE n.op = "AND" -> \A i \in DOMAIN n.children : Match(n.children[i], entity)
      [] n.op = "OR"  -> \E i \in DOMAIN n.children : Match(n.children[i], entity)
      [] n.op = "NOT" -> ~Match(n.children[1], entity)
      [] OTHER        -> \E v \in StoredAll(n, entity) : EvalLeaf(n.exp, v)
=============================================================================
