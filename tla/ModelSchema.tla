----------------------------- MODULE ModelSchema -----------------------------
(* The schema tree of a model (model_schema.go): a node holds the set of kinds *)
(* its path was observed as, each with what was observed of it, and whether it *)
(* was observed as null.  The tree is persisted as a wire tree and read by     *)
(* searches as a map from the path of a field to the types it declares.        *)
(*                                                                              *)
(* A JSON value is a scalar of LeafComparison, an object or an array.          *)
EXTENDS LeafComparison

Kinds == {"LEAF", "OBJECT", "ARRAY"}

NoMember == [name \in {} |-> {}]

Object(members) == [kind |-> "object", members |-> members]
Array(elems) == [kind |-> "array", elems |-> elems]
Absent == Scalar("absent", <<>>)
Null == Scalar("null", <<>>)

-----------------------------------------------------------------------------

\* A ModelNode.  element is the set of the element's descriptor, {} while it was
\* never observed; types and children are those of the branches in kinds.
EmptyNode == [kinds |-> {}, nullable |-> FALSE, types |-> {},
              children |-> NoMember, element |-> {}]

DeclareKind(n, k) ==
    [n EXCEPT !.kinds = @ \cup {k}, !.nullable = @ /\ (k # "LEAF" \/ "LEAF" \in n.kinds)]

\* A scalar branch admits null by itself.
SetNullable(n) == IF "LEAF" \in n.kinds THEN n ELSE [n EXCEPT !.nullable = TRUE]

AddScalarType(n, t) ==
    IF t = "NULL" THEN SetNullable(n)
    ELSE [DeclareKind(n, "LEAF") EXCEPT !.types = AddType(@, t), !.nullable = FALSE]

SetChild(n, name, child) ==
    [DeclareKind(n, "OBJECT") EXCEPT
        !.children = [m \in DOMAIN @ \cup {name} |-> IF m = name THEN child ELSE @[m]]]

SetElement(n, child) == [DeclareKind(n, "ARRAY") EXCEPT !.element = {child}]

DeclaredTypes(n) == CASE "LEAF" \in n.kinds -> n.types
                      [] n.nullable         -> {"NULL"}
                      [] OTHER              -> {}

-----------------------------------------------------------------------------

\* A node of one kind writes its label, one of several the set of them, and one
\* of none the label of the null marker.
RECURSIVE ToWire(_)
ToWire(n) ==
    [kind     |-> CASE n.kinds = {}              -> "LEAF"
                    [] Cardinality(n.kinds) = 1 -> CHOOSE k \in n.kinds : TRUE
                    [] OTHER                    -> "",
     kinds    |-> IF Cardinality(n.kinds) > 1 THEN n.kinds ELSE {},
     types    |-> DeclaredTypes(n),
     children |-> [name \in DOMAIN n.children |-> ToWire(n.children[name])],
     element  |-> {ToWire(e) : e \in n.element}]

Named(w) == IF w.kinds # {} THEN w.kinds ELSE {w.kind} \ {""}

\* LEAF with a lone NULL is a node that was only ever observed as null.
IsNullMarker(w) == Named(w) = {"LEAF"} /\ w.types = {"NULL"}

\* Mutant of Restored: only the branches that the node names.
RestoredByLabel(w) == IF IsNullMarker(w) THEN {} ELSE Named(w)

\* The branches a node names, and the ones its payload carries.
Restored(w) ==
    {k \in Kinds : CASE k = "LEAF"   -> w.types \ {"NULL"} # {}
                                        \/ ("LEAF" \in Named(w) /\ ~IsNullMarker(w))
                     [] k = "OBJECT" -> "OBJECT" \in Named(w) \/ DOMAIN w.children # {}
                     [] k = "ARRAY"  -> "ARRAY" \in Named(w) \/ w.element # {}}

\* One record stands for the tree a decoding makes; a tree with a node that
\* names no kind is refused whole, which Readable says of it.
RECURSIVE FromWire(_)
FromWire(w) ==
    LET kinds == Restored(w)
    IN  [kinds    |-> kinds,
         nullable |-> "NULL" \in w.types /\ "LEAF" \notin kinds,
         types    |-> IF "LEAF" \in kinds THEN w.types \ {"NULL"} ELSE {},
         children |-> IF "OBJECT" \notin kinds THEN NoMember
                      ELSE [name \in DOMAIN w.children |-> FromWire(w.children[name])],
         element  |-> IF "ARRAY" \notin kinds THEN {} ELSE {FromWire(e) : e \in w.element}]

RECURSIVE Readable(_)
Readable(w) ==
    /\ Named(w) # {} /\ Named(w) \subseteq Kinds
    /\ Restored(w) # {} \/ "NULL" \in w.types
    /\ \A name \in DOMAIN w.children : Readable(w.children[name])
    /\ \A e \in w.element : Readable(e)

-----------------------------------------------------------------------------

\* The path of a field: the names and the array hops from the root.
Field(path, types) == {[path |-> path, types |-> types]}

\* A node declares its own path where it was observed holding a scalar, beside
\* what its containers declare, or where all it was observed holding is null.
OwnField(n, path) ==
    IF ("LEAF" \in n.kinds /\ (n.types # {} \/ n.kinds = {"LEAF"})) \/ (n.nullable /\ n.kinds = {})
    THEN Field(path, DeclaredTypes(n)) ELSE {}

RECURSIVE CollectFields(_, _)
CollectFields(n, path) ==
    LET hop == Append(path, "[*]")
    IN  OwnField(n, path)
        \cup UNION {CollectFields(n.children[name], Append(path, name)) :
                      name \in DOMAIN n.children}
        \cup UNION {IF e.kinds \subseteq {"LEAF"} THEN Field(hop, DeclaredTypes(e))
                                                  ELSE CollectFields(e, hop) : e \in n.element}

\* A lookup that misses declares nothing; fields[key].Types.
Declared(fields, key) == UNION {f.types : f \in {f \in fields : f.path = key}}

-----------------------------------------------------------------------------

\* What ingestion makes of a node that a value was seen at (the engine's walk,
\* through the node's mutators).
RECURSIVE Extend(_, _), ExtendMembers(_, _, _), ExtendElements(_, _)
Extend(n, v) ==
    CASE v.kind = "null"   -> SetNullable(n)
      [] v.kind = "object" -> ExtendMembers(DeclareKind(n, "OBJECT"), v, DOMAIN v.members)
      [] v.kind = "array"  -> ExtendElements(DeclareKind(n, "ARRAY"), v.elems)
      [] OTHER -> IF Admits(n.types, v) THEN n ELSE AddScalarType(n, NaturalType(v))

ExtendMembers(n, v, names) ==
    IF names = {} THEN n
    ELSE LET name == CHOOSE name \in names : TRUE
             child == IF name \in DOMAIN n.children THEN n.children[name] ELSE EmptyNode
         IN  ExtendMembers(SetChild(n, name, Extend(child, v.members[name])), v, names \ {name})

ExtendElements(n, elems) ==
    IF elems = <<>> THEN n
    ELSE LET child == IF n.element = {} THEN EmptyNode ELSE CHOOSE e \in n.element : TRUE
         IN  ExtendElements(SetElement(n, Extend(child, Head(elems))), Tail(elems))
=============================================================================
