-------------------------- MODULE ModelFieldsProofs --------------------------
(* Proofs about the fields of a model: their cached flattening (FieldCache),   *)
(* for any tree and any number of reads; the types a field is declared with    *)
(* (FieldSearch); and how the operands and texts of a search compare.          *)
(*                                                                             *)
(* A read that began on the built tree finds its cache filled once it returns, *)
(* or waits to adopt it (LateReads), and nothing empties a cache any more.     *)
(* What a read has walked of its own node is current unless the node changed   *)
(* under it.                                                                   *)
(*                                                                             *)
(* A type that is given up for another may widen to it, so a number that one   *)
(* of a field's types admitted is admitted by the one that replaced it.        *)
(*                                                                             *)
(* An operand that is rounded or floored moves past no value it is compared    *)
(* with, but may come to stand on one: the direction, or a stricter operator,  *)
(* makes up for that.                                                          *)
EXTENDS FieldCache, FieldSearch, WellFoundedInduction, TLAPS

\* Nothing is half changed in a tree that is built.
BuiltIsWhole == fixed => changing = None

LateReads ==
    \A r \in Reader : late[r] =>
        /\ fixed
        /\ pc[r] = "reload" => cache[root[r]] # NoCell
        /\ pc[r] = "done" => cache[root[r]] # NoCell /\ result[r] = cache[root[r]]

WalkedIsCurrent ==
    \A r \in Reader :
        /\ pc[r] = "idle" => walked[r] = {}
        /\ pc[r] \in {"build", "reload"} /\ root[r] \in walked[r] =>
             raced[r] \/ seen[r][root[r]] = rev[root[r]]

IInv == TypeOK /\ BuiltIsWhole /\ LateReads /\ WalkedIsCurrent /\ OwnBranchesAreCurrent

-----------------------------------------------------------------------------

\* A read's own flattening is one, and is not the empty cache.
LEMMA CellOfIsCell ==
    ASSUME TypeOK, NEW r \in Reader
    PROVE  /\ CellOf(r) \in Cell /\ CellOf(r) # NoCell
           /\ CellOf(r).seen = seen[r] /\ CellOf(r).raced = raced[r]
<1>1. CellOf(r) \in Cell /\ CellOf(r).seen = seen[r] /\ CellOf(r).raced = raced[r]
  BY DEF TypeOK, CellOf, Cell
<1>2. CellOf(r).by = r /\ NoCell.by = None
  BY DEF CellOf, NoCell
<1> QED
  BY <1>1, <1>2, NoneIsNeither

LEMMA InitIInv == CacheInit => IInv
<1> SUFFICES ASSUME CacheInit PROVE IInv
  OBVIOUS
<1>1. TypeOK
  BY DEF CacheInit, TypeOK
<1> QED
  BY <1>1 DEF CacheInit, IInv, BuiltIsWhole, LateReads, WalkedIsCurrent, OwnBranchesAreCurrent

-----------------------------------------------------------------------------
\* One lemma per action.

LEMMA ChangeKeeps == ASSUME IInv, NEW n \in Node, Change(n) PROVE IInv'
<1> USE DEF Change
<1>1. TypeOK'
  BY DEF IInv, TypeOK
<1>2. BuiltIsWhole' /\ LateReads'
  BY DEF IInv, BuiltIsWhole, LateReads
<1>3. WalkedIsCurrent'
  <2> SUFFICES ASSUME NEW r \in Reader
               PROVE  /\ pc'[r] = "idle" => walked'[r] = {}
                      /\ pc'[r] \in {"build", "reload"} /\ root'[r] \in walked'[r] =>
                           raced'[r] \/ seen'[r][root'[r]] = rev'[root'[r]]
    BY DEF WalkedIsCurrent
  <2>1. CASE root[r] = n
    BY <2>1 DEF IInv, TypeOK, WalkedIsCurrent
  <2>2. CASE root[r] # n
    BY <2>2 DEF IInv, TypeOK, WalkedIsCurrent
  <2> QED
    BY <2>1, <2>2
<1>4. OwnBranchesAreCurrent'
  BY NoneIsNeither DEF IInv, TypeOK, OwnBranchesAreCurrent
<1> QED
  BY <1>1, <1>2, <1>3, <1>4 DEF IInv

LEMMA DropKeeps == ASSUME IInv, DropCache PROVE IInv'
<1> USE DEF DropCache
<1>1. TypeOK'
  BY DEF IInv, TypeOK
<1>2. BuiltIsWhole' /\ LateReads'
  BY DEF IInv, BuiltIsWhole, LateReads
<1>3. WalkedIsCurrent' /\ OwnBranchesAreCurrent'
  BY DEF IInv, TypeOK, WalkedIsCurrent, OwnBranchesAreCurrent
<1> QED
  BY <1>1, <1>2, <1>3 DEF IInv

LEMMA PublishKeeps == ASSUME IInv, Publish PROVE IInv'
  BY DEF Publish, IInv, TypeOK, BuiltIsWhole, LateReads, WalkedIsCurrent, OwnBranchesAreCurrent

LEMMA LoadKeeps == ASSUME IInv, NEW r \in Reader, Load(r) PROVE IInv'
<1> USE DEF Load, Return, tree
<1>1. CASE cache[root[r]] # NoCell
  <2>1. TypeOK'
    BY <1>1 DEF IInv, TypeOK
  <2>2. LateReads'
    BY <1>1 DEF IInv, TypeOK, LateReads
  <2> QED
    BY <1>1, <2>1, <2>2 DEF IInv, TypeOK, BuiltIsWhole, WalkedIsCurrent, OwnBranchesAreCurrent
<1>2. CASE cache[root[r]] = NoCell
  <2>1. TypeOK'
    BY <1>2 DEF IInv, TypeOK
  <2>2. LateReads'
    BY <1>2 DEF IInv, TypeOK, LateReads
  <2> QED
    BY <1>2, <2>1, <2>2 DEF IInv, TypeOK, BuiltIsWhole, WalkedIsCurrent, OwnBranchesAreCurrent
<1> QED
  BY <1>1, <1>2

LEMMA VisitKeeps == ASSUME IInv, NEW r \in Reader, NEW n \in Node, Visit(r, n) PROVE IInv'
<1> USE DEF Visit, tree
<1>1. TypeOK'
  BY DEF IInv, TypeOK
<1>2. BuiltIsWhole' /\ LateReads' /\ OwnBranchesAreCurrent'
  BY DEF IInv, BuiltIsWhole, LateReads, OwnBranchesAreCurrent
<1>3. WalkedIsCurrent'
  <2> SUFFICES ASSUME NEW s \in Reader
               PROVE  /\ pc'[s] = "idle" => walked'[s] = {}
                      /\ pc'[s] \in {"build", "reload"} /\ root'[s] \in walked'[s] =>
                           raced'[s] \/ seen'[s][root'[s]] = rev'[root'[s]]
    BY DEF WalkedIsCurrent
  <2>1. CASE s = r /\ n = root[r]
    BY <2>1 DEF IInv, TypeOK, WalkedIsCurrent
  <2>2. CASE s = r /\ n # root[r]
    BY <2>2 DEF IInv, TypeOK, WalkedIsCurrent
  <2>3. CASE s # r
    BY <2>3 DEF IInv, TypeOK, WalkedIsCurrent
  <2> QED
    BY <2>1, <2>2, <2>3
<1> QED
  BY <1>1, <1>2, <1>3 DEF IInv

LEMMA SwapKeeps == ASSUME IInv, NEW r \in Reader, CompareAndSwap(r) PROVE IInv'
<1> USE DEF CompareAndSwap, Return, tree
<1>0. /\ CellOf(r) \in Cell /\ CellOf(r) # NoCell
      /\ CellOf(r).seen = seen[r] /\ CellOf(r).raced = raced[r]
  BY CellOfIsCell DEF IInv
<1>1. CASE cache[root[r]] = NoCell
  <2>1. TypeOK'
    BY <1>0, <1>1 DEF IInv, TypeOK
  <2>2. LateReads'
    BY <1>0, <1>1 DEF IInv, TypeOK, LateReads
  <2>3. raced[r] \/ seen[r][root[r]] = rev[root[r]]
    BY TreeAssumption DEF IInv, TypeOK, WalkedIsCurrent
  <2>4. OwnBranchesAreCurrent'
    BY <1>0, <1>1, <2>3 DEF IInv, TypeOK, OwnBranchesAreCurrent
  <2> QED
    BY <1>1, <2>1, <2>2, <2>4 DEF IInv, TypeOK, BuiltIsWhole, WalkedIsCurrent
<1>2. CASE cache[root[r]] # NoCell
  <2>1. TypeOK'
    BY <1>2 DEF IInv, TypeOK
  <2>2. LateReads'
    BY <1>2 DEF IInv, TypeOK, LateReads
  <2> QED
    BY <1>2, <2>1, <2>2 DEF IInv, TypeOK, BuiltIsWhole, WalkedIsCurrent, OwnBranchesAreCurrent
<1> QED
  BY <1>1, <1>2

LEMMA ReloadKeeps == ASSUME IInv, NEW r \in Reader, Reload(r) PROVE IInv'
<1> USE DEF Reload, Return, tree
<1>0. CellOf(r) \in Cell
  BY CellOfIsCell DEF IInv
<1>1. TypeOK'
  BY <1>0 DEF IInv, TypeOK
<1>2. LateReads'
  BY DEF IInv, TypeOK, LateReads
<1> QED
  BY <1>1, <1>2 DEF IInv, TypeOK, BuiltIsWhole, WalkedIsCurrent, OwnBranchesAreCurrent

LEMMA NextKeeps == IInv /\ [CacheNext]_cacheVars => IInv'
<1> SUFFICES ASSUME IInv, [CacheNext]_cacheVars PROVE IInv'
  OBVIOUS
<1>1. ASSUME NEW n \in Node, Change(n) PROVE IInv'
  BY <1>1, ChangeKeeps
<1>2. CASE DropCache
  BY <1>2, DropKeeps
<1>3. CASE Publish
  BY <1>3, PublishKeeps
<1>4. ASSUME NEW r \in Reader, Read(r) PROVE IInv'
  BY <1>4, LoadKeeps, VisitKeeps, SwapKeeps, ReloadKeeps DEF Read
<1>5. CASE UNCHANGED cacheVars
  BY <1>5 DEF cacheVars, tree, IInv, TypeOK, BuiltIsWhole, LateReads, WalkedIsCurrent,
              OwnBranchesAreCurrent
<1> QED
  BY <1>1, <1>2, <1>3, <1>4, <1>5 DEF CacheNext

LEMMA Invariance == CacheSpec => []IInv
  BY InitIInv, NextKeeps, PTL DEF CacheSpec

-----------------------------------------------------------------------------

\* The nodes, the caches and the reads in fields() keep their types.
THEOREM Typed == CacheSpec => []TypeOK
<1>1. IInv => TypeOK
  BY DEF IInv
<1> QED
  BY <1>1, Invariance, PTL

\* Every read of a node that began on the built tree returns one and the same
\* cachedFields, for any number of racing reads (ModelNode.fields).
THEOREM Converges == CacheSpec => []OneFlattening
<1>1. IInv => OneFlattening
  BY DEF IInv, LateReads, OneFlattening
<1> QED
  BY <1>1, Invariance, PTL

\* The cache of a node that no change raced shows the node's own branches
\* (the Store(nil) that ends every mutator).
THEOREM OwnBranches == CacheSpec => []OwnBranchesAreCurrent
<1>1. IInv => OwnBranchesAreCurrent
  BY DEF IInv
<1> QED
  BY <1>1, Invariance, PTL

-----------------------------------------------------------------------------
(* The types of a field.                                                       *)

LEMMA NumericTypes ==
    /\ IntegerFamily = {"INTEGER", "LONG", "BIG_INTEGER", "UNBOUND_INTEGER"}
    /\ DecimalFamily = {"DOUBLE", "BIG_DECIMAL", "UNBOUND_DECIMAL"}
    /\ NumericType = IntegerFamily \cup DecimalFamily
<1>1. DOMAIN IntegerTypes = {1, 2, 3, 4} /\ DOMAIN DecimalTypes = {1, 2, 3}
  BY DEF IntegerTypes, DecimalTypes
<1>2. /\ IntegerTypes[1] = "INTEGER" /\ IntegerTypes[2] = "LONG"
      /\ IntegerTypes[3] = "BIG_INTEGER" /\ IntegerTypes[4] = "UNBOUND_INTEGER"
  BY DEF IntegerTypes
<1>3. /\ DecimalTypes[1] = "DOUBLE" /\ DecimalTypes[2] = "BIG_DECIMAL"
      /\ DecimalTypes[3] = "UNBOUND_DECIMAL"
  BY DEF DecimalTypes
<1> QED BY <1>1, <1>2, <1>3 DEF IntegerFamily, DecimalFamily, NumericType

LEMMA Widenings ==
    /\ WidensTo("INTEGER") = NumericType \ {"INTEGER"}
    /\ WidensTo("LONG") = NumericType \ {"INTEGER", "LONG", "DOUBLE"}
    /\ WidensTo("BIG_INTEGER") = {"UNBOUND_INTEGER", "UNBOUND_DECIMAL"}
    /\ WidensTo("UNBOUND_DECIMAL") = {}
    /\ \A t \in {"UNBOUND_INTEGER", "DOUBLE", "BIG_DECIMAL"} : WidensTo(t) = {"UNBOUND_DECIMAL"}
  BY Zenon DEF WidensTo

\* Every numeric type may go into a field without bounds.
LEMMA UnboundTakesAll ==
    ASSUME NEW t \in NumericType
    PROVE  IsAssignableTo(t, "UNBOUND_DECIMAL")
<1>1. t = "UNBOUND_DECIMAL" \/ "UNBOUND_DECIMAL" \in WidensTo(t)
  BY NumericTypes, Widenings
<1> QED BY <1>1 DEF IsAssignableTo

\* Integer types widen in their order.
LEMMA IntegersWiden ==
    ASSUME NEW i \in 1..4, NEW j \in 1..4, j <= i
    PROVE  IsAssignableTo(IntegerTypes[j], IntegerTypes[i])
<1>1. /\ IntegerTypes[1] = "INTEGER" /\ IntegerTypes[2] = "LONG"
      /\ IntegerTypes[3] = "BIG_INTEGER" /\ IntegerTypes[4] = "UNBOUND_INTEGER"
  BY DEF IntegerTypes
<1>2. IntegerTypes[j] \in NumericType
  BY <1>1, NumericTypes
<1>3. i = j \/ IntegerTypes[i] \in WidensTo(IntegerTypes[j])
  <2>1. CASE j = 1
    BY <1>1, <2>1, NumericTypes, Widenings
  <2>2. CASE j = 2
    BY <1>1, <2>2, NumericTypes, Widenings
  <2>3. CASE j = 3
    BY <1>1, <2>3, NumericTypes, Widenings
  <2>4. CASE j = 4
    BY <2>4
  <2> QED BY <2>1, <2>2, <2>3, <2>4
<1> QED BY <1>2, <1>3 DEF IsAssignableTo

LEMMA WidestInteger ==
    ASSUME NEW S, S \cap IntegerFamily # {}
    PROVE  \E i \in 1..4 : /\ Widest(IntegerTypes, S) = IntegerTypes[i]
                           /\ \A j \in 1..4 : IntegerTypes[j] \in S => j <= i
<1> DEFINE f == IntegerTypes
           P(i) == f[i] \in S /\ \A j \in DOMAIN f : f[j] \in S => j <= i
<1>1. DOMAIN f = 1..4
  BY DEF IntegerTypes
<1>2. \E i \in 1..4 : f[i] \in S
  BY <1>1 DEF IntegerFamily
<1> HIDE DEF f
<1>3. \E i \in 1..4 : P(i)
  <2>1. \A i \in 1..4 : i \in {1, 2, 3, 4}
    OBVIOUS
  <2>2. CASE f[4] \in S
    BY <1>1, <2>2
  <2>3. CASE f[4] \notin S /\ f[3] \in S
    BY <1>1, <2>1, <2>3
  <2>4. CASE f[4] \notin S /\ f[3] \notin S /\ f[2] \in S
    BY <1>1, <2>1, <2>4
  <2>5. CASE f[4] \notin S /\ f[3] \notin S /\ f[2] \notin S
    BY <1>1, <1>2, <2>1, <2>5
  <2> QED BY <2>2, <2>3, <2>4, <2>5
<1> DEFINE m == CHOOSE i \in DOMAIN f : P(i)
<1>4. m \in 1..4 /\ P(m)
  BY <1>1, <1>3
<1>5. Widest(f, S) = f[m]
  BY DEF Widest
<1> HIDE DEF m
<1> QED BY <1>1, <1>4, <1>5 DEF f

\* CollapseNumeric: one type that every given one can be assigned to.
LEMMA CollapseIsAbove ==
    ASSUME NEW S \in SUBSET NumericType, S # {}
    PROVE  \A t \in S : IsAssignableTo(t, CollapseNumeric(S))
<1> DEFINE w == Widest(DecimalTypes, S)
           c == CollapseNumeric(S)
<1>1. CASE S \cap DecimalFamily = {}
  <2>1. c = Widest(IntegerTypes, S)
    BY <1>1, Zenon DEF CollapseNumeric
  <2>2. S \cap IntegerFamily # {} /\ S \subseteq IntegerFamily
    BY <1>1, NumericTypes
  <2>3. PICK i \in 1..4 : /\ c = IntegerTypes[i]
                          /\ \A j \in 1..4 : IntegerTypes[j] \in S => j <= i
    BY <2>1, <2>2, WidestInteger
  <2> SUFFICES ASSUME NEW t \in S PROVE IsAssignableTo(t, c)
    OBVIOUS
  <2>4. PICK j \in 1..4 : t = IntegerTypes[j]
    <3>1. DOMAIN IntegerTypes = 1..4
      BY DEF IntegerTypes
    <3> QED BY <2>2, <3>1 DEF IntegerFamily
  <2> QED BY <2>3, <2>4, IntegersWiden
<1>2. CASE S \cap DecimalFamily # {} /\ \A t \in S : IsAssignableTo(t, w)
  <2>1. c = w
    BY <1>2, Zenon DEF CollapseNumeric
  <2> QED BY <1>2, <2>1
<1>3. CASE S \cap DecimalFamily # {} /\ ~\A t \in S : IsAssignableTo(t, w)
  <2>1. c = "UNBOUND_DECIMAL"
    BY <1>3, Zenon DEF CollapseNumeric
  <2> QED BY <2>1, UnboundTakesAll
<1> QED BY <1>1, <1>2, <1>3
\* No type is lost from a field's set but to one it widens to: whatever is added,
\* a type that was declared, or is the added one, stays or may be assigned to one
\* of the types the set then has; only NULL gives way to any (TypeSet.Add).
THEOREM TypesWiden ==
    ASSUME NEW types, NEW t, NEW x \in types \cup {t}, x # "NULL"
    PROVE  \/ x \in AddType(types, t)
           \/ /\ x \in NumericType
              /\ \E u \in AddType(types, t) : IsAssignableTo(x, u)
<1> DEFINE all == types \cup {t}
           concrete == IF all = {"NULL"} THEN all ELSE all \ {"NULL"}
           numeric == concrete \cap NumericType
           added == AddType(types, t)
<1>1. added = IF Cardinality(numeric) < 2 THEN concrete
              ELSE (concrete \ numeric) \cup {CollapseNumeric(numeric)}
  BY DEF AddType
<1>2. x \in concrete
  OBVIOUS
<1>3. numeric \in SUBSET NumericType
  OBVIOUS
<1> HIDE DEF concrete, added
<1>4. CASE x \in numeric
  <2>1. IsAssignableTo(x, CollapseNumeric(numeric))
    <3> HIDE DEF numeric
    <3> QED BY <1>3, <1>4, CollapseIsAbove
  <2>2. x \in NumericType
    BY <1>3, <1>4
  <2>3. x \in added \/ CollapseNumeric(numeric) \in added
    <3> HIDE DEF numeric
    <3> QED BY <1>1, <1>2
  <2> HIDE DEF numeric
  <2> QED BY <2>1, <2>2, <2>3 DEF added
<1>5. CASE x \notin numeric
  <2>1. x \in added
    <3> HIDE DEF numeric
    <3> QED BY <1>1, <1>2, <1>5
  <2> QED BY <2>1 DEF added
<1> QED BY <1>4, <1>5

\* A type that was added to has a type.
LEMMA AddTypeIsSome ==
    ASSUME NEW types, NEW t
    PROVE  AddType(types, t) # {}
<1> DEFINE all == types \cup {t}
           concrete == IF all = {"NULL"} THEN all ELSE all \ {"NULL"}
           numeric == concrete \cap NumericType
<1>1. AddType(types, t) = IF Cardinality(numeric) < 2 THEN concrete
              ELSE (concrete \ numeric) \cup {CollapseNumeric(numeric)}
  BY DEF AddType
<1>2. concrete # {}
  <2>1. t \in all
    OBVIOUS
  <2> HIDE DEF all
  <2> QED BY <2>1
<1> HIDE DEF numeric, concrete
<1> QED BY <1>1, <1>2

\* Only a numeric type admits a number.
LEMMA OnlyNumericAdmits ==
    ASSUME NEW t, NEW d, AdmitsNumeric(t, d)
    PROVE  t \in NumericType
  BY DEF AdmitsNumeric

\* Anything else is of a type of its own, neither numeric nor NULL.
LEMMA OtherTypes ==
    ASSUME NEW v, ValueFits(v), v.kind \notin {"number", "null"}
    PROVE  /\ NaturalType(v) \notin NumericType
           /\ NaturalType(v) # "NULL"
<1> DEFINE n == NaturalType(v)
<1>1. v.kind # "number" /\ v.kind # "null"
  OBVIOUS
<1>2. n = "BOOLEAN" \/ (IsTime(v) /\ n = v.time.type) \/ n = "UUID_TYPE" \/ n = "STRING"
  <2>1. CASE v.kind = "boolean"
    BY <2>1, Zenon DEF NaturalType
  <2>2. CASE v.kind # "boolean"
    BY <1>1, <2>2, Zenon DEF NaturalType
  <2> QED BY <2>1, <2>2
<1>3. IsTime(v) => v.time.type \in TemporalType
  BY DEF ValueFits
<1> HIDE DEF n
<1>4. n \in {"BOOLEAN", "UUID_TYPE", "STRING"} \cup TemporalType
  BY <1>2, <1>3
<1>5. n \notin NumericType /\ n # "NULL"
  BY <1>4, NumericTypes DEF TemporalType
<1> QED BY <1>5 DEF n

LEMMA AdmitsIs ==
    ASSUME NEW types, NEW v
    PROVE  /\ v.kind = "number" =>
                (Admits(types, v) <=> \E t \in types : AdmitsNumeric(t, v.num))
           /\ v.kind = "null" => (Admits(types, v) <=> types # {})
           /\ v.kind \notin {"number", "null"} =>
                (Admits(types, v) <=> NaturalType(v) \in types)
<1>1. v.kind = "number" =>
        (Admits(types, v) <=> \E t \in types : AdmitsNumeric(t, v.num))
  BY Zenon DEF Admits
<1>2. v.kind = "null" => (Admits(types, v) <=> types # {})
  BY Zenon DEF Admits
<1>3. v.kind # "number" /\ v.kind # "null" =>
        (Admits(types, v) <=> NaturalType(v) \in types)
  BY Zenon DEF Admits
<1> QED BY <1>1, <1>2, <1>3

\* A value that one of the types admits, or is of the type that is added, is
\* admitted by the types there are then.
LEMMA AddTypeAdmits ==
    ASSUME NEW types, NEW t, NEW v, ValueFits(v),
           Admits(types, v) \/ t = NaturalType(v)
    PROVE  Admits(AddType(types, t), v)
<1> DEFINE added == AddType(types, t)
<1>1. CASE v.kind = "number"
  <2>1. PICK x \in types \cup {t} : AdmitsNumeric(x, v.num)
    BY <1>1, AdmitsIs DEF ValueFits
  <2>2. x \in NumericType /\ x # "NULL"
    BY <2>1, OnlyNumericAdmits, NumericTypes
  <2>3. PICK u \in added : x = u \/ IsAssignableTo(x, u)
    BY <2>2, TypesWiden
  <2>4. x = u \/ u \in WidensTo(x)
    BY <2>2, <2>3 DEF IsAssignableTo
  <2>5. AdmitsNumeric(u, v.num)
    BY <1>1, <2>1, <2>2, <2>4 DEF ValueFits
  <2> QED BY <1>1, <2>3, <2>5, AdmitsIs
<1>2. CASE v.kind = "null"
  BY <1>2, AdmitsIs, AddTypeIsSome
<1>3. CASE v.kind \notin {"number", "null"}
  <2>1. NaturalType(v) \in types \cup {t}
    BY <1>3, AdmitsIs
  <2>2. NaturalType(v) \notin NumericType /\ NaturalType(v) # "NULL"
    BY <1>3, OtherTypes
  <2>3. NaturalType(v) \in added
    BY <2>1, <2>2, TypesWiden
  <2> QED BY <1>3, <2>3, AdmitsIs
<1> QED BY <1>1, <1>2, <1>3

\* Every value ever stored in a field stays admitted by a type it declares, for
\* any values that fit (ValuesFit) in any number, ingested in any order
\* (TypeSet.Add, CollapseNumeric, AdmitsNumeric).
THEOREM StaysAdmitted == Spec => []StoredStaysAdmitted
<1> DEFINE Inv == /\ pool \in Pools
                  /\ stored \subseteq pool.values
                  /\ StoredStaysAdmitted
<1>1. Init => Inv
  BY DEF Init, StoredStaysAdmitted
<1>2. Inv /\ [Next]_(vars) => Inv'
  <2> SUFFICES ASSUME Inv, [Next]_(vars) PROVE Inv'
    OBVIOUS
  <2>1. ASSUME NEW w \in pool.values, Ingest(w) PROVE Inv'
    <3>1. /\ stored' = stored \cup {w} /\ pool' = pool
          /\ declared' = IF Admits(declared, w) THEN declared
                         ELSE AddType(declared, NaturalType(w))
      BY <2>1 DEF Ingest
    <3>2. pool' \in Pools /\ stored' \subseteq pool'.values
      BY <3>1
    <3>3. ASSUME NEW v \in stored' PROVE Admits(declared', v)
      <4>1. ValueFits(v)
        BY <3>2, <3>3, ValuesFit
      <4>2. Admits(declared, v) \/ v = w
        BY <3>1, <3>3 DEF StoredStaysAdmitted
      <4>3. CASE Admits(declared, w)
        <5>1. declared' = declared
          BY <3>1, <4>3
        <5>2. Admits(declared, v)
          BY <4>2, <4>3
        <5> QED BY <5>1, <5>2
      <4>4. CASE ~Admits(declared, w)
        <5>1. declared' = AddType(declared, NaturalType(w))
          BY <3>1, <4>4
        <5>2. Admits(AddType(declared, NaturalType(w)), v)
          BY <4>1, <4>2, AddTypeAdmits
        <5> QED BY <5>1, <5>2
      <4> QED BY <4>3, <4>4
    <3>4. StoredStaysAdmitted'
      BY <3>3 DEF StoredStaysAdmitted, Admits
    <3> QED BY <3>2, <3>4
  <2>2. CASE PrepareAny
    <3>1. UNCHANGED <<pool, stored, declared>>
      BY <2>2 DEF PrepareAny, Prepare
    <3> QED BY <3>1 DEF StoredStaysAdmitted, Admits
  <2>3. CASE UNCHANGED vars
    <3>1. UNCHANGED <<pool, stored, declared>>
      BY <2>3 DEF vars
    <3> QED BY <3>1 DEF StoredStaysAdmitted, Admits
  <2> QED BY <2>1, <2>2, <2>3 DEF Next
<1>3. Inv => StoredStaysAdmitted
  OBVIOUS
<1> QED BY <1>1, <1>2, <1>3, PTL DEF Spec
-----------------------------------------------------------------------------
(* The operands of a leaf.                                                     *)

\* Truncated division, of either sign.
LEMMA Division ==
    ASSUME NEW n \in Int, NEW m \in Nat \ {0}
    PROVE  \E q \in Int, r \in Int :
             /\ Quo(n, m) = q /\ Rem(n, m) = r /\ n = q * m + r
             /\ IF n < 0 THEN -m < r /\ r <= 0 ELSE 0 <= r /\ r < m
<1> DEFINE a == Abs(n)
           q == a \div m
           r == a % m
<1>1. a \in Nat /\ a = IF n < 0 THEN -n ELSE n
  BY DEF Abs
<1> HIDE DEF a
<1>2. q \in Int /\ r \in Int /\ 0 <= r /\ r < m /\ a = m * q + r
  BY <1>1
<1> HIDE DEF q, r
<1>3. Quo(n, m) = Sign(n) * q /\ Rem(n, m) = n - m * Quo(n, m)
  BY DEF Quo, Rem, q, a
<1>4. CASE n < 0
  <2>1. Sign(n) = -1 /\ n = -a
    BY <1>1, <1>4 DEF Sign
  <2>2. Quo(n, m) = -q
    BY <1>2, <1>3, <2>1
  <2>3. Rem(n, m) = n - m * (-q)
    BY <1>3, <2>2
  <2>4. m * (-q) = -(m * q) /\ (-q) * m = -(m * q)
    BY <1>2
  <2> DEFINE p == m * q
  <2>5. p \in Int /\ a = p + r
    BY <1>2
  <2>6. m * (-q) = -p /\ (-q) * m = -p
    BY <2>4
  <2> HIDE DEF p
  <2>7. Rem(n, m) = -r /\ n = (-q) * m + (-r)
    BY <1>1, <1>2, <2>1, <2>3, <2>5, <2>6
  <2>8. -q \in Int /\ -r \in Int /\ -m < -r /\ -r <= 0
    BY <1>2
  <2> QED BY <1>4, <2>2, <2>7, <2>8
<1>5. CASE ~(n < 0)
  <2>1. n = a /\ Sign(n) * q = q
    <3>1. CASE n = 0
      <4>1. a = 0 /\ Sign(n) = 0
        BY <1>1, <3>1 DEF Sign
      <4>2. q = 0
        BY <1>1, <4>1 DEF q
      <4> QED BY <3>1, <4>1, <4>2
    <3>2. CASE n # 0
      <4>1. Sign(n) = 1
        BY <1>5, <3>2 DEF Sign
      <4> QED BY <1>1, <1>2, <1>5, <4>1
    <3> QED BY <3>1, <3>2
  <2>2. Quo(n, m) = q
    BY <1>3, <2>1
  <2> DEFINE p == m * q
  <2>3. p \in Int /\ a = p + r /\ q * m = p /\ Rem(n, m) = n - p
    BY <1>2, <1>3, <2>2
  <2> HIDE DEF p
  <2>4. Rem(n, m) = r /\ n = q * m + r
    BY <1>1, <1>2, <2>1, <2>3
  <2> QED BY <1>2, <1>5, <2>2, <2>4
<1> QED BY <1>4, <1>5

\* What is compared with a multiple of m is compared with what rounding leaves.
LEMMA RoundedBetween ==
    ASSUME NEW q \in Int, NEW r \in Int, NEW m \in Nat \ {0}, NEW x \in Int,
           -m < r, r < m
    PROVE  /\ r >= 0 => (x * m <= q * m + r <=> x <= q)
           /\ r < 0  => (x * m <= q * m + r <=> x <= q - 1)
           /\ r <= 0 => (x * m >= q * m + r <=> x >= q)
           /\ r > 0  => (x * m >= q * m + r <=> x >= q + 1)
<1>1. \A k \in Int : k >= 1 => k * m >= m
  OBVIOUS
<1>2. \A k \in Int : k <= -1 => k * m <= -m
  OBVIOUS
<1> DEFINE k == x - q
           d == k * m
<1>3. k \in Int /\ d \in Int /\ x * m = q * m + d
  OBVIOUS
<1>4. (k >= 1 => d >= m) /\ (k <= -1 => d <= -m) /\ (k = 0 => d = 0)
  BY <1>1, <1>2
<1>5. x = q + k
  OBVIOUS
<1> DEFINE a == x * m
           b == q * m
<1>6. a \in Int /\ b \in Int /\ a = b + d
  BY <1>3
<1> HIDE DEF k, d, a, b
<1>7. (d <= r <=> (IF r >= 0 THEN k <= 0 ELSE k <= -1)) /\ (d >= r <=> (IF r <= 0 THEN k >= 0 ELSE k >= 1))
  BY <1>3, <1>4
<1>8. /\ r >= 0 => (a <= b + r <=> x <= q)
      /\ r < 0  => (a <= b + r <=> x <= q - 1)
      /\ r <= 0 => (a >= b + r <=> x >= q)
      /\ r > 0  => (a >= b + r <=> x >= q + 1)
  BY <1>3, <1>5, <1>6, <1>7
<1> QED BY <1>8 DEF a, b
LEMMA Carries ==
    ASSUME NEW r \in Int
    PROVE  /\ Carry("floor", Sign(r)) = IF r < 0 THEN -1 ELSE 0
           /\ Carry("ceiling", Sign(r)) = IF r > 0 THEN 1 ELSE 0
<1>1. (Sign(r) > 0 <=> r > 0) /\ (Sign(r) < 0 <=> r < 0)
  BY DEF Sign
<1>2. Carry("floor", Sign(r)) = IF Sign(r) < 0 THEN -1 ELSE 0
  BY Zenon DEF Carry
<1>3. Carry("ceiling", Sign(r)) = IF Sign(r) > 0 THEN 1 ELSE 0
  BY Zenon DEF Carry
<1> QED BY <1>1, <1>2, <1>3

LEMMA ComparingResults ==
    ASSUME NEW n \in Int
    PROVE  /\ CmpResult(Sign(n), "GT") <=> n > 0
           /\ CmpResult(Sign(n), "GTE") <=> n >= 0
           /\ CmpResult(Sign(n), "LT") <=> n < 0
           /\ CmpResult(Sign(n), "LTE") <=> n <= 0
<1> DEFINE c == Sign(n)
<1>1. (c > 0 <=> n > 0) /\ (c >= 0 <=> n >= 0) /\ (c < 0 <=> n < 0) /\ (c <= 0 <=> n <= 0)
  BY DEF Sign
<1> HIDE DEF c
<1>2. /\ CmpResult(c, "GT") = (c > 0) /\ CmpResult(c, "GTE") = (c >= 0)
      /\ CmpResult(c, "LT") = (c < 0) /\ CmpResult(c, "LTE") = (c <= 0)
  BY Zenon DEF CmpResult
<1>3. /\ CmpResult(c, "GT") <=> n > 0
      /\ CmpResult(c, "GTE") <=> n >= 0
      /\ CmpResult(c, "LT") <=> n < 0
      /\ CmpResult(c, "LTE") <=> n <= 0
  BY <1>1, <1>2
<1> QED BY <1>3 DEF c

\* The quotient, rounded down to compare with GT and LTE and up with GTE and LT.
LEMMA RoundingIs ==
    ASSUME NEW d \in [u : Int, s : Int], NEW scale \in Int, NEW mode \in {"floor", "ceiling"},
           d.s > scale, 10 ^ (d.s - scale) \in Nat \ {0},
           d.s - scale > Precision(d) => Abs(d.u) < 10 ^ (d.s - scale)
    PROVE  \E q \in Int, r \in Int :
             /\ d.u = q * 10 ^ (d.s - scale) + r
             /\ -(10 ^ (d.s - scale)) < r /\ r < 10 ^ (d.s - scale)
             /\ RoundToScale(d, scale, mode).u = q + Carry(mode, Sign(r))
<1> DEFINE m == 10 ^ (d.s - scale)
           R == RoundToScale(d, scale, mode)
           sparse == d.s - scale > Precision(d)
<1>1. d.u \in Int /\ d.s \in Int /\ ~(d.s - scale <= 0)
  OBVIOUS
<1>2. CASE sparse
  <2>1. R = [u |-> Carry(mode, Sign(d.u)), s |-> scale]
    BY <1>1, <1>2, Zenon DEF RoundToScale
  <2>2. Abs(d.u) < m
    BY <1>2
  <2> DEFINE k == Carry(mode, Sign(d.u))
  <2>3. R.u = k
    BY <2>1
  <2>4. k \in Int
    <3>1. k \in {-1, 0, 1}
      BY <1>1, Carries
    <3> QED BY <3>1
  <2> HIDE DEF m, k, R
  <2>5. -m < d.u /\ d.u < m /\ d.u = 0 * m + d.u /\ m \in Nat
    BY <1>1, <2>2 DEF Abs, m
  <2>6. R.u = 0 + k
    BY <2>3, <2>4
  <2> QED BY <1>1, <2>5, <2>6 DEF m, k, R
<1>3. CASE ~sparse
  <2>1. R = [u |-> Quo(d.u, m) + Carry(mode, Sign(Rem(d.u, m))),
             s |-> scale]
    BY <1>1, <1>3, Zenon DEF RoundToScale
  <2>2. m \in Nat \ {0}
    OBVIOUS
  <2> HIDE DEF m, R
  <2>3. PICK q \in Int, r \in Int :
             /\ Quo(d.u, m) = q /\ Rem(d.u, m) = r /\ d.u = q * m + r
             /\ IF d.u < 0 THEN -m < r /\ r <= 0 ELSE 0 <= r /\ r < m
    BY <1>1, <2>2, Division
  <2>4. -m < r /\ r < m
    BY <2>2, <2>3
  <2>5. R.u = q + Carry(mode, Sign(r))
    BY <2>1, <2>3
  <2> QED BY <2>3, <2>4, <2>5 DEF m, R
<1> QED BY <1>2, <1>3

\* An operand of more decimals than a field's type holds is rounded, down under
\* GT and LTE and up under GTE and LT, and compares with every number of that
\* many decimals as it did before (RoundToScale, roundingModeFor).  Of powers of
\* ten it is assumed that they are positive, and that one of more digits than a
\* number has is above it.
THEOREM RoundingKeepsOrder ==
    ASSUME NEW d \in [u : Int, s : Int], NEW scale \in Int, NEW op \in ComparingOps,
           NEW x \in Int, d.s > scale, 10 ^ (d.s - scale) \in Nat \ {0},
           d.s - scale > Precision(d) => Abs(d.u) < 10 ^ (d.s - scale)
    PROVE  LET rounded == RoundToScale(d, scale, RoundingModeFor(op)).u
           IN  CmpResult(Sign(x - rounded), op)
                 <=> CmpResult(Sign(x * 10 ^ (d.s - scale) - d.u), op)
<1> DEFINE m == 10 ^ (d.s - scale)
           mode == RoundingModeFor(op)
           R == RoundToScale(d, scale, mode).u
<1>1. mode = IF op \in {"GTE", "LT"} THEN "ceiling" ELSE "floor"
  BY DEF RoundingModeFor
<1>2. m \in Nat \ {0} /\ d.u \in Int
  OBVIOUS
<1>3. PICK q \in Int, r \in Int : /\ d.u = q * m + r /\ -m < r /\ r < m
                                 /\ R = q + Carry(mode, Sign(r))
  <2>1. mode \in {"floor", "ceiling"}
    BY <1>1
  <2> HIDE DEF mode
  <2> QED BY <2>1, RoundingIs
<1> HIDE DEF m, mode, R
<1> DEFINE y == x * m - d.u
           z == x - R
<1>4. R = q + IF mode = "ceiling" THEN IF r > 0 THEN 1 ELSE 0 ELSE IF r < 0 THEN -1 ELSE 0
  BY <1>1, <1>3, Carries
<1> DEFINE a == x * m
<1>5. a \in Int /\ R \in Int /\ y \in Int /\ z \in Int /\ y = a - d.u /\ z = x - R
  BY <1>2, <1>4
<1>6. /\ r >= 0 => (a <= d.u <=> x <= q)
      /\ r < 0  => (a <= d.u <=> x <= q - 1)
      /\ r <= 0 => (a >= d.u <=> x >= q)
      /\ r > 0  => (a >= d.u <=> x >= q + 1)
  BY <1>2, <1>3, RoundedBetween
<1> HIDE DEF a, y, z
<1>7. op \in {"GT", "LTE"} => (a <= d.u <=> x <= R)
  BY <1>1, <1>4, <1>6
<1>8. op \in {"GTE", "LT"} => (a >= d.u <=> x >= R)
  BY <1>1, <1>4, <1>6
<1>9. CASE op = "GT"
  BY <1>2, <1>5, <1>7, <1>9, ComparingResults DEF y, z, a, R, m, mode
<1>10. CASE op = "GTE"
  BY <1>2, <1>5, <1>8, <1>10, ComparingResults DEF y, z, a, R, m, mode
<1>11. CASE op = "LT"
  BY <1>2, <1>5, <1>8, <1>11, ComparingResults DEF y, z, a, R, m, mode
<1>12. CASE op = "LTE"
  BY <1>2, <1>5, <1>7, <1>12, ComparingResults DEF y, z, a, R, m, mode
<1> QED BY <1>9, <1>10, <1>11, <1>12 DEF ComparingOps
\* The last multiple at or below a number.
LEMMA FloorIs ==
    ASSUME NEW m \in Nat \ {0}, NEW y \in Int
    PROVE  \E q \in Int, r \in Int : /\ FloorTo(m, y) = q * m /\ y = q * m + r
                                     /\ 0 <= r /\ r < m
<1> DEFINE q == y \div m
           r == y % m
<1>1. q \in Int /\ r \in Int /\ 0 <= r /\ r < m /\ y = m * q + r /\ m * q = q * m
  OBVIOUS
<1>2. FloorTo(m, y) = q * m
  BY DEF FloorTo
<1> HIDE DEF q, r
<1> QED BY <1>1, <1>2

LEMMA FloorIsOne ==
    ASSUME NEW m \in Nat \ {0}, NEW q \in Int, NEW y \in Int, q * m <= y, y < (q + 1) * m
    PROVE  FloorTo(m, y) = q * m
<1>1. PICK p \in Int, r \in Int : /\ FloorTo(m, y) = p * m /\ y = p * m + r
                                 /\ 0 <= r /\ r < m
  BY FloorIs
<1>2. /\ p * m <= y <=> p <= q
      /\ q * m <= y <=> q <= p
  <2>1. (p * m <= q * m + (y - q * m) <=> p <= q) /\ (q * m <= p * m + r <=> q <= p)
    <3>1. y - q * m \in Int /\ 0 <= y - q * m /\ y - q * m < m
      OBVIOUS
    <3> HIDE DEF FloorTo
    <3>2. p * m <= q * m + (y - q * m) <=> p <= q
      BY <3>1, RoundedBetween
    <3>3. q * m <= p * m + r <=> q <= p
      <4>1. -m < r
        BY <1>1
      <4> QED BY <1>1, <4>1, RoundedBetween
    <3> QED BY <3>2, <3>3
  <2>2. q * m + (y - q * m) = y
    OBVIOUS
  <2> QED BY <1>1, <2>1, <2>2
<1>3. p * m <= y
  BY <1>1
<1>4. p = q
  BY <1>2, <1>3
<1> QED BY <1>1, <1>4

\* An operand floored to a stored type's period compares with each start of a
\* period as the operand itself does, by the operator that the imprecise hop
\* makes of its own; and flooring to a period and then to one of several of them
\* is flooring to the longer at once, so the hops of a path change the operator
\* as a single one would (floor hops, mutateDownscaleOp).
THEOREM FlooringKeepsOrder ==
    ASSUME NEW m \in Nat \ {0}, NEW y \in Int
    PROVE  LET floor == FloorTo(m, y) IN
           /\ \A op \in ComparingOps, j \in Int :
                LET newOp == IF floor = y THEN op ELSE MutateDownscaleOp(op)
                IN  CmpResult(Sign(j * m - floor), newOp)
                      <=> CmpResult(Sign(j * m - y), op)
           /\ \A k \in Nat \ {0} :
                /\ FloorTo(k * m, floor) = FloorTo(k * m, y)
                /\ FloorTo(k * m, y) = y => floor = y
<1> DEFINE floor == FloorTo(m, y)
<1>1. PICK q \in Int, r \in Int : floor = q * m /\ y = q * m + r /\ 0 <= r /\ r < m
  BY FloorIs
<1> HIDE DEF floor
<1>2. floor \in Int /\ floor <= y /\ (floor = y <=> r = 0)
  BY <1>1
<1>3. ASSUME NEW op \in ComparingOps, NEW j \in Int
      PROVE  LET newOp == IF floor = y THEN op ELSE MutateDownscaleOp(op)
             IN  CmpResult(Sign(j * m - floor), newOp)
                   <=> CmpResult(Sign(j * m - y), op)
  <2> DEFINE x == j * m
             newOp == IF floor = y THEN op ELSE MutateDownscaleOp(op)
  <2>1. x \in Int
    OBVIOUS
  <2>2. (x <= q * m + r <=> j <= q) /\ (x <= q * m + 0 <=> j <= q)
    <3>1. -m < r /\ 0 \in Int /\ -m < 0 /\ 0 < m /\ 0 >= 0
      BY <1>1
    <3>2. x <= q * m + r <=> j <= q
      BY <1>1, <3>1, RoundedBetween
    <3>3. x <= q * m + 0 <=> j <= q
      BY <1>1, <3>1, RoundedBetween
    <3> QED BY <3>2, <3>3
  <2>3. q * m + 0 = q * m
    BY <1>1
  <2> HIDE DEF x
  <2>4. x <= y <=> x <= floor
    BY <1>1, <2>2, <2>3
  <2>5. floor # y => (x < y <=> x <= floor)
    BY <1>2, <2>1, <2>4
  <2> DEFINE a == x - floor
             b == x - y
  <2>6. /\ a \in Int /\ b \in Int
        /\ a > 0 <=> b > 0
        /\ a <= 0 <=> b <= 0
        /\ floor # y => (a <= 0 <=> b < 0) /\ (a > 0 <=> b >= 0)
    BY <1>2, <2>1, <2>4, <2>5
  <2>7. floor = y => a = b
    OBVIOUS
  <2> HIDE DEF a, b
  <2>8. /\ MutateDownscaleOp("GT") = "GT" /\ MutateDownscaleOp("GTE") = "GT"
        /\ MutateDownscaleOp("LT") = "LTE" /\ MutateDownscaleOp("LTE") = "LTE"
    BY Zenon DEF MutateDownscaleOp
  <2>9. CmpResult(Sign(a), newOp) <=> CmpResult(Sign(b), op)
    <3>1. CASE floor = y
      BY <2>7, <3>1
    <3>2. CASE floor # y
      <4>1. newOp = MutateDownscaleOp(op)
        BY <3>2
      <4> HIDE DEF newOp
      <4>2. /\ CmpResult(Sign(a), "GT") <=> a > 0
            /\ CmpResult(Sign(a), "LTE") <=> a <= 0
        BY <2>6, ComparingResults
      <4>3. /\ CmpResult(Sign(b), "GT") <=> b > 0
            /\ CmpResult(Sign(b), "GTE") <=> b >= 0
            /\ CmpResult(Sign(b), "LT") <=> b < 0
            /\ CmpResult(Sign(b), "LTE") <=> b <= 0
        BY <2>6, ComparingResults
      <4>4. op \in {"GT", "GTE", "LT", "LTE"}
        BY DEF ComparingOps
      <4> QED BY <2>6, <2>8, <3>2, <4>1, <4>2, <4>3, <4>4
    <3> QED BY <3>1, <3>2
  <2> QED BY <2>9 DEF a, b, x
<1>4. ASSUME NEW k \in Nat \ {0}
      PROVE  /\ FloorTo(k * m, floor) = FloorTo(k * m, y)
             /\ FloorTo(k * m, y) = y => floor = y
  <2> DEFINE n == k * m
  <2>1. n \in Nat \ {0}
    BY SMTT(30)
  <2>2. PICK p \in Int, t \in Int : FloorTo(n, y) = p * n /\ y = p * n + t /\ 0 <= t /\ t < n
    BY <2>1, FloorIs
  <2>3. p * n = (p * k) * m /\ (p + 1) * n = (p * k + k) * m /\ p * k \in Int
    BY SMTT(30)
  <2> DEFINE c == p * k
             z == (p + 1) * n
  <2>4. c \in Int /\ p * n = c * m /\ z = (c + k) * m /\ z \in Int /\ p * n \in Int
    BY <2>1, <2>3
  <2>5. z = p * n + n
    BY <2>1
  <2> HIDE DEF n, c, z
  <2>6. c * m <= y /\ y < z
    BY <2>1, <2>2, <2>4, <2>5
  <2>7. c <= q
    <3>1. -m < r
      BY <1>1
    <3>2. c * m <= q * m + r <=> c <= q
      BY <1>1, <2>4, <3>1, RoundedBetween
    <3> QED BY <1>1, <2>6, <3>2
  <2>8. p * n <= floor
    <3>1. -m < 0 /\ 0 < m /\ 0 >= 0 /\ q * m + 0 = q * m
      OBVIOUS
    <3>2. c * m <= q * m + 0 <=> c <= q
      BY <2>4, <3>1, RoundedBetween
    <3> QED BY <1>1, <2>4, <2>7, <3>1, <3>2
  <2>9. floor < z
    BY <1>2, <2>1, <2>4, <2>6
  <2>10. FloorTo(n, floor) = p * n
    <3>1. floor < (p + 1) * n
      BY <2>9 DEF z
    <3> QED BY <1>2, <2>1, <2>8, <3>1, FloorIsOne
  <2>11. FloorTo(n, y) = y => floor = y
    BY <1>2, <2>2, <2>4, <2>8
  <2> QED BY <2>2, <2>10, <2>11 DEF n
<1> QED BY <1>3, <1>4 DEF floor

-----------------------------------------------------------------------------
(* Texts.                                                                      *)

\* The first n characters of two texts are the same, and no more of them.
SameUpTo(a, b, n) == /\ n <= Len(a) /\ n <= Len(b)
                     /\ \A i \in 1 .. n : a[i] = b[i]
                     /\ n < Len(a) /\ n < Len(b) => a[n + 1] # b[n + 1]

LEMMA CharIs ==
    ASSUME NEW a \in Seq(Nat), NEW i \in 1 .. Len(a)
    PROVE  a[i] \in Nat
  OBVIOUS

LEMMA PartSomewhere ==
    ASSUME NEW a \in Seq(Nat), NEW b \in Seq(Nat)
    PROVE  \E n \in 0 .. Len(a) : SameUpTo(a, b, n)
<1> DEFINE T == {k \in Nat : k >= Len(a) \/ k >= Len(b) \/ a[k + 1] # b[k + 1]}
<1>1. T \subseteq Nat /\ Len(a) \in T /\ Len(b) \in T
  OBVIOUS
<1>2. T # {}
  BY <1>1
<1>3. PICK m \in T : \A y \in T : ~ (<<y, m>> \in OpToRel(<, Nat))
  BY <1>1, <1>2, NatLessThanWellFounded, WFMin, Zenon
<1>4. \A y \in T : ~ (y < m)
  BY <1>1, <1>3, Zenon DEF OpToRel
<1>5. m \in Nat /\ m <= Len(a) /\ m <= Len(b)
  BY <1>1, <1>4
<1>6. m < Len(a) /\ m < Len(b) => a[m + 1] # b[m + 1]
  BY <1>5
<1>7. ASSUME NEW i \in 1 .. m PROVE a[i] = b[i]
  <2>1. i - 1 \in Nat /\ i - 1 < m /\ (i - 1) + 1 = i
    BY <1>5
  <2>2. i - 1 \notin T
    BY <1>4, <2>1
  <2> QED BY <2>1, <2>2
<1>8. m \in 0 .. Len(a)
  BY <1>5
<1> QED BY <1>5, <1>6, <1>7, <1>8 DEF SameUpTo

LEMMA PartOnce ==
    ASSUME NEW a \in Seq(Nat), NEW b \in Seq(Nat), NEW n \in Nat, NEW m \in Nat,
           SameUpTo(a, b, n), SameUpTo(a, b, m)
    PROVE  n = m
<1>1. ASSUME NEW k \in Nat, NEW l \in Nat, SameUpTo(a, b, k), SameUpTo(a, b, l) PROVE ~(k < l)
  <2> SUFFICES ASSUME k < l PROVE FALSE
    OBVIOUS
  <2>1. k < Len(a) /\ k < Len(b) /\ k + 1 \in 1 .. l
    BY <1>1 DEF SameUpTo
  <2> QED BY <1>1, <2>1 DEF SameUpTo
<1>2. ~(n < m) /\ ~(m < n)
  BY <1>1
<1> QED BY <1>2

\* strings.Compare: what the first different character says, or the lengths.
LEMMA CompareIs ==
    ASSUME NEW a \in Seq(Nat), NEW b \in Seq(Nat), NEW n \in Nat, SameUpTo(a, b, n)
    PROVE  CompareText(a, b) = IF n < Len(a) /\ n < Len(b)
                                      THEN Sign(a[n + 1] - b[n + 1])
                                      ELSE Sign(Len(a) - Len(b))
<1> DEFINE P(k) == /\ k <= Len(b)
                   /\ \A i \in 1 .. k : a[i] = b[i]
                   /\ k < Len(a) /\ k < Len(b) => a[k + 1] # b[k + 1]
           c == CHOOSE k \in 0 .. Len(a) : P(k)
<1>1. c \in 0 .. Len(a) /\ SameUpTo(a, b, c)
  <2>1. PICK k \in 0 .. Len(a) : SameUpTo(a, b, k)
    BY PartSomewhere
  <2>2. P(k)
    BY <2>1 DEF SameUpTo
  <2> HIDE DEF P
  <2>3. c \in 0 .. Len(a) /\ P(c)
    BY <2>2, Zenon
  <2> HIDE DEF c
  <2>4. c \in 0 .. Len(a) /\ c <= Len(a)
    BY <2>3
  <2> QED BY <2>3, <2>4 DEF SameUpTo, P
<1>2. CompareText(a, b) = IF c < Len(a) /\ c < Len(b)
                                 THEN Sign(a[c + 1] - b[c + 1])
                                 ELSE Sign(Len(a) - Len(b))
  BY DEF CompareText
<1> HIDE DEF c
<1>3. c = n
  BY <1>1, PartOnce
<1> QED BY <1>2, <1>3

LEMMA Signs ==
    ASSUME NEW n \in Int
    PROVE  /\ Sign(n) \in {-1, 0, 1}
           /\ Sign(n) < 0 <=> n < 0
           /\ Sign(n) = 0 <=> n = 0
           /\ Sign(-n) = -Sign(n)
  BY DEF Sign

LEMMA ComesBefore ==
    ASSUME NEW a \in Seq(Nat), NEW b \in Seq(Nat), NEW n \in Nat, SameUpTo(a, b, n)
    PROVE  CompareText(a, b) < 0 <=>
             n < Len(b) /\ (n < Len(a) => a[n + 1] < b[n + 1])
<1>1. CASE n < Len(a) /\ n < Len(b)
  <2> DEFINE x == a[n + 1]
             y == b[n + 1]
  <2>1. x \in Nat /\ y \in Nat
    BY <1>1
  <2>2. CompareText(a, b) = Sign(x - y)
    BY <1>1, CompareIs
  <2> HIDE DEF x, y
  <2>3. Sign(x - y) < 0 <=> x < y
    BY <2>1, Signs
  <2> QED BY <1>1, <2>2, <2>3 DEF x, y
<1>2. CASE ~(n < Len(a) /\ n < Len(b))
  <2>1. CompareText(a, b) = Sign(Len(a) - Len(b))
    BY <1>2, CompareIs
  <2>2. Sign(Len(a) - Len(b)) < 0 <=> Len(a) < Len(b)
    <3>1. Len(a) \in Nat /\ Len(b) \in Nat
      OBVIOUS
    <3>2. Len(a) - Len(b) \in Int /\ (Len(a) - Len(b) < 0 <=> Len(a) < Len(b))
      BY <3>1
    <3> QED BY <3>2, Signs
  <2>3. Len(a) \in Nat /\ Len(b) \in Nat /\ n <= Len(a) /\ n <= Len(b)
    BY DEF SameUpTo
  <2> QED BY <1>2, <2>1, <2>2, <2>3
<1> QED BY <1>1, <1>2

LEMMA ComparesBothWays ==
    ASSUME NEW a \in Seq(Nat), NEW b \in Seq(Nat)
    PROVE  /\ CompareText(a, b) = 0 <=> a = b
           /\ CompareText(b, a) = -CompareText(a, b)
<1>1. PICK n \in 0 .. Len(a) : SameUpTo(a, b, n)
  BY PartSomewhere
<1>2. n \in Nat /\ n <= Len(a) /\ n <= Len(b) /\ SameUpTo(b, a, n)
  BY <1>1 DEF SameUpTo
<1>3. CASE n < Len(a) /\ n < Len(b)
  <2> DEFINE x == a[n + 1]
             y == b[n + 1]
  <2>1. x \in Nat /\ y \in Nat /\ x # y
    BY <1>1, <1>2, <1>3 DEF SameUpTo
  <2>2. CompareText(a, b) = Sign(x - y) /\ CompareText(b, a) = Sign(y - x)
    BY <1>1, <1>2, <1>3, CompareIs
  <2>3. a # b
    BY <2>1
  <2> HIDE DEF x, y
  <2>4. x - y \in Int /\ x - y # 0 /\ y - x = -(x - y)
    BY <2>1
  <2>5. Sign(y - x) = -Sign(x - y) /\ Sign(x - y) # 0
    BY <2>4, Signs
  <2> QED BY <2>2, <2>3, <2>5
<1>4. CASE ~(n < Len(a) /\ n < Len(b))
  <2> DEFINE x == Len(a)
             y == Len(b)
  <2>1. x \in Nat /\ y \in Nat
    OBVIOUS
  <2>2. CompareText(a, b) = Sign(x - y) /\ CompareText(b, a) = Sign(y - x)
    BY <1>1, <1>2, <1>4, CompareIs
  <2>3. a = b <=> x = y
    <3>1. ASSUME x = y PROVE a = b
      <4>1. n = x /\ n = y
        BY <1>2, <1>4, <2>1, <3>1
      <4>2. \A i \in 1 .. Len(a) : a[i] = b[i]
        BY <1>1, <4>1 DEF SameUpTo
      <4>3. a \in [1 .. Len(a) -> Nat] /\ b \in [1 .. Len(a) -> Nat]
        BY <3>1
      <4> HIDE DEF x, y
      <4> QED BY <4>2, <4>3
    <3> QED BY <3>1
  <2> HIDE DEF x, y
  <2>4. x - y \in Int /\ (x - y = 0 <=> x = y) /\ y - x = -(x - y)
    BY <2>1
  <2>5. Sign(y - x) = -Sign(x - y) /\ (Sign(x - y) = 0 <=> x = y)
    BY <2>4, Signs
  <2> QED BY <2>2, <2>3, <2>5
<1> QED BY <1>3, <1>4

\* CompareText is a strict total order of texts: only a text itself is neither
\* before nor after it, two are told apart the same from either side, and what
\* comes before a text comes before all that come after it.  It is what ids,
\* texts and stored times are sorted by, and the last word of every order
\* (lessByOrderKey, LessByOrder).
THEOREM TextsAreOrdered ==
    ASSUME NEW a \in Seq(Nat), NEW b \in Seq(Nat)
    PROVE  /\ CompareText(a, b) = 0 <=> a = b
           /\ CompareText(b, a) = -CompareText(a, b)
           /\ \A c \in Seq(Nat) :
                CompareText(a, b) < 0 /\ CompareText(b, c) < 0
                  => CompareText(a, c) < 0
<1>1. /\ CompareText(a, b) = 0 <=> a = b
      /\ CompareText(b, a) = -CompareText(a, b)
  BY ComparesBothWays
<1>2. ASSUME NEW c \in Seq(Nat), CompareText(a, b) < 0, CompareText(b, c) < 0
      PROVE  CompareText(a, c) < 0
  <2>1. PICK n \in 0 .. Len(a) : SameUpTo(a, b, n)
    BY PartSomewhere
  <2>2. PICK m \in 0 .. Len(b) : SameUpTo(b, c, m)
    BY PartSomewhere
  <2>3. n \in Nat /\ n < Len(b) /\ n <= Len(a) /\ (n < Len(a) => a[n + 1] < b[n + 1])
    BY <1>2, <2>1, ComesBefore
  <2>4. m \in Nat /\ m < Len(c) /\ m <= Len(b) /\ (m < Len(b) => b[m + 1] < c[m + 1])
    BY <1>2, <2>2, ComesBefore
  <2>5. (\A i \in 1 .. n : a[i] = b[i]) /\ (\A i \in 1 .. m : b[i] = c[i])
    BY <2>1, <2>2 DEF SameUpTo
  <2> DEFINE k == IF n < m THEN n ELSE m
  <2>6. k \in Nat /\ k <= n /\ k <= m /\ k < Len(c) /\ k <= Len(a)
    BY <2>3, <2>4
  <2>7. \A i \in 1 .. k : a[i] = c[i]
    <3> HIDE DEF k
    <3> QED BY <2>3, <2>4, <2>5, <2>6
  <2>8. k < Len(a) => a[k + 1] < c[k + 1]
    <3> SUFFICES ASSUME k < Len(a) PROVE a[k + 1] < c[k + 1]
      OBVIOUS
    <3>1. k < Len(b) /\ k + 1 \in 1 .. Len(a) /\ k + 1 \in 1 .. Len(b) /\ k + 1 \in 1 .. Len(c)
      <4>1. Len(a) \in Nat /\ Len(b) \in Nat /\ Len(c) \in Nat
        OBVIOUS
      <4> HIDE DEF k
      <4> QED BY <2>3, <2>4, <2>6, <4>1
    <3>2. a[k + 1] \in Nat /\ b[k + 1] \in Nat /\ c[k + 1] \in Nat
      <4> HIDE DEF k
      <4>1. a[k + 1] \in Nat
        BY <3>1, CharIs
      <4>2. b[k + 1] \in Nat
        BY <3>1, CharIs
      <4>3. c[k + 1] \in Nat
        BY <3>1, CharIs
      <4> QED BY <4>1, <4>2, <4>3
    <3>3. CASE n < m
      <4>1. k = n /\ k + 1 \in 1 .. m
        BY <2>3, <2>4, <3>3
      <4> HIDE DEF k
      <4>2. a[k + 1] < b[k + 1] /\ b[k + 1] = c[k + 1]
        BY <2>3, <2>5, <4>1
      <4> QED BY <4>2
    <3>4. CASE m < n
      <4>1. k = m /\ k + 1 \in 1 .. n
        BY <2>3, <2>4, <3>4
      <4> HIDE DEF k
      <4>2. b[k + 1] < c[k + 1] /\ a[k + 1] = b[k + 1]
        BY <2>4, <2>5, <3>1, <4>1
      <4> QED BY <4>2
    <3>5. CASE m = n
      <4>1. k = m /\ k = n
        BY <3>5
      <4> HIDE DEF k
      <4>2. b[k + 1] < c[k + 1] /\ a[k + 1] < b[k + 1]
        BY <2>3, <2>4, <3>1, <4>1
      <4> QED BY <3>2, <4>2
    <3> QED BY <2>3, <2>4, <3>3, <3>4, <3>5
  <2> HIDE DEF k
  <2>9. SameUpTo(a, c, k)
    <3>1. k < Len(a) /\ k < Len(c) => a[k + 1] # c[k + 1]
      <4> SUFFICES ASSUME k < Len(a), k < Len(c) PROVE a[k + 1] # c[k + 1]
        OBVIOUS
      <4>1. a[k + 1] \in Nat /\ c[k + 1] \in Nat
        BY <2>6
      <4> QED BY <2>8, <4>1
    <3>2. k <= Len(c)
      BY <2>6
    <3> QED BY <2>6, <2>7, <3>1, <3>2 DEF SameUpTo
  <2> QED BY <2>6, <2>8, <2>9, ComesBefore
<1> QED BY <1>1, <1>2
=============================================================================
