------------------------- MODULE EntityVersionsProofs -------------------------
(***************************************************************************)
(* An entity keeps one model and its creation dates stand, and what is     *)
(* read as at each instant, or in a transaction, is EntityTimeline, for    *)
(* any entities, models, contents, transactions and bounds.                *)
(*                                                                         *)
(* OneModel is not inductive: a commit appends what was staged long        *)
(* before, so RowsOfOneModel has it for the versions a transaction's Begin *)
(* saw together with its writes; a writer that has lost no race appends to *)
(* those very versions.  CreationStands is kept by the rows of a commit as *)
(* a whole (AppendKeepsDates), whether the backend evicts, unstages or     *)
(* renews.  The refinement needs StampsRise besides: only if stamps rise   *)
(* with the versions is the latest version what is read as at now, and     *)
(* only if none is later than now does a commit leave the past alone.      *)
(***************************************************************************)
EXTENDS EntityVersions, FiniteSetTheorems, SequenceTheorems, WellFoundedInduction, TLAPS

Contents == Content \cup {Absent}
Written  == [model: Model, content: Contents]
Versions == [model: Model, content: Contents, stamp: Nat, created: Nat]

-----------------------------------------------------------------------------
(* The first and the last of a set of places.                              *)

LEMMA FirstPlace ==
    ASSUME NEW S \in SUBSET Nat, S # {}
    PROVE  \E m \in S : \A j \in S : m <= j
<1>1. PICK m \in S : \A j \in S : ~ (<<j, m>> \in OpToRel(<, Nat))
  BY NatLessThanWellFounded, WFMin, Zenon
<1>2. \A j \in S : ~ (j < m)
  BY <1>1, Zenon DEF OpToRel
<1>3. \A j \in S : m <= j
  BY <1>2
<1> QED BY <1>3

LEMMA LastPlace ==
    ASSUME NEW S \in SUBSET Nat, S # {}, NEW b \in Nat, \A j \in S : j <= b
    PROVE  \E m \in S : \A j \in S : j <= m
<1> DEFINE T == {b - j : j \in S}
<1>1. T \in SUBSET Nat /\ T # {}
  <2>1. \A j \in S : b - j \in Nat
    OBVIOUS
  <2> QED BY <2>1
<1>2. PICK x \in T : \A y \in T : x <= y
  BY <1>1, FirstPlace
<1>3. PICK m \in S : x = b - m
  OBVIOUS
<1>4. ASSUME NEW j \in S PROVE j <= m
  <2>1. b - j \in T
    OBVIOUS
  <2>2. b - m <= b - j
    BY <1>2, <1>3, <2>1
  <2> QED BY <2>2
<1> QED BY <1>4

-----------------------------------------------------------------------------
(* Staged writes.                                                          *)

LEMMA PlacesFinite ==
    ASSUME NEW n \in Nat, NEW S \in SUBSET (1 .. n)
    PROVE  IsFiniteSet(S) /\ Cardinality(S) \in Nat
<1>1. IsFiniteSet(1 .. n)
  BY FS_Interval
<1>2. IsFiniteSet(S)
  BY <1>1, FS_Subset
<1> QED BY <1>2, FS_CardinalityType

\* To the k-th of n places there is a place.
LEMMA PlaceIsThere ==
    ASSUME NEW n \in Nat, NEW S \in SUBSET (1 .. n), NEW k \in 1 .. Cardinality(S)
    PROVE  Cardinality(S) \in Nat /\ Place(S, k) \in S
<1> DEFINE upTo(i) == {j \in S : j <= i}
           rank == [i \in S |-> Cardinality(upTo(i))]
<1>1. IsFiniteSet(S) /\ Cardinality(S) \in Nat
  BY PlacesFinite
<1>2. \A i \in S : i \in Nat /\ i \in upTo(i) /\ upTo(i) \in SUBSET S
  OBVIOUS
<1>3. ASSUME NEW i \in S
      PROVE  /\ IsFiniteSet(upTo(i)) /\ Cardinality(upTo(i)) \in 1 .. Cardinality(S)
  <2>1. IsFiniteSet(upTo(i)) /\ Cardinality(upTo(i)) <= Cardinality(S)
    BY <1>1, <1>2, FS_Subset
  <2>2. Cardinality(upTo(i)) \in Nat
    BY <2>1, FS_CardinalityType
  <2>3. Cardinality(upTo(i)) # 0
    BY <1>2, <2>1, FS_EmptySet
  <2> HIDE DEF upTo
  <2> QED BY <1>1, <2>1, <2>2, <2>3
<1>4. ASSUME NEW i \in S, NEW j \in S, i < j
      PROVE  Cardinality(upTo(i)) # Cardinality(upTo(j))
  <2>1. upTo(i) \in SUBSET upTo(j) /\ j \notin upTo(i) /\ j \in upTo(j)
    <3>1. i \in Nat /\ j \in Nat /\ ~(j <= i) /\ \A x \in S : x \in Nat /\ (x <= i => x <= j)
      BY <1>4
    <3> QED BY <1>2, <3>1
  <2>2. upTo(i) # upTo(j) /\ IsFiniteSet(upTo(j))
    BY <1>3, <2>1
  <2> HIDE DEF upTo
  <2> QED BY <2>1, <2>2, FS_Subset
<1>5. rank \in Injection(S, 1 .. Cardinality(S))
  <2>1. rank \in [S -> 1 .. Cardinality(S)]
    BY <1>3
  <2>2. \A i, j \in S : rank[i] = rank[j] => i = j
    <3> SUFFICES ASSUME NEW i \in S, NEW j \in S, i # j PROVE rank[i] # rank[j]
      OBVIOUS
    <3>1. i < j \/ j < i
      BY <1>2
    <3> HIDE DEF upTo
    <3> QED BY <1>4, <3>1
  <2> HIDE DEF rank
  <2> QED BY <2>1, <2>2 DEF Injection, IsInjective
<1>6. IsFiniteSet(1 .. Cardinality(S)) /\ Cardinality(1 .. Cardinality(S)) = Cardinality(S)
  BY <1>1, FS_Interval
<1>7. rank \in Surjection(S, 1 .. Cardinality(S))
  <2> HIDE DEF rank
  <2> QED BY <1>5, <1>6, FS_Injection
<1>8. \E i \in S : Cardinality({j \in S : j <= i}) = k
  <2>1. \E i \in S : rank[i] = k
    <3> HIDE DEF rank
    <3> QED BY <1>7 DEF Surjection
  <2> QED BY <2>1
<1> QED BY <1>1, <1>8 DEF Place

\* What a sequence has at some of its places is of that sequence.
LEMMA OnlyAtIsOf ==
    ASSUME NEW D, NEW s \in Seq(D), NEW S \in SUBSET DOMAIN s
    PROVE  /\ OnlyAt(s, S) \in Seq(D)
           /\ \A k \in DOMAIN OnlyAt(s, S) : \E i \in DOMAIN s : OnlyAt(s, S)[k] = s[i]
<1>1. DOMAIN s = 1 .. Len(s) /\ Len(s) \in Nat /\ \A i \in DOMAIN s : s[i] \in D
  OBVIOUS
<1>2. Cardinality(S) \in Nat
  BY <1>1, PlacesFinite
<1>3. \A k \in 1 .. Cardinality(S) : Place(S, k) \in DOMAIN s
  BY <1>1, PlaceIsThere
<1>4. OnlyAt(s, S) \in [1 .. Cardinality(S) -> D]
  BY <1>1, <1>3 DEF OnlyAt
<1>5. OnlyAt(s, S) \in Seq(D)
  BY <1>2, <1>4
<1> QED BY <1>3, <1>5 DEF OnlyAt

\* One more staged write is the last, and nothing else is new.
LEMMA StagingIs ==
    ASSUME NEW ops \in Seq(Written), NEW r \in Written
    PROVE  /\ Staging(ops, r) \in Seq(Written)
           /\ Staging(ops, r) # <<>> /\ Last(Staging(ops, r)) = r
           /\ \A k \in DOMAIN Staging(ops, r) :
                Staging(ops, r)[k] = r \/ \E i \in DOMAIN ops : Staging(ops, r)[k] = ops[i]
<1> DEFINE drops(o) == IF r.content = Absent THEN backend.evicts
                       ELSE backend.unstages /\ o.content = Absent
           S == {k \in DOMAIN ops : ~drops(ops[k])}
           kept == OnlyAt(ops, S)
<1>1. Staging(ops, r) = Append(kept, r)
  BY DEF Staging
<1>2. S \in SUBSET DOMAIN ops
  OBVIOUS
<1> HIDE DEF S
<1>3. kept \in Seq(Written) /\ \A k \in DOMAIN kept : \E i \in DOMAIN ops : kept[k] = ops[i]
  BY <1>2, OnlyAtIsOf
<1> HIDE DEF kept
<1>4. /\ Append(kept, r) \in Seq(Written) /\ Len(Append(kept, r)) = Len(kept) + 1
      /\ Len(kept) \in Nat /\ DOMAIN Append(kept, r) = 1 .. (Len(kept) + 1)
      /\ Append(kept, r)[Len(kept) + 1] = r
      /\ \A k \in 1 .. Len(kept) : k \in DOMAIN kept /\ Append(kept, r)[k] = kept[k]
  <2> HIDE DEF Written
  <2> QED BY <1>3
<1>5. Append(kept, r) # <<>> /\ Last(Append(kept, r)) = r
  <2>1. Len(Append(kept, r)) # 0
    BY <1>4
  <2>2. Append(kept, r) # <<>>
    BY <2>1
  <2> QED BY <1>4, <2>2 DEF Last
<1>6. \A k \in DOMAIN Append(kept, r) :
         Append(kept, r)[k] = r \/ \E i \in DOMAIN ops : Append(kept, r)[k] = ops[i]
  <2> SUFFICES ASSUME NEW k \in DOMAIN Append(kept, r), k # Len(kept) + 1
               PROVE  \E i \in DOMAIN ops : Append(kept, r)[k] = ops[i]
    BY <1>4
  <2>1. k \in 1 .. Len(kept)
    BY <1>4
  <2> QED BY <1>3, <1>4, <2>1
<1> QED BY <1>1, <1>4, <1>5, <1>6

-----------------------------------------------------------------------------
(* What a transaction has of an entity.                                    *)

\* The first b of one sequence and all of another.
LEMMA Joined ==
    ASSUME NEW D, NEW h \in Seq(D), NEW b \in 0 .. Len(h), NEW s \in Seq(D)
    PROVE  LET j == SubSeq(h, 1, b) \o s
           IN  /\ j \in Seq(D) /\ Len(j) = b + Len(s) /\ DOMAIN j = 1 .. (b + Len(s))
               /\ \A k \in 1 .. b : j[k] = h[k]
               /\ \A k \in 1 .. Len(s) : j[b + k] = s[k]
<1> DEFINE f == SubSeq(h, 1, b)
<1>1. Len(h) \in Nat /\ b \in Nat /\ Len(s) \in Nat
  OBVIOUS
<1>2. f \in Seq(D) /\ Len(f) = b /\ \A k \in 1 .. b : f[k] = h[k]
  <2>1. \A k \in 1 .. b : h[k] \in D
    BY <1>1
  <2>2. /\ f \in Seq(D)
        /\ Len(f) = IF 1 <= b THEN b - 1 + 1 ELSE 0
        /\ \A k \in 1 .. (b - 1 + 1) : f[k] = h[1 + k - 1]
    BY <1>1, <2>1, SubSeqProperties
  <2> QED BY <1>1, <2>2
<1> HIDE DEF f
<1>3. /\ f \o s \in Seq(D) /\ Len(f \o s) = b + Len(s)
      /\ \A k \in 1 .. (b + Len(s)) : (f \o s)[k] = IF k <= b THEN f[k] ELSE s[k - b]
  BY <1>2, ConcatProperties
<1>4. \A k \in 1 .. b : (f \o s)[k] = h[k]
  BY <1>1, <1>2, <1>3
<1>5. \A k \in 1 .. Len(s) : (f \o s)[b + k] = s[k]
  <2> SUFFICES ASSUME NEW k \in 1 .. Len(s) PROVE (f \o s)[b + k] = s[k]
    OBVIOUS
  <2>1. b + k \in 1 .. (b + Len(s)) /\ ~(b + k <= b) /\ b + k - b = k
    BY <1>1
  <2> QED BY <1>3, <2>1
<1>6. DOMAIN (f \o s) = 1 .. (b + Len(s))
  BY <1>3
<1> QED BY <1>3, <1>4, <1>5, <1>6 DEF f

TypeOK ==
    /\ now \in 0 .. MaxInstant
    /\ history \in [Id -> Seq(Versions)]
    /\ status \in [Tx -> {"unborn", "open", "ended"}]
    /\ base \in [Tx -> [Id -> Nat]]
    /\ staged \in [Tx -> [Id -> Seq(Written)]]
    /\ \A t \in Tx, id \in Id : base[t][id] <= Len(history[id])

\* The versions of its Begin and then its own writes.
LEMMA RowsAre ==
    ASSUME TypeOK, NEW t \in Tx, NEW id \in Id
    PROVE  LET b == base[t][id]
               n == Len(staged[t][id])
           IN  /\ b \in Nat /\ n \in Nat /\ Len(history[id]) \in Nat /\ b <= Len(history[id])
               /\ DOMAIN history[id] = 1 .. Len(history[id]) /\ DOMAIN staged[t][id] = 1 .. n
               /\ Rows(t, id) \in Seq(Versions \cup Written)
               /\ Len(Rows(t, id)) = b + n /\ DOMAIN Rows(t, id) = 1 .. (b + n)
               /\ \A k \in 1 .. b : Rows(t, id)[k] = history[id][k]
               /\ \A k \in 1 .. n : Rows(t, id)[b + k] = staged[t][id][k]
<1> DEFINE D == Versions \cup Written
<1>1. history[id] \in Seq(Versions) /\ staged[t][id] \in Seq(Written) /\ base[t][id] \in Nat
  BY DEF TypeOK
<1> HIDE DEF D
<1>2. history[id] \in Seq(D) /\ staged[t][id] \in Seq(D)
  BY <1>1, SeqMonotonic DEF D
<1>3. /\ Len(history[id]) \in Nat /\ Len(staged[t][id]) \in Nat
      /\ DOMAIN history[id] = 1 .. Len(history[id])
      /\ DOMAIN staged[t][id] = 1 .. Len(staged[t][id])
      /\ base[t][id] <= Len(history[id])
  BY <1>2 DEF TypeOK
<1>4. base[t][id] \in 0 .. Len(history[id])
  BY <1>1, <1>3
<1>5. /\ Rows(t, id) \in Seq(D)
      /\ Len(Rows(t, id)) = base[t][id] + Len(staged[t][id])
      /\ DOMAIN Rows(t, id) = 1 .. (base[t][id] + Len(staged[t][id]))
      /\ \A k \in 1 .. base[t][id] : Rows(t, id)[k] = history[id][k]
      /\ \A k \in 1 .. Len(staged[t][id]) : Rows(t, id)[base[t][id] + k] = staged[t][id][k]
  <2> DEFINE h == history[id]
             b == base[t][id]
             g == staged[t][id]
             j == SubSeq(h, 1, b) \o g
  <2>1. Rows(t, id) = j /\ h \in Seq(D) /\ g \in Seq(D) /\ b \in 0 .. Len(h)
    BY <1>2, <1>4 DEF Rows
  <2> HIDE DEF h, b, g
  <2>2. /\ j \in Seq(D) /\ Len(j) = b + Len(g) /\ DOMAIN j = 1 .. (b + Len(g))
        /\ \A k \in 1 .. b : j[k] = h[k]
        /\ \A k \in 1 .. Len(g) : j[b + k] = g[k]
    BY <2>1, Joined
  <2> QED BY <2>1, <2>2 DEF h, b, g
<1> QED BY <1>1, <1>3, <1>5 DEF D

\* The content a transaction sees is that of its last write, or of its Begin.
LEMMA ViewIs ==
    ASSUME TypeOK, NEW t \in Tx, NEW id \in Id
    PROVE  View(t, id) = IF staged[t][id] # <<>> THEN Last(staged[t][id]).content
                         ELSE IF base[t][id] = 0 THEN Absent
                         ELSE history[id][base[t][id]].content
<1> DEFINE b == base[t][id]
           n == Len(staged[t][id])
<1>1. /\ b \in Nat /\ n \in Nat
      /\ Rows(t, id) \in Seq(Versions \cup Written) /\ Len(Rows(t, id)) = b + n
      /\ \A k \in 1 .. b : Rows(t, id)[k] = history[id][k]
      /\ \A k \in 1 .. n : Rows(t, id)[b + k] = staged[t][id][k]
      /\ staged[t][id] \in Seq(Written)
  BY RowsAre DEF TypeOK
<1>2. Rows(t, id) = <<>> <=> b + n = 0
  <2> HIDE DEF b, n
  <2> QED BY <1>1, EmptySeq
<1>3. staged[t][id] = <<>> <=> n = 0
  BY <1>1, EmptySeq
<1> HIDE DEF b, n
<1>4. CASE n > 0
  <2>1. n \in 1 .. n /\ Rows(t, id) # <<>> /\ staged[t][id] # <<>>
    BY <1>1, <1>2, <1>3, <1>4
  <2>2. Last(Rows(t, id)) = Last(staged[t][id])
    BY <1>1, <2>1 DEF Last, n
  <2> QED BY <2>1, <2>2 DEF View
<1>5. CASE n = 0 /\ b > 0
  <2>1. b \in 1 .. b /\ Rows(t, id) # <<>> /\ staged[t][id] = <<>> /\ Len(Rows(t, id)) = b
    BY <1>1, <1>2, <1>3, <1>5
  <2>2. Last(Rows(t, id)) = history[id][b]
    BY <1>1, <2>1 DEF Last
  <2> QED BY <1>5, <2>1, <2>2 DEF View, b
<1>6. CASE n = 0 /\ b = 0
  BY <1>2, <1>3, <1>6 DEF View, b
<1> QED BY <1>1, <1>4, <1>5, <1>6

-----------------------------------------------------------------------------
(* The versions a commit appends.                                          *)

\* The date of a version: its predecessor's, its commit's, or the first life's.
LEMMA DateIs ==
    ASSUME NEW h \in Seq(Versions), NEW before, NEW s \in Nat
    PROVE  /\ CreationDate(h, before, s) \in Nat
           /\ IF /\ h # <<>> /\ Last(h).content # Absent
                 /\ \A k \in DOMAIN before : before[k].content # Absent
              THEN CreationDate(h, before, s) = Last(h).created
              ELSE \/ CreationDate(h, before, s) = s
                   \/ \E f \in LiveIn(h) : CreationDate(h, before, s) = h[f].created
<1>1. Len(h) \in Nat /\ DOMAIN h = 1 .. Len(h) /\ \A k \in DOMAIN h : h[k] \in Versions
  BY LenProperties, ElementOfSeq
<1>2. \A k \in DOMAIN h : h[k].created \in Nat
  BY <1>1 DEF Versions
<1> DEFINE continues == /\ h # <<>> /\ Last(h).content # Absent
                        /\ \A k \in DOMAIN before : before[k].content # Absent
<1>3. CASE continues
  <2>1. CreationDate(h, before, s) = Last(h).created
    BY <1>3 DEF CreationDate
  <2>2. Len(h) \in DOMAIN h
    BY <1>1, <1>3, EmptySeq
  <2> QED BY <1>2, <1>3, <2>1, <2>2 DEF Last
<1>4. CASE ~continues /\ (backend.renews \/ LiveIn(h) = {})
  BY <1>4 DEF CreationDate
<1>5. CASE ~continues /\ ~(backend.renews \/ LiveIn(h) = {})
  <2> DEFINE f == CHOOSE k \in LiveIn(h) : \A j \in LiveIn(h) : k <= j
  <2>1. LiveIn(h) \in SUBSET Nat /\ LiveIn(h) # {} /\ LiveIn(h) \subseteq DOMAIN h
    BY <1>1, <1>5 DEF LiveIn
  <2>2. f \in LiveIn(h)
    BY <2>1, FirstPlace
  <2>3. CreationDate(h, before, s) = h[f].created
    BY <1>5 DEF CreationDate
  <2> HIDE DEF f
  <2> QED BY <1>2, <1>5, <2>1, <2>2, <2>3
<1> QED BY <1>3, <1>4, <1>5

LEMMA VersionIs ==
    ASSUME NEW h \in Seq(Versions), NEW rows \in Seq(Written), NEW s \in Nat, NEW k \in DOMAIN rows
    PROVE  /\ Version(h, rows, k, s) \in Versions
           /\ Version(h, rows, k, s).model = rows[k].model
           /\ Version(h, rows, k, s).content = rows[k].content
           /\ Version(h, rows, k, s).stamp = s
           /\ Version(h, rows, k, s).created = CreationDate(h, SubSeq(rows, 1, k - 1), s)
<1>1. rows[k] \in Written
  BY LenProperties, ElementOfSeq
<1>2. rows[k].model \in Model /\ rows[k].content \in Contents
  BY <1>1 DEF Written
<1>3. CreationDate(h, SubSeq(rows, 1, k - 1), s) \in Nat
  BY DateIs
<1> QED BY <1>2, <1>3 DEF Version, Versions

LEMMA AppendAllIs ==
    ASSUME NEW h \in Seq(Versions), NEW rows \in Seq(Written), NEW s \in Nat
    PROVE  LET g == AppendAll(h, rows, s)
           IN  /\ Len(h) \in Nat /\ Len(rows) \in Nat
               /\ DOMAIN h = 1 .. Len(h) /\ DOMAIN rows = 1 .. Len(rows)
               /\ g \in Seq(Versions) /\ Len(g) = Len(h) + Len(rows)
               /\ DOMAIN g = 1 .. (Len(h) + Len(rows))
               /\ \A k \in 1 .. Len(h) : g[k] = h[k]
               /\ \A k \in 1 .. Len(rows) : g[Len(h) + k] = Version(h, rows, k, s)
<1> DEFINE n == Len(rows)
           new == [k \in DOMAIN rows |-> Version(h, rows, k, s)]
<1>1. Len(h) \in Nat /\ DOMAIN h = 1 .. Len(h) /\ n \in Nat /\ DOMAIN rows = 1 .. n
  BY LenProperties
<1>2. \A k \in 1 .. n : Version(h, rows, k, s) \in Versions
  BY <1>1, VersionIs
<1>3. new \in [1 .. n -> Versions]
  BY <1>1, <1>2
<1>4. new \in Seq(Versions) /\ Len(new) = n
  <2> HIDE DEF new, n
  <2>1. new \in Seq(Versions)
    BY <1>1, <1>3
  <2> QED BY <1>1, <1>3, <2>1
<1>5. \A k \in 1 .. n : new[k] = Version(h, rows, k, s)
  BY <1>1
<1>6. AppendAll(h, rows, s) = h \o new
  BY DEF AppendAll
<1> HIDE DEF new, n
<1>7. /\ h \o new \in Seq(Versions) /\ Len(h \o new) = Len(h) + n
      /\ \A k \in 1 .. (Len(h) + n) : (h \o new)[k] = IF k <= Len(h) THEN h[k] ELSE new[k - Len(h)]
  BY <1>4, ConcatProperties
<1>8. \A k \in 1 .. Len(h) : (h \o new)[k] = h[k]
  BY <1>1, <1>7
<1>9. \A k \in 1 .. n : (h \o new)[Len(h) + k] = Version(h, rows, k, s)
  <2> SUFFICES ASSUME NEW k \in 1 .. n PROVE (h \o new)[Len(h) + k] = new[k]
    BY <1>5
  <2>1. Len(h) + k \in 1 .. (Len(h) + n) /\ ~(Len(h) + k <= Len(h)) /\ Len(h) + k - Len(h) = k
    BY <1>1
  <2> QED BY <1>7, <2>1
<1>10. DOMAIN (h \o new) = 1 .. (Len(h) + n)
  BY <1>7, LenProperties
<1> QED BY <1>1, <1>6, <1>7, <1>8, <1>9, <1>10 DEF n

-----------------------------------------------------------------------------
(* Reads as at an instant.                                                 *)

Rising(h) == \A j, k \in DOMAIN h : j < k => h[j].stamp <= h[k].stamp

\* Among versions whose stamps do not fall the highest stands for the set.
LEMMA AsAtIs ==
    ASSUME NEW h \in Seq(Versions), Rising(h), NEW i \in Nat
    PROVE  LET S == {k \in DOMAIN h : h[k].stamp <= i}
           IN  /\ S = {} => AsAt(h, i) = Absent
               /\ \A m \in S : (\A j \in S : j <= m) => AsAt(h, i) = h[m].content
<1> DEFINE S == {k \in DOMAIN h : h[k].stamp <= i}
           after(j, k) == h[j].stamp < h[k].stamp \/ (h[j].stamp = h[k].stamp /\ j < k)
<1>1. \A k \in DOMAIN h : k \in Nat /\ h[k].stamp \in Nat
  <2>1. DOMAIN h = 1 .. Len(h) /\ Len(h) \in Nat /\ \A k \in DOMAIN h : h[k] \in Versions
    BY LenProperties, ElementOfSeq
  <2> QED BY <2>1 DEF Versions
<1>2. ASSUME NEW m \in S, \A j \in S : j <= m
      PROVE  Newest(h, S) = m
  <2>1. \A j \in S \ {m} : after(j, m)
    <3> SUFFICES ASSUME NEW j \in S \ {m} PROVE after(j, m)
      OBVIOUS
    <3>1. j < m /\ h[j].stamp <= h[m].stamp
      BY <1>1, <1>2 DEF Rising
    <3> QED BY <1>1, <3>1
  <2>2. ASSUME NEW k \in S, \A j \in S \ {k} : after(j, k)
        PROVE  k = m
    <3> SUFFICES ASSUME k # m PROVE FALSE
      OBVIOUS
    <3>1. after(m, k) /\ after(k, m)
      BY <2>1, <2>2
    <3> QED BY <1>1, <3>1
  <2> HIDE DEF S
  <2> QED BY <2>1, <2>2 DEF Newest
<1>3. ASSUME NEW m \in S, \A j \in S : j <= m
      PROVE  AsAt(h, i) = h[m].content
  BY <1>2, <1>3 DEF AsAt
<1>4. S = {} => AsAt(h, i) = Absent
  BY DEF AsAt
<1> QED BY <1>3, <1>4

\* At an instant no stamp lies after, the last version is read.
LEMMA AsAtLatest ==
    ASSUME NEW h \in Seq(Versions), Rising(h), NEW i \in Nat, \A k \in DOMAIN h : h[k].stamp <= i
    PROVE  AsAt(h, i) = IF h = <<>> THEN Absent ELSE Last(h).content
<1> DEFINE S == {k \in DOMAIN h : h[k].stamp <= i}
<1>1. S = DOMAIN h /\ DOMAIN h = 1 .. Len(h) /\ Len(h) \in Nat
  BY LenProperties
<1>2. CASE h = <<>>
  <2>1. S = {}
    BY <1>1, <1>2
  <2> QED BY <1>2, <2>1, AsAtIs
<1>3. CASE h # <<>>
  <2>1. Len(h) \in S /\ \A j \in S : j <= Len(h)
    BY <1>1, <1>3, EmptySeq
  <2> QED BY <1>3, <2>1, AsAtIs DEF Last
<1> QED BY <1>2, <1>3

\* Versions stamped after an instant do not change what it shows.
LEMMA AsAtPast ==
    ASSUME NEW h \in Seq(Versions), NEW g \in Seq(Versions), Rising(h), Rising(g), NEW i \in Nat,
           Len(h) <= Len(g), \A k \in 1 .. Len(h) : g[k] = h[k],
           \A k \in DOMAIN g : k > Len(h) => g[k].stamp > i
    PROVE  AsAt(g, i) = AsAt(h, i)
<1> DEFINE S == {k \in DOMAIN h : h[k].stamp <= i}
           R == {k \in DOMAIN g : g[k].stamp <= i}
<1>1. /\ DOMAIN h = 1 .. Len(h) /\ Len(h) \in Nat /\ DOMAIN g = 1 .. Len(g) /\ Len(g) \in Nat
      /\ \A k \in DOMAIN g : g[k].stamp \in Nat
  <2>1. \A k \in DOMAIN g : g[k] \in Versions
    BY LenProperties, ElementOfSeq
  <2> QED BY <2>1, LenProperties DEF Versions
<1>2. R = S
  <2>1. ASSUME NEW k \in R PROVE k \in S
    <3>1. k \in 1 .. Len(h)
      BY <1>1
    <3> QED BY <1>1, <3>1
  <2>2. ASSUME NEW k \in S PROVE k \in R
    BY <1>1
  <2> QED BY <2>1, <2>2
<1>3. CASE S = {}
  BY <1>2, <1>3, AsAtIs
<1>4. CASE S # {}
  <2>1. S \in SUBSET Nat /\ Len(h) \in Nat /\ \A j \in S : j <= Len(h)
    BY <1>1
  <2>2. PICK m \in S : \A j \in S : j <= m
    <3> HIDE DEF S
    <3> QED BY <1>4, <2>1, LastPlace
  <2>3. AsAt(h, i) = h[m].content
    BY <2>2, AsAtIs
  <2>4. AsAt(g, i) = g[m].content
    BY <1>2, <2>2, AsAtIs
  <2>5. g[m] = h[m]
    BY <1>1
  <2> QED BY <2>3, <2>4, <2>5
<1> QED BY <1>3, <1>4

-----------------------------------------------------------------------------
(* What the rows of a commit keep of a history.                            *)

SameModel(rows) == \A j, k \in DOMAIN rows : rows[j].model = rows[k].model

\* CreationStands of one history.
Stands(h) ==
    /\ \A k \in LiveIn(h) : \E j \in LiveIn(h) : j <= k /\ h[j].stamp = h[k].created
    /\ \A k \in LiveIn(h) : k - 1 \in LiveIn(h) => h[k].created = h[k - 1].created

\* No row leaves the history as it is.
LEMMA NothingAppended ==
    ASSUME NEW h \in Seq(Versions), NEW s \in Nat
    PROVE  AppendAll(h, <<>>, s) = h
<1> DEFINE g == AppendAll(h, <<>>, s)
<1>1. <<>> \in Seq(Written) /\ Len(<<>>) = 0
  BY EmptySeq
<1>2. /\ g \in Seq(Versions) /\ Len(h) \in Nat /\ Len(g) = Len(h) + 0
      /\ \A k \in 1 .. Len(h) : g[k] = h[k]
  BY <1>1, AppendAllIs
<1> HIDE DEF g
<1>3. g = h
  BY <1>2, SeqEqual
<1> QED BY <1>3 DEF g

LEMMA AppendKeepsModel ==
    ASSUME NEW h \in Seq(Versions), NEW rows \in Seq(Written), NEW s \in Nat,
           SameModel(h), SameModel(rows),
           \A j \in DOMAIN h, k \in DOMAIN rows : h[j].model = rows[k].model
    PROVE  SameModel(AppendAll(h, rows, s))
<1> DEFINE g == AppendAll(h, rows, s)
<1>1. /\ Len(h) \in Nat /\ Len(rows) \in Nat
      /\ DOMAIN h = 1 .. Len(h) /\ DOMAIN rows = 1 .. Len(rows)
      /\ DOMAIN g = 1 .. (Len(h) + Len(rows))
      /\ \A k \in 1 .. Len(h) : g[k] = h[k]
      /\ \A k \in 1 .. Len(rows) : g[Len(h) + k] = Version(h, rows, k, s)
  BY AppendAllIs
<1>2. \A k \in 1 .. Len(rows) : g[Len(h) + k].model = rows[k].model
  BY <1>1, VersionIs
<1> HIDE DEF g
<1>3. ASSUME NEW p \in DOMAIN g
      PROVE  \/ p \in DOMAIN h /\ g[p].model = h[p].model
             \/ p - Len(h) \in DOMAIN rows /\ g[p].model = rows[p - Len(h)].model
  <2>1. CASE p <= Len(h)
    BY <1>1, <2>1
  <2>2. CASE p > Len(h)
    <3>1. p - Len(h) \in 1 .. Len(rows) /\ Len(h) + (p - Len(h)) = p
      BY <1>1, <2>2
    <3> QED BY <1>1, <1>2, <3>1
  <2> QED BY <1>1, <2>1, <2>2
<1>4. \A p, q \in DOMAIN g : g[p].model = g[q].model
  BY <1>3 DEF SameModel
<1> QED BY <1>4 DEF SameModel, g

LEMMA AppendKeepsRising ==
    ASSUME NEW h \in Seq(Versions), NEW rows \in Seq(Written), NEW s \in Nat,
           Rising(h), \A k \in DOMAIN h : h[k].stamp <= s
    PROVE  /\ Rising(AppendAll(h, rows, s))
           /\ \A k \in DOMAIN AppendAll(h, rows, s) :
                /\ AppendAll(h, rows, s)[k].stamp <= s
                /\ k > Len(h) => AppendAll(h, rows, s)[k].stamp = s
<1> DEFINE g == AppendAll(h, rows, s)
<1>1. /\ Len(h) \in Nat /\ Len(rows) \in Nat
      /\ DOMAIN h = 1 .. Len(h) /\ DOMAIN rows = 1 .. Len(rows)
      /\ DOMAIN g = 1 .. (Len(h) + Len(rows))
      /\ \A k \in 1 .. Len(h) : g[k] = h[k]
      /\ \A k \in 1 .. Len(rows) : g[Len(h) + k] = Version(h, rows, k, s)
  BY AppendAllIs
<1>2. \A k \in 1 .. Len(rows) : g[Len(h) + k].stamp = s
  BY <1>1, VersionIs
<1> HIDE DEF g
<1>3. ASSUME NEW p \in DOMAIN g
      PROVE  /\ p <= Len(h) => p \in DOMAIN h /\ g[p] = h[p] /\ g[p].stamp <= s
             /\ p > Len(h) => g[p].stamp = s
  <2>1. CASE p <= Len(h)
    BY <1>1, <2>1
  <2>2. CASE p > Len(h)
    <3>1. p - Len(h) \in 1 .. Len(rows) /\ Len(h) + (p - Len(h)) = p
      BY <1>1, <2>2
    <3> QED BY <1>1, <1>2, <2>2, <3>1
  <2> QED BY <1>1, <2>1, <2>2
<1>4. Rising(g)
  <2> SUFFICES ASSUME NEW p \in DOMAIN g, NEW q \in DOMAIN g, p < q PROVE g[p].stamp <= g[q].stamp
    BY DEF Rising
  <2>1. CASE q <= Len(h)
    <3>1. p <= Len(h)
      BY <1>1, <2>1
    <3> QED BY <1>3, <2>1, <3>1 DEF Rising
  <2>2. CASE q > Len(h)
    BY <1>1, <1>3, <2>2
  <2> QED BY <1>1, <2>1, <2>2
<1>5. \A k \in DOMAIN g : g[k].stamp <= s /\ (k > Len(h) => g[k].stamp = s)
  BY <1>1, <1>3
<1> QED BY <1>4, <1>5 DEF g

\* A creation date is found among the stamps of lives, and goes on with the life.
LEMMA AppendKeepsDates ==
    ASSUME NEW h \in Seq(Versions), NEW rows \in Seq(Written), NEW s \in Nat, Stands(h)
    PROVE  Stands(AppendAll(h, rows, s))
<1> DEFINE g == AppendAll(h, rows, s)
           n == Len(h)
           prior(k) == SubSeq(rows, 1, k - 1)
           continues(k) == /\ h # <<>> /\ Last(h).content # Absent
                           /\ \A j \in DOMAIN prior(k) : prior(k)[j].content # Absent
<1>1. /\ n \in Nat /\ Len(rows) \in Nat
      /\ DOMAIN h = 1 .. n /\ DOMAIN rows = 1 .. Len(rows)
      /\ DOMAIN g = 1 .. (n + Len(rows))
      /\ \A k \in 1 .. n : g[k] = h[k]
      /\ \A k \in 1 .. Len(rows) : g[n + k] = Version(h, rows, k, s)
  BY AppendAllIs
<1>2. \A k \in 1 .. Len(rows) : /\ g[n + k].stamp = s
                                 /\ g[n + k].content = rows[k].content
                                 /\ g[n + k].created = CreationDate(h, prior(k), s)
  <2> SUFFICES ASSUME NEW k \in 1 .. Len(rows)
               PROVE  /\ g[n + k].stamp = s
                      /\ g[n + k].content = rows[k].content
                      /\ g[n + k].created = CreationDate(h, prior(k), s)
    OBVIOUS
  <2>1. g[n + k] = Version(h, rows, k, s) /\ k \in DOMAIN rows
    BY <1>1
  <2> HIDE DEF g, n
  <2> QED BY <2>1, VersionIs
<1>3. \A k \in 1 .. Len(rows) : /\ DOMAIN prior(k) = 1 .. (k - 1)
                                 /\ \A j \in 1 .. (k - 1) : prior(k)[j] = rows[j]
  <2> SUFFICES ASSUME NEW k \in 1 .. Len(rows)
               PROVE  DOMAIN prior(k) = 1 .. (k - 1) /\ \A j \in 1 .. (k - 1) : prior(k)[j] = rows[j]
    OBVIOUS
  <2>1. k - 1 \in 0 .. Len(rows) /\ k \in Nat
    BY <1>1
  <2>2. \A i \in 1 .. (k - 1) : rows[i] \in Written
    BY <1>1, <2>1, ElementOfSeq
  <2>3. /\ prior(k) \in Seq(Written)
        /\ Len(prior(k)) = IF 1 <= k - 1 THEN k - 1 - 1 + 1 ELSE 0
        /\ \A i \in 1 .. (k - 1 - 1 + 1) : prior(k)[i] = rows[1 + i - 1]
    BY <2>1, <2>2, SubSeqProperties
  <2> HIDE DEF prior
  <2>4. Len(prior(k)) = k - 1 /\ DOMAIN prior(k) = 1 .. Len(prior(k))
    BY <2>1, <2>3, LenProperties
  <2> QED BY <2>1, <2>3, <2>4
<1> HIDE DEF g, n, prior
<1>4. \A p : p \in LiveIn(h) <=> p \in 1 .. n /\ p \in LiveIn(g)
  <2>1. \A p \in 1 .. n : p \in DOMAIN g
    BY <1>1
  <2> QED BY <1>1, <2>1 DEF LiveIn
<1>5. ASSUME NEW p \in LiveIn(g), p \notin LiveIn(h)
      PROVE  \E k \in 1 .. Len(rows) : p = n + k /\ rows[k].content # Absent
  <2>1. p \in 1 .. (n + Len(rows)) /\ p \notin 1 .. n
    BY <1>1, <1>4, <1>5 DEF LiveIn
  <2>2. p - n \in 1 .. Len(rows) /\ p = n + (p - n)
    BY <1>1, <2>1
  <2>3. g[p].content # Absent
    BY DEF LiveIn
  <2> QED BY <1>2, <2>2, <2>3
<1>6. h # <<>> /\ Last(h).content # Absent => n \in LiveIn(h) /\ h[n] = Last(h)
  BY <1>1, EmptySeq DEF LiveIn, Last, n
<1>7. ASSUME NEW p \in LiveIn(g)
      PROVE  \E j \in LiveIn(g) : j <= p /\ g[j].stamp = g[p].created
  <2>1. CASE p \in LiveIn(h)
    <3>1. PICK j \in LiveIn(h) : j <= p /\ h[j].stamp = h[p].created
      BY <2>1 DEF Stands
    <3> QED BY <1>1, <1>4, <2>1, <3>1
  <2>2. CASE p \notin LiveIn(h)
    <3>1. PICK k \in 1 .. Len(rows) : p = n + k
      BY <1>5, <2>2
    <3>2. g[p].stamp = s /\ g[p].created = CreationDate(h, prior(k), s)
      BY <1>2, <3>1
    <3>3. CASE g[p].created = s
      BY <1>1, <3>1, <3>2, <3>3
    <3>4. ASSUME NEW f \in LiveIn(h), g[p].created = h[f].created
          PROVE  \E j \in LiveIn(g) : j <= p /\ g[j].stamp = g[p].created
      <4>1. PICK j \in LiveIn(h) : j <= f /\ h[j].stamp = h[f].created
        BY DEF Stands
      <4>2. f \in 1 .. n /\ j \in 1 .. n /\ j \in LiveIn(g) /\ g[j] = h[j]
        BY <1>1, <1>4
      <4>3. j <= p
        BY <1>1, <3>1, <4>2
      <4> QED BY <3>4, <4>1, <4>2, <4>3
    <3>5. \/ g[p].created = s \/ \E f \in LiveIn(h) : g[p].created = h[f].created
      BY <1>6, <3>2, DateIs
    <3> QED BY <3>3, <3>4, <3>5
  <2> QED BY <2>1, <2>2
<1>8. ASSUME NEW p \in LiveIn(g), p - 1 \in LiveIn(g)
      PROVE  g[p].created = g[p - 1].created
  <2>1. CASE p \in LiveIn(h)
    <3>1. p \in 1 .. n /\ p - 1 \in DOMAIN g
      BY <1>4, <1>8, <2>1 DEF LiveIn
    <3>2. p - 1 \in 1 .. n
      BY <1>1, <3>1
    <3>3. p - 1 \in LiveIn(h)
      BY <1>4, <1>8, <3>2
    <3> QED BY <1>1, <2>1, <3>1, <3>2, <3>3 DEF Stands
  <2>2. CASE p \notin LiveIn(h)
    <3>1. PICK k \in 1 .. Len(rows) : p = n + k /\ rows[k].content # Absent
      BY <1>5, <2>2
    <3>2. CASE k = 1
      <4>1. p - 1 = n /\ n \in 1 .. n
        BY <1>1, <1>8, <3>1, <3>2 DEF LiveIn
      <4>2. n \in LiveIn(h) /\ g[n] = h[n]
        BY <1>1, <1>4, <1>8, <4>1
      <4>3. h # <<>> /\ Last(h) = h[n] /\ Last(h).content # Absent
        BY <4>2 DEF Last, LiveIn, n
      <4>4. DOMAIN prior(k) = {}
        BY <1>1, <1>3, <3>1, <3>2
      <4>5. CreationDate(h, prior(k), s) = Last(h).created
        BY <4>3, <4>4, DateIs
      <4> QED BY <1>2, <3>1, <4>1, <4>2, <4>3, <4>5
    <3>3. CASE k > 1
      <4>1. k - 1 \in 1 .. Len(rows) /\ p - 1 = n + (k - 1) /\ k \in Nat
        <5>1. k \in 1 .. Len(rows) /\ p = n + k
          BY <3>1
        <5>2. k \in Nat /\ k - 1 \in 1 .. Len(rows)
          BY <1>1, <3>3, <5>1
        <5>3. (n + k) - 1 = n + (k - 1)
          BY <1>1, <5>2
        <5>4. p - 1 = (n + k) - 1
          BY <5>1
        <5> QED BY <5>2, <5>3, <5>4
      <4>2. rows[k - 1].content # Absent
        <5>1. g[p - 1].content # Absent
          BY <1>8 DEF LiveIn
        <5> QED BY <1>2, <4>1, <5>1
      <4>3. (\A j \in 1 .. (k - 1) : rows[j].content # Absent)
              <=> (\A j \in 1 .. (k - 1 - 1) : rows[j].content # Absent)
        <5>1. \A j \in 1 .. (k - 1) : j = k - 1 \/ j \in 1 .. (k - 1 - 1)
          BY <4>1
        <5>2. \A j \in 1 .. (k - 1 - 1) : j \in 1 .. (k - 1)
          BY <4>1
        <5> QED BY <4>2, <5>1, <5>2
      <4>4. (\A j \in DOMAIN prior(k) : prior(k)[j].content # Absent)
              <=> (\A j \in DOMAIN prior(k - 1) : prior(k - 1)[j].content # Absent)
        BY <1>3, <3>1, <4>1, <4>3
      <4>5. CreationDate(h, prior(k), s) = CreationDate(h, prior(k - 1), s)
        BY <4>4 DEF CreationDate
      <4> QED BY <1>2, <3>1, <4>1, <4>5
    <3> QED BY <1>1, <3>2, <3>3
  <2> QED BY <2>1, <2>2
<1>9. Stands(g)
  BY <1>7, <1>8 DEF Stands
<1> QED BY <1>9 DEF g

-----------------------------------------------------------------------------
(* The invariant.                                                          *)

\* A transaction that is not under way holds nothing.
ClosedIsEmpty ==
    \A t \in Tx : status[t] # "open" => staged[t] = NothingStaged /\ base[t] = [id \in Id |-> 0]

\* What a transaction saw of an entity and wrote of it is of one model.
RowsOfOneModel == \A t \in Tx, id \in Id : SameModel(Rows(t, id))

\* Versions are stamped in their order, and none after the latest commit.
StampsRise ==
    \A id \in Id : /\ Rising(history[id])
                   /\ \A k \in DOMAIN history[id] : history[id][k].stamp <= now

IInv == TypeOK /\ ClosedIsEmpty /\ RowsOfOneModel /\ StampsRise /\ OneModel /\ CreationStands

\* A transaction that wrote nothing sees the model of the history.
LEMMA NothingWritten ==
    ASSUME TypeOK, OneModel, NEW t \in Tx, NEW id \in Id, staged[t][id] = <<>>
    PROVE  SameModel(Rows(t, id))
<1> DEFINE b == base[t][id]
<1>1. /\ b \in Nat /\ Len(history[id]) \in Nat /\ b <= Len(history[id])
      /\ DOMAIN history[id] = 1 .. Len(history[id])
      /\ DOMAIN Rows(t, id) = 1 .. (b + 0)
      /\ \A k \in 1 .. b : Rows(t, id)[k] = history[id][k]
  BY RowsAre, EmptySeq
<1> HIDE DEF b
<1>2. \A k \in DOMAIN Rows(t, id) : k \in DOMAIN history[id] /\ Rows(t, id)[k] = history[id][k]
  BY <1>1
<1> QED BY <1>2 DEF SameModel, OneModel

\* What the beginning of a sequence holds stands while the sequence grows.
LEMMA BeginningStands ==
    ASSUME NEW D, NEW h \in Seq(D), NEW g \in Seq(D), NEW b \in 0 .. Len(h),
           Len(h) <= Len(g), \A k \in 1 .. Len(h) : g[k] = h[k]
    PROVE  SubSeq(g, 1, b) = SubSeq(h, 1, b)
<1>1. Len(h) \in Nat /\ Len(g) \in Nat /\ b \in Nat /\ b <= Len(h) /\ b \in 0 .. Len(g)
  OBVIOUS
<1>2. \A k \in 1 .. b : k \in 1 .. Len(h) /\ k \in 1 .. Len(g) /\ h[k] \in D /\ g[k] \in D
  BY <1>1
<1>3. /\ SubSeq(h, 1, b) \in Seq(D) /\ Len(SubSeq(h, 1, b)) = IF 1 <= b THEN b - 1 + 1 ELSE 0
      /\ \A k \in 1 .. (b - 1 + 1) : SubSeq(h, 1, b)[k] = h[1 + k - 1]
  BY <1>1, <1>2, SubSeqProperties
<1>4. /\ SubSeq(g, 1, b) \in Seq(D) /\ Len(SubSeq(g, 1, b)) = IF 1 <= b THEN b - 1 + 1 ELSE 0
      /\ \A k \in 1 .. (b - 1 + 1) : SubSeq(g, 1, b)[k] = g[1 + k - 1]
  BY <1>1, <1>2, SubSeqProperties
<1> DEFINE f == SubSeq(h, 1, b)
           e == SubSeq(g, 1, b)
<1>5. f \in Seq(D) /\ e \in Seq(D) /\ Len(f) = b /\ Len(e) = b
      /\ \A k \in 1 .. b : e[k] = f[k]
  BY <1>1, <1>2, <1>3, <1>4
<1> HIDE DEF f, e
<1>6. e = f
  BY <1>1, <1>5, SeqEqual
<1> QED BY <1>6 DEF e, f

\* What a transaction has of an entity stands while it writes nothing of it,
\* whatever is appended to the history.
LEMMA RowsStand ==
    ASSUME TypeOK, TypeOK', NEW t \in Tx, NEW id \in Id,
           base'[t][id] = base[t][id], staged'[t][id] = staged[t][id],
           Len(history[id]) <= Len(history'[id]),
           \A k \in 1 .. Len(history[id]) : history'[id][k] = history[id][k]
    PROVE  Rows(t, id)' = Rows(t, id)
<1> DEFINE h == history[id]
           g == history'[id]
           b == base[t][id]
<1>1. h \in Seq(Versions) /\ g \in Seq(Versions) /\ b \in Nat /\ b <= Len(h)
  BY DEF TypeOK
<1>2. Len(h) <= Len(g) /\ \A k \in 1 .. Len(h) : g[k] = h[k]
  OBVIOUS
<1> HIDE DEF h, g, b
<1>3. b \in 0 .. Len(h)
  BY <1>1
<1>4. SubSeq(g, 1, b) = SubSeq(h, 1, b)
  BY <1>1, <1>2, <1>3, BeginningStands
<1> QED BY <1>4 DEF Rows, h, g, b

THEOREM InitIInv == Init => IInv
<1> SUFFICES ASSUME Init PROVE IInv
  OBVIOUS
<1>1. <<>> \in Seq(Versions) /\ <<>> \in Seq(Written) /\ Len(<<>>) = 0
  OBVIOUS
<1>2. TypeOK
  BY <1>1, InstantsAreNaturals DEF Init, TypeOK, NothingStaged
<1>3. \A id \in Id : history[id] = <<>> /\ DOMAIN history[id] = {}
  BY DEF Init
<1>4. ClosedIsEmpty
  BY DEF Init, ClosedIsEmpty
<1>5. OneModel /\ CreationStands /\ StampsRise
  BY <1>3 DEF OneModel, CreationStands, StampsRise, Rising, LiveIn
<1>6. RowsOfOneModel
  <2>1. \A t \in Tx, id \in Id : staged[t][id] = <<>>
    BY DEF Init, NothingStaged
  <2> QED BY <1>2, <1>5, <2>1, NothingWritten DEF RowsOfOneModel
<1> QED BY <1>2, <1>4, <1>5, <1>6 DEF IInv

-----------------------------------------------------------------------------
(* Writes that are staged.                                                 *)

\* One more write of the model of the rows leaves them of one model.
LEMMA StagingKeepsModel ==
    ASSUME NEW D, NEW h \in Seq(D), NEW b \in 0 .. Len(h), NEW s \in Seq(D), NEW z \in Seq(D),
           NEW r, MayBe(SubSeq(h, 1, b) \o s, r.model),
           \A k \in DOMAIN z : z[k] = r \/ \E i \in DOMAIN s : z[k] = s[i]
    PROVE  SameModel(SubSeq(h, 1, b) \o z)
<1> DEFINE old == SubSeq(h, 1, b) \o s
           new == SubSeq(h, 1, b) \o z
           n == Len(s)
           m == Len(z)
<1>1. /\ b \in Nat /\ n \in Nat /\ m \in Nat /\ DOMAIN s = 1 .. n /\ DOMAIN z = 1 .. m
  OBVIOUS
<1>2. /\ DOMAIN old = 1 .. (b + n)
      /\ \A k \in 1 .. b : old[k] = h[k]
      /\ \A k \in 1 .. n : old[b + k] = s[k]
  BY Joined
<1>3. /\ DOMAIN new = 1 .. (b + m)
      /\ \A k \in 1 .. b : new[k] = h[k]
      /\ \A k \in 1 .. m : new[b + k] = z[k]
  BY Joined
<1>4. \A k \in DOMAIN old : old[k].model = r.model
  BY DEF MayBe
<1> HIDE DEF old, new, n, m
<1>5. \A k \in 1 .. b : h[k].model = r.model
  <2>1. \A k \in 1 .. b : k \in 1 .. (b + n)
    BY <1>1
  <2> QED BY <1>2, <1>4, <2>1
<1>6. \A k \in 1 .. n : s[k].model = r.model
  <2>1. \A k \in 1 .. n : b + k \in 1 .. (b + n)
    BY <1>1
  <2> QED BY <1>2, <1>4, <2>1
<1>7. \A k \in 1 .. m : z[k].model = r.model
  BY <1>1, <1>6
<1>8. ASSUME NEW k \in DOMAIN new PROVE new[k].model = r.model
  <2>1. CASE k \in 1 .. b
    BY <1>3, <1>5, <2>1
  <2>2. CASE k \notin 1 .. b
    <3>1. k - b \in 1 .. m /\ b + (k - b) = k
      BY <1>1, <1>3, <2>2
    <3> QED BY <1>3, <1>7, <3>1
  <2> QED BY <2>1, <2>2
<1> QED BY <1>8 DEF SameModel, new

LEMMA StageIInv ==
    ASSUME IInv, NEW t \in Tx, status[t] = "open", NEW ids \in SUBSET Id, NEW row,
           \A id \in ids : row[id] \in Written /\ MayBe(Rows(t, id), row[id].model),
           Stage(t, ids, row)
    PROVE  IInv'
<1>1. TypeOK /\ UNCHANGED <<backend, now, history, status, base>>
  BY DEF IInv, TypeOK, Stage
<1>2. \A id \in Id : /\ history[id] \in Seq(Versions) /\ staged[t][id] \in Seq(Written)
                     /\ base[t][id] \in 0 .. Len(history[id])
  BY <1>1 DEF TypeOK
<1>3. \A u \in Tx : u # t => staged'[u] = staged[u]
  BY <1>1 DEF Stage, TypeOK
<1>4. \A id \in Id : staged'[t][id] = IF id \in ids THEN Staging(staged[t][id], row[id])
                                      ELSE staged[t][id]
  BY <1>1 DEF Stage, TypeOK
<1>5. \A id \in ids : Staging(staged[t][id], row[id]) \in Seq(Written)
  BY <1>2, StagingIs
<1>6. staged' \in [Tx -> [Id -> Seq(Written)]]
  <2> HIDE DEF Written
  <2> QED BY <1>1, <1>2, <1>4, <1>5 DEF Stage, TypeOK
<1>7. TypeOK'
  <2> HIDE DEF Written, Versions
  <2> QED BY <1>1, <1>6 DEF TypeOK
<1>8. ClosedIsEmpty'
  BY <1>1, <1>3 DEF IInv, ClosedIsEmpty
<1>9. RowsOfOneModel'
  <2> SUFFICES ASSUME NEW u \in Tx, NEW id \in Id PROVE SameModel(Rows(u, id)')
    BY DEF RowsOfOneModel
  <2>1. SameModel(Rows(u, id))
    BY DEF IInv, RowsOfOneModel
  <2>2. CASE u = t /\ id \in ids
    <3> DEFINE h == history[id]
               b == base[t][id]
               s == staged[t][id]
               r == row[id]
               D == Versions \cup Written
    <3>1. Rows(u, id)' = SubSeq(h, 1, b) \o Staging(s, r)
      BY <1>1, <1>4, <2>2 DEF Rows
    <3>2. MayBe(SubSeq(h, 1, b) \o s, r.model) /\ r \in Written
      BY <2>2 DEF Rows
    <3>3. h \in Seq(Versions) /\ s \in Seq(Written) /\ b \in 0 .. Len(h)
      BY <1>2
    <3> HIDE DEF h, b, s, r, D
    <3>4. /\ Staging(s, r) \in Seq(Written)
          /\ \A k \in DOMAIN Staging(s, r) :
               Staging(s, r)[k] = r \/ \E i \in DOMAIN s : Staging(s, r)[k] = s[i]
      BY <3>2, <3>3, StagingIs
    <3>5. h \in Seq(D) /\ s \in Seq(D) /\ Staging(s, r) \in Seq(D)
      BY <3>3, <3>4, SeqMonotonic DEF D
    <3>6. SameModel(SubSeq(h, 1, b) \o Staging(s, r))
      BY <3>2, <3>3, <3>4, <3>5, StagingKeepsModel
    <3> QED BY <3>1, <3>6
  <2>3. CASE ~(u = t /\ id \in ids)
    <3>1. staged'[u][id] = staged[u][id]
      BY <1>3, <1>4, <2>3
    <3> QED BY <1>1, <2>1, <3>1 DEF Rows
  <2> QED BY <2>2, <2>3
<1>10. StampsRise' /\ OneModel' /\ CreationStands'
  BY <1>1 DEF IInv, StampsRise, OneModel, CreationStands, LiveIn
<1> QED BY <1>7, <1>8, <1>9, <1>10 DEF IInv

LEMMA StageShows ==
    ASSUME IInv, NEW t \in Tx, status[t] = "open", NEW ids \in SUBSET Id, NEW row,
           \A id \in ids : row[id] \in Written,
           Stage(t, ids, row)
    PROVE  Timeline!Write(t)
<1>1. TypeOK /\ UNCHANGED <<backend, now, history, status, base>>
  BY DEF IInv, Stage
<1>2. \A u \in Tx : u # t => staged'[u] = staged[u]
  BY <1>1 DEF Stage, TypeOK
<1>3. \A id \in Id : staged'[t][id] = IF id \in ids THEN Staging(staged[t][id], row[id])
                                      ELSE staged[t][id]
  BY <1>1 DEF Stage, TypeOK
<1>4. \A id \in ids : Staging(staged[t][id], row[id]) # <<>>
  <2>1. \A id \in Id : staged[t][id] \in Seq(Written)
    BY <1>1 DEF TypeOK
  <2> QED BY <2>1, StagingIs
<1>5. \A u \in Tx \ {t}, id \in Id : View(u, id)' = View(u, id)
  BY <1>1, <1>2 DEF View, Rows
<1>6. \A id \in Id \ ids : View(t, id)' = View(t, id)
  BY <1>1, <1>3 DEF View, Rows
<1> QED BY <1>1, <1>2, <1>3, <1>4, <1>5, <1>6 DEF Timeline!Write

\* A SaveAll of different entities stages rows of their models.
LEMMA SavesOneModel ==
    ASSUME NEW t \in Tx, NEW rows \in Seq(Offered), SaveAll(t, rows),
           \A j, k \in DOMAIN rows : rows[j].id = rows[k].id => j = k
    PROVE  \E ids \in SUBSET Id : \E row :
             /\ \A id \in ids : row[id] \in Written /\ MayBe(Rows(t, id), row[id].model)
             /\ Stage(t, ids, row)
<1> DEFINE saved == {k \in DOMAIN rows :
                       \A j \in 1 .. k : MayBe(Rows(t, rows[j].id), rows[j].model)}
           ids == {rows[k].id : k \in saved}
           row == [id \in Id |-> Row(rows[CHOOSE k \in DOMAIN rows : rows[k].id = id])]
<1>1. /\ DOMAIN rows = 1 .. Len(rows) /\ Len(rows) \in Nat
      /\ \A k \in DOMAIN rows : rows[k] \in [id: Id, model: Model, content: Content]
  <2>1. \A k \in DOMAIN rows : rows[k] \in Offered
    BY LenProperties, ElementOfSeq
  <2> QED BY <2>1, LenProperties, EntitiesAreOffered
<1>2. \A k \in DOMAIN rows : rows[k].id \in Id
  BY <1>1
<1>3. ids \in SUBSET Id
  BY <1>2
<1>4. ASSUME NEW id \in ids
      PROVE  row[id] \in Written /\ MayBe(Rows(t, id), row[id].model)
  <2>1. PICK k \in saved : rows[k].id = id
    OBVIOUS
  <2>2. (CHOOSE j \in DOMAIN rows : rows[j].id = id) = k
    BY <2>1
  <2>3. row[id] = [model |-> rows[k].model, content |-> rows[k].content]
    BY <1>3, <2>2 DEF Row
  <2>4. MayBe(Rows(t, rows[k].id), rows[k].model)
    <3>1. k \in 1 .. k
      BY <1>1
    <3> QED BY <3>1
  <2>5. rows[k].model \in Model /\ rows[k].content \in Content
    BY <1>1
  <2> HIDE DEF row, ids, saved
  <2> QED BY <2>1, <2>3, <2>4, <2>5 DEF Written, Contents
<1>5. Stage(t, ids, row)
  BY DEF SaveAll
<1> HIDE DEF ids, row
<1> QED BY <1>3, <1>4, <1>5

\* A tombstone is of the model of what it follows.
LEMMA DeletesOneModel ==
    ASSUME IInv, NEW t \in Tx, NEW ids \in SUBSET Id, DeleteEach(t, ids)
    PROVE  \E row :
             /\ \A id \in ids : row[id] \in Written /\ MayBe(Rows(t, id), row[id].model)
             /\ Stage(t, ids, row)
<1> DEFINE row == [id \in Id |-> Tombstone(Rows(t, id))]
<1>1. ASSUME NEW id \in ids
      PROVE  row[id] \in Written /\ MayBe(Rows(t, id), row[id].model)
  <2> DEFINE rows == Rows(t, id)
             n == Len(rows)
  <2>1. SameModel(rows) /\ rows \in Seq(Versions \cup Written)
    BY RowsAre DEF IInv, RowsOfOneModel
  <2>2. rows # <<>>
    BY DEF DeleteEach, View
  <2> HIDE DEF rows
  <2>3. n \in DOMAIN rows /\ Last(rows) = rows[n] /\ rows[n] \in Versions \cup Written
    BY <2>1, <2>2, LenProperties, EmptySeq, ElementOfSeq DEF Last
  <2>4. rows[n].model \in Model
    BY <2>3 DEF Versions, Written
  <2>5. \A k \in DOMAIN rows : rows[k].model = Last(rows).model
    BY <2>1, <2>3 DEF SameModel
  <2>6. row[id] = [model |-> Last(rows).model, content |-> Absent]
    BY DEF Tombstone, rows
  <2> HIDE DEF row
  <2>7. row[id] \in Written
    BY <2>3, <2>4, <2>6 DEF Written, Contents
  <2>8. MayBe(rows, row[id].model)
    BY <2>5, <2>6 DEF MayBe
  <2> QED BY <2>7, <2>8 DEF rows
<1>2. Stage(t, ids, row)
  BY DEF DeleteEach
<1> HIDE DEF row
<1> QED BY <1>1, <1>2

\* Whatever a transaction does short of its end is such a write.
Writes(t) == \/ \E r \in Offered : Save(t, r)
             \/ \E r, q \in Offered : r.id # q.id /\ SaveAll(t, <<r, q>>)
             \/ \E id \in Id : Delete(t, id)
             \/ \E m \in Model : DeleteAll(t, m)

LEMMA WritesStage ==
    ASSUME IInv, NEW t \in Tx, Writes(t)
    PROVE  /\ status[t] = "open"
           /\ \E ids \in SUBSET Id : \E row :
                /\ \A id \in ids : row[id] \in Written /\ MayBe(Rows(t, id), row[id].model)
                /\ Stage(t, ids, row)
<1>1. ASSUME NEW r \in Offered, Save(t, r)
      PROVE  /\ status[t] = "open"
             /\ \E ids \in SUBSET Id : \E row :
                  /\ \A id \in ids : row[id] \in Written /\ MayBe(Rows(t, id), row[id].model)
                  /\ Stage(t, ids, row)
  <2>1. SaveAll(t, <<r>>)
    BY <1>1 DEF Save
  <2>2. status[t] = "open"
    BY <2>1 DEF SaveAll
  <2>3. <<r>> \in Seq(Offered) /\ \A j, k \in DOMAIN <<r>> : j = k
    OBVIOUS
  <2> QED BY <2>1, <2>2, <2>3, SavesOneModel
<1>2. ASSUME NEW r \in Offered, NEW q \in Offered, r.id # q.id, SaveAll(t, <<r, q>>)
      PROVE  /\ status[t] = "open"
             /\ \E ids \in SUBSET Id : \E row :
                  /\ \A id \in ids : row[id] \in Written /\ MayBe(Rows(t, id), row[id].model)
                  /\ Stage(t, ids, row)
  <2> DEFINE rows == <<r, q>>
  <2>1. rows \in Seq(Offered) /\ DOMAIN rows = {1, 2} /\ rows[1] = r /\ rows[2] = q
    OBVIOUS
  <2>2. SaveAll(t, rows) /\ status[t] = "open"
    BY <1>2 DEF SaveAll
  <2> HIDE DEF rows
  <2>3. \A j, k \in DOMAIN rows : rows[j].id = rows[k].id => j = k
    BY <1>2, <2>1
  <2> QED BY <2>1, <2>2, <2>3, SavesOneModel
<1>3. ASSUME NEW ids \in SUBSET Id, DeleteEach(t, ids)
      PROVE  /\ status[t] = "open"
             /\ \E row :
                  /\ \A id \in ids : row[id] \in Written /\ MayBe(Rows(t, id), row[id].model)
                  /\ Stage(t, ids, row)
  <2>1. status[t] = "open"
    BY <1>3 DEF DeleteEach
  <2> QED BY <1>3, <2>1, DeletesOneModel
<1>4. ASSUME NEW id \in Id, Delete(t, id)
      PROVE  \E ids \in SUBSET Id : DeleteEach(t, ids)
  BY <1>4 DEF Delete
<1>5. ASSUME NEW m \in Model, DeleteAll(t, m)
      PROVE  \E ids \in SUBSET Id : DeleteEach(t, ids)
  <2> DEFINE ids == {id \in Id : View(t, id) # Absent /\ Last(Rows(t, id)).model = m}
  <2>1. ids \in SUBSET Id /\ DeleteEach(t, ids)
    BY <1>5 DEF DeleteAll
  <2> HIDE DEF ids
  <2> QED BY <2>1
<1> QED BY <1>1, <1>2, <1>3, <1>4, <1>5 DEF Writes

-----------------------------------------------------------------------------
(* Commits: of a transaction, or of one write without a transaction.       *)

\* The histories after a commit at instant s of the rows new of each entity.
Appended(new, s) == /\ s \in Instants /\ now' = s
                    /\ history' = [id \in Id |-> AppendAll(history[id], new[id], s)]

\* The rows are of the entity's model.
OfItsModel(new) ==
    \A id \in Id : /\ SameModel(new[id])
                   /\ \A j \in DOMAIN history[id], k \in DOMAIN new[id] :
                        history[id][j].model = new[id][k].model

LEMMA CommitsKeep ==
    ASSUME IInv, NEW new \in [Id -> Seq(Written)], OfItsModel(new), NEW s, Appended(new, s)
    PROVE  /\ s \in 0 .. MaxInstant /\ now <= s
           /\ history' \in [Id -> Seq(Versions)]
           /\ \A id \in Id : /\ Len(history[id]) <= Len(history'[id])
                             /\ \A k \in 1 .. Len(history[id]) : history'[id][k] = history[id][k]
           /\ OneModel' /\ CreationStands' /\ StampsRise'
<1>1. TypeOK /\ s \in 0 .. MaxInstant /\ now <= s /\ now \in Nat /\ s \in Nat
  BY InstantsAreNaturals DEF IInv, TypeOK, Appended, Instants
<1>2. ASSUME NEW id \in Id
      PROVE  /\ history'[id] \in Seq(Versions)
             /\ Len(history[id]) <= Len(history'[id])
             /\ \A k \in 1 .. Len(history[id]) : history'[id][k] = history[id][k]
             /\ SameModel(history'[id]) /\ Stands(history'[id]) /\ Rising(history'[id])
             /\ \A k \in DOMAIN history'[id] : history'[id][k].stamp <= s
  <2> DEFINE h == history[id]
             rows == new[id]
             g == AppendAll(h, rows, s)
  <2>1. history'[id] = g /\ h \in Seq(Versions) /\ rows \in Seq(Written)
    BY <1>1 DEF Appended, TypeOK
  <2>2. SameModel(h) /\ Stands(h) /\ Rising(h)
    BY DEF IInv, OneModel, SameModel, CreationStands, Stands, StampsRise
  <2>3. \A k \in DOMAIN h : h[k].stamp <= s
    <3>1. \A k \in DOMAIN h : h[k].stamp <= now
      BY DEF IInv, StampsRise
    <3>2. \A k \in DOMAIN h : h[k].stamp \in Nat
      <4>1. \A k \in DOMAIN h : h[k] \in Versions
        BY <2>1, LenProperties, ElementOfSeq
      <4> QED BY <4>1 DEF Versions
    <3> QED BY <1>1, <3>1, <3>2
  <2>4. SameModel(rows) /\ \A j \in DOMAIN h, k \in DOMAIN rows : h[j].model = rows[k].model
    BY DEF OfItsModel
  <2> HIDE DEF h, rows, g
  <2>5. SameModel(g)
    BY <1>1, <2>1, <2>2, <2>4, AppendKeepsModel DEF g
  <2>6. Rising(g) /\ \A k \in DOMAIN g : g[k].stamp <= s
    BY <1>1, <2>1, <2>2, <2>3, AppendKeepsRising DEF g
  <2>7. Stands(g)
    BY <1>1, <2>1, <2>2, AppendKeepsDates DEF g
  <2>8. /\ Len(h) \in Nat /\ Len(rows) \in Nat
        /\ g \in Seq(Versions) /\ Len(g) = Len(h) + Len(rows)
        /\ \A k \in 1 .. Len(h) : g[k] = h[k]
    BY <1>1, <2>1, AppendAllIs DEF g
  <2>9. Len(h) <= Len(g)
    BY <2>8
  <2> QED BY <2>1, <2>5, <2>6, <2>7, <2>8, <2>9 DEF h
<1>3. history' \in [Id -> Seq(Versions)]
  BY <1>2 DEF Appended
<1>4. OneModel' /\ CreationStands' /\ StampsRise'
  <2>1. now' = s
    BY DEF Appended
  <2> QED BY <1>2, <2>1 DEF OneModel, SameModel, CreationStands, Stands, StampsRise, LiveIn
<1> QED BY <1>1, <1>2, <1>3, <1>4

\* What is shown of an earlier instant stands; from s on the new rows are shown.
LEMMA CommitsShow ==
    ASSUME IInv, NEW new \in [Id -> Seq(Written)], NEW s, Appended(new, s),
           NEW id \in Id, NEW i \in 0 .. MaxInstant
    PROVE  AsAt(history'[id], i) = IF i < s THEN AsAt(history[id], i)
                                   ELSE IF new[id] # <<>> THEN Last(new[id]).content
                                   ELSE AsAt(history[id], now)
<1> DEFINE h == history[id]
           rows == new[id]
           g == AppendAll(h, rows, s)
           n == Len(rows)
<1>1. s \in Nat /\ now <= s /\ now \in Nat /\ i \in Nat
  BY InstantsAreNaturals DEF IInv, TypeOK, Appended, Instants
<1>2. history'[id] = g /\ h \in Seq(Versions) /\ rows \in Seq(Written)
  BY DEF Appended, IInv, TypeOK
<1>3. Rising(h) /\ \A k \in DOMAIN h : h[k].stamp <= now /\ h[k].stamp \in Nat
  <2>1. \A k \in DOMAIN h : h[k] \in Versions
    BY <1>2, LenProperties, ElementOfSeq
  <2> QED BY <2>1 DEF Versions, IInv, StampsRise
<1> HIDE DEF h, rows, g
<1>4. /\ Len(h) \in Nat /\ n \in Nat
      /\ DOMAIN h = 1 .. Len(h) /\ DOMAIN rows = 1 .. n
      /\ g \in Seq(Versions) /\ Len(g) = Len(h) + n /\ DOMAIN g = 1 .. (Len(h) + n)
      /\ \A k \in 1 .. Len(h) : g[k] = h[k]
      /\ \A k \in 1 .. n : g[Len(h) + k] = Version(h, rows, k, s)
  BY <1>1, <1>2, AppendAllIs DEF g
<1>5. \A k \in DOMAIN h : h[k].stamp <= s
  BY <1>1, <1>3
<1>6. /\ Rising(g)
      /\ \A k \in DOMAIN g : g[k].stamp <= s /\ (k > Len(h) => g[k].stamp = s)
  BY <1>1, <1>2, <1>3, <1>5, AppendKeepsRising DEF g
<1>7. \A k \in DOMAIN g : g[k].stamp \in Nat
  <2>1. \A k \in DOMAIN g : g[k] \in Versions
    BY <1>4, LenProperties, ElementOfSeq
  <2> QED BY <2>1 DEF Versions
<1> HIDE DEF n
<1>8. CASE i < s
  <2>1. \A k \in DOMAIN g : k > Len(h) => g[k].stamp > i
    BY <1>1, <1>6, <1>8
  <2>2. Len(h) <= Len(g)
    BY <1>4
  <2>3. AsAt(g, i) = AsAt(h, i)
    BY <1>1, <1>2, <1>3, <1>4, <1>6, <2>1, <2>2, AsAtPast
  <2> QED BY <1>2, <1>8, <2>3 DEF h
<1>9. CASE ~(i < s) /\ rows # <<>>
  <2>1. n >= 1 /\ n \in 1 .. n
    <3>1. n # 0
      BY <1>2, <1>9, EmptySeq DEF n
    <3> QED BY <1>4, <3>1
  <2>2. Len(g) # 0 /\ g # <<>>
    <3>1. Len(g) # 0
      BY <1>4, <2>1
    <3> QED BY <3>1, EmptySeq
  <2>3. \A k \in DOMAIN g : g[k].stamp <= i
    BY <1>1, <1>6, <1>7, <1>9
  <2>4. AsAt(g, i) = Last(g).content
    BY <1>1, <1>4, <1>6, <2>2, <2>3, AsAtLatest
  <2>5. Last(g) = Version(h, rows, n, s)
    BY <1>4, <2>1 DEF Last
  <2>6. Last(g).content = rows[n].content
    <3>1. n \in DOMAIN rows
      BY <1>4, <2>1
    <3> QED BY <1>1, <1>2, <2>5, <3>1, VersionIs
  <2>7. AsAt(g, i) = Last(rows).content
    BY <2>4, <2>6 DEF Last, n
  <2> QED BY <1>2, <1>9, <2>7 DEF rows
<1>10. CASE ~(i < s) /\ rows = <<>>
  <2>1. g = h
    BY <1>1, <1>2, <1>10, NothingAppended DEF g
  <2>2. \A k \in DOMAIN h : h[k].stamp <= i
    BY <1>1, <1>3, <1>10
  <2>3. AsAt(h, i) = AsAt(h, now)
    BY <1>1, <1>2, <1>3, <2>2, AsAtLatest
  <2> QED BY <1>2, <1>10, <2>1, <2>3 DEF h, rows
<1> QED BY <1>8, <1>9, <1>10 DEF rows

\* The writes of a transaction that has lost no race are of the model of what
\* they are appended to.
LEMMA StagedOfItsModel ==
    ASSUME IInv, NEW t \in Tx, ~LostRace(t)
    PROVE  OfItsModel(staged[t])
<1> SUFFICES ASSUME NEW id \in Id
             PROVE  /\ SameModel(staged[t][id])
                    /\ \A j \in DOMAIN history[id], k \in DOMAIN staged[t][id] :
                         history[id][j].model = staged[t][id][k].model
  BY DEF OfItsModel
<1> DEFINE h == history[id]
           rows == staged[t][id]
           all == Rows(t, id)
           b == base[t][id]
           n == Len(rows)
<1>1. /\ b \in Nat /\ n \in Nat /\ Len(h) \in Nat /\ b <= Len(h)
      /\ DOMAIN h = 1 .. Len(h) /\ DOMAIN rows = 1 .. n
      /\ DOMAIN all = 1 .. (b + n)
      /\ \A k \in 1 .. b : all[k] = h[k]
      /\ \A k \in 1 .. n : all[b + k] = rows[k]
  BY RowsAre DEF IInv
<1>2. \A j, k \in DOMAIN all : all[j].model = all[k].model
  BY DEF IInv, RowsOfOneModel, SameModel
<1>3. rows = <<>> \/ Len(h) = b
  BY <1>1 DEF LostRace
<1>4. rows = <<>> => n = 0
  BY EmptySeq
<1> HIDE DEF h, rows, all, b, n
<1>5. \A k \in DOMAIN rows : b + k \in DOMAIN all /\ all[b + k] = rows[k]
  BY <1>1
<1>6. SameModel(rows)
  BY <1>2, <1>5 DEF SameModel
<1>7. ASSUME NEW j \in DOMAIN h, NEW k \in DOMAIN rows PROVE h[j].model = rows[k].model
  <2>1. Len(h) = b
    <3>1. k \in 1 .. n /\ n \in Nat
      BY <1>1
    <3>2. n # 0
      BY <3>1
    <3> QED BY <1>3, <1>4, <3>2
  <2>2. j \in DOMAIN all /\ all[j] = h[j]
    BY <1>1, <2>1
  <2> QED BY <1>2, <1>5, <2>2
<1> QED BY <1>6, <1>7 DEF h, rows

LEMMA EndIInv ==
    ASSUME IInv, NEW t \in Tx, Ends(t),
           now' \in 0 .. MaxInstant, history' \in [Id -> Seq(Versions)],
           \A id \in Id : /\ Len(history[id]) <= Len(history'[id])
                          /\ \A k \in 1 .. Len(history[id]) : history'[id][k] = history[id][k],
           OneModel', CreationStands', StampsRise'
    PROVE  IInv'
<1>1. TypeOK
  BY DEF IInv
<1>2. /\ status' = [status EXCEPT ![t] = "ended"]
      /\ base' = [base EXCEPT ![t] = [id \in Id |-> 0]]
      /\ staged' = [staged EXCEPT ![t] = NothingStaged]
  BY DEF Ends
<1>3. NothingStaged \in [Id -> Seq(Written)] /\ \A id \in Id : NothingStaged[id] = <<>>
  <2>1. <<>> \in Seq(Written)
    BY EmptySeq
  <2> HIDE DEF Written
  <2> QED BY <2>1 DEF NothingStaged
<1>4. TypeOK'
  <2>1. status' \in [Tx -> {"unborn", "open", "ended"}]
    BY <1>1, <1>2 DEF TypeOK
  <2>2. base' \in [Tx -> [Id -> Nat]]
    BY <1>1, <1>2 DEF TypeOK
  <2>3. staged' \in [Tx -> [Id -> Seq(Written)]]
    BY <1>1, <1>2, <1>3 DEF TypeOK
  <2>4. ASSUME NEW u \in Tx, NEW id \in Id PROVE base'[u][id] <= Len(history'[id])
    <3> DEFINE m == Len(history[id])
               n == Len(history'[id])
               b == base[u][id]
               c == base'[u][id]
    <3>1. m \in Nat /\ n \in Nat /\ m <= n /\ b \in Nat /\ b <= m
      BY <1>1 DEF TypeOK
    <3>2. c = b \/ c = 0
      BY <1>1, <1>2 DEF TypeOK
    <3> HIDE DEF m, n, b, c
    <3>3. c <= n
      BY <3>1, <3>2
    <3> QED BY <3>3 DEF c, n
  <2> HIDE DEF Versions, Written
  <2> QED BY <2>1, <2>2, <2>3, <2>4 DEF TypeOK
<1>5. ClosedIsEmpty'
  BY <1>1, <1>2 DEF IInv, ClosedIsEmpty, TypeOK
<1>6. \A u \in Tx \ {t} : base'[u] = base[u] /\ staged'[u] = staged[u]
  BY <1>1, <1>2 DEF TypeOK
<1>7. RowsOfOneModel'
  <2> SUFFICES ASSUME NEW u \in Tx, NEW id \in Id PROVE SameModel(Rows(u, id)')
    BY DEF RowsOfOneModel
  <2>1. CASE u = t
    <3>1. base'[t][id] = 0 /\ staged'[t][id] = <<>> /\ history'[id] \in Seq(Versions)
      BY <1>1, <1>2, <1>3 DEF TypeOK
    <3> DEFINE g == history'[id]
    <3>2. Rows(t, id)' = SubSeq(g, 1, 0) \o <<>>
      BY <3>1 DEF Rows
    <3>3. g \in Seq(Versions) /\ <<>> \in Seq(Versions) /\ 0 \in 0 .. Len(g) /\ Len(<<>>) = 0
      BY <3>1, EmptySeq, LenProperties
    <3> HIDE DEF g
    <3>4. DOMAIN (SubSeq(g, 1, 0) \o <<>>) = 1 .. (0 + 0)
      BY <3>3, Joined
    <3> QED BY <2>1, <3>2, <3>4 DEF SameModel
  <2>2. CASE u # t
    <3>1. Rows(u, id)' = Rows(u, id)
      BY <1>1, <1>4, <1>6, <2>2, RowsStand
    <3> QED BY <3>1 DEF IInv, RowsOfOneModel
  <2> QED BY <2>1, <2>2
<1> QED BY <1>4, <1>5, <1>7 DEF IInv

\* What the abstract timeline sees of an end of a transaction.
LEMMA EndShows ==
    ASSUME IInv, IInv', NEW t \in Tx, Ends(t),
           \A id \in Id : /\ Len(history[id]) <= Len(history'[id])
                          /\ \A k \in 1 .. Len(history[id]) : history'[id][k] = history[id][k]
    PROVE  Timeline!Close(t)
<1>1. /\ TypeOK /\ TypeOK' /\ status[t] = "open"
      /\ status' = [status EXCEPT ![t] = "ended"]
      /\ base' = [base EXCEPT ![t] = [id \in Id |-> 0]]
      /\ staged' = [staged EXCEPT ![t] = NothingStaged]
  BY DEF Ends, IInv
<1>2. \A u \in Tx \ {t} : base'[u] = base[u] /\ staged'[u] = staged[u]
  BY <1>1 DEF TypeOK
<1>3. \A u \in Tx \ {t}, id \in Id : View(u, id)' = View(u, id)
  <2> SUFFICES ASSUME NEW u \in Tx \ {t}, NEW id \in Id PROVE View(u, id)' = View(u, id)
    OBVIOUS
  <2>1. Rows(u, id)' = Rows(u, id)
    BY <1>1, <1>2, RowsStand
  <2> QED BY <2>1 DEF View
<1>4. \A id \in Id : View(t, id)' = Absent
  <2> SUFFICES ASSUME NEW id \in Id PROVE View(t, id)' = Absent
    OBVIOUS
  <2> DEFINE g == history'[id]
  <2>1. base'[t][id] = 0 /\ staged'[t][id] = <<>> /\ g \in Seq(Versions)
    BY <1>1 DEF TypeOK, NothingStaged
  <2>2. Rows(t, id)' = SubSeq(g, 1, 0) \o <<>>
    BY <2>1 DEF Rows
  <2>3. <<>> \in Seq(Versions) /\ 0 \in 0 .. Len(g) /\ Len(<<>>) = 0
    BY <2>1, EmptySeq, LenProperties
  <2> HIDE DEF g
  <2>4. /\ Len(SubSeq(g, 1, 0) \o <<>>) = 0 + 0 /\ SubSeq(g, 1, 0) \o <<>> \in Seq(Versions)
    BY <2>1, <2>3, Joined
  <2>5. SubSeq(g, 1, 0) \o <<>> = <<>>
    BY <2>4, EmptySeq
  <2> QED BY <2>2, <2>5 DEF View
<1>5. {u \in Tx : status'[u] = "open"} = {u \in Tx : status[u] = "open"} \ {t}
  BY <1>1 DEF TypeOK
<1>6. [u \in Tx |-> [id \in Id |-> View(u, id)']]
        = [[u \in Tx |-> [id \in Id |-> View(u, id)]] EXCEPT ![t] = [id \in Id |-> Absent]]
  <2>1. ASSUME NEW u \in Tx
        PROVE  [id \in Id |-> View(u, id)'] = IF u = t THEN [id \in Id |-> Absent] ELSE [id \in Id |-> View(u, id)]
    <3>1. CASE u = t
      BY <1>4, <3>1
    <3>2. CASE u # t
      BY <1>3, <3>2
    <3> QED BY <3>1, <3>2
  <2> QED BY <2>1
<1>7. [u \in Tx |-> {id \in Id : staged'[u][id] # <<>>}]
        = [[u \in Tx |-> {id \in Id : staged[u][id] # <<>>}] EXCEPT ![t] = {}]
  <2>1. {id \in Id : staged'[t][id] # <<>>} = {}
    BY <1>1 DEF TypeOK, NothingStaged
  <2>2. ASSUME NEW u \in Tx
        PROVE  {id \in Id : staged'[u][id] # <<>>} = IF u = t THEN {} ELSE {id \in Id : staged[u][id] # <<>>}
    BY <1>2, <2>1
  <2> QED BY <2>2
<1> QED BY <1>1, <1>5, <1>6, <1>7 DEF Timeline!Close, Timeline!Nothing

LEMMA CommitStep ==
    ASSUME IInv, NEW t \in Tx, Commit(t)
    PROVE  IInv' /\ Timeline!Commit(t)
<1> DEFINE new == staged[t]
<1>1. PICK s : Appended(new, s)
  BY DEF Commit, Appended
<1>2. TypeOK /\ new \in [Id -> Seq(Written)] /\ now \in 0 .. MaxInstant
  BY DEF IInv, TypeOK
<1>3. OfItsModel(new)
  BY StagedOfItsModel DEF Commit
<1>4. Ends(t)
  BY DEF Commit
<1> HIDE DEF new
<1>5. /\ s \in 0 .. MaxInstant /\ now <= s
      /\ history' \in [Id -> Seq(Versions)]
      /\ \A id \in Id : /\ Len(history[id]) <= Len(history'[id])
                        /\ \A k \in 1 .. Len(history[id]) : history'[id][k] = history[id][k]
      /\ OneModel' /\ CreationStands' /\ StampsRise'
  BY <1>1, <1>2, <1>3, CommitsKeep
<1>6. now' = s
  BY <1>1 DEF Appended
<1>7. IInv'
  BY <1>4, <1>5, <1>6, EndIInv
<1>8. Timeline!Close(t)
  BY <1>4, <1>5, <1>7, EndShows
<1>9. ASSUME NEW i \in 0 .. MaxInstant, NEW id \in Id
      PROVE  AsAt(history'[id], i) = IF i < s THEN AsAt(history[id], i)
                                     ELSE IF staged[t][id] # <<>> THEN View(t, id)
                                     ELSE AsAt(history[id], now)
  <2>1. AsAt(history'[id], i) = IF i < s THEN AsAt(history[id], i)
                                ELSE IF new[id] # <<>> THEN Last(new[id]).content
                                ELSE AsAt(history[id], now)
    BY <1>1, <1>2, CommitsShow
  <2>2. staged[t][id] # <<>> => View(t, id) = Last(staged[t][id]).content
    BY <1>2, ViewIs
  <2> QED BY <2>1, <2>2 DEF new
<1>10. [i \in 0 .. MaxInstant |-> [id \in Id |-> AsAt(history[id], i)]]'
         = [i \in 0 .. MaxInstant |->
              IF i < s THEN [id \in Id |-> AsAt(history[id], i)]
              ELSE [id \in Id |-> IF staged[t][id] # <<>> THEN View(t, id)
                                  ELSE AsAt(history[id], now)]]
  <2>1. ASSUME NEW i \in 0 .. MaxInstant
        PROVE  [id \in Id |-> AsAt(history'[id], i)]
                 = IF i < s THEN [id \in Id |-> AsAt(history[id], i)]
                   ELSE [id \in Id |-> IF staged[t][id] # <<>> THEN View(t, id)
                                       ELSE AsAt(history[id], now)]
    BY <1>9
  <2> QED BY <2>1
<1>11. Timeline!ShowFrom(s, {id \in Id : staged[t][id] # <<>>}, [id \in Id |-> View(t, id)])
  BY <1>2, <1>5, <1>6, <1>10 DEF Timeline!ShowFrom
<1>12. Timeline!Commit(t)
  BY <1>5, <1>8, <1>11 DEF Timeline!Commit
<1> QED BY <1>7, <1>12

LEMMA RollbackStep ==
    ASSUME IInv, NEW t \in Tx, Rollback(t)
    PROVE  IInv' /\ Timeline!Rollback(t)
<1>1. TypeOK /\ Ends(t) /\ now' = now /\ history' = history
  BY DEF IInv, Rollback
<1>2. now' \in 0 .. MaxInstant /\ history' \in [Id -> Seq(Versions)]
  BY <1>1 DEF TypeOK
<1>3. \A id \in Id : /\ Len(history[id]) <= Len(history'[id])
                     /\ \A k \in 1 .. Len(history[id]) : history'[id][k] = history[id][k]
  <2>1. \A id \in Id : Len(history[id]) \in Nat
    BY <1>1 DEF TypeOK
  <2> QED BY <1>1, <2>1
<1>4. OneModel' /\ CreationStands' /\ StampsRise'
  BY <1>1 DEF IInv, OneModel, CreationStands, StampsRise, LiveIn
<1>5. IInv'
  BY <1>1, <1>2, <1>3, <1>4, EndIInv
<1>6. Timeline!Close(t)
  BY <1>1, <1>3, <1>5, EndShows
<1> QED BY <1>1, <1>5, <1>6 DEF Timeline!Rollback

LEMMA BeginStep ==
    ASSUME IInv, NEW t \in Tx, Begin(t)
    PROVE  IInv' /\ Timeline!Begin(t)
<1>1. /\ TypeOK /\ status[t] = "unborn"
      /\ status' = [status EXCEPT ![t] = "open"]
      /\ base' = [base EXCEPT ![t] = [id \in Id |-> Len(history[id])]]
      /\ UNCHANGED <<backend, now, history, staged>>
  BY DEF IInv, Begin
<1>2. \A id \in Id : history[id] \in Seq(Versions) /\ Len(history[id]) \in Nat
  BY <1>1 DEF TypeOK
<1>3. \A id \in Id : staged'[t][id] = <<>>
  BY <1>1 DEF IInv, ClosedIsEmpty, NothingStaged
<1>4. \A id \in Id : base'[t][id] = Len(history[id])
  BY <1>1 DEF TypeOK
<1>5. TypeOK'
  <2>1. base' \in [Tx -> [Id -> Nat]]
    BY <1>1, <1>2 DEF TypeOK
  <2>2. \A u \in Tx, id \in Id : base'[u][id] <= Len(history'[id])
    BY <1>1, <1>2, <1>4 DEF TypeOK
  <2> HIDE DEF Versions, Written
  <2> QED BY <1>1, <2>1, <2>2 DEF TypeOK
<1>6. ClosedIsEmpty'
  BY <1>1 DEF IInv, ClosedIsEmpty, TypeOK
<1>7. StampsRise' /\ OneModel' /\ CreationStands'
  BY <1>1 DEF IInv, StampsRise, OneModel, CreationStands, LiveIn
<1>8. \A u \in Tx \ {t} : base'[u] = base[u]
  BY <1>1 DEF TypeOK
<1>9. \A u \in Tx \ {t}, id \in Id : Rows(u, id)' = Rows(u, id)
  BY <1>1, <1>8 DEF Rows
<1>10. \A id \in Id : Rows(t, id)' = history[id]
  <2> SUFFICES ASSUME NEW id \in Id PROVE Rows(t, id)' = history[id]
    OBVIOUS
  <2> DEFINE h == history[id]
             all == SubSeq(h, 1, Len(h)) \o <<>>
  <2>1. Rows(t, id)' = all
    BY <1>1, <1>3, <1>4 DEF Rows
  <2>2. h \in Seq(Versions) /\ <<>> \in Seq(Versions) /\ Len(h) \in 0 .. Len(h) /\ Len(<<>>) = 0
    BY <1>2, EmptySeq
  <2> HIDE DEF h
  <2>3. all \in Seq(Versions) /\ Len(all) = Len(h) + 0 /\ \A k \in 1 .. Len(h) : all[k] = h[k]
    BY <2>2, Joined
  <2>4. Len(all) = Len(h)
    BY <2>2, <2>3
  <2> HIDE DEF all
  <2>5. all = h
    BY <2>2, <2>3, <2>4, SeqEqual
  <2> QED BY <2>1, <2>5 DEF h
<1>11. RowsOfOneModel'
  <2> SUFFICES ASSUME NEW u \in Tx, NEW id \in Id PROVE SameModel(Rows(u, id)')
    BY DEF RowsOfOneModel
  <2>1. SameModel(history[id])
    BY DEF IInv, OneModel, SameModel
  <2>2. SameModel(Rows(u, id))
    BY DEF IInv, RowsOfOneModel
  <2> QED BY <1>9, <1>10, <2>1, <2>2
<1>12. IInv'
  BY <1>5, <1>6, <1>7, <1>11 DEF IInv
<1>13. \A id \in Id : View(t, id)' = AsAt(history[id], now)
  <2> SUFFICES ASSUME NEW id \in Id PROVE View(t, id)' = AsAt(history[id], now)
    OBVIOUS
  <2>1. Rising(history[id]) /\ (\A k \in DOMAIN history[id] : history[id][k].stamp <= now) /\ now \in Nat
    BY <1>1 DEF IInv, StampsRise, TypeOK
  <2>2. AsAt(history[id], now) = IF history[id] = <<>> THEN Absent ELSE Last(history[id]).content
    BY <1>2, <2>1, AsAtLatest
  <2> QED BY <1>10, <2>2 DEF View
<1>14. \A u \in Tx \ {t}, id \in Id : View(u, id)' = View(u, id)
  BY <1>9 DEF View
<1>15. [u \in Tx |-> [id \in Id |-> View(u, id)']]
         = [[u \in Tx |-> [id \in Id |-> View(u, id)]]
              EXCEPT ![t] = [id \in Id |-> AsAt(history[id], now)]]
  BY <1>13, <1>14
<1>16. {u \in Tx : status'[u] = "open"} = {u \in Tx : status[u] = "open"} \cup {t}
  BY <1>1 DEF TypeOK
<1>17. now \in 0 .. MaxInstant
  BY <1>1 DEF TypeOK
<1> QED BY <1>1, <1>12, <1>15, <1>16, <1>17 DEF Timeline!Begin

LEMMA DirectStep ==
    ASSUME IInv, NEW id \in Id, NEW row \in Written, MayBe(history[id], row.model), Direct(id, row)
    PROVE  IInv' /\ Timeline!Change(id, row.content)
<1> DEFINE new == [e \in Id |-> IF e = id THEN <<row>> ELSE <<>>]
<1>1. TypeOK /\ now \in 0 .. MaxInstant /\ UNCHANGED <<backend, status, base, staged>>
  BY DEF IInv, TypeOK, Direct
<1>2. \A e \in Id : history[e] \in Seq(Versions)
  BY <1>1 DEF TypeOK
<1>3. /\ <<row>> \in Seq(Written) /\ <<>> \in Seq(Written)
      /\ <<row>> # <<>> /\ Last(<<row>>) = row /\ DOMAIN <<row>> = {1} /\ <<row>>[1] = row
  <2> HIDE DEF Written
  <2> QED BY DEF Last
<1>4. new \in [Id -> Seq(Written)]
  <2> HIDE DEF Written
  <2> QED BY <1>3
<1>5. PICK s \in Instants : /\ now' = s
                            /\ history' = [history EXCEPT ![id] = AppendAll(@, <<row>>, s)]
  BY DEF Direct
<1>6. s \in Nat
  BY <1>1, InstantsAreNaturals DEF Instants
<1>7. Appended(new, s)
  <2>1. \A e \in Id : e # id => AppendAll(history[e], <<>>, s) = history[e]
    BY <1>2, <1>6, NothingAppended
  <2>2. history' = [e \in Id |-> AppendAll(history[e], new[e], s)]
    BY <1>1, <1>5, <2>1 DEF TypeOK
  <2> QED BY <1>5, <2>2 DEF Appended
<1>8. OfItsModel(new)
  <2>1. SameModel(<<row>>) /\ \A j \in DOMAIN history[id], k \in DOMAIN <<row>> :
                                history[id][j].model = <<row>>[k].model
    BY <1>3 DEF SameModel, MayBe
  <2>2. DOMAIN <<>> = {}
    OBVIOUS
  <2>3. \A e \in Id : new[e] = IF e = id THEN <<row>> ELSE <<>>
    OBVIOUS
  <2> HIDE DEF new
  <2> QED BY <2>1, <2>2, <2>3 DEF OfItsModel, SameModel
<1>9. \A e \in Id : /\ e = id => new[e] # <<>> /\ Last(new[e]) = row
                    /\ e # id => new[e] = <<>>
  BY <1>3
<1> HIDE DEF new
<1>10. /\ s \in 0 .. MaxInstant /\ now <= s
       /\ history' \in [Id -> Seq(Versions)]
       /\ \A e \in Id : /\ Len(history[e]) <= Len(history'[e])
                        /\ \A k \in 1 .. Len(history[e]) : history'[e][k] = history[e][k]
       /\ OneModel' /\ CreationStands' /\ StampsRise'
  BY <1>4, <1>7, <1>8, CommitsKeep
<1>11. TypeOK'
  <2>1. ASSUME NEW u \in Tx, NEW e \in Id PROVE base'[u][e] <= Len(history'[e])
    <3> DEFINE m == Len(history[e])
               n == Len(history'[e])
               b == base[u][e]
    <3>1. m \in Nat /\ n \in Nat /\ m <= n /\ b \in Nat /\ b <= m
      BY <1>1, <1>10 DEF TypeOK
    <3>2. base'[u][e] = b
      BY <1>1
    <3> HIDE DEF m, n, b
    <3>3. b <= n
      BY <3>1
    <3> QED BY <3>2, <3>3 DEF n
  <2> HIDE DEF Versions, Written
  <2> QED BY <1>1, <1>5, <1>10, <2>1 DEF TypeOK
<1>12. \A u \in Tx, e \in Id : Rows(u, e)' = Rows(u, e)
  <2> SUFFICES ASSUME NEW u \in Tx, NEW e \in Id PROVE Rows(u, e)' = Rows(u, e)
    OBVIOUS
  <2> QED BY <1>1, <1>10, <1>11, RowsStand
<1>13. ClosedIsEmpty' /\ RowsOfOneModel'
  BY <1>1, <1>12 DEF IInv, ClosedIsEmpty, RowsOfOneModel
<1>14. IInv'
  BY <1>10, <1>11, <1>13 DEF IInv
<1>15. ASSUME NEW i \in 0 .. MaxInstant, NEW e \in Id
       PROVE  AsAt(history'[e], i) = IF i < s THEN AsAt(history[e], i)
                                     ELSE IF e = id THEN row.content
                                     ELSE AsAt(history[e], now)
  <2>1. AsAt(history'[e], i) = IF i < s THEN AsAt(history[e], i)
                               ELSE IF new[e] # <<>> THEN Last(new[e]).content
                               ELSE AsAt(history[e], now)
    BY <1>4, <1>7, CommitsShow
  <2> QED BY <1>9, <2>1
<1> DEFINE c == row.content
<1>16. [i \in 0 .. MaxInstant |-> [e \in Id |-> AsAt(history[e], i)]]'
         = [i \in 0 .. MaxInstant |->
              IF i < s THEN [e \in Id |-> AsAt(history[e], i)]
              ELSE [e \in Id |-> IF e \in {id}
                                 THEN [[x \in Id |-> Absent] EXCEPT ![id] = c][e]
                                 ELSE AsAt(history[e], now)]]
  <2>1. ASSUME NEW i \in 0 .. MaxInstant
        PROVE  [e \in Id |-> AsAt(history'[e], i)]
                 = IF i < s THEN [e \in Id |-> AsAt(history[e], i)]
                   ELSE [e \in Id |-> IF e \in {id}
                                      THEN [[x \in Id |-> Absent] EXCEPT ![id] = c][e]
                                      ELSE AsAt(history[e], now)]
    BY <1>15
  <2> QED BY <2>1
<1> HIDE DEF c
<1>17. Timeline!ShowFrom(s, {id}, [[x \in Id |-> Absent] EXCEPT ![id] = c])
  BY <1>1, <1>5, <1>10, <1>16 DEF Timeline!ShowFrom
<1>18. [u \in Tx |-> [e \in Id |-> View(u, e)]]' = [u \in Tx |-> [e \in Id |-> View(u, e)]]
  BY <1>12 DEF View
<1>19. Timeline!Change(id, c)
  BY <1>1, <1>10, <1>17, <1>18 DEF Timeline!Change, Timeline!Nothing
<1> QED BY <1>14, <1>19 DEF c

\* Both kinds of a write without a transaction are of the entity's model.
LEMMA DirectSaveStep ==
    ASSUME IInv, NEW r \in Offered, DirectSave(r)
    PROVE  IInv' /\ \E id \in Id, c \in Contents : Timeline!Change(id, c)
<1>1. r.id \in Id /\ r.model \in Model /\ r.content \in Content
  BY EntitiesAreOffered
<1>2. Row(r) \in Written /\ Row(r).model = r.model
  BY <1>1 DEF Row, Written, Contents
<1>3. MayBe(history[r.id], Row(r).model) /\ Direct(r.id, Row(r))
  BY <1>2 DEF DirectSave
<1>4. IInv' /\ Timeline!Change(r.id, Row(r).content)
  BY <1>1, <1>2, <1>3, DirectStep
<1>5. Row(r).content \in Contents
  BY <1>1 DEF Row, Contents
<1> QED BY <1>1, <1>4, <1>5

LEMMA DirectDeleteStep ==
    ASSUME IInv, NEW id \in Id, DirectDelete(id)
    PROVE  IInv' /\ \E e \in Id, c \in Contents : Timeline!Change(e, c)
<1> DEFINE h == history[id]
           row == Tombstone(h)
<1>1. h \in Seq(Versions) /\ SameModel(h) /\ AsAt(h, now) # Absent
  BY DEF IInv, TypeOK, OneModel, SameModel, DirectDelete
<1>2. h # <<>>
  <2>1. Rising(h) /\ (\A k \in DOMAIN h : h[k].stamp <= now) /\ now \in Nat
    BY DEF IInv, StampsRise, TypeOK
  <2> HIDE DEF h
  <2> QED BY <1>1, <2>1, AsAtLatest
<1>3. Direct(id, row)
  BY DEF DirectDelete
<1> HIDE DEF h
<1>4. Len(h) \in DOMAIN h /\ Last(h) = h[Len(h)] /\ h[Len(h)] \in Versions
  BY <1>1, <1>2, LenProperties, EmptySeq, ElementOfSeq DEF Last
<1>5. Last(h).model \in Model
  BY <1>4 DEF Versions
<1>6. row = [model |-> Last(h).model, content |-> Absent]
  BY DEF Tombstone
<1> HIDE DEF row
<1>7. row \in Written /\ row.content \in Contents
  BY <1>5, <1>6 DEF Written, Contents
<1>8. MayBe(h, row.model)
  BY <1>1, <1>4, <1>6 DEF SameModel, MayBe
<1>9. IInv' /\ Timeline!Change(id, row.content)
  BY <1>3, <1>7, <1>8, DirectStep DEF h
<1> QED BY <1>7, <1>9

\* A step of the versions keeps the invariant, and is a step of the timeline or
\* none: staging is a write to the transaction's copy, a commit shows the copy.
THEOREM StepIInv ==
    ASSUME IInv, [Next]_vars
    PROVE  IInv' /\ [Timeline!Next]_Timeline!vars
<1>1. ASSUME NEW t \in Tx, Begin(t) PROVE IInv' /\ Timeline!Next
  BY <1>1, BeginStep DEF Timeline!Next
<1>2. ASSUME NEW t \in Tx, Commit(t) PROVE IInv' /\ Timeline!Next
  BY <1>2, CommitStep DEF Timeline!Next
<1>3. ASSUME NEW t \in Tx, Rollback(t) PROVE IInv' /\ Timeline!Next
  BY <1>3, RollbackStep DEF Timeline!Next
<1>4. ASSUME NEW t \in Tx, Writes(t) PROVE IInv' /\ Timeline!Next
  <2>1. PICK ids \in SUBSET Id : \E row :
          /\ \A id \in ids : row[id] \in Written /\ MayBe(Rows(t, id), row[id].model)
          /\ Stage(t, ids, row)
    BY <1>4, WritesStage
  <2>2. PICK row :
          /\ \A id \in ids : row[id] \in Written /\ MayBe(Rows(t, id), row[id].model)
          /\ Stage(t, ids, row)
    BY <2>1
  <2>3. status[t] = "open"
    BY <1>4, WritesStage
  <2>4. IInv'
    BY <2>2, <2>3, StageIInv
  <2>5. Timeline!Write(t)
    BY <2>2, <2>3, StageShows
  <2> QED BY <2>4, <2>5 DEF Timeline!Next
<1>5. ASSUME NEW r \in Offered, DirectSave(r) PROVE IInv' /\ Timeline!Next
  <2>1. IInv' /\ \E id \in Id, c \in Contents : Timeline!Change(id, c)
    BY <1>5, DirectSaveStep
  <2> QED BY <2>1 DEF Timeline!Next, Contents
<1>6. ASSUME NEW id \in Id, DirectDelete(id) PROVE IInv' /\ Timeline!Next
  <2>1. IInv' /\ \E e \in Id, c \in Contents : Timeline!Change(e, c)
    BY <1>6, DirectDeleteStep
  <2> QED BY <2>1 DEF Timeline!Next, Contents
<1>7. CASE UNCHANGED vars
  <2>1. IInv'
    BY <1>7 DEF IInv, TypeOK, ClosedIsEmpty, RowsOfOneModel, Rows, StampsRise, OneModel,
                CreationStands, LiveIn, vars
  <2>2. UNCHANGED Timeline!vars
    BY <1>7 DEF Timeline!vars, View, Rows, vars
  <2> QED BY <2>1, <2>2
<1>8. CASE Next
  BY <1>1, <1>2, <1>3, <1>4, <1>5, <1>6, <1>8 DEF Next, Writes
<1> QED BY <1>7, <1>8

\* The versions of an entity, the staged ones of a transaction and their stamps
\* and dates hold together at all times.
THEOREM VersionsInvariance == Spec => []IInv
<1>1. IInv /\ [Next]_vars => IInv'
  BY StepIInv
<1> QED BY <1>1, InitIInv, PTL DEF Spec

\* An entity keeps one model through deletes, new creations and rival
\* transactions: what Save refuses as ErrEntityModelMismatch is enough.
THEOREM ModelNeverChanges == Spec => []OneModel
<1>1. IInv => OneModel
  BY DEF IInv
<1> QED BY <1>1, VersionsInvariance, PTL

\* The creation date of a live version is the stamp of a save of the entity, and
\* it goes on from version to version within a life.
THEOREM DatesAreCarried == Spec => []CreationStands
<1>1. IInv => CreationStands
  BY DEF IInv
<1> QED BY <1>1, VersionsInvariance, PTL

\* What GetAsAt answers of all instants, and Get in a transaction, is the timeline
\* without versions: a commit shows at one instant all the transaction saw, and
\* what was shown of earlier instants stands.
THEOREM ImplementsTimeline == Spec => ShowsTheTimeline
<1>1. Init => Timeline!Init
  <2> SUFFICES ASSUME Init PROVE Timeline!Init
    OBVIOUS
  <2>1. \A id \in Id : history[id] = <<>> /\ \A i \in 0 .. MaxInstant : AsAt(history[id], i) = Absent
    BY DEF Init, AsAt
  <2>2. ASSUME NEW t \in Tx, NEW id \in Id
        PROVE  View(t, id) = Absent /\ staged[t][id] = <<>>
    <3>1. TypeOK /\ staged[t][id] = <<>> /\ base[t][id] = 0
      BY InitIInv DEF IInv, Init, NothingStaged
    <3> QED BY <3>1, ViewIs
  <2> QED BY <2>1, <2>2 DEF Init, Timeline!Init, Timeline!Nothing
<1>2. IInv /\ [Next]_vars => [Timeline!Next]_Timeline!vars
  BY StepIInv
<1> QED BY <1>1, <1>2, VersionsInvariance, PTL DEF Spec, ShowsTheTimeline, Timeline!Spec
=============================================================================
