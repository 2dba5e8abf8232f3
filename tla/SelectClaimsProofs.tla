------------------------- MODULE SelectClaimsProofs -------------------------
(***************************************************************************)
(* No turn of SelectClaims takes a tenant over what its runs in progress   *)
(* leave it, gives an entity a second task or passes the limit, for any    *)
(* number of candidates, tenants and entities, any quota and whatever      *)
(* order the sort puts the candidates in.                                  *)
(*                                                                         *)
(* The quota counts down what was taken only if a tenant's queue holds     *)
(* tasks of that tenant and no other, so that is part of the inductive     *)
(* invariant; and seen is a record of out, one task to an entry.           *)
(*                                                                         *)
(* In the order that the code sorts them in, the tasks chosen are those of *)
(* Choice, and they do not change with the candidates that a bounded read  *)
(* leaves out.  At every turn out is what Choice has of the rounds before  *)
(* this one, and in this one of the tenants that had their turn            *)
(* (ChoiceInv); a task's place in Choice is a number of tasks before it,   *)
(* so the proof counts.                                                    *)
(***************************************************************************)
EXTENDS SelectClaims, FiniteSetTheorems, FunctionTheorems, WellFoundedInduction, TLAPS

Candidates == {sorted[i] : i \in DOMAIN sorted}

TypeOK == /\ req \in Requests
          /\ pc \in {"call", "turns", "done", "rejected"}
          /\ quota \in [Tenants -> Int]
          /\ queues \in [Tenants -> SUBSET DOMAIN sorted]
          /\ out \in Seq(Candidates)

\* The places in out of a tenant's tasks.
TakenBy(tn) == {i \in DOMAIN out : out[i].tenant = tn}

\* Nothing is taken from a request that is not, or not yet, found valid.
OnlyIfValid == IF pc \in {"turns", "done"} THEN Valid(req) /\ Len(out) <= req.limit
                                           ELSE out = <<>> /\ seen = {}

OwnQueue == \A tn \in Tenants : \A i \in queues[tn] : sorted[i].tenant = tn

QuotaSpent == pc \in {"turns", "done"} =>
                \A tn \in Tenants : /\ Cardinality(TakenBy(tn)) + quota[tn] = Quota(req, tn)
                                    /\ TakenBy(tn) # {} => quota[tn] >= 0

SeenIsTaken == seen = {SeenKey(out[i]) : i \in DOMAIN out}

OnePerEntity == \A i, j \in DOMAIN out : SeenKey(out[i]) = SeenKey(out[j]) => i = j

IInv == TypeOK /\ OnlyIfValid /\ OwnQueue /\ QuotaSpent /\ SeenIsTaken /\ OnePerEntity

-----------------------------------------------------------------------------
\* A request's numbers.
LEMMA RequestTyped ==
    ASSUME req \in Requests
    PROVE  /\ req.limit \in Int /\ req.perTenant \in Int
           /\ \A tn \in Tenants : req.inProgress[tn] \in Int /\ Quota(req, tn) \in Int
<1>1. req.limit \in Int /\ req.perTenant \in Int /\ req.inProgress \in [Tenants -> InProgress]
  BY SelectAssumption DEF Requests
<1>2. \A tn \in Tenants : req.inProgress[tn] \in Int
  BY <1>1, SelectAssumption
<1> QED BY <1>1, <1>2 DEF Quota

\* The places of a tenant's tasks are finitely many.
LEMMA TakenFinite ==
    ASSUME out \in Seq(Candidates), NEW tn
    PROVE  /\ IsFiniteSet(TakenBy(tn)) /\ Cardinality(TakenBy(tn)) \in Nat
           /\ TakenBy(tn) = {} => Cardinality(TakenBy(tn)) = 0
<1>1. TakenBy(tn) \in SUBSET (1..Len(out)) /\ Len(out) \in Nat
  BY DEF TakenBy
<1>2. IsFiniteSet(TakenBy(tn))
  <2>1. IsFiniteSet(1..Len(out))
    BY <1>1, FS_Interval
  <2> QED BY <1>1, <2>1, FS_Subset
<1> QED BY <1>2, FS_CardinalityType, FS_EmptySet

\* At first nothing is taken.
LEMMA InitIInv == Init => IInv
<1> SUFFICES ASSUME Init PROVE IInv
  OBVIOUS
<1>1. DOMAIN out = {} /\ out \in Seq(Candidates) /\ Len(out) = 0
  BY DEF Init
<1>2. TypeOK
  BY <1>1 DEF Init, TypeOK
<1> QED BY <1>1, <1>2 DEF Init, IInv, OnlyIfValid, OwnQueue, QuotaSpent, SeenIsTaken, OnePerEntity

\* The sort fills the queues, each with one tenant's candidates, and sets the quotas.
LEMMA SortKeeps == ASSUME IInv, Sort PROVE IInv'
<1>1. /\ pc = "call" /\ pc' = "turns" /\ Valid(req) /\ req' = req
      /\ out = <<>> /\ seen = {} /\ out' = <<>> /\ seen' = {} /\ req \in Requests
  BY DEF Sort, IInv, OnlyIfValid, TypeOK, inputs
<1>2. DOMAIN out' = {} /\ Len(out') = 0 /\ out' \in Seq(Candidates')
  BY <1>1
<1>3. quota' = [tn \in Tenants |-> Quota(req, tn)]
  BY DEF Sort, Quota
<1>4. queues' = [tn \in Tenants |-> {i \in DOMAIN sorted' : sorted'[i].tenant = tn}]
  BY DEF Sort
<1>5. queues' \in [Tenants -> SUBSET DOMAIN sorted'] /\ OwnQueue'
  BY <1>4 DEF OwnQueue
<1>6. TypeOK'
  BY <1>1, <1>2, <1>3, <1>5, RequestTyped DEF TypeOK
<1>7. QuotaSpent'
  <2> SUFFICES ASSUME NEW tn \in Tenants
               PROVE  /\ Cardinality(TakenBy(tn)') + quota'[tn] = Quota(req, tn)
                      /\ TakenBy(tn)' = {}
    BY <1>1 DEF QuotaSpent, Quota
  <2>1. TakenBy(tn)' = {}
    BY <1>2 DEF TakenBy
  <2> QED BY <1>1, <1>3, <2>1, RequestTyped, FS_EmptySet
<1>8. OnlyIfValid'
  <2>1. req.limit \in Int /\ req.limit >= 1 /\ Valid(req')
    BY <1>1, RequestTyped DEF Valid
  <2>2. Valid(req)'
    BY <1>1 DEF Valid
  <2> QED BY <1>1, <1>2, <2>1, <2>2 DEF OnlyIfValid
<1> QED BY <1>1, <1>2, <1>5, <1>6, <1>7, <1>8 DEF IInv, SeenIsTaken, OnePerEntity

\* A turn that takes a task: it is of the tenant whose turn it is and of an
\* entity that has none, and it is paid for from that tenant's quota.
LEMMA TakeKeeps ==
    ASSUME IInv, NEW tn \in Tenants, Take(tn)
    PROVE  IInv'
<1>1. PICK i \in Unseen(tn) :
        /\ queues' = [queues EXCEPT ![tn] = {j \in @ : j > i}]
        /\ seen' = seen \cup {SeenKey(sorted[i])}
        /\ out' = Append(out, sorted[i])
  BY DEF Take
<1>2. /\ pc = "turns" /\ pc' = pc /\ req' = req /\ sorted' = sorted
      /\ Len(out) < req.limit /\ quota[tn] > 0
      /\ quota' = [quota EXCEPT ![tn] = @ - 1]
  BY DEF Take, MyTurn, inputs
<1>3. TypeOK /\ Valid(req) /\ req \in Requests
  BY <1>2 DEF IInv, TypeOK, OnlyIfValid
<1> DEFINE c == sorted[i]
<1>4. c \in Candidates /\ c.tenant = tn /\ SeenKey(c) \notin seen
  BY <1>1, <1>3 DEF Unseen, Candidates, TypeOK, IInv, OwnQueue
<1>5. Candidates' = Candidates
  BY <1>2 DEF Candidates
<1>6. out' = Append(out, c) /\ seen' = seen \cup {SeenKey(c)}
  BY <1>1
<1> HIDE DEF c
<1>7. /\ Len(out) \in Nat /\ DOMAIN out = 1..Len(out)
      /\ out' \in Seq(Candidates) /\ Len(out') = Len(out) + 1 /\ DOMAIN out' = 1..(Len(out) + 1)
      /\ \A k \in DOMAIN out : out'[k] = out[k]
      /\ out'[Len(out) + 1] = c
  <2>1. out \in Seq(Candidates)
    BY <1>3 DEF TypeOK
  <2> QED BY <1>4, <1>6, <2>1
<1>8. \A k \in DOMAIN out' : k \in Nat /\ (k \in DOMAIN out \/ k = Len(out) + 1)
  BY <1>7
<1>9. TypeOK'
  <2>1. queues' \in [Tenants -> SUBSET DOMAIN sorted]
    BY <1>1, <1>3 DEF TypeOK
  <2>2. quota' \in [Tenants -> Int]
    BY <1>2, <1>3 DEF TypeOK
  <2> QED BY <1>2, <1>3, <1>5, <1>7, <2>1, <2>2 DEF TypeOK
<1>10. OwnQueue'
  <2>1. \A tm \in Tenants : queues'[tm] \subseteq queues[tm]
    BY <1>1, <1>3 DEF TypeOK
  <2> QED BY <1>2, <2>1 DEF IInv, OwnQueue
<1>11. QuotaSpent'
  <2> SUFFICES ASSUME NEW tm \in Tenants
               PROVE  /\ Cardinality(TakenBy(tm)') + quota'[tm] = Quota(req, tm)
                      /\ quota'[tm] >= 0 \/ TakenBy(tm)' = {}
    BY <1>2 DEF QuotaSpent, Quota
  <2>1. /\ Cardinality(TakenBy(tm)) + quota[tm] = Quota(req, tm)
        /\ TakenBy(tm) # {} => quota[tm] >= 0
        /\ quota[tm] \in Int /\ Quota(req, tm) \in Int
    BY <1>2, <1>3, RequestTyped DEF IInv, QuotaSpent, TypeOK
  <2>2. out \in Seq(Candidates)
    BY <1>3 DEF TypeOK
  <2>3. IsFiniteSet(TakenBy(tm)) /\ Cardinality(TakenBy(tm)) \in Nat
    BY <2>2, TakenFinite
  <2>4. CASE tm = tn
    <3>1. TakenBy(tn)' = TakenBy(tn) \cup {Len(out) + 1} /\ Len(out) + 1 \notin TakenBy(tn)
      <4>1. \A k : k \in TakenBy(tn)' <=> k \in TakenBy(tn) \/ k = Len(out) + 1
        BY <1>4, <1>7, <1>8 DEF TakenBy
      <4>2. Len(out) + 1 \notin TakenBy(tn)
        BY <1>7 DEF TakenBy
      <4> QED BY <4>1, <4>2
    <3>2. Cardinality(TakenBy(tn)') = Cardinality(TakenBy(tn)) + 1
      BY <2>3, <2>4, <3>1, FS_AddElement
    <3>3. quota'[tn] = quota[tn] - 1
      BY <1>2, <1>3 DEF TypeOK
    <3> QED BY <1>2, <2>1, <2>3, <2>4, <3>2, <3>3
  <2>5. CASE tm # tn
    <3>1. TakenBy(tm)' = TakenBy(tm)
      <4>1. \A k : k \in TakenBy(tm)' <=> k \in TakenBy(tm)
        BY <1>4, <1>7, <1>8, <2>5 DEF TakenBy
      <4> QED BY <4>1
    <3>2. quota'[tm] = quota[tm]
      BY <1>2, <1>3, <2>5 DEF TypeOK
    <3> QED BY <2>1, <3>1, <3>2
  <2> QED BY <2>4, <2>5
<1>12. SeenIsTaken'
  <2>1. seen = {SeenKey(out[k]) : k \in DOMAIN out}
    BY DEF IInv, SeenIsTaken
  <2>2. \A x : x \in seen' <=> \E k \in DOMAIN out' : x = SeenKey(out'[k])
    BY <1>6, <1>7, <1>8, <2>1
  <2> QED BY <2>2 DEF SeenIsTaken, SeenKey
<1>13. OnePerEntity'
  <2>1. \A k \in DOMAIN out : SeenKey(out[k]) # SeenKey(c)
    BY <1>4 DEF IInv, SeenIsTaken
  <2> SUFFICES ASSUME NEW k \in DOMAIN out', NEW l \in DOMAIN out', SeenKey(out'[k]) = SeenKey(out'[l])
               PROVE  k = l
    BY DEF OnePerEntity, SeenKey
  <2>2. CASE k \in DOMAIN out /\ l \in DOMAIN out
    BY <1>7, <2>2 DEF IInv, OnePerEntity
  <2>3. CASE k = Len(out) + 1 \/ l = Len(out) + 1
    BY <1>7, <1>8, <2>1, <2>3
  <2> QED BY <1>8, <2>2, <2>3
<1>14. OnlyIfValid'
  <2>1. Len(out') <= req.limit
    BY <1>2, <1>3, <1>7, RequestTyped
  <2> QED BY <1>2, <1>3, <2>1 DEF OnlyIfValid, Valid
<1> QED BY <1>9, <1>10, <1>11, <1>12, <1>13, <1>14 DEF IInv

\* A step that takes nothing leaves every queue no longer than it was.
LEMMA NothingTaken ==
    ASSUME IInv, UNCHANGED <<req, sorted, quota, seen, out>>,
           queues' \in [Tenants -> SUBSET DOMAIN sorted],
           \A tn \in Tenants : queues'[tn] \subseteq queues[tn],
           pc' \in {"turns", "done", "rejected"},
           pc \in {"turns", "done"} <=> pc' \in {"turns", "done"}
    PROVE  IInv'
<1>1. Candidates' = Candidates /\ \A tn : TakenBy(tn)' = TakenBy(tn)
  BY DEF Candidates, TakenBy
<1>2. TypeOK'
  BY <1>1 DEF IInv, TypeOK
<1>3. OnlyIfValid'
  BY DEF IInv, OnlyIfValid, Valid
<1>4. OwnQueue'
  BY DEF IInv, OwnQueue
<1>5. QuotaSpent'
  BY <1>1 DEF IInv, QuotaSpent, Quota
<1>6. SeenIsTaken' /\ OnePerEntity'
  BY DEF IInv, SeenIsTaken, OnePerEntity, SeenKey
<1> QED BY <1>2, <1>3, <1>4, <1>5, <1>6 DEF IInv

\* Every step keeps IInv.
LEMMA StepIInv == IInv /\ [Next \/ Returned]_vars => IInv'
<1> SUFFICES ASSUME IInv, [Next \/ Returned]_vars PROVE IInv'
  OBVIOUS
<1>1. CASE UNCHANGED vars
  BY <1>1 DEF vars, inputs, IInv, TypeOK, Candidates, OnlyIfValid, Valid, OwnQueue, QuotaSpent, Quota,
              TakenBy, SeenIsTaken, OnePerEntity, SeenKey
<1>2. queues \in [Tenants -> SUBSET DOMAIN sorted]
  BY DEF IInv, TypeOK
<1>3. CASE Reject \/ NextRound \/ Break \/ Finish
  <2>1. /\ UNCHANGED <<req, sorted, quota, seen, out, queues>>
        /\ pc' \in {"turns", "done", "rejected"}
        /\ pc \in {"turns", "done"} <=> pc' \in {"turns", "done"}
    BY <1>3 DEF Reject, NextRound, Break, Finish, inputs
  <2> QED BY <1>2, <2>1, NothingTaken
<1>4. CASE Sort
  BY <1>4, SortKeeps
<1>5. ASSUME NEW tn \in Tenants, Take(tn) PROVE IInv'
  BY <1>5, TakeKeeps
<1>6. ASSUME NEW tn \in Tenants, Pass(tn) PROVE IInv'
  <2>1. UNCHANGED <<req, sorted, quota, seen, out>> /\ pc = "turns" /\ pc' = "turns"
    BY <1>6 DEF Pass, MyTurn, inputs
  <2>2. queues' = queues \/ queues' = [queues EXCEPT ![tn] = {}]
    BY <1>6 DEF Pass
  <2>3. /\ queues' \in [Tenants -> SUBSET DOMAIN sorted]
        /\ \A tm \in Tenants : queues'[tm] \subseteq queues[tm]
    BY <1>2, <2>2
  <2> QED BY <2>1, <2>3, NothingTaken
<1> QED BY <1>1, <1>3, <1>4, <1>5, <1>6 DEF Next, Returned

\* SelectClaims's variables keep their types, and at every turn each tenant's
\* quota and what it was given add up to what it started with.
THEOREM ClaimInvariance == Spec => []IInv
<1> QED BY InitIInv, StepIInv, PTL DEF Spec

\* While the turns are taken, and not only at the end, no tenant is given more
\* than its runs in progress leave it or than PerTenantLimit, no entity two
\* tasks, and no call more than its limit.
THEOREM QuotaRespected == Spec => []WithinQuota
<1>1. IInv => WithinQuota
  <2> SUFFICES ASSUME IInv PROVE WithinQuota
    OBVIOUS
  <2>1. req \in Requests /\ out \in Seq(Candidates)
    BY DEF IInv, TypeOK
  <2>2. ASSUME pc \notin {"turns", "done"} PROVE DOMAIN out = {} /\ Len(out) = 0
    BY <2>2 DEF IInv, OnlyIfValid
  <2>3. Len(out) > 0 => Len(out) <= req.limit
    BY <2>2 DEF IInv, OnlyIfValid
  <2>4. ASSUME NEW tn \in Tenants, TakenBy(tn) # {}
        PROVE  Cardinality(TakenBy(tn)) <= Quota(req, tn) /\ Cardinality(TakenBy(tn)) <= req.perTenant
    <3>1. pc \in {"turns", "done"}
      BY <2>2, <2>4 DEF TakenBy
    <3>2. Cardinality(TakenBy(tn)) + quota[tn] = Quota(req, tn) /\ quota[tn] >= 0 /\ quota[tn] \in Int
      BY <2>4, <3>1 DEF IInv, QuotaSpent, TypeOK
    <3>3. req.inProgress[tn] \in Int /\ req.inProgress[tn] >= 0 /\ req.perTenant \in Int
      BY <2>1, <3>1, RequestTyped DEF IInv, OnlyIfValid, Valid
    <3>4. Cardinality(TakenBy(tn)) \in Nat
      BY <2>1, TakenFinite
    <3>5. Quota(req, tn) = req.perTenant - req.inProgress[tn]
      BY DEF Quota
    <3> HIDE DEF Quota, TakenBy
    <3> QED BY <3>2, <3>3, <3>4, <3>5
  <2>5. \A i, j \in DOMAIN out : SameEntity(out[i], out[j]) => i = j
    BY DEF IInv, OnePerEntity, SameEntity, SeenKey
  <2> QED BY <2>3, <2>4, <2>5 DEF WithinQuota, TakenBy
<1> QED BY <1>1, ClaimInvariance, PTL

-----------------------------------------------------------------------------
(* InLine: the elements of a finite set in a strict total order.           *)

StrictTotal(S, R) ==
  /\ \A a, b \in S : <<a, b>> \in R => <<b, a>> \notin R
  /\ \A a, b, c \in S : <<a, b>> \in R /\ <<b, c>> \in R => <<a, c>> \in R
  /\ \A a, b \in S : a = b \/ <<a, b>> \in R \/ <<b, a>> \in R

Ahead(S, R, a) == {b \in S : <<b, a>> \in R}

\* Fewer are ahead of what comes first.
LEMMA AheadCounts ==
    ASSUME NEW S, IsFiniteSet(S), NEW R, StrictTotal(S, R), NEW a \in S, NEW b \in S
    PROVE  /\ Cardinality(Ahead(S, R, a)) \in 0..(Cardinality(S) - 1)
           /\ <<a, b>> \in R <=> Cardinality(Ahead(S, R, a)) < Cardinality(Ahead(S, R, b))
<1>1. ASSUME NEW c \in S
      PROVE  /\ IsFiniteSet(Ahead(S, R, c)) /\ Cardinality(Ahead(S, R, c)) \in Nat
             /\ Cardinality(Ahead(S, R, c) \cup {c}) = Cardinality(Ahead(S, R, c)) + 1
  <2>1. Ahead(S, R, c) \in SUBSET S /\ c \notin Ahead(S, R, c)
    BY DEF Ahead, StrictTotal
  <2>2. IsFiniteSet(Ahead(S, R, c))
    BY <2>1, FS_Subset
  <2> QED BY <2>1, <2>2, FS_CardinalityType, FS_AddElement
<1>2. ASSUME NEW c \in S, NEW d \in S, <<c, d>> \in R
      PROVE  Cardinality(Ahead(S, R, c)) < Cardinality(Ahead(S, R, d))
  <2>1. Ahead(S, R, c) \cup {c} \in SUBSET Ahead(S, R, d)
    BY <1>2 DEF Ahead, StrictTotal
  <2> DEFINE x == Cardinality(Ahead(S, R, c))
             y == Cardinality(Ahead(S, R, d))
             z == Cardinality(Ahead(S, R, c) \cup {c})
  <2>2. z <= y
    BY <1>1, <2>1, FS_Subset
  <2>3. x \in Nat /\ y \in Nat /\ z = x + 1
    BY <1>1
  <2>4. x < y
    <3> HIDE DEF x, y, z
    <3> QED BY <2>2, <2>3
  <2> QED BY <2>4
<1>3. a = b \/ <<a, b>> \in R \/ <<b, a>> \in R
  BY DEF StrictTotal
<1>4. Cardinality(Ahead(S, R, a)) \in 0..(Cardinality(S) - 1)
  <2>1. Ahead(S, R, a) \cup {a} \in SUBSET S
    BY DEF Ahead
  <2>2. Cardinality(Ahead(S, R, a) \cup {a}) <= Cardinality(S) /\ Cardinality(S) \in Nat
    BY <2>1, FS_Subset, FS_CardinalityType
  <2> QED BY <1>1, <2>2
<1>5. Cardinality(Ahead(S, R, a)) \in Nat /\ Cardinality(Ahead(S, R, b)) \in Nat
  BY <1>1
<1>6. CASE <<a, b>> \in R
  <2>1. Cardinality(Ahead(S, R, a)) < Cardinality(Ahead(S, R, b))
    BY <1>2, <1>6
  <2> QED BY <1>4, <1>5, <1>6, <2>1
<1>7. CASE <<b, a>> \in R
  <2>1. Cardinality(Ahead(S, R, b)) < Cardinality(Ahead(S, R, a)) /\ <<a, b>> \notin R
    BY <1>2, <1>7 DEF StrictTotal
  <2> QED BY <1>4, <1>5, <2>1
<1>8. CASE a = b
  <2>1. <<a, b>> \notin R
    BY <1>8 DEF StrictTotal
  <2> QED BY <1>4, <1>5, <1>8, <2>1
<1> QED BY <1>3, <1>6, <1>7, <1>8

\* No two have as many ahead of them.
LEMMA AheadSame ==
    ASSUME NEW S, IsFiniteSet(S), NEW R, StrictTotal(S, R), NEW a \in S, NEW b \in S,
           Cardinality(Ahead(S, R, a)) = Cardinality(Ahead(S, R, b))
    PROVE  a = b
<1>1. Cardinality(Ahead(S, R, a)) \in Nat
  <2>1. Cardinality(Ahead(S, R, a)) \in 0..(Cardinality(S) - 1)
    BY AheadCounts
  <2>2. Cardinality(S) \in Nat
    BY FS_CardinalityType
  <2> QED BY <2>1, <2>2
<1>2. <<a, b>> \notin R
  BY <1>1, AheadCounts
<1>3. <<b, a>> \notin R
  BY <1>1, AheadCounts
<1> QED BY <1>2, <1>3 DEF StrictTotal

\* Every element stands in the place that those ahead of it leave.
LEMMA InLineIs ==
    ASSUME NEW S, IsFiniteSet(S), NEW R, StrictTotal(S, R)
    PROVE  /\ Cardinality(S) \in Nat
           /\ InLine(S, R) \in [1..Cardinality(S) -> S]
           /\ \A i \in 1..Cardinality(S) : Cardinality(Ahead(S, R, InLine(S, R)[i])) = i - 1
           /\ \A a \in S : /\ Cardinality(Ahead(S, R, a)) + 1 \in 1..Cardinality(S)
                           /\ InLine(S, R)[Cardinality(Ahead(S, R, a)) + 1] = a
<1> DEFINE n == Cardinality(S)
           At(a) == Cardinality(Ahead(S, R, a)) + 1
           f == [a \in S |-> At(a)]
<1>1. n \in Nat /\ IsFiniteSet(1..n) /\ Cardinality(1..n) = n
  BY FS_CardinalityType, FS_Interval
<1>2. ASSUME NEW a \in S PROVE Cardinality(Ahead(S, R, a)) \in Nat /\ At(a) \in 1..n
  <2>1. Cardinality(Ahead(S, R, a)) \in 0..(n - 1)
    BY AheadCounts
  <2> QED BY <1>1, <2>1
<1>3. \A a, b \in S : At(a) = At(b) => a = b
  <2> SUFFICES ASSUME NEW a \in S, NEW b \in S, At(a) = At(b) PROVE a = b
    OBVIOUS
  <2>1. Cardinality(Ahead(S, R, a)) \in Nat /\ Cardinality(Ahead(S, R, b)) \in Nat
    BY <1>2
  <2>2. Cardinality(Ahead(S, R, a)) = Cardinality(Ahead(S, R, b))
    BY <2>1
  <2> QED BY <2>2, AheadSame
<1> HIDE DEF n, At
<1>4. f \in Injection(S, 1..n)
  BY <1>2, <1>3 DEF Injection, IsInjective
<1>5. f \in Surjection(S, 1..n)
  BY <1>1, <1>4, FS_Injection DEF n
<1>6. \A i \in 1..n : \E a \in S : At(a) = i
  BY <1>5 DEF Surjection
<1>7. \A i \in 1..n : InLine(S, R)[i] \in S /\ At(InLine(S, R)[i]) = i
  <2> SUFFICES ASSUME NEW i \in 1..n PROVE InLine(S, R)[i] \in S /\ At(InLine(S, R)[i]) = i
    OBVIOUS
  <2>1. InLine(S, R)[i] = CHOOSE a \in S : Cardinality(Ahead(S, R, a)) = i - 1
    BY DEF InLine, n, Ahead
  <2>2. \E a \in S : Cardinality(Ahead(S, R, a)) = i - 1
    <3>1. PICK a \in S : At(a) = i
      BY <1>6
    <3> QED BY <1>1, <1>2, <3>1 DEF At
  <2>3. InLine(S, R)[i] \in S /\ Cardinality(Ahead(S, R, InLine(S, R)[i])) = i - 1
    BY <2>1, <2>2
  <2> QED BY <1>1, <2>3 DEF At
<1>8. InLine(S, R) \in [1..n -> S]
  BY <1>7 DEF InLine, n
<1>9. \A a \in S : At(a) \in 1..n /\ InLine(S, R)[At(a)] = a
  BY <1>2, <1>3, <1>7
<1>10. \A i \in 1..n : Cardinality(Ahead(S, R, InLine(S, R)[i])) = i - 1
  BY <1>1, <1>2, <1>7 DEF At
<1> QED BY <1>1, <1>8, <1>9, <1>10 DEF n, At

\* So places are in the order of what stands in them.
LEMMA InLineSorts ==
    ASSUME NEW S, IsFiniteSet(S), NEW R, StrictTotal(S, R),
           NEW i \in 1..Cardinality(S), NEW j \in 1..Cardinality(S)
    PROVE  i < j <=> <<InLine(S, R)[i], InLine(S, R)[j]>> \in R
<1> DEFINE a == InLine(S, R)[i]
           b == InLine(S, R)[j]
<1>1. /\ a \in S /\ b \in S
      /\ Cardinality(Ahead(S, R, a)) = i - 1 /\ Cardinality(Ahead(S, R, b)) = j - 1
      /\ Cardinality(S) \in Nat
  <2>1. /\ Cardinality(S) \in Nat
        /\ InLine(S, R) \in [1..Cardinality(S) -> S]
        /\ \A k \in 1..Cardinality(S) : Cardinality(Ahead(S, R, InLine(S, R)[k])) = k - 1
    BY InLineIs
  <2> QED BY <2>1
<1> HIDE DEF a, b
<1>2. <<a, b>> \in R <=> Cardinality(Ahead(S, R, a)) < Cardinality(Ahead(S, R, b))
  BY <1>1, AheadCounts
<1>3. <<a, b>> \in R <=> i < j
  BY <1>1, <1>2
<1> QED BY <1>3 DEF a, b
-----------------------------------------------------------------------------
(* The order of the candidates, and the rounds that it gives each tenant.  *)

Ordered(C) == /\ IsFiniteSet(C)
              /\ \A a \in C : a.tenant \in Tenants
              /\ \A a, b \in C : Before(a, b) => ~Before(b, a)
              /\ \A a, b, c \in C : Before(a, b) /\ Before(b, c) => Before(a, c)
              /\ \A a, b \in C : a = b \/ Before(a, b) \/ Before(b, a)

\* The tasks of a store differ in their ids, and so one comes before the other.
LEMMA TaskSetsOrdered == ASSUME NEW C \in TaskSets PROVE Ordered(C)
<1>0. PICK I \in SUBSET (1..MaxTasks) : \E f \in [I -> Attributes] :
        C = {[id |-> i, tenant |-> f[i].tenant, entity |-> f[i].entity, next |-> f[i].next] : i \in I}
  <2>1. PICK f \in UNION {[I -> Attributes] : I \in SUBSET (1..MaxTasks)} :
          C = {[id |-> i, tenant |-> f[i].tenant, entity |-> f[i].entity, next |-> f[i].next] : i \in DOMAIN f}
    BY DEF TaskSets
  <2>2. PICK I \in SUBSET (1..MaxTasks) : f \in [I -> Attributes]
    BY <2>1
  <2>3. DOMAIN f = I
    BY <2>2
  <2> QED BY <2>1, <2>2, <2>3
<1>1. PICK f \in [I -> Attributes] :
        C = {[id |-> i, tenant |-> f[i].tenant, entity |-> f[i].entity, next |-> f[i].next] : i \in I}
  BY <1>0
<1> DEFINE g == [i \in I |-> [id |-> i, tenant |-> f[i].tenant, entity |-> f[i].entity, next |-> f[i].next]]
<1>2. IsFiniteSet(I)
  <2>1. IsFiniteSet(1..MaxTasks)
    BY SelectAssumption, FS_Interval
  <2> QED BY <2>1, FS_Subset
<1>3. C = {g[i] : i \in I}
  BY <1>1
<1>4. IsFiniteSet(C)
  <2>1. g \in Surjection(I, C)
    <3> HIDE DEF g
    <3>1. g \in [I -> C]
      <4>1. DOMAIN g = I /\ g = [i \in I |-> g[i]]
        BY DEF g
      <4> QED BY <1>3, <4>1
    <3> QED BY <1>3, <3>1 DEF Surjection
  <2> QED BY <1>2, <2>1, FS_Surjection
<1>5. \A i \in I : /\ g[i].id = i /\ i \in Int
                   /\ g[i].tenant \in Tenants /\ g[i].tenant \in Int /\ g[i].next \in Int
  <2> SUFFICES ASSUME NEW i \in I
               PROVE  /\ g[i].id = i /\ i \in Int
                      /\ g[i].tenant \in Tenants /\ g[i].tenant \in Int /\ g[i].next \in Int
    OBVIOUS
  <2>1. f[i].tenant \in Tenants /\ f[i].next \in Times
    BY DEF Attributes
  <2>2. i \in Int
    BY SelectAssumption
  <2> QED BY <2>1, <2>2, SelectAssumption
<1> HIDE DEF g
<1>6. \A a \in C : a.id \in Int /\ a.tenant \in Tenants /\ a.tenant \in Int /\ a.next \in Int
  BY <1>3, <1>5
<1>7. \A a, b \in C : a.id = b.id => a = b
  BY <1>3, <1>5
<1>8. \A a, b \in C : Before(a, b) => ~Before(b, a)
  BY <1>6 DEF Before
<1>9. \A a, b, c \in C : Before(a, b) /\ Before(b, c) => Before(a, c)
  BY <1>6 DEF Before
<1>10. \A a, b \in C : a = b \/ Before(a, b) \/ Before(b, a)
  BY <1>6, <1>7 DEF Before
<1> QED BY <1>4, <1>6, <1>8, <1>9, <1>10 DEF Ordered

\* So are some of them.
LEMMA SubsetOrdered ==
    ASSUME NEW C, Ordered(C), NEW S \in SUBSET C
    PROVE  Ordered(S) /\ IsFiniteSet(S) /\ StrictTotal(S, Pairs(S, Before))
<1>1. IsFiniteSet(S)
  BY FS_Subset DEF Ordered
<1>2. Ordered(S)
  BY <1>1 DEF Ordered
<1>3. \A a, b \in S : <<a, b>> \in Pairs(S, Before) <=> Before(a, b)
  BY DEF Pairs
<1>4. StrictTotal(S, Pairs(S, Before))
  BY <1>2, <1>3 DEF Ordered, StrictTotal
<1> QED BY <1>1, <1>2, <1>4

OfTenant(S, tn) == {b \in S : b.tenant = tn}

Earlier(S, a) == {b \in S : b.tenant = a.tenant /\ Before(b, a)}

\* A tenant's rounds number its tasks from 0, in their order, and leave none out.
LEMMA Rounds ==
    ASSUME NEW S, Ordered(S), NEW a \in S
    PROVE  /\ Round(S, a) \in Nat
           /\ IsFiniteSet(Earlier(S, a))
           /\ \A n \in 0..Round(S, a) : \E b \in S : b.tenant = a.tenant /\ Round(S, b) = n
<1> DEFINE T == OfTenant(S, a.tenant)
           R == Pairs(T, Before)
<1>1. IsFiniteSet(T) /\ StrictTotal(T, R)
  BY SubsetOrdered DEF OfTenant
<1>2. ASSUME NEW b \in T PROVE b \in S /\ b.tenant = a.tenant /\ Ahead(T, R, b) = Earlier(S, b)
  BY DEF OfTenant, Ahead, Pairs, Earlier
<1>3. \A b \in T : Round(S, b) = Cardinality(Ahead(T, R, b))
  BY <1>2 DEF Round, Earlier
<1>4. a \in T
  BY DEF OfTenant
<1> HIDE DEF T, R
<1>5. /\ Cardinality(T) \in Nat
      /\ InLine(T, R) \in [1..Cardinality(T) -> T]
      /\ \A i \in 1..Cardinality(T) : Cardinality(Ahead(T, R, InLine(T, R)[i])) = i - 1
  BY <1>1, InLineIs
<1>6. Cardinality(Ahead(T, R, a)) \in 0..(Cardinality(T) - 1)
  BY <1>1, <1>4, AheadCounts
<1>7. Round(S, a) \in Nat /\ Round(S, a) < Cardinality(T)
  BY <1>3, <1>4, <1>5, <1>6
<1>8. IsFiniteSet(Earlier(S, a))
  BY SubsetOrdered DEF Earlier
<1>9. ASSUME NEW n \in 0..Round(S, a) PROVE \E b \in S : b.tenant = a.tenant /\ Round(S, b) = n
  <2>1. n + 1 \in 1..Cardinality(T) /\ (n + 1) - 1 = n
    BY <1>5, <1>7
  <2> DEFINE b == InLine(T, R)[n + 1]
  <2>2. b \in T /\ Cardinality(Ahead(T, R, b)) = n
    BY <1>5, <2>1
  <2> HIDE DEF b
  <2> QED BY <1>2, <1>3, <2>2
<1> QED BY <1>7, <1>8, <1>9

\* Of a tenant's tasks the one in the earlier round comes first.
LEMMA RoundOrder ==
    ASSUME NEW S, Ordered(S), NEW a \in S, NEW b \in S, a.tenant = b.tenant
    PROVE  /\ Before(a, b) <=> Round(S, a) < Round(S, b)
           /\ Round(S, a) = Round(S, b) => a = b
<1> DEFINE T == OfTenant(S, a.tenant)
           R == Pairs(T, Before)
<1>1. IsFiniteSet(T) /\ StrictTotal(T, R)
  BY SubsetOrdered DEF OfTenant
<1>2. a \in T /\ b \in T
  BY DEF OfTenant
<1>3. Ahead(T, R, a) = Earlier(S, a) /\ Ahead(T, R, b) = Earlier(S, b)
  BY DEF OfTenant, Ahead, Pairs, Earlier
<1>4. Round(S, a) = Cardinality(Ahead(T, R, a)) /\ Round(S, b) = Cardinality(Ahead(T, R, b))
  BY <1>3 DEF Round, Earlier
<1>5. Before(a, b) <=> <<a, b>> \in R
  BY <1>2 DEF Pairs
<1> HIDE DEF T, R
<1>6. Before(a, b) <=> Round(S, a) < Round(S, b)
  <2>1. <<a, b>> \in R <=> Cardinality(Ahead(T, R, a)) < Cardinality(Ahead(T, R, b))
    BY <1>1, <1>2, AheadCounts
  <2> QED BY <1>4, <1>5, <2>1
<1>7. ASSUME Round(S, a) = Round(S, b) PROVE a = b
  BY <1>1, <1>2, <1>4, <1>7, AheadSame
<1> QED BY <1>6, <1>7

-----------------------------------------------------------------------------
(* The order of turns, and what a claim is to choose by it.                *)

Eligible(F, r) == {a \in F : Round(F, a) < Quota(r, a.tenant)}

InTurn(F, a, b) == \/ Round(F, a) < Round(F, b)
                   \/ Round(F, a) = Round(F, b) /\ Before(Head1(F, a), Head1(F, b))

Turns(F, E) == {p \in E \X E : InTurn(F, p[1], p[2])}

Lesser(m, n) == IF m < n THEN m ELSE n

\* A tenant's first task is the one in its round 0.
LEMMA Heads ==
    ASSUME NEW F, Ordered(F), NEW a \in F
    PROVE  /\ Head1(F, a) \in F /\ Head1(F, a).tenant = a.tenant /\ Round(F, Head1(F, a)) = 0
           /\ \A b \in F : b.tenant = a.tenant => Head1(F, b) = Head1(F, a)
<1>1. \E b \in F : b.tenant = a.tenant /\ Round(F, b) = 0
  <2>1. Round(F, a) \in Nat /\ \A n \in 0..Round(F, a) : \E b \in F : b.tenant = a.tenant /\ Round(F, b) = n
    BY Rounds
  <2>2. 0 \in 0..Round(F, a)
    BY <2>1
  <2> QED BY <2>1, <2>2
<1>2. Head1(F, a) \in F /\ Head1(F, a).tenant = a.tenant /\ Round(F, Head1(F, a)) = 0
  BY <1>1 DEF Head1
<1>3. \A b \in F : b.tenant = a.tenant => Head1(F, b) = Head1(F, a)
  BY DEF Head1
<1> QED BY <1>2, <1>3

\* Turns are taken in a strict total order.
LEMMA TurnsTotal ==
    ASSUME NEW F, Ordered(F), NEW E \in SUBSET F
    PROVE  IsFiniteSet(E) /\ StrictTotal(E, Turns(F, E))
<1>1. IsFiniteSet(E)
  BY FS_Subset DEF Ordered
<1>2. \A a \in F : Round(F, a) \in Nat /\ Head1(F, a) \in F /\ Head1(F, a).tenant = a.tenant
  BY Rounds, Heads
<1>3. \A a, b \in E : <<a, b>> \in Turns(F, E) <=> InTurn(F, a, b)
  BY DEF Turns
<1>4. ASSUME NEW a \in E, NEW b \in E, InTurn(F, a, b) PROVE ~InTurn(F, b, a)
  <2>1. Before(Head1(F, a), Head1(F, b)) => ~Before(Head1(F, b), Head1(F, a))
    BY <1>2 DEF Ordered
  <2>2. Round(F, a) \in Nat /\ Round(F, b) \in Nat
    BY <1>2
  <2> QED BY <1>4, <2>1, <2>2 DEF InTurn
<1>5. ASSUME NEW a \in E, NEW b \in E, NEW c \in E, InTurn(F, a, b), InTurn(F, b, c) PROVE InTurn(F, a, c)
  <2>1. Before(Head1(F, a), Head1(F, b)) /\ Before(Head1(F, b), Head1(F, c)) => Before(Head1(F, a), Head1(F, c))
    BY <1>2 DEF Ordered
  <2>2. Round(F, a) \in Nat /\ Round(F, b) \in Nat /\ Round(F, c) \in Nat
    BY <1>2
  <2> QED BY <1>5, <2>1, <2>2 DEF InTurn
<1>6. ASSUME NEW a \in E, NEW b \in E PROVE a = b \/ InTurn(F, a, b) \/ InTurn(F, b, a)
  <2>1. \/ Head1(F, a) = Head1(F, b)
        \/ Before(Head1(F, a), Head1(F, b))
        \/ Before(Head1(F, b), Head1(F, a))
    BY <1>2 DEF Ordered
  <2>2. Round(F, a) \in Nat /\ Round(F, b) \in Nat
    BY <1>2
  <2>3. CASE Round(F, a) = Round(F, b) /\ Head1(F, a) = Head1(F, b)
    <3>1. a.tenant = b.tenant
      BY <1>2, <2>3
    <3> QED BY <2>3, <3>1, RoundOrder
  <2> QED BY <2>1, <2>2, <2>3 DEF InTurn
<1>7. StrictTotal(E, Turns(F, E))
  BY <1>3, <1>4, <1>5, <1>6 DEF StrictTotal
<1> QED BY <1>1, <1>7

\* Choice, with its parts named.
LEMMA ChoiceIs ==
    ASSUME NEW C, Ordered(C), NEW r, r.limit \in Int
    PROVE  LET F == Firsts(C)
               E == Eligible(F, r)
           IN  /\ Ordered(F) /\ IsFiniteSet(E) /\ StrictTotal(E, Turns(F, E)) /\ Cardinality(E) \in Nat
               /\ Choice(C, r) = [i \in 1..Lesser(Cardinality(E), r.limit) |-> InLine(E, Turns(F, E))[i]]
<1> DEFINE F == Firsts(C)
           E == Eligible(F, r)
<1>1. Ordered(F)
  BY SubsetOrdered DEF Firsts
<1>2. E \in SUBSET F
  BY DEF Eligible
<1> HIDE DEF F
<1>3. IsFiniteSet(E) /\ StrictTotal(E, Turns(F, E))
  BY <1>1, <1>2, TurnsTotal
<1>4. Cardinality(E) \in Nat /\ InLine(E, Turns(F, E)) \in [1..Cardinality(E) -> E]
  BY <1>3, InLineIs
<1>5. Len(InLine(E, Turns(F, E))) = Cardinality(E)
  <2> DEFINE n == Cardinality(E)
             line == InLine(E, Turns(F, E))
  <2>1. n \in Nat /\ line \in [1..n -> E]
    BY <1>4
  <2> HIDE DEF n, line, E
  <2>2. Len(line) = n
    BY <2>1
  <2> QED BY <2>2 DEF n, line
<1>6. Choice(C, r) = [i \in 1..Lesser(Len(InLine(E, Turns(F, E))), r.limit) |-> InLine(E, Turns(F, E))[i]]
  BY DEF Choice, Eligible, Turns, InTurn, Pairs, Lesser, F
<1> QED BY <1>1, <1>3, <1>4, <1>5, <1>6 DEF F

\* The tasks of E that come before a in turns.
Sooner(F, E, a) == {b \in E : InTurn(F, b, a)}

\* s is a line of n tasks of E in which i - 1 come before the i-th.
LinedUp(s, n, F, E) == s \in [1..n -> E] /\ \A i \in 1..n : Cardinality(Sooner(F, E, s[i])) = i - 1

\* A sequence is the choice if it is as long and each of its tasks has before
\* it, in the order of turns, as many as stand before it.
LEMMA ChoiceByLine ==
    ASSUME NEW C, Ordered(C), NEW r, r.limit \in Int,
           NEW F, F = Firsts(C), NEW E, E = Eligible(F, r),
           NEW n, n = Lesser(Cardinality(E), r.limit),
           NEW s, LinedUp(s, n, F, E)
    PROVE  s = Choice(C, r)
<1> DEFINE R == Turns(F, E)
<1>1. /\ IsFiniteSet(E) /\ StrictTotal(E, R) /\ Cardinality(E) \in Nat
      /\ Choice(C, r) = [i \in 1..n |-> InLine(E, R)[i]]
  BY ChoiceIs
<1>2. ASSUME NEW i \in 1..n PROVE s[i] = InLine(E, R)[i]
  <2>1. s[i] \in E /\ Cardinality(Sooner(F, E, s[i])) = i - 1
    BY DEF LinedUp
  <2>2. Ahead(E, R, s[i]) = Sooner(F, E, s[i])
    BY <2>1 DEF Ahead, Turns, Sooner
  <2>3. Cardinality(Ahead(E, R, s[i])) = i - 1
    BY <2>1, <2>2
  <2> HIDE DEF R
  <2>4. InLine(E, R)[Cardinality(Ahead(E, R, s[i])) + 1] = s[i]
    BY <1>1, <2>1, InLineIs
  <2>5. i \in Int
    <3>1. n \in Int
      BY <1>1 DEF Lesser
    <3> QED BY <3>1
  <2> QED BY <2>3, <2>4, <2>5
<1>3. s = [i \in 1..n |-> s[i]]
  BY DEF LinedUp
<1> HIDE DEF R
<1> QED BY <1>1, <1>2, <1>3
-----------------------------------------------------------------------------

\* The bounded read: what it leaves out would not be chosen.
LEMMA BoundedReadChooses ==
    ASSUME NEW C, Ordered(C), NEW r, r.limit \in Int, r.limit >= 1,
           \A tn \in Tenants : Quota(r, tn) \in Int
    PROVE  Ordered(BoundedRead(C, r)) /\ Choice(BoundedRead(C, r), r) = Choice(C, r)
<1> DEFINE F == Firsts(C)
           E == Eligible(F, r)
           B == BoundedRead(C, r)
<1>1. /\ Ordered(F) /\ Cardinality(E) \in Nat /\ IsFiniteSet(E)
      /\ B = {a \in E : Round(F, a) < r.limit} /\ E = {a \in F : Round(F, a) < Quota(r, a.tenant)}
      /\ B \in SUBSET C
  BY ChoiceIs DEF BoundedRead, Eligible, Firsts
<1>2. Ordered(B) /\ IsFiniteSet(B) /\ Cardinality(B) \in Nat
  BY <1>1, SubsetOrdered, FS_CardinalityType
<1>3. Firsts(B) = B
  BY <1>1 DEF Firsts
<1> HIDE DEF F, E, B
<1>4. \A a \in F : Round(F, a) \in Nat /\ Quota(r, a.tenant) \in Int
  BY <1>1, Rounds DEF Ordered
<1>5. ASSUME NEW a \in F, NEW b \in F, Round(F, a) < Quota(r, a.tenant), Round(F, b) <= Round(F, a),
             b.tenant = a.tenant
      PROVE  b \in E /\ (a \in B => b \in B)
  BY <1>1, <1>4, <1>5
<1>6. ASSUME NEW a \in B PROVE Round(B, a) = Round(F, a)
  <2>1. a \in F /\ Round(F, a) < Quota(r, a.tenant)
    BY <1>1
  <2>2. ASSUME NEW b \in F, b.tenant = a.tenant, Before(b, a) PROVE b \in B
    <3>1. Round(F, b) < Round(F, a)
      BY <1>1, <2>1, <2>2, RoundOrder
    <3>2. Round(F, b) <= Round(F, a)
      BY <1>4, <2>1, <3>1
    <3> QED BY <1>5, <2>1, <2>2, <3>2
  <2>3. {b \in B : b.tenant = a.tenant /\ Before(b, a)} = {b \in F : b.tenant = a.tenant /\ Before(b, a)}
    BY <1>1, <2>2
  <2> QED BY <2>3 DEF Round
<1>7. Eligible(B, r) = B
  BY <1>1, <1>6 DEF Eligible
<1>8. ASSUME NEW a \in B PROVE Head1(B, a) = Head1(F, a)
  <2> DEFINE h == Head1(F, a)
             g == Head1(B, a)
  <2>1. a \in F /\ Round(F, a) < Quota(r, a.tenant) /\ Round(F, a) \in Nat
    BY <1>1, <1>4
  <2>2. h \in F /\ h.tenant = a.tenant /\ Round(F, h) = 0
    BY <1>1, <2>1, Heads
  <2>3. g \in B /\ g.tenant = a.tenant /\ Round(B, g) = 0
    BY <1>2, Heads
  <2> HIDE DEF g, h
  <2>4. Round(F, g) = 0 /\ g \in F
    BY <1>1, <1>6, <2>3
  <2>5. g = h
    BY <1>1, <2>2, <2>3, <2>4, RoundOrder
  <2> QED BY <2>5 DEF g, h
<1>9. ASSUME NEW a \in B PROVE {b \in B : InTurn(B, b, a)} = {b \in E : InTurn(F, b, a)}
  <2>1. \A b \in B : InTurn(B, b, a) <=> InTurn(F, b, a)
    BY <1>6, <1>8 DEF InTurn
  <2>2. ASSUME NEW b \in E, InTurn(F, b, a) PROVE b \in B
    <3>1. Round(F, b) <= Round(F, a) /\ Round(F, a) < r.limit
      BY <1>1, <1>4, <2>2 DEF InTurn
    <3> QED BY <1>1, <1>4, <3>1
  <2> QED BY <1>1, <2>1, <2>2
<1>10. Lesser(Cardinality(B), r.limit) = Lesser(Cardinality(E), r.limit)
  <2>1. CASE B = E
    BY <2>1
  <2>2. CASE B # E
    <3>1. PICK e \in E : ~(Round(F, e) < r.limit)
      BY <1>1, <2>2
    <3>2. e \in F /\ r.limit \in 0..Round(F, e) /\ Round(F, e) < Quota(r, e.tenant)
      BY <1>1, <1>4, <3>1
    <3>3. PICK b \in F : b.tenant = e.tenant /\ Round(F, b) = r.limit
      BY <1>1, <3>2, Rounds
    <3>4. ASSUME NEW c \in Earlier(F, b) PROVE c \in B
      <4>1. c \in F /\ c.tenant = b.tenant /\ Before(c, b)
        BY DEF Earlier
      <4>2. Round(F, c) < r.limit
        BY <1>1, <3>3, <4>1, RoundOrder
      <4>3. Round(F, c) <= Round(F, e)
        BY <1>4, <3>2, <4>1, <4>2
      <4>4. c \in E
        BY <1>5, <3>2, <3>3, <4>1, <4>3
      <4> QED BY <1>1, <4>2, <4>4
    <3>5. Cardinality(Earlier(F, b)) = r.limit
      BY <3>3 DEF Round, Earlier
    <3>6. Cardinality(Earlier(F, b)) <= Cardinality(B)
      BY <1>2, <3>4, FS_Subset
    <3>7. Cardinality(B) <= Cardinality(E)
      BY <1>1, FS_Subset
    <3>8. r.limit <= Cardinality(B)
      BY <3>5, <3>6
    <3> QED BY <1>1, <1>2, <3>7, <3>8 DEF Lesser
  <2> QED BY <2>1, <2>2
<1> DEFINE s == Choice(B, r)
           n == Lesser(Cardinality(E), r.limit)
<1>11. s = [i \in 1..n |-> InLine(B, Turns(B, B))[i]] /\ StrictTotal(B, Turns(B, B))
  BY <1>2, <1>3, <1>7, <1>10, ChoiceIs
<1>12. ASSUME NEW i \in 1..n PROVE s[i] \in E /\ Cardinality(Sooner(F, E, s[i])) = i - 1
  <2>1. s[i] = InLine(B, Turns(B, B))[i]
    BY <1>11
  <2> HIDE DEF s
  <2>2. i \in 1..Cardinality(B)
    BY <1>1, <1>2, <1>10 DEF Lesser
  <2>3. s[i] \in B /\ Cardinality(Ahead(B, Turns(B, B), s[i])) = i - 1
    BY <1>2, <1>11, <2>1, <2>2, InLineIs
  <2>4. Ahead(B, Turns(B, B), s[i]) = {b \in B : InTurn(B, b, s[i])}
    BY <2>3 DEF Ahead, Turns
  <2> QED BY <1>1, <1>9, <2>3, <2>4 DEF Sooner
<1>13. s \in [1..n -> E]
  <2>1. s = [i \in 1..n |-> InLine(B, Turns(B, B))[i]]
    BY <1>11
  <2> HIDE DEF s, n, E
  <2> QED BY <1>12, <2>1
<1>14. F = Firsts(C) /\ E = Eligible(F, r) /\ n = Lesser(Cardinality(E), r.limit)
  BY DEF F, E
<1> HIDE DEF s, n, E, F
<1>15. LinedUp(s, n, F, E)
  BY <1>12, <1>13 DEF LinedUp
<1>16. s = Choice(C, r)
  BY <1>14, <1>15, ChoiceByLine
<1> QED BY <1>2, <1>16 DEF s, B

-----------------------------------------------------------------------------
(* How the sort lays the candidates and their tenants out.                 *)

\* A set of natural numbers that has a member has a least one.
LEMMA LeastPlace ==
    ASSUME NEW S \in SUBSET Nat, S # {}
    PROVE  \E m \in S : \A j \in S : m <= j
<1>1. PICK m \in S : \A j \in S : ~ (<<j, m>> \in OpToRel(<, Nat))
  BY NatLessThanWellFounded, WFMin, Zenon
<1>2. \A j \in S : ~ (j < m)
  BY <1>1, Zenon DEF OpToRel
<1>3. \A j \in S : m <= j
  BY <1>2
<1> QED BY <1>3

\* The sort puts every candidate in a place, and places are in its order.
LEMMA SortedIs ==
    ASSUME NEW C, Ordered(C), NEW s, s = Order(C)
    PROVE  /\ Cardinality(C) \in Nat /\ s \in [1..Cardinality(C) -> C]
           /\ \A a \in C : \E i \in 1..Cardinality(C) : s[i] = a
           /\ \A i, j \in 1..Cardinality(C) : i < j <=> Before(s[i], s[j])
<1> DEFINE R == Pairs(C, Before)
<1>1. IsFiniteSet(C) /\ StrictTotal(C, R) /\ s = InLine(C, R)
  BY SubsetOrdered DEF Order
<1>2. \A a, b \in C : <<a, b>> \in R <=> Before(a, b)
  BY DEF Pairs
<1> HIDE DEF R
<1>3. /\ Cardinality(C) \in Nat /\ s \in [1..Cardinality(C) -> C]
      /\ \A a \in C : /\ Cardinality(Ahead(C, R, a)) + 1 \in 1..Cardinality(C)
                      /\ s[Cardinality(Ahead(C, R, a)) + 1] = a
  BY <1>1, InLineIs
<1>4. \A i, j \in 1..Cardinality(C) : i < j <=> <<s[i], s[j]>> \in R
  BY <1>1, InLineSorts
<1> QED BY <1>2, <1>3, <1>4

\* Where a tenant first appears.
FirstOf(s, tn) == CHOOSE i \in DOMAIN s : /\ s[i].tenant = tn
                                          /\ \A j \in 1..(i - 1) : s[j].tenant # tn

\* There stands the first task of the tenant's first round.
LEMMA FirstIsHead ==
    ASSUME NEW C, Ordered(C), NEW s, s = Order(C), NEW k \in 1..Cardinality(C)
    PROVE  /\ FirstOf(s, s[k].tenant) \in 1..Cardinality(C)
           /\ s[FirstOf(s, s[k].tenant)].tenant = s[k].tenant
           /\ \A a \in Firsts(C) : a.tenant = s[k].tenant =>
                                     Head1(Firsts(C), a) = s[FirstOf(s, s[k].tenant)]
<1> DEFINE n == Cardinality(C)
           F == Firsts(C)
           tn == s[k].tenant
           m == FirstOf(s, tn)
<1>1. /\ n \in Nat /\ s \in [1..n -> C] /\ DOMAIN s = 1..n
      /\ \A a \in C : \E i \in 1..n : s[i] = a
      /\ \A i, j \in 1..n : i < j <=> Before(s[i], s[j])
  BY SortedIs
<1>2. Ordered(F)
  BY SubsetOrdered DEF Firsts
<1> HIDE DEF n
<1>3. m \in DOMAIN s /\ s[m].tenant = tn /\ \A j \in 1..(m - 1) : s[j].tenant # tn
  <2> DEFINE P == {i \in 1..n : s[i].tenant = tn}
  <2>1. P \in SUBSET Nat /\ k \in P
    BY <1>1 DEF n
  <2>2. PICK i \in P : \A j \in P : i <= j
    BY <2>1, LeastPlace
  <2>3. i \in DOMAIN s /\ s[i].tenant = tn /\ \A j \in 1..(i - 1) : s[j].tenant # tn
    BY <1>1, <2>2
  <2> QED BY <2>3 DEF FirstOf
<1> HIDE DEF m, tn
<1>4. m \in 1..n /\ s[m] \in C
  BY <1>1, <1>3
<1>5. ASSUME NEW b \in C, b.tenant = tn PROVE b = s[m] \/ Before(s[m], b)
  <2>1. PICK j \in 1..n : s[j] = b
    BY <1>1
  <2>2. j \notin 1..(m - 1)
    BY <1>3, <1>5, <2>1
  <2>3. j = m \/ m < j
    BY <1>1, <1>4, <2>2
  <2> QED BY <1>1, <1>4, <2>1, <2>3
<1>6. s[m] \in F
  BY <1>3, <1>4, <1>5 DEF F, Firsts, SameEntity
<1>7. Round(F, s[m]) = 0
  <2>1. \A b \in F : b \in C
    BY DEF F, Firsts
  <2>2. {b \in F : b.tenant = s[m].tenant /\ Before(b, s[m])} = {}
    BY <1>2, <1>3, <1>5, <1>6, <2>1 DEF Ordered
  <2> QED BY <2>2, FS_EmptySet DEF Round
<1>8. ASSUME NEW a \in F, a.tenant = tn PROVE Head1(F, a) = s[m]
  <2>1. Head1(F, a) \in F /\ Head1(F, a).tenant = a.tenant /\ Round(F, Head1(F, a)) = 0
    BY <1>2, Heads
  <2> QED BY <1>2, <1>3, <1>6, <1>7, <1>8, <2>1, RoundOrder
<1> QED BY <1>3, <1>4, <1>8 DEF n, m, tn, F

\* Every tenant with a candidate has one place among the tenants, and the
\* places are in the order of the tenants' first tasks.
TenantPlaced(C, t) ==
  /\ Len(t) \in Nat /\ DOMAIN t = 1..Len(t)
  /\ \A i, j \in 1..Len(t) : t[i] = t[j] => i = j
  /\ \A a \in Firsts(C) : \E i \in 1..Len(t) : t[i] = a.tenant
  /\ \A a, b \in Firsts(C) : \A i, j \in 1..Len(t) :
       t[i] = a.tenant /\ t[j] = b.tenant =>
         (i < j <=> Before(Head1(Firsts(C), a), Head1(Firsts(C), b)))

LEMMA TenantPlaces ==
    ASSUME NEW C, Ordered(C), NEW s, s = Order(C), NEW t, t = TenantsOf(s)
    PROVE  TenantPlaced(C, t)
<1> DEFINE n == Cardinality(C)
           F == Firsts(C)
           T == {s[i].tenant : i \in DOMAIN s}
           R == {p \in T \X T : FirstOf(s, p[1]) < FirstOf(s, p[2])}
<1>1. /\ n \in Nat /\ s \in [1..n -> C] /\ DOMAIN s = 1..n
      /\ \A a \in C : \E i \in 1..n : s[i] = a
      /\ \A i, j \in 1..n : i < j <=> Before(s[i], s[j])
  BY SortedIs
<1>2. t = InLine(T, R)
  BY DEF TenantsOf, FirstOf, Pairs
<1>3. \A a \in F : a \in C /\ a.tenant \in T
  BY <1>1 DEF F, Firsts
<1>4. T \in SUBSET Tenants
  BY <1>1 DEF Ordered
<1>5. IsFiniteSet(T)
  BY <1>4, SelectAssumption, FS_Subset
<1>6. ASSUME NEW tn \in T
      PROVE  /\ FirstOf(s, tn) \in 1..n /\ s[FirstOf(s, tn)].tenant = tn
             /\ \A a \in F : a.tenant = tn => Head1(F, a) = s[FirstOf(s, tn)]
  <2>1. PICK k \in 1..Cardinality(C) : tn = s[k].tenant
    BY <1>1
  <2> QED BY <2>1, FirstIsHead
<1>7. \A tn, tm \in T : <<tn, tm>> \in R <=> FirstOf(s, tn) < FirstOf(s, tm)
  OBVIOUS
<1> HIDE DEF n, F, T, R
<1>8. \A tn \in T : FirstOf(s, tn) \in Int
  BY <1>1, <1>6
<1>9. \A tn, tm \in T : FirstOf(s, tn) = FirstOf(s, tm) => tn = tm
  BY <1>6
<1>10. StrictTotal(T, R)
  BY <1>7, <1>8, <1>9 DEF StrictTotal
<1>11. /\ Cardinality(T) \in Nat /\ t \in [1..Cardinality(T) -> T]
       /\ \A tn \in T : /\ Cardinality(Ahead(T, R, tn)) + 1 \in 1..Cardinality(T)
                        /\ t[Cardinality(Ahead(T, R, tn)) + 1] = tn
  BY <1>2, <1>5, <1>10, InLineIs
<1>12. \A i, j \in 1..Cardinality(T) : i < j <=> <<t[i], t[j]>> \in R
  BY <1>2, <1>5, <1>10, InLineSorts
<1> DEFINE k == Cardinality(T)
<1>13. /\ k \in Nat /\ t \in [1..k -> T]
       /\ \A tn \in T : \E i \in 1..k : t[i] = tn
       /\ \A i, j \in 1..k : i < j <=> <<t[i], t[j]>> \in R
  BY <1>11, <1>12
<1> HIDE DEF k
<1>14. Len(t) = k /\ DOMAIN t = 1..k
  BY <1>13
<1>15. ASSUME NEW i \in 1..k, NEW j \in 1..k, t[i] = t[j] PROVE i = j
  <2>1. t[i] \in T /\ t[j] \in T
    BY <1>13
  <2>2. <<t[i], t[i]>> \notin R
    BY <1>7, <1>8, <2>1
  <2>3. ~(i < j) /\ ~(j < i)
    BY <1>13, <1>15, <2>2
  <2> QED BY <1>13, <2>3
<1>16. \A a \in F : \E i \in 1..k : t[i] = a.tenant
  BY <1>3, <1>13
<1>17. ASSUME NEW a \in F, NEW b \in F, NEW i \in 1..k, NEW j \in 1..k, t[i] = a.tenant, t[j] = b.tenant
       PROVE  i < j <=> Before(Head1(F, a), Head1(F, b))
  <2>1. a.tenant \in T /\ b.tenant \in T
    BY <1>3
  <2>2. i < j <=> FirstOf(s, a.tenant) < FirstOf(s, b.tenant)
    BY <1>7, <1>13, <1>17, <2>1
  <2>3. FirstOf(s, a.tenant) < FirstOf(s, b.tenant) <=> Before(s[FirstOf(s, a.tenant)], s[FirstOf(s, b.tenant)])
    BY <1>1, <1>6, <2>1
  <2>4. Head1(F, a) = s[FirstOf(s, a.tenant)] /\ Head1(F, b) = s[FirstOf(s, b.tenant)]
    BY <1>6, <2>1
  <2> QED BY <2>2, <2>3, <2>4
<1> QED BY <1>13, <1>14, <1>15, <1>16, <1>17 DEF TenantPlaced, F

-----------------------------------------------------------------------------
(* The loop and its turns.                                                 *)

Running == pc \in {"turns", "done"}

FC == Firsts(cands)

EC == Eligible(FC, req)

Chosen == {out[i] : i \in DOMAIN out}

\* The tasks of the first K rounds, and of the next one those of the tenants
\* that have had their turn.
Upto(K, T) == {a \in EC : \/ Round(FC, a) < K
                          \/ Round(FC, a) = K /\ \E i \in 1..T : tenants[i] = a.tenant}

InputsKept == /\ all \in TaskSets /\ cands \in {all, BoundedRead(all, req)}
              /\ pc = "call" => progress = TRUE

Laid == Running => sorted = Order(cands) /\ tenants = TenantsOf(sorted)

\* A queue has lost only tasks whose entity was met.
DroppedWereSeen ==
  Running => \A i \in DOMAIN sorted : i \in queues[sorted[i].tenant] \/ SeenKey(sorted[i]) \in seen

\* Between two rounds, T is the number of tenants or 0; a round that took
\* nothing had nothing to take.
InRound(K, T) ==
  /\ Chosen = Upto(K, T)
  /\ \/ turn = T
     \/ turn = Len(tenants) /\ T = 0 /\ progress
     \/ turn = Len(tenants) /\ Len(out) >= req.limit
  /\ progress \/ \A a \in EC : Round(FC, a) = K => \A i \in 1..T : tenants[i] # a.tenant

InRounds == Running => \E K \in Nat : \E T \in 0..Len(tenants) : InRound(K, T)

\* What stands before a task in out is what comes before it in turns.
Lined == Running => \A i \in DOMAIN out : {b \in EC : InTurn(FC, b, out[i])} = {out[j] : j \in 1..(i - 1)}

Ended == pc = "done" => turn = Len(tenants) /\ (progress => Len(out) >= req.limit)

ChoiceInv == InputsKept /\ Laid /\ DroppedWereSeen /\ InRounds /\ Lined /\ Ended

\* What the candidates, the places and the numbers of a running call are.
LEMMA WhileRunning ==
    ASSUME IInv, ChoiceInv, Running
    PROVE  /\ Ordered(cands) /\ Ordered(FC) /\ TenantPlaced(cands, tenants)
           /\ FC = Firsts(cands) /\ FC \subseteq cands
           /\ EC = {a \in FC : Round(FC, a) < Quota(req, a.tenant)}
           /\ \A a \in FC : a.tenant \in Tenants /\ Round(FC, a) \in Nat /\ Quota(req, a.tenant) \in Int
           /\ Cardinality(cands) \in Nat /\ DOMAIN sorted = 1..Cardinality(cands)
           /\ \A i \in DOMAIN sorted : sorted[i] \in cands
           /\ \A a \in cands : \E i \in DOMAIN sorted : sorted[i] = a
           /\ \A i, j \in DOMAIN sorted : i < j <=> Before(sorted[i], sorted[j])
           /\ req.limit \in Int /\ req.limit >= 1
           /\ Len(out) \in Nat /\ DOMAIN out = 1..Len(out) /\ Len(out) <= req.limit
<1>1. Ordered(cands)
  <2>1. Ordered(all)
    BY TaskSetsOrdered DEF ChoiceInv, InputsKept
  <2>2. cands \in SUBSET all
    BY DEF ChoiceInv, InputsKept, BoundedRead, Firsts
  <2> QED BY <2>1, <2>2, SubsetOrdered
<1>2. FC \in SUBSET cands /\ Ordered(FC)
  BY <1>1, SubsetOrdered DEF FC, Firsts
<1>3. sorted = Order(cands) /\ tenants = TenantsOf(sorted)
  BY DEF ChoiceInv, Laid
<1>4. TenantPlaced(cands, tenants)
  BY <1>1, <1>3, TenantPlaces
<1>5. req \in Requests /\ Valid(req) /\ Len(out) <= req.limit /\ out \in Seq(Candidates)
  BY DEF IInv, TypeOK, OnlyIfValid, Running
<1>6. req.limit \in Int /\ req.limit >= 1 /\ \A tn \in Tenants : Quota(req, tn) \in Int
  BY <1>5, RequestTyped DEF Valid
<1>7. \A a \in FC : a.tenant \in Tenants /\ Round(FC, a) \in Nat
  BY <1>2, Rounds DEF Ordered
<1>8. /\ Cardinality(cands) \in Nat /\ sorted \in [1..Cardinality(cands) -> cands]
      /\ \A a \in cands : \E i \in 1..Cardinality(cands) : sorted[i] = a
      /\ \A i, j \in 1..Cardinality(cands) : i < j <=> Before(sorted[i], sorted[j])
  BY <1>1, <1>3, SortedIs
<1>9. DOMAIN sorted = 1..Cardinality(cands) /\ \A i \in DOMAIN sorted : sorted[i] \in cands
  BY <1>8
<1>10. Len(out) \in Nat /\ DOMAIN out = 1..Len(out)
  BY <1>5
<1> QED BY <1>1, <1>2, <1>4, <1>5, <1>6, <1>7, <1>8, <1>9, <1>10 DEF EC, Eligible, FC

\* What the next tenant's turn can add, and what comes before that.
LEMMA ThisTurn ==
    ASSUME IInv, ChoiceInv, Running, NEW K \in Nat, NEW T \in 0..Len(tenants), T < Len(tenants),
           NEW tn, tn = tenants[T + 1]
    PROVE  /\ \A b \in EC : b.tenant = tn => (b \in Upto(K, T) <=> Round(FC, b) < K)
           /\ Upto(K, T + 1) = Upto(K, T) \cup {b \in EC : b.tenant = tn /\ Round(FC, b) = K}
           /\ \A a \in EC : a.tenant = tn /\ Round(FC, a) = K => {b \in EC : InTurn(FC, b, a)} = Upto(K, T)
<1>1. /\ Len(tenants) \in Nat /\ FC = Firsts(cands)
      /\ \A i, j \in 1..Len(tenants) : tenants[i] = tenants[j] => i = j
      /\ \A a \in FC : \E i \in 1..Len(tenants) : tenants[i] = a.tenant
      /\ \A a, b \in FC : \A i, j \in 1..Len(tenants) :
           tenants[i] = a.tenant /\ tenants[j] = b.tenant => (i < j <=> Before(Head1(FC, a), Head1(FC, b)))
      /\ \A b \in EC : b \in FC /\ Round(FC, b) \in Nat
  BY WhileRunning DEF TenantPlaced
<1>2. T + 1 \in 1..Len(tenants) /\ T \in Nat /\ T + 1 \notin 1..T /\ 1..T \subseteq 1..Len(tenants)
  BY <1>1
<1>3. \A i \in 1..T : tenants[i] # tn
  BY <1>1, <1>2
<1>4. \A b \in EC : b.tenant = tn => (b \in Upto(K, T) <=> Round(FC, b) < K)
  BY <1>3 DEF Upto
<1>5. Upto(K, T + 1) = Upto(K, T) \cup {b \in EC : b.tenant = tn /\ Round(FC, b) = K}
  <2>1. \A i : i \in 1..(T + 1) <=> i \in 1..T \/ i = T + 1
    BY <1>2
  <2>2. \A b : (\E i \in 1..(T + 1) : tenants[i] = b.tenant)
                 <=> (\E i \in 1..T : tenants[i] = b.tenant) \/ b.tenant = tn
    BY <2>1
  <2> QED BY <2>2 DEF Upto
<1>6. ASSUME NEW a \in EC, a.tenant = tn, Round(FC, a) = K, NEW b \in EC
      PROVE  InTurn(FC, b, a) <=> b \in Upto(K, T)
  <2>1. PICK j \in 1..Len(tenants) : tenants[j] = b.tenant
    BY <1>1
  <2>2. j < T + 1 <=> Before(Head1(FC, b), Head1(FC, a))
    BY <1>1, <1>2, <1>6, <2>1
  <2>3. j < T + 1 <=> j \in 1..T
    BY <1>2
  <2>4. j \in 1..T <=> \E i \in 1..T : tenants[i] = b.tenant
    BY <1>1, <1>2, <2>1
  <2> QED BY <1>6, <2>2, <2>3, <2>4 DEF InTurn, Upto
<1>7. \A a \in EC : a.tenant = tn /\ Round(FC, a) = K => {b \in EC : InTurn(FC, b, a)} = Upto(K, T)
  BY <1>6 DEF Upto
<1> QED BY <1>4, <1>5, <1>7

\* A tenant's places in out are as many as its chosen tasks.
LEMMA ChosenCount ==
    ASSUME IInv, NEW tn
    PROVE  /\ IsFiniteSet(OfTenant(Chosen, tn))
           /\ Cardinality(OfTenant(Chosen, tn)) = Cardinality(TakenBy(tn))
<1> DEFINE g == [i \in TakenBy(tn) |-> out[i]]
<1>1. IsFiniteSet(TakenBy(tn))
  BY TakenFinite DEF IInv, TypeOK
<1>2. \A i, j \in TakenBy(tn) : out[i] = out[j] => i = j
  BY DEF IInv, OnePerEntity, TakenBy
<1>3. \A b : b \in OfTenant(Chosen, tn) <=> \E i \in TakenBy(tn) : b = out[i]
  BY DEF OfTenant, Chosen, TakenBy
<1>4. g \in Bijection(TakenBy(tn), OfTenant(Chosen, tn))
  <2>1. g \in [TakenBy(tn) -> OfTenant(Chosen, tn)]
    BY <1>3
  <2>2. \A i, j \in TakenBy(tn) : g[i] = g[j] => i = j
    BY <1>2
  <2>3. \A b \in OfTenant(Chosen, tn) : \E i \in TakenBy(tn) : g[i] = b
    BY <1>3
  <2> HIDE DEF g
  <2> QED BY <2>1, <2>2, <2>3 DEF Bijection, Injection, Surjection, IsInjective
<1> QED BY <1>1, <1>4, FS_Bijection DEF ExistsBijection
-----------------------------------------------------------------------------

\* A tenant's tasks of the rounds so far and what is left of its quota make the quota.
LEMMA SpentByRounds ==
    ASSUME IInv, ChoiceInv, Running, NEW K \in Nat, NEW T \in 0..Len(tenants), T < Len(tenants),
           Chosen = Upto(K, T), NEW tn \in Tenants, tn = tenants[T + 1]
    PROVE  /\ OfTenant(Chosen, tn) = {b \in EC : b.tenant = tn /\ Round(FC, b) < K}
           /\ Cardinality(OfTenant(Chosen, tn)) + quota[tn] = Quota(req, tn)
           /\ Cardinality(OfTenant(Chosen, tn)) \in Nat
           /\ quota[tn] \in Int /\ Quota(req, tn) \in Int
<1>1. \A b \in EC : b.tenant = tn => (b \in Upto(K, T) <=> Round(FC, b) < K)
  BY ThisTurn
<1>2. OfTenant(Chosen, tn) = {b \in EC : b.tenant = tn /\ Round(FC, b) < K}
  <2>1. Upto(K, T) \subseteq EC
    BY DEF Upto
  <2> QED BY <1>1, <2>1 DEF OfTenant
<1>3. IsFiniteSet(OfTenant(Chosen, tn)) /\ Cardinality(OfTenant(Chosen, tn)) = Cardinality(TakenBy(tn))
  BY ChosenCount
<1>4. Cardinality(OfTenant(Chosen, tn)) \in Nat
  BY <1>3, FS_CardinalityType
<1>5. Cardinality(TakenBy(tn)) + quota[tn] = Quota(req, tn)
  BY DEF IInv, QuotaSpent, Running
<1>6. quota[tn] \in Int /\ Quota(req, tn) \in Int
  BY RequestTyped DEF IInv, TypeOK
<1> QED BY <1>2, <1>3, <1>4, <1>5, <1>6

\* An entity was met if one of its tasks is chosen, and that is its first.
LEMMA MetByFirst ==
    ASSUME IInv, ChoiceInv, Running, Chosen \subseteq EC, NEW b \in FC, SeenKey(b) \in seen
    PROVE  b \in Chosen
<1>1. PICK k \in DOMAIN out : SeenKey(out[k]) = SeenKey(b)
  BY DEF IInv, SeenIsTaken
<1> DEFINE c == out[k]
<1>2. c \in Chosen /\ c \in FC /\ SameEntity(c, b) /\ SameEntity(b, c)
  BY <1>1 DEF Chosen, EC, Eligible, SeenKey, SameEntity
<1> HIDE DEF c
<1>3. b \in cands /\ c \in cands /\ (b = c \/ Before(b, c)) /\ (c = b \/ Before(c, b))
  BY <1>2 DEF FC, Firsts
<1>4. b = c
  BY <1>3, WhileRunning DEF Ordered
<1> QED BY <1>2, <1>4

\* The first task of a queue whose entity was not met is the tenant's task of
\* this round.
LEMMA TakesOfRound ==
    ASSUME IInv, ChoiceInv, Running, NEW K \in Nat, NEW T \in 0..Len(tenants), T < Len(tenants),
           Chosen = Upto(K, T), NEW tn \in Tenants, tn = tenants[T + 1], quota[tn] > 0,
           NEW i \in Unseen(tn), \A j \in Unseen(tn) : i <= j
    PROVE  sorted[i] \in EC /\ sorted[i].tenant = tn /\ Round(FC, sorted[i]) = K
<1> DEFINE a == sorted[i]
<1>1. /\ Ordered(cands) /\ Ordered(FC) /\ FC \subseteq cands
      /\ EC = {b \in FC : Round(FC, b) < Quota(req, b.tenant)}
      /\ \A b \in FC : Round(FC, b) \in Nat /\ Quota(req, b.tenant) \in Int
      /\ Cardinality(cands) \in Nat /\ DOMAIN sorted = 1..Cardinality(cands)
      /\ \A j \in DOMAIN sorted : sorted[j] \in cands
      /\ \A b \in cands : \E j \in DOMAIN sorted : sorted[j] = b
      /\ \A j, k \in DOMAIN sorted : j < k <=> Before(sorted[j], sorted[k])
  BY WhileRunning
<1>2. /\ i \in DOMAIN sorted /\ a \in cands /\ a.tenant = tn /\ SeenKey(a) \notin seen
      /\ i \in Int
  <2>1. i \in queues[tn] /\ SeenKey(a) \notin seen
    BY DEF Unseen
  <2>2. queues[tn] \subseteq DOMAIN sorted /\ sorted[i].tenant = tn
    BY <2>1 DEF IInv, TypeOK, OwnQueue
  <2> QED BY <1>1, <2>1, <2>2
<1> HIDE DEF a
<1>3. ASSUME NEW b \in cands, b.tenant = tn, Before(b, a) PROVE SeenKey(b) \in seen
  <2>1. PICK j \in DOMAIN sorted : sorted[j] = b
    BY <1>1
  <2>2. j < i /\ j \in Int
    BY <1>1, <1>2, <1>3, <2>1 DEF a
  <2>3. j \notin Unseen(tn)
    BY <1>2, <2>2
  <2>4. j \in queues[tn] \/ SeenKey(b) \in seen
    BY <1>3, <2>1 DEF ChoiceInv, DroppedWereSeen
  <2> QED BY <2>1, <2>3, <2>4 DEF Unseen
<1>4. a \in FC
  <2> SUFFICES ASSUME NEW b \in cands, SameEntity(a, b), Before(b, a) PROVE FALSE
    BY <1>1, <1>2 DEF FC, Firsts, Ordered
  <2>1. b.tenant = tn /\ SeenKey(b) = SeenKey(a)
    BY <1>2 DEF SameEntity, SeenKey
  <2> QED BY <1>2, <1>3, <2>1
<1>5. /\ OfTenant(Chosen, tn) = {b \in EC : b.tenant = tn /\ Round(FC, b) < K}
      /\ Cardinality(OfTenant(Chosen, tn)) + quota[tn] = Quota(req, tn)
      /\ Cardinality(OfTenant(Chosen, tn)) \in Nat
      /\ quota[tn] \in Int /\ Quota(req, tn) \in Int
  BY SpentByRounds
<1>6. a \notin Chosen
  BY <1>2 DEF Chosen, IInv, SeenIsTaken
<1>7. Chosen \subseteq EC
  BY DEF Upto
<1>8. a \in EC => ~(Round(FC, a) < K)
  BY <1>2, <1>5, <1>6 DEF OfTenant
<1>9. ASSUME NEW b \in Earlier(FC, a) PROVE b \in OfTenant(Chosen, tn)
  <2>1. b \in FC /\ b.tenant = tn /\ Before(b, a)
    BY <1>2 DEF Earlier
  <2>2. SeenKey(b) \in seen
    BY <1>1, <1>3, <2>1
  <2> QED BY <1>7, <2>1, <2>2, MetByFirst DEF OfTenant
<1>10. ASSUME NEW b \in OfTenant(Chosen, tn) PROVE b \in Earlier(FC, a)
  <2>1. b \in EC /\ b \in FC /\ b.tenant = tn /\ Round(FC, b) < K /\ b # a
    BY <1>1, <1>5, <1>6 DEF OfTenant
  <2>2. ~Before(a, b)
    <3> SUFFICES ASSUME Before(a, b) PROVE FALSE
      OBVIOUS
    <3>1. Round(FC, a) < Round(FC, b)
      BY <1>1, <1>2, <1>4, <2>1, RoundOrder
    <3>2. Round(FC, b) < Quota(req, tn)
      BY <1>1, <2>1
    <3>3. Round(FC, a) < K /\ Round(FC, a) < Quota(req, tn)
      BY <1>1, <1>4, <1>5, <2>1, <3>1, <3>2
    <3> QED BY <1>1, <1>2, <1>4, <1>8, <3>3
  <2>3. Before(b, a)
    BY <1>1, <1>4, <2>1, <2>2 DEF Ordered
  <2> QED BY <1>2, <2>1, <2>3 DEF Earlier
<1>11. Round(FC, a) = Cardinality(OfTenant(Chosen, tn))
  <2>1. Earlier(FC, a) = OfTenant(Chosen, tn)
    BY <1>9, <1>10
  <2> QED BY <2>1 DEF Round, Earlier
<1>12. a \in EC
  <2>1. Round(FC, a) < Quota(req, tn)
    BY <1>5, <1>11
  <2> QED BY <1>1, <1>2, <1>4, <2>1
<1>13. Round(FC, a) = K
  <2> SUFFICES ASSUME K < Round(FC, a) PROVE FALSE
    BY <1>1, <1>4, <1>8, <1>12
  <2>1. K \in 0..Round(FC, a)
    BY <1>1, <1>4
  <2>2. PICK b \in FC : b.tenant = a.tenant /\ Round(FC, b) = K
    BY <1>1, <1>4, <2>1, Rounds
  <2>3. Before(b, a)
    BY <1>1, <1>4, <2>2, RoundOrder
  <2>4. b \in OfTenant(Chosen, tn)
    BY <1>9, <2>2, <2>3 DEF Earlier
  <2> QED BY <1>5, <2>2, <2>4
<1> QED BY <1>2, <1>12, <1>13 DEF a

\* A tenant passes only if it has no task of this round to choose.
LEMMA NoneOfRound ==
    ASSUME IInv, ChoiceInv, Running, NEW K \in Nat, NEW T \in 0..Len(tenants), T < Len(tenants),
           Chosen = Upto(K, T), NEW tn \in Tenants, tn = tenants[T + 1],
           quota[tn] > 0 => Unseen(tn) = {},
           NEW a \in EC, a.tenant = tn, Round(FC, a) = K
    PROVE  FALSE
<1>1. /\ Ordered(FC) /\ FC \subseteq cands
      /\ EC = {b \in FC : Round(FC, b) < Quota(req, b.tenant)}
      /\ \A b \in FC : Round(FC, b) \in Nat
      /\ \A b \in cands : \E j \in DOMAIN sorted : sorted[j] = b
  BY WhileRunning
<1>2. a \in FC /\ a \in cands
  BY <1>1
<1>3. /\ OfTenant(Chosen, tn) = {b \in EC : b.tenant = tn /\ Round(FC, b) < K}
      /\ Cardinality(OfTenant(Chosen, tn)) + quota[tn] = Quota(req, tn)
      /\ Cardinality(OfTenant(Chosen, tn)) \in Nat
      /\ quota[tn] \in Int /\ Quota(req, tn) \in Int
  BY SpentByRounds
<1>4. a \notin Chosen
  BY <1>3 DEF OfTenant
<1>5. CASE quota[tn] > 0
  <2>1. PICK j \in DOMAIN sorted : sorted[j] = a
    BY <1>1, <1>2
  <2>2. j \in queues[tn] \/ SeenKey(a) \in seen
    BY <2>1 DEF ChoiceInv, DroppedWereSeen
  <2>3. SeenKey(a) \in seen
    BY <1>5, <2>1, <2>2 DEF Unseen
  <2>4. Chosen \subseteq EC
    BY DEF Upto
  <2> QED BY <1>2, <1>4, <2>3, <2>4, MetByFirst
<1>6. CASE ~(quota[tn] > 0)
  <2>1. K < Quota(req, tn)
    BY <1>1
  <2>2. ASSUME NEW b PROVE b \in Earlier(FC, a) <=> b \in EC /\ b.tenant = tn /\ Round(FC, b) < K
    <3>1. ASSUME b \in FC, b.tenant = tn PROVE Before(b, a) <=> Round(FC, b) < K
      BY <1>1, <1>2, <3>1, RoundOrder
    <3>2. ASSUME b \in FC, b.tenant = tn, Round(FC, b) < K PROVE b \in EC
      BY <1>1, <1>3, <2>1, <3>2
    <3> QED BY <1>1, <3>1, <3>2 DEF Earlier
  <2>3. Earlier(FC, a) = OfTenant(Chosen, tn)
    BY <1>3, <2>2
  <2>4. K = Cardinality(OfTenant(Chosen, tn))
    BY <2>3 DEF Round, Earlier
  <2> QED BY <1>3, <1>6, <2>1, <2>4
<1> QED BY <1>5, <1>6

-----------------------------------------------------------------------------
(* Every step keeps ChoiceInv.                                             *)

\* What the candidates are chosen from is settled by the inputs.
LEMMA InputsSettle ==
    ASSUME ChoiceInv, UNCHANGED inputs
    PROVE  /\ FC' = FC /\ EC' = EC
           /\ Ordered(cands) /\ \A a \in EC : Round(FC, a) \in Nat
           /\ pc' # "call" => InputsKept'
<1>1. FC' = FC /\ EC' = EC
  BY DEF inputs, FC, EC, Eligible, Quota
<1>2. Ordered(cands)
  <2>1. Ordered(all)
    BY TaskSetsOrdered DEF ChoiceInv, InputsKept
  <2>2. cands \in SUBSET all
    BY DEF ChoiceInv, InputsKept, BoundedRead, Firsts
  <2> QED BY <2>1, <2>2, SubsetOrdered
<1>3. Ordered(FC) /\ EC \subseteq FC
  BY <1>2, SubsetOrdered DEF FC, Firsts, EC, Eligible
<1>4. \A a \in EC : Round(FC, a) \in Nat
  BY <1>3, Rounds
<1>5. ASSUME pc' # "call" PROVE InputsKept'
  <2>1. all' = all /\ cands' = cands /\ req' = req
    BY DEF inputs
  <2>2. BoundedRead(all, req)' = BoundedRead(all, req)
    BY <2>1
  <2> QED BY <1>5, <2>1, <2>2 DEF ChoiceInv, InputsKept
<1> QED BY <1>1, <1>2, <1>4, <1>5

LEMMA InitChoice == Init => ChoiceInv
<1> SUFFICES ASSUME Init PROVE ChoiceInv
  OBVIOUS
<1>1. ~Running /\ pc # "done"
  BY DEF Init, Running
<1>2. InputsKept
  BY DEF Init, InputsKept
<1> QED BY <1>1, <1>2 DEF ChoiceInv, Laid, DroppedWereSeen, InRounds, Lined, Ended

\* After the sort every queue is full and no round has begun.
LEMMA SortChoice == ASSUME IInv, ChoiceInv, Sort PROVE ChoiceInv'
<1>1. /\ UNCHANGED inputs /\ cands' = cands /\ pc = "call" /\ pc' = "turns"
      /\ sorted' = Order(cands) /\ tenants' = TenantsOf(sorted')
      /\ queues' = [tn \in Tenants |-> {k \in DOMAIN sorted' : sorted'[k].tenant = tn}]
      /\ turn' = Len(tenants') /\ progress' = progress /\ out' = out
  BY DEF Sort, inputs
<1>2. out = <<>> /\ progress = TRUE
  BY <1>1 DEF IInv, OnlyIfValid, ChoiceInv, InputsKept
<1>3. FC' = FC /\ EC' = EC /\ Ordered(cands) /\ (\A a \in EC : Round(FC, a) \in Nat) /\ InputsKept'
  BY <1>1, InputsSettle
<1>4. Laid'
  BY <1>1 DEF Laid
<1>5. DroppedWereSeen'
  <2>1. sorted' \in [1..Cardinality(cands) -> cands]
    BY <1>1, <1>3, SortedIs
  <2>2. \A k \in DOMAIN sorted' : sorted'[k].tenant \in Tenants
    BY <1>3, <2>1 DEF Ordered
  <2> QED BY <1>1, <2>2 DEF DroppedWereSeen
<1>6. DOMAIN out' = {}
  BY <1>1, <1>2
<1>7. InRounds'
  <2>1. Len(tenants') \in Nat
    BY <1>1, <1>3, TenantPlaces DEF TenantPlaced
  <2>2. Chosen' = {}
    BY <1>6 DEF Chosen
  <2>3. Upto(0, 0)' = {}
    <3>1. \A a \in EC : ~(Round(FC, a) < 0) /\ 1..0 = {}
      BY <1>3
    <3>2. Upto(0, 0)' = {a \in EC : \/ Round(FC, a) < 0
                                    \/ Round(FC, a) = 0 /\ \E k \in 1..0 : tenants'[k] = a.tenant}
      BY <1>3 DEF Upto
    <3> QED BY <3>1, <3>2
  <2>4. InRound(0, 0)'
    BY <1>1, <1>2, <2>2, <2>3 DEF InRound
  <2>5. 0 \in 0..Len(tenants') /\ 0 \in Nat
    BY <2>1
  <2> QED BY <2>4, <2>5 DEF InRounds
<1>8. Lined' /\ Ended'
  BY <1>1, <1>6 DEF Lined, Ended
<1> QED BY <1>3, <1>4, <1>5, <1>7, <1>8 DEF ChoiceInv

\* Inside a round, as many tenants have had their turn as turn says.
LEMMA WithinRound ==
    ASSUME IInv, ChoiceInv, Running, turn < Len(tenants)
    PROVE  \E K \in Nat : /\ turn \in 0..Len(tenants) /\ InRound(K, turn)
<1>1. PICK K \in Nat : \E T \in 0..Len(tenants) : InRound(K, T)
  BY DEF ChoiceInv, InRounds
<1>2. PICK T \in 0..Len(tenants) : InRound(K, T)
  BY <1>1
<1>3. Len(tenants) \in Nat
  BY WhileRunning DEF TenantPlaced
<1>4. turn = T
  BY <1>2, <1>3 DEF InRound
<1> QED BY <1>2, <1>4

\* A turn that takes a task takes the tenant's task of the round.
LEMMA TakeChoice == ASSUME IInv, ChoiceInv, NEW tn \in Tenants, Take(tn) PROVE ChoiceInv'
<1>1. PICK i \in Unseen(tn) :
        /\ \A j \in Unseen(tn) : i <= j
        /\ queues' = [queues EXCEPT ![tn] = {j \in @ : j > i}]
        /\ seen' = seen \cup {SeenKey(sorted[i])}
        /\ out' = Append(out, sorted[i])
  BY DEF Take
<1>2. /\ pc = "turns" /\ pc' = pc /\ UNCHANGED inputs /\ sorted' = sorted /\ tenants' = tenants
      /\ turn < Len(tenants) /\ tn = tenants[turn + 1] /\ quota[tn] > 0
      /\ turn' = turn + 1 /\ progress' = TRUE /\ Running /\ Running'
  BY DEF Take, MyTurn, Running
<1>3. FC' = FC /\ EC' = EC /\ InputsKept'
  BY <1>2, InputsSettle
<1>4. PICK K \in Nat : turn \in 0..Len(tenants) /\ InRound(K, turn)
  BY <1>2, WithinRound
<1>5. Chosen = Upto(K, turn)
  BY <1>4 DEF InRound
<1> DEFINE a == sorted[i]
<1>6. a \in EC /\ a.tenant = tn /\ Round(FC, a) = K
  BY <1>1, <1>2, <1>4, <1>5, TakesOfRound
<1>7. Laid'
  BY <1>2 DEF ChoiceInv, Laid, inputs
<1>8. DroppedWereSeen'
  <2>1. queues \in [Tenants -> SUBSET DOMAIN sorted] /\ DOMAIN sorted \subseteq Int
    BY <1>2, WhileRunning DEF IInv, TypeOK
  <2> SUFFICES ASSUME NEW j \in DOMAIN sorted, j \notin queues'[sorted[j].tenant]
               PROVE  SeenKey(sorted[j]) \in seen'
    BY <1>2 DEF DroppedWereSeen, SeenKey
  <2>2. j \in queues[sorted[j].tenant] \/ SeenKey(sorted[j]) \in seen
    BY <1>2 DEF ChoiceInv, DroppedWereSeen
  <2>3. ASSUME j \in queues[sorted[j].tenant], SeenKey(sorted[j]) \notin seen PROVE j = i
    <3>1. sorted[j].tenant = tn
      <4>1. ASSUME sorted[j].tenant # tn PROVE FALSE
        BY <1>1, <2>1, <2>3, <4>1
      <4> QED BY <4>1
    <3>2. j \in Unseen(tn) /\ ~(j > i)
      BY <1>1, <2>1, <2>3, <3>1 DEF Unseen
    <3>3. i \in Int /\ j \in Int
      BY <2>1, <3>2 DEF Unseen
    <3> QED BY <1>1, <3>2, <3>3
  <2> QED BY <1>1, <2>2, <2>3
<1> HIDE DEF a
<1>9. /\ out' = Append(out, a) /\ Len(out) \in Nat /\ DOMAIN out = 1..Len(out)
      /\ DOMAIN out' = 1..(Len(out) + 1)
      /\ \A k \in 1..Len(out) : out'[k] = out[k]
      /\ out'[Len(out) + 1] = a
  <2>1. out' = Append(out, a) /\ a \in Candidates /\ out \in Seq(Candidates)
    BY <1>1, <1>2 DEF a, Unseen, Candidates, IInv, TypeOK
  <2> QED BY <2>1
<1>10. Chosen' = Chosen \cup {a}
  <2>1. \A k : k \in DOMAIN out' <=> k \in DOMAIN out \/ k = Len(out) + 1
    BY <1>9
  <2> QED BY <1>9, <2>1 DEF Chosen
<1>11. InRounds'
  <2>1. /\ Upto(K, turn + 1) = Upto(K, turn) \cup {b \in EC : b.tenant = tn /\ Round(FC, b) = K}
        /\ Len(tenants) \in Nat
    BY <1>2, <1>4, ThisTurn, WhileRunning DEF TenantPlaced
  <2>2. {b \in EC : b.tenant = tn /\ Round(FC, b) = K} = {a}
    <3>1. Ordered(FC) /\ EC \subseteq FC
      BY <1>2, WhileRunning
    <3> QED BY <1>6, <3>1, RoundOrder
  <2>3. PICK T \in 0..Len(tenants) : T = turn + 1
    BY <1>2, <1>4, <2>1
  <2>4. Upto(K, T)' = Upto(K, T)
    BY <1>2, <1>3 DEF Upto
  <2>5. InRound(K, T)'
    BY <1>2, <1>5, <1>10, <2>1, <2>2, <2>3, <2>4 DEF InRound
  <2> QED BY <1>2, <2>5 DEF InRounds
<1>12. Lined'
  <2> SUFFICES ASSUME NEW k \in DOMAIN out'
               PROVE  {b \in EC : InTurn(FC, b, out'[k])} = {out'[j] : j \in 1..(k - 1)}
    BY <1>3 DEF Lined
  <2>1. CASE k \in DOMAIN out
    <3>1. {b \in EC : InTurn(FC, b, out[k])} = {out[j] : j \in 1..(k - 1)}
      BY <1>2, <2>1 DEF ChoiceInv, Lined
    <3>2. \A j \in 1..(k - 1) : out'[j] = out[j]
      BY <1>9, <2>1
    <3> QED BY <1>9, <2>1, <3>1, <3>2
  <2>2. CASE k = Len(out) + 1
    <3>1. {b \in EC : InTurn(FC, b, a)} = Upto(K, turn)
      BY <1>2, <1>4, <1>6, ThisTurn
    <3>2. 1..(k - 1) = DOMAIN out
      BY <1>9, <2>2
    <3>3. \A j \in 1..(k - 1) : out'[j] = out[j]
      BY <1>9, <3>2
    <3> QED BY <1>5, <1>9, <2>2, <3>1, <3>2, <3>3 DEF Chosen
  <2> QED BY <1>9, <2>1, <2>2
<1>13. Ended'
  BY <1>2 DEF Ended
<1> QED BY <1>3, <1>7, <1>8, <1>11, <1>12, <1>13 DEF ChoiceInv

\* A tenant that passes had nothing to choose in this round.
LEMMA PassChoice == ASSUME IInv, ChoiceInv, NEW tn \in Tenants, Pass(tn) PROVE ChoiceInv'
<1>1. /\ pc = "turns" /\ pc' = pc /\ UNCHANGED inputs /\ sorted' = sorted /\ tenants' = tenants
      /\ turn < Len(tenants) /\ tn = tenants[turn + 1]
      /\ (quota[tn] > 0 => Unseen(tn) = {})
      /\ queues' = (IF quota[tn] > 0 THEN [queues EXCEPT ![tn] = {}] ELSE queues)
      /\ turn' = turn + 1 /\ progress' = progress /\ seen' = seen /\ out' = out
      /\ Running /\ Running'
  BY DEF Pass, MyTurn, Running
<1>2. FC' = FC /\ EC' = EC /\ InputsKept' /\ Chosen' = Chosen
  BY <1>1, InputsSettle DEF Chosen
<1>3. PICK K \in Nat : turn \in 0..Len(tenants) /\ InRound(K, turn)
  BY <1>1, WithinRound
<1>4. Chosen = Upto(K, turn)
  BY <1>3 DEF InRound
<1>5. \A a \in EC : a.tenant = tn => Round(FC, a) # K
  BY <1>1, <1>3, <1>4, NoneOfRound
<1>6. Laid'
  BY <1>1 DEF ChoiceInv, Laid, inputs
<1>7. DroppedWereSeen'
  <2>1. queues \in [Tenants -> SUBSET DOMAIN sorted]
    BY DEF IInv, TypeOK
  <2> SUFFICES ASSUME NEW j \in DOMAIN sorted, j \notin queues'[sorted[j].tenant]
               PROVE  SeenKey(sorted[j]) \in seen
    BY <1>1 DEF DroppedWereSeen, SeenKey
  <2>2. j \in queues[sorted[j].tenant] \/ SeenKey(sorted[j]) \in seen
    BY <1>1 DEF ChoiceInv, DroppedWereSeen
  <2>3. ASSUME j \in queues[sorted[j].tenant] PROVE quota[tn] > 0 /\ sorted[j].tenant = tn
    <3>1. queues' # queues /\ quota[tn] > 0 /\ queues' = [queues EXCEPT ![tn] = {}]
      BY <1>1, <2>3
    <3>2. ASSUME sorted[j].tenant # tn PROVE FALSE
      BY <2>1, <2>3, <3>1, <3>2
    <3> QED BY <3>1, <3>2
  <2> QED BY <1>1, <2>2, <2>3 DEF Unseen
<1>8. InRounds'
  <2>1. /\ Upto(K, turn + 1) = Upto(K, turn) \cup {b \in EC : b.tenant = tn /\ Round(FC, b) = K}
        /\ Len(tenants) \in Nat
    BY <1>1, <1>3, ThisTurn, WhileRunning DEF TenantPlaced
  <2>2. Upto(K, turn + 1) = Upto(K, turn)
    BY <1>5, <2>1
  <2>3. PICK T \in 0..Len(tenants) : T = turn + 1
    BY <1>1, <1>3, <2>1
  <2>4. Upto(K, T)' = Upto(K, T)
    BY <1>1, <1>2 DEF Upto
  <2>5. progress \/ \A a \in EC : Round(FC, a) = K => \A k \in 1..T : tenants[k] # a.tenant
    <3>1. \A k \in 1..T : k \in 1..turn \/ k = turn + 1
      BY <1>3, <2>3
    <3> QED BY <1>1, <1>3, <1>5, <3>1 DEF InRound
  <2>6. InRound(K, T)'
    BY <1>1, <1>2, <1>4, <2>2, <2>3, <2>4, <2>5 DEF InRound
  <2> QED BY <1>1, <2>6 DEF InRounds
<1>9. Lined'
  BY <1>1, <1>2 DEF ChoiceInv, Lined
<1>10. Ended'
  BY <1>1 DEF Ended
<1> QED BY <1>2, <1>6, <1>7, <1>8, <1>9, <1>10 DEF ChoiceInv
-----------------------------------------------------------------------------

\* The rounds that follow on each other leave no gap.
LEMMA NextRoundChoice == ASSUME IInv, ChoiceInv, NextRound PROVE ChoiceInv'
<1>1. /\ pc = "turns" /\ pc' = pc /\ UNCHANGED inputs /\ turn = Len(tenants)
      /\ progress /\ Len(out) < req.limit /\ progress' = FALSE /\ turn' = 0
      /\ UNCHANGED <<sorted, tenants, queues, seen, out>>
      /\ Running /\ Running'
  BY DEF NextRound, MoreRounds, Running
<1>2. FC' = FC /\ EC' = EC /\ InputsKept' /\ Chosen' = Chosen
  BY <1>1, InputsSettle DEF Chosen
<1>3. Len(tenants) \in Nat /\ \A a \in EC : \E k \in 1..Len(tenants) : tenants[k] = a.tenant
  BY <1>1, WhileRunning DEF TenantPlaced
<1>4. \A a \in EC : Round(FC, a) \in Nat
  BY InputsSettle, <1>1
<1>5. PICK K \in Nat : \E T \in 0..Len(tenants) : InRound(K, T)
  BY <1>1 DEF ChoiceInv, InRounds
<1>6. PICK T \in 0..Len(tenants) : InRound(K, T)
  BY <1>5
<1>7. Chosen = Upto(K, T) /\ (T = Len(tenants) \/ T = 0)
  <2>1. req.limit \in Int /\ Len(out) \in Nat
    BY <1>1, WhileRunning
  <2> QED BY <1>1, <1>6, <2>1 DEF InRound
<1>8. \E L \in Nat : Chosen = {a \in EC : Round(FC, a) < L}
  <2>1. CASE T = 0
    <3>1. Chosen = {a \in EC : Round(FC, a) < K}
      BY <1>7, <2>1 DEF Upto
    <3> QED BY <3>1
  <2>2. CASE T = Len(tenants)
    <3>1. \A a \in EC : Round(FC, a) < K + 1 <=> Round(FC, a) < K \/ Round(FC, a) = K
      BY <1>4
    <3>2. Chosen = {a \in EC : Round(FC, a) < K + 1}
      BY <1>3, <1>7, <2>2, <3>1 DEF Upto
    <3> QED BY <3>2
  <2> QED BY <1>7, <2>1, <2>2
<1>9. InRounds'
  <2>1. PICK L \in Nat : Chosen = {a \in EC : Round(FC, a) < L}
    BY <1>8
  <2>2. Upto(L, 0)' = {a \in EC : Round(FC, a) < L}
    BY <1>1, <1>2 DEF Upto
  <2>3. InRound(L, 0)'
    BY <1>1, <1>2, <2>1, <2>2 DEF InRound
  <2>4. 0 \in 0..Len(tenants')
    BY <1>1, <1>3
  <2> QED BY <2>3, <2>4 DEF InRounds
<1>10. Laid' /\ DroppedWereSeen'
  BY <1>1 DEF ChoiceInv, Laid, DroppedWereSeen, SeenKey, inputs
<1>11. Lined' /\ Ended'
  BY <1>1, <1>2 DEF ChoiceInv, Lined, Ended
<1> QED BY <1>2, <1>9, <1>10, <1>11 DEF ChoiceInv

\* A step that only ends a round or the loop leaves what was chosen as it is.
LEMMA EndChoice == ASSUME IInv, ChoiceInv, Break \/ Finish PROVE ChoiceInv'
<1>1. /\ pc = "turns" /\ pc' \in {"turns", "done"} /\ UNCHANGED inputs /\ turn' = Len(tenants)
      /\ UNCHANGED <<sorted, tenants, queues, seen, out, progress>>
      /\ Running /\ Running'
      /\ turn = turn' \/ Len(out) >= req.limit
      /\ pc' = "done" => ~(progress /\ Len(out) < req.limit)
  BY DEF Break, Finish, MoreRounds, Running
<1>2. FC' = FC /\ EC' = EC /\ InputsKept' /\ Chosen' = Chosen /\ req' = req
  BY <1>1, InputsSettle DEF Chosen, inputs
<1>3. InRounds'
  <2>1. PICK K \in Nat : \E T \in 0..Len(tenants) : InRound(K, T)
    BY <1>1 DEF ChoiceInv, InRounds
  <2>2. PICK T \in 0..Len(tenants) : InRound(K, T)
    BY <2>1
  <2>3. Upto(K, T)' = Upto(K, T)
    BY <1>1, <1>2 DEF Upto
  <2>4. InRound(K, T)'
    BY <1>1, <1>2, <2>2, <2>3 DEF InRound
  <2> QED BY <1>1, <2>4 DEF InRounds
<1>4. Laid' /\ DroppedWereSeen'
  BY <1>1 DEF ChoiceInv, Laid, DroppedWereSeen, SeenKey, inputs
<1>5. Lined'
  BY <1>1, <1>2 DEF ChoiceInv, Lined
<1>6. Ended'
  <2>1. req.limit \in Int /\ Len(out) \in Nat
    BY <1>1, WhileRunning
  <2> QED BY <1>1, <1>2, <2>1 DEF Ended
<1> QED BY <1>2, <1>3, <1>4, <1>5, <1>6 DEF ChoiceInv

LEMMA StepChoice == IInv /\ ChoiceInv /\ [Next \/ Returned]_vars => ChoiceInv'
<1> SUFFICES ASSUME IInv, ChoiceInv, [Next \/ Returned]_vars PROVE ChoiceInv'
  OBVIOUS
<1>1. CASE UNCHANGED vars \/ Returned
  <2>1. UNCHANGED vars
    BY <1>1 DEF Returned
  <2>2. /\ UNCHANGED inputs /\ UNCHANGED <<pc, sorted, tenants, queues, seen, out, progress, turn>>
        /\ all' = all /\ cands' = cands /\ req' = req
    BY <2>1 DEF vars, inputs
  <2>3. FC' = FC /\ EC' = EC /\ Chosen' = Chosen
    BY <2>2, InputsSettle DEF Chosen
  <2>4. InputsKept'
    <3>1. BoundedRead(all, req)' = BoundedRead(all, req)
      BY <2>2
    <3> QED BY <2>2, <3>1 DEF ChoiceInv, InputsKept
  <2>5. \A K, T : InRound(K, T)' <=> InRound(K, T)
    BY <2>2, <2>3 DEF InRound, Upto
  <2>6. Laid' /\ DroppedWereSeen' /\ Lined' /\ Ended'
    BY <2>2, <2>3 DEF ChoiceInv, Laid, DroppedWereSeen, SeenKey, Lined, Ended, Running
  <2>7. InRounds'
    <3>1. Running' <=> Running
      BY <2>2 DEF Running
    <3> QED BY <2>2, <2>5, <3>1 DEF ChoiceInv, InRounds
  <2> QED BY <2>4, <2>6, <2>7 DEF ChoiceInv
<1>2. CASE Reject
  <2>1. UNCHANGED inputs /\ pc' = "rejected" /\ ~Running'
    BY <1>2 DEF Reject, Running
  <2>2. InputsKept'
    BY <2>1, InputsSettle
  <2> QED BY <2>1, <2>2 DEF ChoiceInv, Laid, DroppedWereSeen, InRounds, Lined, Ended
<1>3. CASE Sort
  BY <1>3, SortChoice
<1>4. CASE NextRound
  BY <1>4, NextRoundChoice
<1>5. CASE Break \/ Finish
  BY <1>5, EndChoice
<1>6. ASSUME NEW tn \in Tenants, Take(tn) PROVE ChoiceInv'
  BY <1>6, TakeChoice
<1>7. ASSUME NEW tn \in Tenants, Pass(tn) PROVE ChoiceInv'
  BY <1>7, PassChoice
<1> QED BY <1>1, <1>2, <1>3, <1>4, <1>5, <1>6, <1>7 DEF Next

\* The loop's variables at every turn: which rounds and turns are behind it.
THEOREM TurnsInvariance == Spec => []ChoiceInv
<1>1. Init => IInv /\ ChoiceInv
  BY InitIInv, InitChoice
<1>2. IInv /\ ChoiceInv /\ [Next \/ Returned]_vars => (IInv /\ ChoiceInv)'
  BY StepIInv, StepChoice
<1> QED BY <1>1, <1>2, PTL DEF Spec

-----------------------------------------------------------------------------
(* What a call returns.                                                    *)

\* out holds no task twice.
LEMMA PrefixCount ==
    ASSUME IInv, NEW i \in Nat, i <= Len(out)
    PROVE  IsFiniteSet({out[j] : j \in 1..i}) /\ Cardinality({out[j] : j \in 1..i}) = i
<1> DEFINE P == {out[j] : j \in 1..i}
           g == [j \in 1..i |-> out[j]]
<1>1. Len(out) \in Nat /\ DOMAIN out = 1..Len(out) /\ 1..i \subseteq DOMAIN out
  BY DEF IInv, TypeOK
<1>2. \A j, k \in 1..i : out[j] = out[k] => j = k
  BY <1>1 DEF IInv, OnePerEntity
<1>3. g \in Bijection(1..i, P)
  <2>1. g \in [1..i -> P]
    OBVIOUS
  <2>2. \A j, k \in 1..i : g[j] = g[k] => j = k
    BY <1>2
  <2>3. \A b \in P : \E j \in 1..i : g[j] = b
    OBVIOUS
  <2> HIDE DEF g, P
  <2> QED BY <2>1, <2>2, <2>3 DEF Bijection, Injection, Surjection, IsInjective
<1>4. IsFiniteSet(1..i) /\ Cardinality(1..i) = i
  BY FS_Interval
<1> HIDE DEF P, g
<1>5. IsFiniteSet(P) /\ Cardinality(P) = i
  BY <1>3, <1>4, FS_Bijection DEF ExistsBijection
<1> QED BY <1>5 DEF P

\* A loop that ends below the limit has taken all that the quotas leave.
LEMMA EndedWithAll ==
    ASSUME IInv, ChoiceInv, pc = "done", Len(out) < req.limit
    PROVE  Chosen = EC
<1>1. Running /\ turn = Len(tenants) /\ ~(progress /\ TRUE)
  <2>1. Running
    BY DEF Running
  <2>2. req.limit \in Int /\ Len(out) \in Nat
    BY <2>1, WhileRunning
  <2> QED BY <2>1, <2>2 DEF ChoiceInv, Ended
<1>2. /\ Ordered(FC) /\ EC = {a \in FC : Round(FC, a) < Quota(req, a.tenant)}
      /\ \A a \in FC : Round(FC, a) \in Nat /\ Quota(req, a.tenant) \in Int
      /\ req.limit \in Int /\ Len(out) \in Nat
      /\ \A a \in FC : \E k \in 1..Len(tenants) : tenants[k] = a.tenant
  BY <1>1, WhileRunning DEF TenantPlaced
<1>3. PICK K \in Nat : \E T \in 0..Len(tenants) : InRound(K, T)
  BY <1>1 DEF ChoiceInv, InRounds
<1>4. PICK T \in 0..Len(tenants) : InRound(K, T)
  BY <1>3
<1>5. T = Len(tenants) /\ Chosen = Upto(K, T)
  BY <1>1, <1>2, <1>4 DEF InRound
<1>6. \A a \in EC : Round(FC, a) # K
  BY <1>1, <1>2, <1>4, <1>5 DEF InRound
<1>7. ASSUME NEW a \in EC PROVE Round(FC, a) < K
  <2> SUFFICES ASSUME K <= Round(FC, a) PROVE FALSE
    BY <1>2
  <2>1. K \in 0..Round(FC, a) /\ a \in FC
    BY <1>2
  <2>2. PICK b \in FC : b.tenant = a.tenant /\ Round(FC, b) = K
    BY <1>2, <2>1, Rounds
  <2>3. b \in EC
    BY <1>2, <2>1, <2>2
  <2> QED BY <1>6, <2>2, <2>3
<1> QED BY <1>5, <1>7 DEF Upto

\* SelectClaims returns the tasks that come first, round by round, under the
\* quotas and the limit, and the same ones from the bounded read as from
\* every candidate.
THEOREM TurnsChosen == Spec => []ChoosesInTurns
<1>1. IInv /\ ChoiceInv => ChoosesInTurns
  <2> SUFFICES ASSUME IInv, ChoiceInv, pc = "done" PROVE out = Choice(all, req)
    BY DEF ChoosesInTurns
  <2> DEFINE n == Lesser(Cardinality(EC), req.limit)
  <2>1. /\ Running /\ Ordered(cands) /\ req.limit \in Int /\ req.limit >= 1
        /\ Len(out) \in Nat /\ DOMAIN out = 1..Len(out) /\ Len(out) <= req.limit
    BY WhileRunning DEF Running
  <2>2. IsFiniteSet(EC) /\ Cardinality(EC) \in Nat
    BY <2>1, ChoiceIs DEF EC, FC
  <2>3. Chosen \subseteq EC
    BY <2>1 DEF ChoiceInv, InRounds, InRound, Upto
  <2>4. Cardinality(Chosen) = Len(out)
    <3>1. Len(out) \in Nat /\ Len(out) <= Len(out)
      BY <2>1
    <3>2. Cardinality({out[j] : j \in 1..Len(out)}) = Len(out)
      BY <3>1, PrefixCount
    <3> QED BY <2>1, <3>2 DEF Chosen
  <2>5. Len(out) = n
    <3>1. Len(out) <= Cardinality(EC)
      BY <2>2, <2>3, <2>4, FS_Subset
    <3>2. Len(out) < req.limit => Len(out) = Cardinality(EC)
      BY <2>4, EndedWithAll
    <3> QED BY <2>1, <2>2, <3>1, <3>2 DEF Lesser
  <2>6. ASSUME NEW i \in 1..n
        PROVE  out[i] \in EC /\ Cardinality(Sooner(FC, EC, out[i])) = i - 1
    <3>1. i \in DOMAIN out /\ i - 1 \in Nat /\ i - 1 <= Len(out)
      BY <2>1, <2>5
    <3>2. Sooner(FC, EC, out[i]) = {out[j] : j \in 1..(i - 1)}
      BY <2>1, <3>1 DEF ChoiceInv, Lined, Sooner
    <3>3. Cardinality({out[j] : j \in 1..(i - 1)}) = i - 1
      BY <3>1, PrefixCount
    <3> QED BY <2>3, <3>1, <3>2, <3>3 DEF Chosen
  <2>7. out \in [1..n -> EC]
    <3>1. out \in Seq(Candidates)
      BY DEF IInv, TypeOK
    <3> QED BY <2>1, <2>5, <2>6, <3>1
  <2>8. out = Choice(cands, req)
    <3>1. FC = Firsts(cands) /\ EC = Eligible(FC, req) /\ n = Lesser(Cardinality(EC), req.limit)
      BY DEF FC, EC
    <3> HIDE DEF n
    <3>2. LinedUp(out, n, FC, EC)
      BY <2>6, <2>7 DEF LinedUp
    <3> QED BY <2>1, <3>1, <3>2, ChoiceByLine
  <2>9. Choice(cands, req) = Choice(all, req)
    <3>1. Ordered(all) /\ cands \in {all, BoundedRead(all, req)}
      BY TaskSetsOrdered DEF ChoiceInv, InputsKept
    <3>2. \A tn \in Tenants : Quota(req, tn) \in Int
      BY RequestTyped DEF IInv, TypeOK
    <3> QED BY <2>1, <3>1, <3>2, BoundedReadChooses
  <2> QED BY <2>8, <2>9
<1> QED BY <1>1, ClaimInvariance, TurnsInvariance, PTL
=============================================================================
