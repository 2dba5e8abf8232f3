---------------------------- MODULE SelectClaims ----------------------------
(***************************************************************************)
(* SelectClaims (src/scheduled_task_helpers.go): which of the claimable    *)
(* tasks one ClaimDue call takes.  Candidates are sorted, split into one   *)
(* queue per tenant, and the tenants take turns, one task per turn, until  *)
(* the limit is reached or a whole round takes nothing.  A step of the     *)
(* model is one tenant's turn.                                             *)
(*                                                                         *)
(* A store that reads its candidates from a database hands over not every  *)
(* candidate but, per tenant, the first one of each of the few entities it *)
(* could take (persistence.go, the cost of ClaimDue); cands is either.     *)
(***************************************************************************)
EXTENDS Integers, Sequences, FiniteSets

CONSTANTS Tenants, Entities,  \* of integers, whose order is the byte-wise order of ids
          Times,              \* the values of NextAttemptTime
          MaxTasks,           \* candidates: ids are 1..MaxTasks
          Limits, PerTenantLimits, InProgress

ASSUME SelectAssumption == /\ Tenants \subseteq Int /\ IsFiniteSet(Tenants)
                           /\ Times \subseteq Int
                           /\ MaxTasks \in Nat
                           /\ Limits \subseteq Int /\ PerTenantLimits \subseteq Int
                           /\ InProgress \subseteq Int

Task == [id: 1..MaxTasks, tenant: Tenants, entity: Entities, next: Times]

\* The sort of SelectClaims; inside one tenant it is the order of ClaimDue.
Before(a, b) == \/ a.next < b.next
                \/ a.next = b.next /\ a.tenant < b.tenant
                \/ a.next = b.next /\ a.tenant = b.tenant /\ a.id < b.id

\* The pairs of S that R puts in order.
Pairs(S, R(_, _)) == {p \in S \X S : R(p[1], p[2])}

\* The elements of S in an order given as pairs, each in the place that the
\* elements before it leave.  (Sorting with a definition that proofs can open.)
InLine(S, order) ==
  [i \in 1..Cardinality(S) |-> CHOOSE a \in S : Cardinality({b \in S : <<b, a>> \in order}) = i - 1]

-----------------------------------------------------------------------------
(* What a claim is to choose, with no loop and no queue.                   *)

SameEntity(a, b) == a.tenant = b.tenant /\ a.entity = b.entity

\* The candidates that come first among those of their entity.
Firsts(C) == {a \in C : \A b \in C : SameEntity(a, b) => a = b \/ Before(a, b)}

\* How many of S, tasks of a's tenant, come before a: a is taken in that round.
Round(S, a) == Cardinality({b \in S : b.tenant = a.tenant /\ Before(b, a)})

Head1(S, a) == CHOOSE b \in S : b.tenant = a.tenant /\ Round(S, b) = 0

Quota(r, tn) == r.perTenant - r.inProgress[tn]

\* The first candidates a tenant may take under its quota, in the order of turns.
Choice(C, r) ==
  LET F == Firsts(C)
      E == {a \in F : Round(F, a) < Quota(r, a.tenant)}
      Turn(a, b) == \/ Round(F, a) < Round(F, b)
                    \/ Round(F, a) = Round(F, b) /\ Before(Head1(F, a), Head1(F, b))
      inTurns == InLine(E, Pairs(E, Turn))
  IN [i \in 1..(IF Len(inTurns) < r.limit THEN Len(inTurns) ELSE r.limit) |-> inTurns[i]]

\* What a backend may read instead of every candidate: per tenant the first
\* candidate of each of the min(quota, limit) entities that come earliest.
BoundedRead(C, r) ==
  LET F == Firsts(C) IN {a \in F : Round(F, a) < Quota(r, a.tenant) /\ Round(F, a) < r.limit}

-----------------------------------------------------------------------------
VARIABLES all,     \* every claimable task
          cands,   \* those handed to SelectClaims
          req,     \* the request
          pc,      \* "call", "turns", "done" or "rejected"
          sorted,  \* the candidates after the sort
          queues,  \* per tenant the places in sorted that its queue still holds
          tenants, quota, seen, out, progress,
          turn     \* how many tenants of this round have had their turn

inputs == <<all, cands, req>>
vars == <<inputs, sorted, pc, tenants, queues, quota, seen, out, progress, turn>>

Attributes == [tenant: Tenants, entity: Entities, next: Times]

TaskSets ==
  {{[id |-> i, tenant |-> f[i].tenant, entity |-> f[i].entity, next |-> f[i].next] : i \in DOMAIN f} :
     f \in UNION {[I -> Attributes] : I \in SUBSET (1..MaxTasks)}}

Requests == [limit: Limits, perTenant: PerTenantLimits, inProgress: [Tenants -> InProgress]]

Init == /\ all \in TaskSets
        /\ req \in Requests
        /\ cands \in {all, BoundedRead(all, req)}
        /\ pc = "call"
        /\ sorted = <<>> /\ tenants = <<>>
        /\ queues = [tn \in Tenants |-> {}]
        /\ quota = [tn \in Tenants |-> 0]
        /\ seen = {} /\ out = <<>> /\ progress = TRUE /\ turn = 0

\* Mutant of Valid: a negative count of runs in progress gets through.
ValidLimitsOnly(r) == r.limit >= 1 /\ r.perTenant >= 1

\* ValidateClaimRequest.
Valid(r) == /\ r.limit >= 1 /\ r.perTenant >= 1
            /\ \A tn \in Tenants : r.inProgress[tn] >= 0

Reject == /\ pc = "call"
          /\ ~Valid(req)
          /\ pc' = "rejected"
          /\ UNCHANGED <<inputs, sorted, tenants, queues, quota, seen, out, progress, turn>>

\* Mutant of Order: the tenants in the order of their ids.
ByTenantFirst(C) ==
  InLine(C, Pairs(C, LAMBDA a, b : a.tenant < b.tenant \/ (a.tenant = b.tenant /\ Before(a, b))))

Order(C) == InLine(C, Pairs(C, Before))

\* Mutant of SeenKey: two tenants that use the same entity id share a slot.
EntityOnly(c) == <<CHOOSE tn \in Tenants : TRUE, c.entity>>

SeenKey(c) == <<c.tenant, c.entity>>

\* The tenants in order of first appearance.
TenantsOf(s) ==
  LET First(tn) == CHOOSE i \in DOMAIN s : /\ s[i].tenant = tn
                                           /\ \A j \in 1..(i - 1) : s[j].tenant # tn
      T == {s[i].tenant : i \in DOMAIN s}
  IN InLine(T, Pairs(T, LAMBDA tn, tm : First(tn) < First(tm)))

Sort == /\ pc = "call"
        /\ Valid(req)
        /\ sorted' = Order(cands)
        /\ queues' = [tn \in Tenants |-> {i \in DOMAIN sorted' : sorted'[i].tenant = tn}]
        /\ tenants' = TenantsOf(sorted')
        /\ quota' = [tn \in Tenants |-> req.perTenant - req.inProgress[tn]]
        /\ turn' = Len(tenants')
        /\ pc' = "turns"
        /\ UNCHANGED <<inputs, seen, out, progress>>

\* Mutant of MoreRounds: the loop does not look at progress.
UntilTheLimit == Len(out) < req.limit

\* The outer loop: another round after one that took something, below the limit.
MoreRounds == progress /\ Len(out) < req.limit

NextRound == /\ pc = "turns" /\ turn = Len(tenants)
             /\ MoreRounds
             /\ progress' = FALSE /\ turn' = 0
             /\ UNCHANGED <<inputs, sorted, pc, tenants, queues, quota, seen, out>>

Finish == /\ pc = "turns" /\ turn = Len(tenants)
          /\ ~MoreRounds
          /\ pc' = "done"
          /\ UNCHANGED <<inputs, sorted, tenants, queues, quota, seen, out, progress, turn>>

Unseen(tn) == {i \in queues[tn] : SeenKey(sorted[i]) \notin seen}

MyTurn(tn) == /\ pc = "turns" /\ turn < Len(tenants)
              /\ tn = tenants[turn + 1]

\* The tenant's turn takes the first task whose entity was not met, and drops
\* the tasks before it.
Take(tn) == /\ MyTurn(tn) /\ Len(out) < req.limit
            /\ quota[tn] > 0
            /\ \E i \in Unseen(tn) :
                 /\ \A j \in Unseen(tn) : i <= j
                 /\ queues' = [queues EXCEPT ![tn] = {j \in @ : j > i}]
                 /\ seen' = seen \cup {SeenKey(sorted[i])}
                 /\ out' = Append(out, sorted[i])
            /\ quota' = [quota EXCEPT ![tn] = @ - 1]
            /\ progress' = TRUE /\ turn' = turn + 1
            /\ UNCHANGED <<inputs, sorted, pc, tenants>>

\* Nothing left to take: the quota is used up, or every entity was met.
Pass(tn) == /\ MyTurn(tn) /\ Len(out) < req.limit
            /\ quota[tn] > 0 => Unseen(tn) = {}
            /\ queues' = IF quota[tn] > 0 THEN [queues EXCEPT ![tn] = {}] ELSE queues
            /\ turn' = turn + 1
            /\ UNCHANGED <<inputs, sorted, pc, tenants, quota, seen, out, progress>>

\* The limit is reached inside a round: the other tenants have no turn.
Break == /\ pc = "turns" /\ turn < Len(tenants)
         /\ Len(out) >= req.limit
         /\ turn' = Len(tenants)
         /\ UNCHANGED <<inputs, sorted, pc, tenants, queues, quota, seen, out, progress>>

Next == \/ Reject \/ Sort \/ NextRound \/ Break \/ Finish
        \/ \E tn \in Tenants : Take(tn) \/ Pass(tn)

Returned == pc \in {"done", "rejected"} /\ UNCHANGED vars

Spec == Init /\ [][Next \/ Returned]_vars /\ WF_vars(Next)

-----------------------------------------------------------------------------
\* While the turns are taken, and not only at the end, no tenant is over what
\* its runs in progress leave it, nor over PerTenantLimit, to which a negative
\* count of them would not hold it; and no entity has two tasks.
WithinQuota ==
    /\ \A tn \in Tenants : LET taken == {i \in DOMAIN out : out[i].tenant = tn}
                           IN taken # {} => /\ Cardinality(taken) <= Quota(req, tn)
                                                /\ Cardinality(taken) <= req.perTenant
    /\ \A i, j \in DOMAIN out : SameEntity(out[i], out[j]) => i = j
    /\ Len(out) > 0 => Len(out) <= req.limit

\* A call that is not refused returns the tasks that come first, round by
\* round, each tenant's first before any tenant's second; and it returns the
\* same ones from the bounded read as from every candidate.
ChoosesInTurns == pc = "done" => out = Choice(all, req)

\* The loop ends although a tenant with quota left may have nothing to take.
Terminates == <>(pc \in {"done", "rejected"})
=============================================================================
