--------------------------- MODULE ConsistencyTimes ---------------------------
(* Submit times and consistency times: what TransactionManager                 *)
(* (transaction.go:72-108) promises of GetSubmitTime, ConsistencyTime and      *)
(* LatestRecordedTime, by the mechanism it names: "reserve, then wait".  All   *)
(* stamps come from one floor, kept across restarts, and from a business clock *)
(* that may be set to any instant (plugin.go:50-60).  A save has its stamp     *)
(* before it is committed, so one with a low stamp may appear late: that is    *)
(* what a consistency time has to exclude.                                     *)
EXTENDS Integers, FiniteSets

CONSTANTS Save, Tenant, TenantOf,   \* the saves, each of one tenant
          Call,                     \* the calls of ConsistencyTime
          Free,                     \* a call made outside any transaction
          Unit,                     \* the resolution of an as-at read, in ticks
          Reading,                  \* what the clock may read, in ticks
          MaxRestarts               \* bound

ASSUME SavesHaveTenants == TenantOf \in [Save -> Tenant] /\ Free \notin Save
ASSUME UnitIsPositive == Unit \in Nat \ {0}
ASSUME ReadingsAreTicks == Reading \subseteq Nat

VARIABLES clock,    \* the business clock's reading
          floor,    \* no later stamp is at or below it: LatestRecordedTime
          phase,    \* save -> where it is in its life
          stamp,    \* save -> its submit time, once it has one
          call,     \* call -> its progress
          restarts

vars == <<clock, floor, phase, stamp, call, restarts>>

Phases == {"unborn", "open", "stamped", "committed", "acknowledged", "aborted"}
Applied == {"committed", "acknowledged"}

\* seen and known are history: the saves acknowledged and the highest
\* consistency time returned before the call began.
CallState == [phase: {"idle", "waiting", "answered", "failed"}, tenant: Tenant,
              inside: Save \cup {Free}, c: Nat, seen: SUBSET Save, known: Nat]

Init == /\ clock \in Reading
        /\ floor = 0
        /\ phase = [s \in Save |-> "unborn"]
        /\ stamp = [s \in Save |-> 0]
        /\ \E tn \in Tenant :
             call = [k \in Call |-> [phase |-> "idle", tenant |-> tn, inside |-> Free,
                                     c |-> 0, seen |-> {}, known |-> 0]]
        /\ restarts = 0

-----------------------------------------------------------------------------

Higher(a, b) == IF a > b THEN a ELSE b

\* The last instant of the unit an as-at read widens t to.
UnitEnd(t) == (t \div Unit) * Unit + Unit - 1

\* What a read of the tenant as at t sees.
SeenAt(tn, t) == {s \in Save : /\ phase[s] \in Applied /\ TenantOf[s] = tn
                               /\ stamp[s] <= UnitEnd(t)}

\* The transaction of the save is busy with a call made inside it.
Busy(s) == \E k \in Call : call[k].phase = "waiting" /\ call[k].inside = s

\* The clock may run, stand still, or be set back.
SetClock == /\ clock' \in Reading \ {clock}
            /\ UNCHANGED <<floor, phase, stamp, call, restarts>>

\* Begin issues a SnapshotTime.
Begin(s) == /\ phase[s] = "unborn"
            /\ phase' = [phase EXCEPT ![s] = "open"]
            /\ floor' = Higher(clock, floor)
            /\ UNCHANGED <<clock, stamp, call, restarts>>

\* Mutant: the floor itself may be stamped again.
StampAtFloor(s) == /\ phase[s] \in {"unborn", "open"} /\ ~Busy(s)
                   /\ LET now == Higher(clock, floor)
                      IN /\ stamp' = [stamp EXCEPT ![s] = now]
                         /\ floor' = now
                   /\ phase' = [phase EXCEPT ![s] = "stamped"]
                   /\ UNCHANGED <<clock, call, restarts>>

\* Commit, or a save without a transaction, draws its stamp: the clock's
\* reading, or just above the floor when the clock is not beyond it.
Stamp(s) == /\ phase[s] \in {"unborn", "open"} /\ ~Busy(s)
            /\ LET now == Higher(clock, floor + 1)
               IN /\ stamp' = [stamp EXCEPT ![s] = now]
                  /\ floor' = now
            /\ phase' = [phase EXCEPT ![s] = "stamped"]
            /\ UNCHANGED <<clock, call, restarts>>

\* Its writes appear, all at once; its caller hears of it later, or it aborts.
Apply(s) == /\ phase[s] = "stamped"
            /\ phase' = [phase EXCEPT ![s] = "committed"]
            /\ UNCHANGED <<clock, floor, stamp, call, restarts>>

Acknowledge(s) == /\ phase[s] = "committed"
                  /\ phase' = [phase EXCEPT ![s] = "acknowledged"]
                  /\ UNCHANGED <<clock, floor, stamp, call, restarts>>

Abort(s) == /\ phase[s] \in {"open", "stamped"} /\ ~Busy(s)
            /\ phase' = [phase EXCEPT ![s] = "aborted"]
            /\ UNCHANGED <<clock, floor, stamp, call, restarts>>

-----------------------------------------------------------------------------

Highest(S) == CHOOSE v \in S : \A w \in S : w <= v
HighestKnown == Highest({0} \cup {call[k].c : k \in {x \in Call : call[x].phase = "answered"}})

\* Mutant: the clock's reading stands for the highest stamp issued.
ReservedByClock == UnitEnd(clock)

\* The whole unit is closed, so that no read at C sees beyond it.
Reserved == UnitEnd(Higher(clock, floor))

\* Reserve: from here on every new stamp is above C.
Reserve(k, tn, s) ==
    /\ call[k].phase = "idle"
    /\ s \in Save => phase[s] = "open" /\ TenantOf[s] = tn /\ ~Busy(s)
    /\ call' = [call EXCEPT ![k] =
                  [phase |-> "waiting", tenant |-> tn, inside |-> s, c |-> Reserved,
                   seen |-> {x \in Save : phase[x] = "acknowledged"},
                   known |-> HighestKnown]]
    /\ floor' = Higher(floor, Reserved)
    /\ UNCHANGED <<clock, phase, stamp, restarts>>

\* Mutant: a stamp equal to C is taken for one above it.
InTheWayBelow(k) == {s \in Save : /\ phase[s] = "stamped" /\ TenantOf[s] = call[k].tenant
                                  /\ stamp[s] < call[k].c}
\* Mutant: waits for every open transaction of the tenant as well.
InTheWayOpen(k) == {s \in Save : /\ TenantOf[s] = call[k].tenant
                                 /\ phase[s] \in {"open", "stamped"}
                                 /\ stamp[s] <= call[k].c}

\* The saves of the tenant that hold a stamp at or below C and may yet appear.
InTheWay(k) == {s \in Save : /\ phase[s] = "stamped" /\ TenantOf[s] = call[k].tenant
                             /\ stamp[s] <= call[k].c}

Ends(k, how) == /\ call[k].phase = "waiting"
                /\ call' = [call EXCEPT ![k].phase = how]
                /\ UNCHANGED <<clock, floor, phase, stamp, restarts>>

Answer(k) == InTheWay(k) = {} /\ Ends(k, "answered")

\* The wait budget runs out: ErrConsistencyTimeUnavailable, never a guess.
GiveUp(k) == Ends(k, "failed")

-----------------------------------------------------------------------------

\* Mutant: the floor is seeded from the rows that are there.
SeedFromRows == {Highest({0} \cup {stamp[s] : s \in {x \in Save : phase[x] \in Applied}})}

\* A store that persists its high-water mark seeds the floor from it, and may
\* seed it higher.
Seed == {floor, floor + 1}

\* The nodes restart: what was not applied is gone, and so are the calls.  A
\* committed save whose answer was not sent stays unacknowledged for good.
Restart ==
    /\ restarts < MaxRestarts
    /\ restarts' = restarts + 1
    /\ floor' \in Seed
    /\ phase' = [s \in Save |-> IF phase[s] \in {"open", "stamped"} THEN "aborted"
                                                                    ELSE phase[s]]
    /\ call' = [k \in Call |-> IF call[k].phase = "waiting"
                               THEN [call[k] EXCEPT !.phase = "failed"] ELSE call[k]]
    /\ UNCHANGED <<clock, stamp>>

Next == \/ SetClock \/ Restart
        \/ \E s \in Save : Begin(s) \/ Stamp(s) \/ Apply(s) \/ Acknowledge(s) \/ Abort(s)
        \/ \E k \in Call, tn \in Tenant, s \in Save \cup {Free} : Reserve(k, tn, s)
        \/ \E k \in Call : Answer(k) \/ GiveUp(k)

Spec == Init /\ [][Next]_vars

\* A save that has its stamp is applied or aborted; a call looks again.  A
\* transaction that has none yet may stay open, and the budget may be long.
Fairness == /\ \A s \in Save : WF_vars(Apply(s) \/ (phase[s] = "stamped" /\ Abort(s)))
            /\ \A k \in Call : WF_vars(Answer(k))

FairSpec == Spec /\ Fairness

-----------------------------------------------------------------------------

Answered(k) == call[k].phase = "answered"

\* Complete: every save, of any tenant, acknowledged before the call began has
\* a stamp at or below C, whatever the clock did since that save.
Complete == \A k \in Call : Answered(k) => \A s \in call[k].seen : stamp[s] <= call[k].c

\* Monotonic: no C is below one that was returned before its call began, for
\* any tenant and across a restart and a clock set back.
Monotonic == \A k \in Call : Answered(k) => call[k].known <= call[k].c

\* Final: what a read of the tenant at T <= C sees never changes again once C
\* was returned: no save appears there late.
Final == [][\A k \in Call : Answered(k) =>
              \A t \in 0 .. call[k].c :
                 SeenAt(call[k].tenant, t)' = SeenAt(call[k].tenant, t)]_vars

\* Submit times order the saves: one stamped after another was acknowledged,
\* or after a C was returned, is stamped above it (spitest/clock.go:141-154).
StampsRise ==
    [][\A s \in Save : phase[s] # "stamped" /\ phase'[s] = "stamped" =>
         /\ \A x \in Save : phase[x] \in Applied => stamp[x] < stamp'[s]
         /\ \A k \in Call : Answered(k) => call[k].c < stamp'[s]]_vars

\* A call made inside a transaction, which stays open for as long as the call
\* takes, is not in its own way: every call ends.
Answers == \A k \in Call : call[k].phase = "waiting" ~> call[k].phase # "waiting"
=============================================================================
