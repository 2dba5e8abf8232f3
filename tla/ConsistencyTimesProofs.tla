------------------------- MODULE ConsistencyTimesProofs -------------------------
(* Proofs about ConsistencyTimes for any saves, tenants and calls, any          *)
(* resolution and any number of restarts, whatever the clock reads.  Everything *)
(* rests on the floor: no stamp and no reserved time is above it, so whatever   *)
(* is stamped next is above them all; what holds a stamp already is what the    *)
(* wait is for, and once that is over nothing can come below the time returned. *)
EXTENDS ConsistencyTimes, WellFoundedInduction, TLAPS

TypeOK == /\ clock \in Nat
          /\ floor \in Nat
          /\ phase \in [Save -> Phases]
          /\ stamp \in [Save -> Nat]
          /\ call \in [Call -> CallState]

\* The floor covers every stamp and every time that was ever reserved.
BelowFloor == /\ \A s \in Save : stamp[s] <= floor
              /\ \A k \in Call : call[k].c <= floor

\* What a call has to cover it covers from the moment it reserves.
Covers == \A k \in Call : /\ call[k].known <= call[k].c
                          /\ \A s \in call[k].seen : /\ phase[s] = "acknowledged"
                                                     /\ stamp[s] <= call[k].c

\* A time reserved is the end of its unit.
ClosesUnit == \A k \in Call :
    call[k].phase # "idle" => UnitEnd(call[k].c) = call[k].c

\* Nothing of the tenant that may yet appear is stamped at or below C.
Settled == \A k \in Call : Answered(k) =>
    \A s \in Save : phase[s] = "stamped" /\ TenantOf[s] = call[k].tenant =>
        stamp[s] > call[k].c

IInv == TypeOK /\ BelowFloor /\ Covers /\ ClosesUnit /\ Settled

-----------------------------------------------------------------------------

LEMMA DivBounds ==
  ASSUME NEW t \in Nat
  PROVE  /\ t \div Unit \in Nat
         /\ Unit * (t \div Unit) <= t
         /\ t < Unit * (t \div Unit) + Unit
  BY UnitIsPositive

LEMMA UnitEndIsNat ==
  ASSUME NEW t \in Nat
  PROVE  UnitEnd(t) \in Nat /\ t <= UnitEnd(t)
<1>1. /\ t \div Unit \in Nat
      /\ t < Unit * (t \div Unit) + Unit
  BY DivBounds
<1>2. Unit * (t \div Unit) \in Nat /\ Unit * (t \div Unit) = (t \div Unit) * Unit
  BY <1>1, UnitIsPositive
<1> QED BY <1>1, <1>2, UnitIsPositive DEF UnitEnd

LEMMA MultipleDiv ==
  ASSUME NEW q \in Nat, NEW p \in Nat, Unit * p < Unit * q + Unit
  PROVE  p <= q
<1>1. CASE p > q
  <2>1. p >= q + 1
    BY <1>1
  <2>2. Unit * p >= Unit * (q + 1)
    BY <2>1, UnitIsPositive
  <2>3. Unit * (q + 1) = Unit * q + Unit
    BY UnitIsPositive
  <2>4. Unit * p \in Nat /\ Unit * q \in Nat
    BY UnitIsPositive
  <2> QED BY <2>2, <2>3, <2>4, UnitIsPositive
<1> QED BY <1>1

\* Up to the end of a unit, a widened read stays within it.
LEMMA ReadsStayBelow ==
  ASSUME NEW c \in Nat, UnitEnd(c) = c, NEW t \in 0 .. c
  PROVE  UnitEnd(t) <= c
<1> DEFINE p == t \div Unit
           q == c \div Unit
<1>0. t \in Nat /\ t <= c
  OBVIOUS
<1>1. /\ p \in Nat /\ Unit * p <= t
      /\ q \in Nat /\ c < Unit * q + Unit
  BY <1>0, DivBounds
<1>2. UnitEnd(t) = p * Unit + Unit - 1 /\ UnitEnd(c) = q * Unit + Unit - 1
  BY DEF UnitEnd
<1> HIDE DEF p, q
<1>3. Unit * p \in Nat /\ Unit * q \in Nat
  BY <1>1, UnitIsPositive
<1>4. Unit * p < Unit * q + Unit
  BY <1>0, <1>1, <1>3, UnitIsPositive
<1>5. p <= q
  BY <1>1, <1>4, MultipleDiv
<1>6. p * Unit <= q * Unit
  BY <1>1, <1>5, UnitIsPositive
<1> QED BY <1>1, <1>2, <1>3, <1>6, UnitIsPositive

\* The end of a unit ends its own unit.
LEMMA UnitEndEnds ==
  ASSUME NEW t \in Nat
  PROVE  UnitEnd(UnitEnd(t)) = UnitEnd(t)
<1> DEFINE p == t \div Unit
           e == UnitEnd(t)
           q == e \div Unit
<1>1. p \in Nat /\ e \in Nat /\ t <= e
  BY DivBounds, UnitEndIsNat
<1>2. q \in Nat /\ Unit * q <= e /\ e < Unit * q + Unit
  BY <1>1, DivBounds
<1>3. e = p * Unit + Unit - 1 /\ UnitEnd(e) = q * Unit + Unit - 1
  BY DEF UnitEnd
<1> HIDE DEF p, e, q
<1>4. Unit * p \in Nat /\ Unit * q \in Nat /\ p * Unit = Unit * p /\ q * Unit = Unit * q
  BY <1>1, <1>2, UnitIsPositive
<1>5. Unit * q < Unit * p + Unit
  BY <1>2, <1>3, <1>4, UnitIsPositive
<1>6. Unit * p < Unit * q + Unit
  BY <1>2, <1>3, <1>4, UnitIsPositive
<1>7. p = q
  BY <1>1, <1>2, <1>5, <1>6, MultipleDiv
<1> QED BY <1>3, <1>7 DEF e

\* A set of numbers under a bound has a highest one.
LEMMA HighestIsHighest ==
  ASSUME NEW S \in SUBSET Nat, NEW b \in Nat, S # {}, \A v \in S : v <= b
  PROVE  /\ Highest(S) \in S
         /\ \A w \in S : w <= Highest(S)
<1> DEFINE T == {b - v : v \in S}
<1>1. T \subseteq Nat /\ T # {}
  OBVIOUS
<1>2. PICK m \in T : \A y \in T : ~ (<<y, m>> \in OpToRel(<, Nat))
  BY <1>1, NatLessThanWellFounded, WFMin, Zenon
<1>3. \A y \in T : ~ (y < m)
  BY <1>1, <1>2, Zenon DEF OpToRel
<1>4. PICK x \in S : m = b - x
  OBVIOUS
<1>5. ASSUME NEW w \in S
      PROVE  w <= x
  <2>1. b - w \in T
    OBVIOUS
  <2>2. ~ (b - w < m)
    BY <1>3, <2>1
  <2> QED BY <1>4, <2>2
<1> QED BY <1>5 DEF Highest

\* What a call reserves is above every time returned and every stamp issued.
LEMMA ReservedIsAbove ==
  ASSUME IInv
  PROVE  /\ Reserved \in Nat
         /\ UnitEnd(Reserved) = Reserved
         /\ floor <= Reserved
         /\ HighestKnown \in Nat /\ HighestKnown <= Reserved
<1>1. Higher(clock, floor) \in Nat /\ floor <= Higher(clock, floor)
  BY DEF IInv, TypeOK, Higher
<1>2. Reserved \in Nat /\ floor <= Reserved /\ UnitEnd(Reserved) = Reserved
  BY <1>1, UnitEndIsNat, UnitEndEnds DEF Reserved, IInv, TypeOK
<1> DEFINE S == {0} \cup {call[k].c : k \in {x \in Call : call[x].phase = "answered"}}
<1>3. S \in SUBSET Nat /\ S # {} /\ \A v \in S : v <= floor
  BY DEF IInv, TypeOK, BelowFloor, CallState
<1>4. HighestKnown = Highest(S)
  BY DEF HighestKnown
<1>5. floor \in Nat
  BY DEF IInv, TypeOK
<1> HIDE DEF S
<1>6. Highest(S) \in S
  BY <1>3, <1>5, HighestIsHighest
<1>7. HighestKnown \in Nat /\ HighestKnown <= floor
  BY <1>3, <1>4, <1>6
<1> QED BY <1>2, <1>5, <1>7

-----------------------------------------------------------------------------

LEMMA Starts == Init => IInv
<1> SUFFICES ASSUME Init PROVE IInv
  OBVIOUS
<1>1. TypeOK
  BY ReadingsAreTicks DEF Init, TypeOK, Phases, CallState
<1>2. BelowFloor /\ Covers /\ ClosesUnit /\ Settled
  BY DEF Init, BelowFloor, Covers, ClosesUnit, Settled, Answered
<1> QED BY <1>1, <1>2 DEF IInv

LEMMA SetClockKeeps == IInv /\ SetClock => IInv'
<1> SUFFICES ASSUME IInv, SetClock PROVE IInv'
  OBVIOUS
<1>1. TypeOK'
  BY ReadingsAreTicks DEF IInv, TypeOK, SetClock
<1>2. BelowFloor' /\ Covers' /\ ClosesUnit' /\ Settled'
  BY DEF IInv, SetClock, BelowFloor, Covers, ClosesUnit, Settled, Answered, UnitEnd
<1> QED BY <1>1, <1>2 DEF IInv

LEMMA BeginKeeps == ASSUME IInv, NEW s \in Save, Begin(s) PROVE IInv'
<1>1. TypeOK' /\ floor <= floor'
  BY DEF IInv, TypeOK, Begin, Higher, Phases
<1>2. BelowFloor'
  BY <1>1 DEF IInv, TypeOK, Begin, BelowFloor, CallState
<1>3. Covers' /\ ClosesUnit' /\ Settled'
  BY DEF IInv, TypeOK, Begin, Covers, ClosesUnit, Settled, Answered, CallState, UnitEnd
<1> QED BY <1>1, <1>2, <1>3 DEF IInv

\* A new stamp is above the floor and becomes it.
LEMMA StampIsAbove ==
  ASSUME IInv, NEW s \in Save, Stamp(s)
  PROVE  /\ floor' \in Nat /\ floor < floor'
         /\ stamp' = [stamp EXCEPT ![s] = floor']
  BY DEF IInv, TypeOK, Stamp, Higher

LEMMA StampKeeps == ASSUME IInv, NEW s \in Save, Stamp(s) PROVE IInv'
<1>1. TypeOK'
  BY StampIsAbove DEF IInv, TypeOK, Stamp, Phases
<1>2. BelowFloor'
  <2>1. ASSUME NEW x \in Save PROVE stamp'[x] <= floor'
    BY StampIsAbove DEF IInv, TypeOK, BelowFloor
  <2>2. ASSUME NEW k \in Call PROVE call'[k].c <= floor'
    <3>1. call' = call
      BY DEF Stamp
    <3>2. call[k].c \in Nat /\ call[k].c <= floor /\ floor \in Nat
      BY DEF IInv, TypeOK, BelowFloor, CallState
    <3> QED BY <3>1, <3>2, StampIsAbove
  <2> QED BY <2>1, <2>2 DEF BelowFloor
<1>3. Covers'
  BY StampIsAbove DEF IInv, TypeOK, Stamp, Covers, CallState
<1>4. ClosesUnit'
  BY DEF IInv, Stamp, ClosesUnit, UnitEnd
<1>5. Settled'
  <2> SUFFICES ASSUME NEW k \in Call, Answered(k), NEW x \in Save, phase'[x] = "stamped",
                      TenantOf[x] = call[k].tenant
               PROVE  stamp'[x] > call[k].c
    BY DEF Stamp, Settled, Answered
  <2>1. call[k].c \in Nat /\ call[k].c <= floor /\ floor \in Nat
    BY DEF IInv, TypeOK, BelowFloor, CallState
  <2>2. CASE x = s
    BY <2>1, <2>2, StampIsAbove DEF IInv, TypeOK
  <2>3. CASE x # s
    BY <2>3, StampIsAbove DEF IInv, TypeOK, Settled, Stamp
  <2> QED BY <2>2, <2>3
<1> QED BY <1>1, <1>2, <1>3, <1>4, <1>5 DEF IInv

\* A save moves on and everything else stays.
LEMMA PhaseKeeps ==
  ASSUME IInv, NEW s \in Save, Apply(s) \/ Acknowledge(s) \/ Abort(s)
  PROVE  IInv'
<1>1. PICK p \in Phases \ {"stamped"} :
        /\ phase' = [phase EXCEPT ![s] = p] /\ phase[s] # "acknowledged"
        /\ UNCHANGED <<clock, floor, stamp, call>>
  BY DEF Apply, Acknowledge, Abort, Phases
<1>2. TypeOK' /\ BelowFloor'
  BY <1>1 DEF IInv, TypeOK, BelowFloor
<1>3. Covers' /\ ClosesUnit' /\ Settled'
  BY <1>1 DEF IInv, TypeOK, Covers, ClosesUnit, Settled, Answered, CallState, UnitEnd
<1> QED BY <1>2, <1>3 DEF IInv

LEMMA ReserveKeeps ==
  ASSUME IInv, NEW k \in Call, NEW tn \in Tenant, NEW s \in Save \cup {Free},
         Reserve(k, tn, s)
  PROVE  IInv'
<1> DEFINE r == [phase |-> "waiting", tenant |-> tn, inside |-> s, c |-> Reserved,
                 seen |-> {x \in Save : phase[x] = "acknowledged"}, known |-> HighestKnown]
<1>1. /\ call' = [call EXCEPT ![k] = r]
      /\ floor' = Reserved /\ UNCHANGED <<clock, phase, stamp>>
  BY ReservedIsAbove DEF IInv, TypeOK, Reserve, Higher
<1>2. r \in CallState
  BY ReservedIsAbove DEF CallState
<1>3. /\ r.c = Reserved /\ r.phase = "waiting" /\ r.known = HighestKnown
      /\ r.seen = {x \in Save : phase[x] = "acknowledged"}
  OBVIOUS
<1> HIDE DEF r
<1>4. TypeOK'
  BY <1>1, <1>2, ReservedIsAbove DEF IInv, TypeOK
<1>5. BelowFloor'
  BY <1>1, <1>3, ReservedIsAbove DEF IInv, TypeOK, BelowFloor, CallState
<1>6. Covers'
  BY <1>1, <1>3, ReservedIsAbove DEF IInv, TypeOK, BelowFloor, Covers, CallState
<1>7. ClosesUnit'
  BY <1>1, <1>3, ReservedIsAbove DEF IInv, TypeOK, ClosesUnit, UnitEnd
<1>8. Settled'
  BY <1>1, <1>3 DEF IInv, TypeOK, Settled, Answered
<1> QED BY <1>4, <1>5, <1>6, <1>7, <1>8 DEF IInv

LEMMA AnswerKeeps == ASSUME IInv, NEW k \in Call, Answer(k) PROVE IInv'
<1>1. /\ call' = [call EXCEPT ![k].phase = "answered"] /\ call[k].phase = "waiting"
      /\ InTheWay(k) = {} /\ UNCHANGED <<clock, floor, phase, stamp>>
  BY DEF Answer, Ends
<1>2. TypeOK' /\ BelowFloor'
  BY <1>1 DEF IInv, TypeOK, BelowFloor, CallState
<1>3. Covers' /\ ClosesUnit'
  BY <1>1 DEF IInv, TypeOK, Covers, ClosesUnit, CallState, UnitEnd
<1>4. Settled'
  BY <1>1 DEF IInv, TypeOK, Settled, Answered, InTheWay, CallState
<1> QED BY <1>2, <1>3, <1>4 DEF IInv

LEMMA GiveUpKeeps == ASSUME IInv, NEW k \in Call, GiveUp(k) PROVE IInv'
<1>1. /\ call' = [call EXCEPT ![k].phase = "failed"] /\ call[k].phase = "waiting"
      /\ UNCHANGED <<clock, floor, phase, stamp>>
  BY DEF GiveUp, Ends
<1>2. TypeOK' /\ BelowFloor'
  BY <1>1 DEF IInv, TypeOK, BelowFloor, CallState
<1>3. Covers' /\ ClosesUnit' /\ Settled'
  BY <1>1 DEF IInv, TypeOK, Covers, ClosesUnit, Settled, Answered, CallState, UnitEnd
<1> QED BY <1>2, <1>3 DEF IInv

\* What was not applied is gone; the calls that wait have failed.
LEMMA RestartKeeps == IInv /\ Restart => IInv'
<1> SUFFICES ASSUME IInv, Restart PROVE IInv'
  OBVIOUS
<1>1. TypeOK' /\ floor <= floor'
  BY DEF IInv, TypeOK, Restart, Seed, Phases, CallState
<1>2. \A k \in Call : /\ call'[k].c = call[k].c /\ call'[k].known = call[k].known
                      /\ call'[k].seen = call[k].seen /\ call'[k].tenant = call[k].tenant
                      /\ (call'[k].phase = "idle") = (call[k].phase = "idle")
                      /\ (call'[k].phase = "answered") = (call[k].phase = "answered")
  BY DEF IInv, TypeOK, Restart, CallState
<1>3. \A s \in Save : /\ phase[s] = "acknowledged" => phase'[s] = "acknowledged"
                      /\ phase'[s] # "stamped" /\ stamp'[s] = stamp[s]
  BY DEF IInv, TypeOK, Restart
<1>4. BelowFloor'
  BY <1>1, <1>2, <1>3 DEF IInv, TypeOK, BelowFloor, CallState
<1>5. Covers' /\ Settled'
  BY <1>2, <1>3 DEF IInv, TypeOK, Covers, Settled, Answered, CallState
<1>6. ClosesUnit'
  BY <1>2 DEF IInv, ClosesUnit, UnitEnd
<1> QED BY <1>1, <1>4, <1>5, <1>6 DEF IInv

LEMMA Keeps == IInv /\ [Next]_vars => IInv'
<1> SUFFICES ASSUME IInv, [Next]_vars PROVE IInv'
  OBVIOUS
<1>1. CASE SetClock
  BY <1>1, SetClockKeeps
<1>2. CASE Restart
  BY <1>2, RestartKeeps
<1>3. ASSUME NEW s \in Save, Begin(s) \/ Stamp(s) \/ Apply(s) \/ Acknowledge(s) \/ Abort(s)
      PROVE  IInv'
  BY <1>3, BeginKeeps, StampKeeps, PhaseKeeps
<1>4. ASSUME NEW k \in Call, NEW tn \in Tenant, NEW s \in Save \cup {Free}, Reserve(k, tn, s)
      PROVE  IInv'
  BY <1>4, ReserveKeeps
<1>5. ASSUME NEW k \in Call, Answer(k) \/ GiveUp(k) PROVE IInv'
  BY <1>5, AnswerKeeps, GiveUpKeeps
<1>6. CASE UNCHANGED vars
  BY <1>6 DEF vars, IInv, TypeOK, BelowFloor, Covers, ClosesUnit, Settled, Answered, UnitEnd
<1> QED BY <1>1, <1>2, <1>3, <1>4, <1>5, <1>6 DEF Next

LEMMA Invariance == Spec => []IInv
<1>1. Init => IInv
  BY Starts
<1>2. IInv /\ [Next]_vars => IInv'
  BY Keeps
<1> QED BY <1>1, <1>2, PTL DEF Spec

-----------------------------------------------------------------------------

\* Whatever was acknowledged, for any tenant, before a call began is stamped at
\* or below the time the call returns, though the clock was set back meanwhile.
THEOREM IsComplete == Spec => []Complete
<1>1. IInv => Complete
  BY DEF IInv, Covers, Complete
<1> QED BY <1>1, Invariance, PTL

\* No time returned is below one returned before its call began, a restart and a
\* clock set back between them included.
THEOREM IsMonotonic == Spec => []Monotonic
<1>1. IInv => Monotonic
  BY DEF IInv, Covers, Monotonic
<1> QED BY <1>1, Invariance, PTL

\* An answered call is not touched again.
LEMMA AnsweredStays ==
  ASSUME IInv, [Next]_vars, NEW k \in Call, Answered(k)
  PROVE  call'[k] = call[k]
<1>1. CASE Restart
  BY <1>1 DEF IInv, TypeOK, Answered, Restart
<1>2. ASSUME NEW j \in Call, NEW tn \in Tenant, NEW s \in Save \cup {Free}, Reserve(j, tn, s)
      PROVE  call'[k] = call[k]
  BY <1>2 DEF IInv, TypeOK, Answered, Reserve
<1>3. ASSUME NEW j \in Call, Answer(j) \/ GiveUp(j) PROVE call'[k] = call[k]
  BY <1>3 DEF IInv, TypeOK, Answered, Answer, GiveUp, Ends
<1>4. CASE UNCHANGED call
  BY <1>4
<1>5. ASSUME NEW s \in Save, Begin(s) \/ Stamp(s) \/ Apply(s) \/ Acknowledge(s) \/ Abort(s)
      PROVE  call' = call
  BY <1>5 DEF Begin, Stamp, Apply, Acknowledge, Abort
<1>6. SetClock \/ UNCHANGED vars => UNCHANGED call
  BY DEF SetClock, vars
<1> QED BY <1>1, <1>2, <1>3, <1>4, <1>5, <1>6 DEF Next

\* What a step makes of a save: one that can be seen stays as it is, and one
\* comes to be seen only by the stamp it had, or gets a stamp above the floor.
LEMMA SavesMove ==
  ASSUME IInv, [Next]_vars, NEW x \in Save
  PROVE  /\ phase[x] \in Applied => phase'[x] \in Applied /\ stamp'[x] = stamp[x]
         /\ phase[x] \notin Applied /\ phase'[x] \in Applied =>
              phase[x] = "stamped" /\ stamp'[x] = stamp[x]
         /\ phase[x] # "stamped" /\ phase'[x] = "stamped" =>
              floor < stamp'[x] /\ Stamp(x)
<1>1. ASSUME NEW s \in Save, Stamp(s)
      PROVE  /\ stamp' = [stamp EXCEPT ![s] = floor'] /\ floor < floor'
             /\ phase' = [phase EXCEPT ![s] = "stamped"] /\ phase[s] \in {"unborn", "open"}
  BY <1>1, StampIsAbove DEF Stamp
<1>2. ASSUME NEW s \in Save, Stamp(s) PROVE x = s \/ (stamp'[x] = stamp[x] /\ phase'[x] = phase[x])
  BY <1>1, <1>2 DEF IInv, TypeOK
<1>3. CASE Stamp(x)
  BY <1>1, <1>3 DEF IInv, TypeOK, Applied
<1>4. ASSUME NEW s \in Save, Begin(s) \/ Apply(s) \/ Acknowledge(s) \/ Abort(s)
      PROVE  /\ stamp' = stamp
             /\ \/ phase' = [phase EXCEPT ![s] = "open"] /\ phase[s] = "unborn"
                \/ phase' = [phase EXCEPT ![s] = "committed"] /\ phase[s] = "stamped"
                \/ phase' = [phase EXCEPT ![s] = "acknowledged"] /\ phase[s] = "committed"
                \/ phase' = [phase EXCEPT ![s] = "aborted"] /\ phase[s] \in {"open", "stamped"}
  BY <1>4 DEF Begin, Apply, Acknowledge, Abort
<1>5. ASSUME NEW s \in Save, Begin(s) \/ Apply(s) \/ Acknowledge(s) \/ Abort(s)
      PROVE  /\ stamp'[x] = stamp[x]
             /\ phase[x] \in Applied => phase'[x] \in Applied
             /\ phase[x] \notin Applied /\ phase'[x] \in Applied => phase[x] = "stamped"
             /\ phase'[x] = "stamped" => phase[x] = "stamped"
  BY <1>4, <1>5 DEF IInv, TypeOK, Applied
<1>6. CASE Restart
  BY <1>6 DEF IInv, TypeOK, Restart, Applied
<1>7. CASE UNCHANGED <<phase, stamp>>
  BY <1>7
<1>8. ASSUME SetClock \/ UNCHANGED vars PROVE UNCHANGED <<phase, stamp>>
  BY <1>8 DEF SetClock, vars
<1>9. ASSUME NEW j \in Call, NEW tn \in Tenant, NEW s \in Save \cup {Free}, Reserve(j, tn, s)
      PROVE  UNCHANGED <<phase, stamp>>
  BY <1>9 DEF Reserve
<1>10. ASSUME NEW j \in Call, Answer(j) \/ GiveUp(j) PROVE UNCHANGED <<phase, stamp>>
  BY <1>10 DEF Answer, GiveUp, Ends
<1> QED BY <1>2, <1>3, <1>5, <1>6, <1>7, <1>8, <1>9, <1>10 DEF Next

\* What a read of the tenant at or below a time returned sees is final.
THEOREM IsFinal == Spec => Final
<1>1. ASSUME IInv, [Next]_vars, NEW k \in Call, Answered(k), NEW t \in 0 .. call[k].c
      PROVE  SeenAt(call[k].tenant, t)' = SeenAt(call[k].tenant, t)
  <2>1. call'[k] = call[k]
    BY <1>1, AnsweredStays
  <2>2. call[k].c \in Nat /\ UnitEnd(call[k].c) = call[k].c
    BY <1>1 DEF IInv, TypeOK, ClosesUnit, Answered, CallState
  <2>3. t \in Nat /\ UnitEnd(t) \in Nat /\ UnitEnd(t) <= call[k].c
    BY <2>2, ReadsStayBelow, UnitEndIsNat
  <2>4. ASSUME NEW x \in Save, TenantOf[x] = call[k].tenant
        PROVE  phase'[x] \in Applied /\ stamp'[x] <= UnitEnd(t)
               <=> phase[x] \in Applied /\ stamp[x] <= UnitEnd(t)
    <3>1. CASE phase[x] \in Applied
      BY <1>1, <3>1, SavesMove
    <3>2. CASE phase[x] \notin Applied /\ phase'[x] \in Applied
      <4>1. phase[x] = "stamped" /\ stamp'[x] = stamp[x]
        BY <1>1, <3>2, SavesMove
      <4>2. stamp[x] \in Nat /\ stamp[x] > call[k].c
        BY <1>1, <2>4, <4>1 DEF IInv, TypeOK, Settled
      <4> QED BY <2>2, <2>3, <3>2, <4>1, <4>2
    <3> QED BY <3>1, <3>2
  <2> QED BY <2>1, <2>4 DEF SeenAt, UnitEnd
<1>2. IInv /\ [Next]_vars =>
        [\A k \in Call : Answered(k) =>
           \A t \in 0 .. call[k].c :
              SeenAt(call[k].tenant, t)' = SeenAt(call[k].tenant, t)]_vars
  BY <1>1
<1> QED BY <1>2, Invariance, PTL DEF Spec, Final

\* A save stamped after another was applied, or after a time was returned, is
\* stamped above it.
THEOREM TheyRise == Spec => StampsRise
<1>1. ASSUME IInv, [Next]_vars, NEW s \in Save, phase[s] # "stamped", phase'[s] = "stamped"
      PROVE  /\ \A x \in Save : phase[x] \in Applied => stamp[x] < stamp'[s]
             /\ \A k \in Call : Answered(k) => call[k].c < stamp'[s]
  <2>1. floor \in Nat /\ floor < stamp'[s] /\ stamp'[s] \in Nat
    BY <1>1, SavesMove, Keeps DEF IInv, TypeOK
  <2> QED BY <1>1, <2>1 DEF IInv, TypeOK, BelowFloor, CallState
<1>2. IInv /\ [Next]_vars =>
        [\A s \in Save : phase[s] # "stamped" /\ phase'[s] = "stamped" =>
           /\ \A x \in Save : phase[x] \in Applied => stamp[x] < stamp'[s]
           /\ \A k \in Call : Answered(k) => call[k].c < stamp'[s]]_vars
  BY <1>1
<1> QED BY <1>2, Invariance, PTL DEF Spec, StampsRise
=============================================================================
