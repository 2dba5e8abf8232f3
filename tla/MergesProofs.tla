---------------------------- MODULE MergesProofs ----------------------------
(***************************************************************************)
(* The stream of MergeOrdered is in order, fails only after what was       *)
(* fetched, and implements ViewStream, for any number of rows, keys and    *)
(* ids.  InOrder is not inductive: it has to be known that whatever was    *)
(* yielded sorts before everything still to come.  What is yielded when    *)
(* the source fails, and what is still pending, need more: FrontInv says   *)
(* which rows those yielded are, the overlay rows and the live committed   *)
(* rows of the view before the place the stream has reached, and that no   *)
(* overlay row before that place is left and none behind it is taken.      *)
(*                                                                         *)
(* A page of MergeBounded is the complete merged view within its limit or  *)
(* a refusal, and the committed source is pulled lazily, for any rows,     *)
(* keys, ids and limits.  Neither property is inductive: both need what    *)
(* the rows taken are, the first laid of the overlay and the live          *)
(* committed ones before the buffered one, none twice, and that they       *)
(* number no more than limit + 1.  The order of the page needs in turn     *)
(* that whatever was taken sorts no later than everything still to come.   *)
(***************************************************************************)
EXTENDS MergeOrdered, MergeBounded, FiniteSetTheorems, SequenceTheorems, TLAPS

-----------------------------------------------------------------------------
(* The stream of MergeOrdered.                                             *)

\* Every row yielded sorts before the buffered committed row and the ones after
\* it, and before the overlay rows not taken yet.
AheadOfYielded ==
    \A k \in DOMAIN out :
      /\ pos > 0
      /\ \A i \in DOMAIN committed : i >= pos => Less(out[k].row, committed[i])
      /\ \A j \in DOMAIN adds : j > ai => Less(out[k].row, adds[j])

IInv == TypeOK /\ InOrder /\ AheadOfYielded

-----------------------------------------------------------------------------
\* The order is transitive.
LEMMA LessTransitive ==
    ASSUME NEW a \in Entity, NEW b \in Entity, NEW c \in Entity,
           Less(a, b), Less(b, c)
    PROVE  Less(a, c)
<1>1. /\ a.key \in Int /\ b.key \in Int /\ c.key \in Int
      /\ a.id \in Int /\ b.id \in Int /\ c.id \in Int
  BY OrderAssumption DEF Entity
<1> QED BY <1>1 DEF Less

\* What Rows promises of each argument, without its bound.
LEMMA RowsAreSorted ==
    ASSUME NEW s \in Rows
    PROVE  s \in Seq(Entity) /\ Sorted(s)
<1>1. PICK n \in 0..MaxRows : s \in [1..n -> Entity]
  BY DEF Rows
<1>2. n \in Nat /\ s \in Seq(Entity)
  BY <1>1, OrderAssumption
<1> QED BY <1>2 DEF Rows

LEMMA InitIInv == Init => IInv
<1> SUFFICES ASSUME Init PROVE IInv
  OBVIOUS
<1>1. /\ committed \in Seq(Entity) /\ Sorted(committed)
      /\ adds \in Seq(Entity) /\ Sorted(adds)
  BY RowsAreSorted DEF Init, Given
<1>2. TypeOK
  BY <1>1 DEF Init, Given, TypeOK, FailPoints
<1> QED BY <1>2 DEF Init, IInv, InOrder, AheadOfYielded

\* A row that sorts before all that is left can be appended to what was yielded.
LEMMA AppendKeepsOrder ==
    ASSUME IInv, NEW row \in Entity, NEW origin \in {"overlay", "committed"},
           NEW q \in 1..(Len(committed) + 1), NEW a \in 0..Len(adds),
           pos' = q, ai' = a, UNCHANGED args, Yield(origin, row),
           \A k \in DOMAIN out : Less(out[k].row, row),
           q >= pos, a >= ai,
           \A i \in DOMAIN committed : i >= q => Less(row, committed[i]),
           \A j \in DOMAIN adds : j > a => Less(row, adds[j])
    PROVE  IInv'
<1> DEFINE new == [from |-> origin, row |-> row]
<1>1. /\ out \in Seq([from : {"overlay", "committed"}, row : Entity])
      /\ new \in [from : {"overlay", "committed"}, row : Entity]
      /\ out' = Append(out, new)
  BY DEF IInv, TypeOK, Yield
<1>2. /\ Len(out) \in Nat
      /\ DOMAIN out = 1..Len(out)
      /\ DOMAIN out' = 1..(Len(out) + 1)
      /\ \A k \in DOMAIN out : out'[k] = out[k]
      /\ out'[Len(out) + 1] = new
  BY <1>1
<1>3. TypeOK'
  BY <1>1 DEF IInv, TypeOK, Yield, args, FailPoints
<1>4. InOrder'
  BY <1>2 DEF IInv, InOrder
<1>5. AheadOfYielded'
  <2> SUFFICES ASSUME NEW k \in DOMAIN out'
               PROVE  /\ pos' > 0
                      /\ \A i \in DOMAIN committed : i >= q => Less(out'[k].row, committed[i])
                      /\ \A j \in DOMAIN adds : j > a => Less(out'[k].row, adds[j])
    BY DEF AheadOfYielded, args
  <2>1. pos \in Nat /\ ai \in Nat /\ q \in Nat /\ a \in Nat /\ q > 0
    BY DEF IInv, TypeOK
  <2>2. CASE k \in DOMAIN out
    <3>1. /\ \A i \in DOMAIN committed : i >= pos => Less(out[k].row, committed[i])
          /\ \A j \in DOMAIN adds : j > ai => Less(out[k].row, adds[j])
      BY <2>2 DEF IInv, AheadOfYielded
    <3>2. /\ \A i \in DOMAIN committed : i \in Nat /\ (i >= q => i >= pos)
          /\ \A j \in DOMAIN adds : j \in Nat /\ (j > a => j > ai)
      BY <2>1 DEF IInv, TypeOK
    <3> QED BY <1>2, <2>1, <2>2, <3>1, <3>2
  <2>3. CASE k = Len(out) + 1
    BY <1>2, <2>1, <2>3
  <2> QED BY <1>2, <2>2, <2>3
<1> QED BY <1>3, <1>4, <1>5 DEF IInv

\* One call of the stream.  The buffer's call of next is the one made so far, or
\* the first; either way all that was yielded sorts before what it holds.
LEMMA PullIInv == IInv /\ Pull => IInv'
<1> SUFFICES ASSUME IInv, Pull PROVE IInv'
  OBVIOUS
<1>1. PICK p \in 1..(Len(committed) + 1) :
        /\ Primed(p)
        /\ ReturnError(p) \/ TakeAdd(p) \/ TakeCollision(p) \/ TakeCommitted(p) \/ ReturnEnd(p)
  BY DEF Pull
<1>2. UNCHANGED args
  BY DEF Pull
<1>t. /\ committed \in Seq(Entity) /\ adds \in Seq(Entity)
      /\ Sorted(committed) /\ Sorted(adds)
      /\ ai \in 0..Len(adds) /\ pos \in 0..(Len(committed) + 1)
      /\ Len(adds) \in Nat /\ Len(committed) \in Nat
      /\ DOMAIN committed = 1..Len(committed) /\ DOMAIN adds = 1..Len(adds)
      /\ \A i \in DOMAIN committed : committed[i] \in Entity
      /\ \A j \in DOMAIN adds : adds[j] \in Entity
  BY DEF IInv, TypeOK
<1>3. p >= pos /\ (pos > 0 => p = pos)
  BY <1>1, <1>t DEF Primed, AdvancesTo
<1>4. \A k \in DOMAIN out :
        /\ \A i \in DOMAIN committed : i >= p => Less(out[k].row, committed[i])
        /\ \A j \in DOMAIN adds : j > ai => Less(out[k].row, adds[j])
  BY <1>3 DEF IInv, AheadOfYielded
<1>5. CASE ReturnError(p)
  BY <1>2, <1>3, <1>5, <1>t DEF ReturnError, IInv, TypeOK, InOrder, AheadOfYielded, args, FailPoints
<1>6. CASE ReturnEnd(p)
  BY <1>2, <1>3, <1>6, <1>t DEF ReturnEnd, IInv, TypeOK, InOrder, AheadOfYielded, args, FailPoints
<1>7. ASSUME HaveAdd
      PROVE  /\ ai + 1 \in DOMAIN adds /\ adds[ai + 1] \in Entity
             /\ \A j \in DOMAIN adds : j > ai + 1 => Less(adds[ai + 1], adds[j])
             /\ \A k \in DOMAIN out : Less(out[k].row, adds[ai + 1])
  BY <1>7, <1>t, <1>4 DEF HaveAdd, Sorted
<1>8. ASSUME Buffered(p)
      PROVE  /\ committed[p] \in Entity
             /\ \A i \in DOMAIN committed : i > p => Less(committed[p], committed[i])
             /\ \A k \in DOMAIN out : Less(out[k].row, committed[p])
  BY <1>8, <1>t, <1>4 DEF Buffered, Sorted
<1>9. CASE TakeAdd(p)
  <2>1. HaveAdd /\ p # failAt /\ pos' = p /\ ai' = ai + 1
        /\ Yield("overlay", adds[ai + 1])
    BY <1>9 DEF TakeAdd
  <2>2. \A i \in DOMAIN committed : i >= p => Less(adds[ai + 1], committed[i])
    <3> SUFFICES ASSUME NEW i \in DOMAIN committed, i >= p
                 PROVE  Less(adds[ai + 1], committed[i])
      OBVIOUS
    <3>1. Buffered(p)
      BY <2>1, <1>t DEF Buffered
    <3>2. Less(adds[ai + 1], committed[p])
      BY <3>1, <1>9 DEF TakeAdd
    <3>3. CASE i = p
      BY <3>2, <3>3
    <3>4. CASE i > p
      BY <3>1, <3>2, <3>4, <1>7, <1>8, <2>1, <1>t, LessTransitive
    <3> QED BY <3>3, <3>4, <1>t
  <2> QED
    BY <2>1, <2>2, <1>2, <1>3, <1>7, <1>t, AppendKeepsOrder
<1>10. CASE TakeCollision(p)
  <2>1. HaveAdd /\ Buffered(p) /\ adds[ai + 1] = committed[p] /\ ai' = ai + 1
        /\ Yield("overlay", adds[ai + 1]) /\ Advance(p)
    BY <1>10 DEF TakeCollision
  <2>2. PICK q \in 1..(Len(committed) + 1) : q > p /\ pos' = q
    BY <2>1, <1>t DEF Advance, AdvancesTo
  <2>3. \A i \in DOMAIN committed : i >= q => Less(adds[ai + 1], committed[i])
    BY <2>1, <2>2, <1>8, <1>t
  <2> QED
    BY <2>1, <2>2, <2>3, <1>2, <1>3, <1>7, <1>t, AppendKeepsOrder
<1>11. CASE TakeCommitted(p)
  <2>1. Buffered(p) /\ ai' = ai /\ Yield("committed", committed[p]) /\ Advance(p)
    BY <1>11 DEF TakeCommitted
  <2>2. PICK q \in 1..(Len(committed) + 1) : q > p /\ pos' = q
    BY <2>1, <1>t DEF Advance, AdvancesTo
  <2>3. \A i \in DOMAIN committed : i >= q => Less(committed[p], committed[i])
    BY <2>1, <2>2, <1>8, <1>t
  <2>4. \A j \in DOMAIN adds : j > ai => Less(committed[p], adds[j])
    <3> SUFFICES ASSUME NEW j \in DOMAIN adds, j > ai
                 PROVE  Less(committed[p], adds[j])
      OBVIOUS
    <3>1. HaveAdd /\ Less(committed[p], adds[ai + 1])
      BY <1>11, <1>t DEF TakeCommitted, HaveAdd
    <3>2. CASE j = ai + 1
      BY <3>1, <3>2
    <3>3. CASE j > ai + 1
      BY <3>1, <3>3, <1>7, <1>8, <2>1, <1>t, LessTransitive
    <3> QED BY <3>2, <3>3, <1>t
  <2> QED
    BY <2>1, <2>2, <2>3, <2>4, <1>2, <1>3, <1>8, <1>t, AppendKeepsOrder
<1> QED BY <1>1, <1>5, <1>6, <1>9, <1>10, <1>11

\* MergeOrdered's variables keep their types and its output stays in order,
\* whatever the inputs: the stream a caller pulls is the merged order.
THEOREM StreamInOrder == Spec => []InOrder
<1>1. IInv /\ [Next]_vars => IInv'
  <2> SUFFICES ASSUME IInv, [Next]_vars PROVE IInv'
    OBVIOUS
  <2>1. CASE UNCHANGED vars
    BY <2>1 DEF vars, args, IInv, TypeOK, InOrder, AheadOfYielded, FailPoints
  <2> QED BY <2>1, PullIInv DEF Next
<1>2. IInv => InOrder
  BY DEF IInv
<1> QED BY InitIInv, <1>1, <1>2, PTL DEF Spec

-----------------------------------------------------------------------------
(* What was yielded, exactly: the rows of the view before the place the    *)
(* stream has reached, which a pull moves over the rows it takes or skips. *)

Live(i) == committed[i].id \notin deleted

\* The call of next the stream waits at hands over a live row, fails or finds
\* the end; none before it failed.
AtStop == /\ pos > 0 => Stops(pos)
          /\ failAt # 0 => pos <= failAt

OverlayTo(a) == {[from |-> "overlay", row |-> adds[j]] : j \in 1..a}
CommittedTo(p) == {[from |-> "committed", row |-> committed[i]] :
                     i \in {i \in DOMAIN committed :
                              i < p /\ Live(i) /\ \A j \in DOMAIN adds : adds[j] # committed[i]}}

Delivered == {out[k] : k \in DOMAIN out}
Taken == Delivered = OverlayTo(ai) \cup CommittedTo(pos)

NotAfter(a, c) == a = c \/ Less(a, c)

\* Overlay rows up to a committed row that was passed are taken.
NoneLeftBehind == \A i \in DOMAIN committed, j \in DOMAIN adds :
                    i < pos /\ Live(i) /\ NotAfter(adds[j], committed[i]) => j <= ai

\* Until the end of the source is found, an overlay row is taken only up to a
\* committed row that was fetched.
NoneAhead == pos \in DOMAIN committed \cup {failAt} =>
               \A j \in 1..ai : \E i \in DOMAIN committed \ {failAt} :
                 i <= pos /\ Live(i) /\ NotAfter(adds[j], committed[i])

ResultTells == /\ result = "none" => pos = 0
               /\ result = "end" => pos = Len(committed) + 1 /\ pos # failAt /\ ai = Len(adds)
               /\ result = "error" => pos = failAt /\ pos > 0

FrontInv == IInv /\ AtStop /\ Taken /\ NoneLeftBehind /\ NoneAhead /\ ResultTells

-----------------------------------------------------------------------------
\* The types, spelled out for the steps below.
LEMMA InputsTyped ==
    ASSUME TypeOK
    PROVE  /\ Len(committed) \in Nat /\ DOMAIN committed = 1..Len(committed)
           /\ Len(adds) \in Nat /\ DOMAIN adds = 1..Len(adds)
           /\ ai \in 0..Len(adds) /\ pos \in 0..(Len(committed) + 1)
           /\ failAt \in 0..(Len(committed) + 1)
           /\ \A i \in DOMAIN committed : committed[i] \in Entity
           /\ \A j \in DOMAIN adds : adds[j] \in Entity
BY DEF TypeOK, FailPoints

\* No row sorts before itself, nor two before each other.
LEMMA LessStrict ==
    ASSUME NEW a \in Entity, NEW b \in Entity, Less(a, b)
    PROVE  ~NotAfter(b, a)
<1>1. a.key \in Int /\ b.key \in Int /\ a.id \in Int /\ b.id \in Int
  BY OrderAssumption DEF Entity
<1> QED BY <1>1 DEF Less, NotAfter

\* An advance skips deleted rows only, and no failing call.
LEMMA AdvanceSkips ==
    ASSUME TypeOK, NEW p \in 0..(Len(committed) + 1), NEW q, AdvancesTo(p, q),
           failAt # 0 => p < failAt
    PROVE  /\ q \in 1..(Len(committed) + 1) /\ p < q /\ Stops(q)
           /\ failAt # 0 => q <= failAt
           /\ \A i \in DOMAIN committed : i < q /\ Live(i) => i <= p
<1>1. q \in (p + 1)..(Len(committed) + 1) /\ Stops(q) /\ \A r \in (p + 1)..(q - 1) : ~Stops(r)
  BY DEF AdvancesTo
<1>2. q \in 1..(Len(committed) + 1) /\ p < q
  BY <1>1, InputsTyped
<1>3. ASSUME failAt # 0, ~(q <= failAt) PROVE FALSE
  <2>1. failAt \in (p + 1)..(q - 1)
    BY <1>1, <1>3, InputsTyped
  <2>2. Stops(failAt)
    BY DEF Stops
  <2> QED BY <1>1, <2>1, <2>2
<1>4. ASSUME NEW i \in DOMAIN committed, i < q, Live(i), ~(i <= p) PROVE FALSE
  <2>1. i \in (p + 1)..(q - 1)
    BY <1>1, <1>4, InputsTyped
  <2> QED BY <1>1, <1>4, <2>1 DEF Stops, Live
<1> QED BY <1>1, <1>2, <1>3, <1>4

\* The buffer's call of next, made or still to make, passes no row.
LEMMA PrimedFront ==
    ASSUME FrontInv, NEW p \in 1..(Len(committed) + 1), Primed(p)
    PROVE  /\ pos <= p /\ (pos = 0 => ai = 0 /\ out = <<>>) /\ (pos > 0 => p = pos)
           /\ Stops(p)
           /\ failAt # 0 => p <= failAt
           /\ \A i \in DOMAIN committed : i < p /\ Live(i) => i < pos
           /\ CommittedTo(p) = CommittedTo(pos)
<1>1. TypeOK
  BY DEF FrontInv, IInv
<1>2. CASE pos = 0
  <2>1. out = <<>>
    <3> DEFINE R == [from : {"overlay", "committed"}, row : Entity]
    <3>1. DOMAIN out = {}
      <4> SUFFICES ASSUME NEW k \in DOMAIN out PROVE FALSE
        BY Zenon
      <4>1. AheadOfYielded
        BY DEF FrontInv, IInv
      <4>2. pos > 0
        BY <4>1, Zenon DEF AheadOfYielded
      <4> QED BY <1>2, <4>2
    <3>2. out \in Seq(R)
      BY <1>1 DEF TypeOK
    <3> HIDE DEF R
    <3>3. Len(out) = 0
      BY <3>1, <3>2
    <3> QED BY <3>2, <3>3, EmptySeq
  <2>2. ai = 0
    <3>1. OverlayTo(ai) = {}
      BY <2>1 DEF FrontInv, Taken, Delivered
    <3>2. 1 \notin 1..ai
      BY <3>1 DEF OverlayTo
    <3> QED BY <1>1, <3>2, InputsTyped
  <2>3. AdvancesTo(0, p) /\ (failAt # 0 => 0 < failAt)
    BY <1>1, <1>2, InputsTyped DEF Primed
  <2>4. /\ Stops(p)
        /\ failAt # 0 => p <= failAt
        /\ \A i \in DOMAIN committed : i < p /\ Live(i) => i <= 0
    BY <1>1, <2>3, AdvanceSkips, InputsTyped
  <2>5. \A i \in DOMAIN committed : ~(i < p /\ Live(i)) /\ ~(i < pos)
    BY <1>1, <1>2, <2>4, InputsTyped
  <2> QED BY <1>1, <1>2, <2>1, <2>2, <2>4, <2>5, InputsTyped DEF CommittedTo
<1>3. CASE pos > 0
  <2>1. p = pos
    BY <1>1, <1>3, InputsTyped DEF Primed
  <2> QED BY <1>3, <2>1 DEF FrontInv, AtStop
<1> QED BY <1>1, <1>2, <1>3, InputsTyped

\* What was delivered after one more row.
LEMMA DeliversOneMore ==
    ASSUME TypeOK, NEW row \in Entity, NEW origin \in {"overlay", "committed"}, Yield(origin, row)
    PROVE  Delivered' = Delivered \cup {[from |-> origin, row |-> row]}
<1> DEFINE new == [from |-> origin, row |-> row]
<1>1. /\ out \in Seq([from : {"overlay", "committed"}, row : Entity])
      /\ new \in [from : {"overlay", "committed"}, row : Entity]
      /\ out' = Append(out, new)
  BY DEF TypeOK, Yield
<1>2. /\ Len(out) \in Nat
      /\ DOMAIN out = 1..Len(out)
      /\ DOMAIN out' = 1..(Len(out) + 1)
      /\ \A k \in DOMAIN out : out'[k] = out[k]
      /\ out'[Len(out) + 1] = new
  BY <1>1
<1> QED BY <1>2 DEF Delivered

\* The places are the same after a step that keeps the arguments.
LEMMA ArgumentsFixed ==
    ASSUME UNCHANGED args
    PROVE  /\ OverlayTo(ai)' = OverlayTo(ai') /\ CommittedTo(pos)' = CommittedTo(pos')
           /\ \A q : Stops(q)' = Stops(q)
           /\ \A i : Live(i)' = Live(i)
BY DEF args, OverlayTo, CommittedTo, Live, Stops

\* Taking an overlay row adds it to those taken.
LEMMA OneMoreOverlay ==
    ASSUME NEW a \in Nat
    PROVE  OverlayTo(a + 1) = OverlayTo(a) \cup {[from |-> "overlay", row |-> adds[a + 1]]}
<1>1. 1..(a + 1) = 1..a \cup {a + 1}
  OBVIOUS
<1> QED BY <1>1 DEF OverlayTo

\* The overlay row taken is the next, and sorts before the buffered row.
LEMMA TakeAddFront ==
    ASSUME FrontInv, NEW p \in 1..(Len(committed) + 1), Primed(p), TakeAdd(p), UNCHANGED args
    PROVE  AtStop' /\ Taken' /\ NoneLeftBehind' /\ NoneAhead' /\ ResultTells'
<1>1. TypeOK
  BY DEF FrontInv, IInv
<1>2. /\ pos <= p /\ (pos = 0 => ai = 0) /\ (pos > 0 => p = pos) /\ Stops(p)
      /\ failAt # 0 => p <= failAt
      /\ \A i \in DOMAIN committed : i < p /\ Live(i) => i < pos
      /\ CommittedTo(p) = CommittedTo(pos)
  BY PrimedFront
<1>3. /\ p # failAt /\ HaveAdd /\ pos' = p /\ ai' = ai + 1
      /\ Yield("overlay", adds[ai + 1]) /\ result' = "row"
      /\ Buffered(p) => Less(adds[ai + 1], committed[p])
  BY DEF TakeAdd, Yield
<1>4. /\ Len(committed) \in Nat /\ DOMAIN committed = 1..Len(committed)
      /\ DOMAIN adds = 1..Len(adds) /\ ai \in Nat /\ ai + 1 \in DOMAIN adds
      /\ adds[ai + 1] \in Entity /\ pos \in Nat
  BY <1>1, <1>3, InputsTyped DEF HaveAdd
<1>5. AtStop'
  BY <1>2, <1>3, ArgumentsFixed DEF AtStop, args
<1>6. Taken'
  <2>1. Delivered' = Delivered \cup {[from |-> "overlay", row |-> adds[ai + 1]]}
    BY <1>1, <1>3, <1>4, DeliversOneMore
  <2>2. OverlayTo(ai + 1) = OverlayTo(ai) \cup {[from |-> "overlay", row |-> adds[ai + 1]]}
    BY <1>4, OneMoreOverlay
  <2> QED BY <1>2, <1>3, <2>1, <2>2, ArgumentsFixed DEF FrontInv, Taken
<1>7. NoneLeftBehind'
  <2> SUFFICES ASSUME NEW i \in DOMAIN committed, NEW j \in DOMAIN adds,
                      i < p, Live(i), NotAfter(adds[j], committed[i])
               PROVE  j <= ai + 1
    BY <1>3, ArgumentsFixed DEF NoneLeftBehind, args
  <2>1. j <= ai
    BY <1>2 DEF FrontInv, NoneLeftBehind
  <2> QED BY <1>4, <2>1
<1>8. NoneAhead'
  <2> SUFFICES ASSUME p \in DOMAIN committed \cup {failAt}, NEW j \in 1..(ai + 1)
               PROVE  \E i \in DOMAIN committed \ {failAt} :
                        i <= p /\ Live(i) /\ NotAfter(adds[j], committed[i])
    BY <1>3, ArgumentsFixed DEF NoneAhead, args
  <2>1. Buffered(p) /\ p \in DOMAIN committed \ {failAt} /\ Live(p)
    BY <1>2, <1>3 DEF Buffered, Stops, Live
  <2>2. CASE j = ai + 1
    BY <1>3, <2>1, <2>2 DEF NotAfter
  <2>3. CASE j \in 1..ai
    <3>1. pos = p
      BY <1>2, <1>4, <2>3
    <3> QED BY <2>1, <2>3, <3>1 DEF FrontInv, NoneAhead
  <2> QED BY <1>4, <2>2, <2>3
<1>9. ResultTells'
  BY <1>3 DEF ResultTells
<1> QED BY <1>5, <1>6, <1>7, <1>8, <1>9

\* The row at p and the advance over it, whatever is yielded for it.
LEMMA AdvanceFront ==
    ASSUME FrontInv, NEW p \in 1..(Len(committed) + 1), Primed(p), Buffered(p), Advance(p)
    PROVE  /\ pos' \in 1..(Len(committed) + 1) /\ p < pos' /\ Stops(pos')
           /\ failAt # 0 => pos' <= failAt
           /\ \A i \in DOMAIN committed : i < pos' /\ Live(i) => i < pos \/ i = p
           /\ Live(p) /\ p \in DOMAIN committed \ {failAt}
           /\ CommittedTo(pos') = CommittedTo(pos) \cup
                (IF \A j \in DOMAIN adds : adds[j] # committed[p]
                 THEN {[from |-> "committed", row |-> committed[p]]} ELSE {})
<1>1. TypeOK
  BY DEF FrontInv, IInv
<1>2. /\ pos <= p /\ Stops(p) /\ (pos > 0 => p = pos)
      /\ failAt # 0 => p <= failAt
      /\ \A i \in DOMAIN committed : i < p /\ Live(i) => i < pos
      /\ CommittedTo(p) = CommittedTo(pos)
  BY PrimedFront
<1>3. p \in DOMAIN committed \ {failAt} /\ Live(p)
  BY <1>2 DEF Buffered, Stops, Live
<1>4. PICK q \in 1..(Len(committed) + 1) : AdvancesTo(p, q) /\ pos' = q
  BY DEF Advance
<1>5. /\ p < q /\ Stops(q) /\ (failAt # 0 => q <= failAt)
      /\ \A i \in DOMAIN committed : i < q /\ Live(i) => i <= p
  <2>1. p \in 0..(Len(committed) + 1) /\ (failAt # 0 => p < failAt)
    BY <1>1, <1>2, <1>3, InputsTyped
  <2> QED BY <1>1, <1>4, <2>1, AdvanceSkips
<1>6. \A i \in DOMAIN committed : i < q /\ Live(i) => i < pos \/ i = p
  BY <1>1, <1>2, <1>5, InputsTyped
<1>7. \A i \in DOMAIN committed : i < q /\ Live(i) <=> (i < p /\ Live(i)) \/ i = p
  BY <1>1, <1>3, <1>5, InputsTyped
<1>8. CommittedTo(q) = CommittedTo(p) \cup
        (IF \A j \in DOMAIN adds : adds[j] # committed[p]
         THEN {[from |-> "committed", row |-> committed[p]]} ELSE {})
  BY <1>3, <1>7 DEF CommittedTo
<1> QED BY <1>2, <1>3, <1>4, <1>5, <1>6, <1>8

\* Of two equal rows the committed one is passed unseen.
LEMMA TakeCollisionFront ==
    ASSUME FrontInv, NEW p \in 1..(Len(committed) + 1), Primed(p), TakeCollision(p), UNCHANGED args
    PROVE  AtStop' /\ Taken' /\ NoneLeftBehind' /\ NoneAhead' /\ ResultTells'
<1>1. TypeOK
  BY DEF FrontInv, IInv
<1>2. /\ Buffered(p) /\ HaveAdd /\ adds[ai + 1] = committed[p] /\ ai' = ai + 1
      /\ Yield("overlay", adds[ai + 1]) /\ Advance(p) /\ result' = "row"
  BY DEF TakeCollision, Yield
<1>3. /\ pos' \in 1..(Len(committed) + 1) /\ p < pos' /\ Stops(pos')
      /\ failAt # 0 => pos' <= failAt
      /\ \A i \in DOMAIN committed : i < pos' /\ Live(i) => i < pos \/ i = p
      /\ Live(p) /\ p \in DOMAIN committed \ {failAt}
      /\ CommittedTo(pos') = CommittedTo(pos) \cup
                (IF \A j \in DOMAIN adds : adds[j] # committed[p]
                 THEN {[from |-> "committed", row |-> committed[p]]} ELSE {})
  BY <1>2, AdvanceFront
<1>4. /\ DOMAIN committed = 1..Len(committed) /\ Len(committed) \in Nat
      /\ DOMAIN adds = 1..Len(adds) /\ ai \in Nat /\ ai + 1 \in DOMAIN adds
      /\ pos \in Nat /\ (pos > 0 => pos = p) /\ (pos = 0 => ai = 0) /\ pos <= p
      /\ \A i \in DOMAIN committed : committed[i] \in Entity
      /\ \A j \in DOMAIN adds : adds[j] \in Entity
  BY <1>1, <1>2, InputsTyped, PrimedFront DEF HaveAdd
<1>5. AtStop'
  BY <1>3, ArgumentsFixed DEF AtStop, args
<1>6. Taken'
  <2>1. Delivered' = Delivered \cup {[from |-> "overlay", row |-> adds[ai + 1]]}
    BY <1>1, <1>2, <1>4, DeliversOneMore
  <2>2. OverlayTo(ai + 1) = OverlayTo(ai) \cup {[from |-> "overlay", row |-> adds[ai + 1]]}
    BY <1>4, OneMoreOverlay
  <2>3. CommittedTo(pos') = CommittedTo(pos)
    BY <1>2, <1>3, <1>4
  <2> QED BY <1>2, <2>1, <2>2, <2>3, ArgumentsFixed DEF FrontInv, Taken
<1>7. NoneLeftBehind'
  <2> SUFFICES ASSUME NEW i \in DOMAIN committed, NEW j \in DOMAIN adds,
                      i < pos', Live(i), NotAfter(adds[j], committed[i])
               PROVE  j <= ai + 1
    BY <1>2, ArgumentsFixed DEF NoneLeftBehind, args
  <2>1. CASE i < pos
    BY <1>4, <2>1 DEF FrontInv, NoneLeftBehind
  <2>2. CASE i = p
    <3> SUFFICES ASSUME j > ai + 1 PROVE FALSE
      BY <1>4
    <3>1. Less(committed[p], adds[j])
      BY <1>1, <1>2, <1>4 DEF TypeOK, Sorted
    <3> QED BY <1>4, <2>2, <3>1, LessStrict
  <2> QED BY <1>3, <2>1, <2>2
<1>8. NoneAhead'
  <2> SUFFICES ASSUME NEW j \in 1..(ai + 1)
               PROVE  \E i \in DOMAIN committed \ {failAt} :
                        i <= pos' /\ Live(i) /\ NotAfter(adds[j], committed[i])
    BY <1>2, ArgumentsFixed DEF NoneAhead, args
  <2>1. CASE j = ai + 1
    BY <1>2, <1>3, <1>4, <2>1 DEF NotAfter
  <2>2. CASE j \in 1..ai
    <3>1. pos = p /\ pos \in DOMAIN committed
      BY <1>3, <1>4, <2>2
    <3>2. PICK i \in DOMAIN committed \ {failAt} :
            i <= pos /\ Live(i) /\ NotAfter(adds[j], committed[i])
      BY <2>2, <3>1 DEF FrontInv, NoneAhead
    <3> QED BY <1>3, <1>4, <3>1, <3>2
  <2> QED BY <1>4, <2>1, <2>2
<1>9. ResultTells'
  BY <1>2 DEF ResultTells
<1> QED BY <1>5, <1>6, <1>7, <1>8, <1>9

\* A committed row taken is in no overlay row, and of the view.
LEMMA TakeCommittedFront ==
    ASSUME FrontInv, NEW p \in 1..(Len(committed) + 1), Primed(p), TakeCommitted(p), UNCHANGED args
    PROVE  /\ AtStop' /\ Taken' /\ NoneLeftBehind' /\ NoneAhead' /\ ResultTells'
           /\ [from |-> "committed", row |-> committed[p]] \in View
<1>1. TypeOK
  BY DEF FrontInv, IInv
<1>2. /\ Buffered(p) /\ ai' = ai /\ Yield("committed", committed[p]) /\ Advance(p)
      /\ result' = "row"
      /\ HaveAdd => Less(committed[p], adds[ai + 1])
  BY DEF TakeCommitted, Yield
<1>3. /\ pos' \in 1..(Len(committed) + 1) /\ p < pos' /\ Stops(pos')
      /\ failAt # 0 => pos' <= failAt
      /\ \A i \in DOMAIN committed : i < pos' /\ Live(i) => i < pos \/ i = p
      /\ Live(p) /\ p \in DOMAIN committed \ {failAt}
      /\ CommittedTo(pos') = CommittedTo(pos) \cup
                (IF \A j \in DOMAIN adds : adds[j] # committed[p]
                 THEN {[from |-> "committed", row |-> committed[p]]} ELSE {})
  BY <1>2, AdvanceFront
<1>4. /\ DOMAIN committed = 1..Len(committed) /\ Len(committed) \in Nat
      /\ DOMAIN adds = 1..Len(adds) /\ ai \in Nat /\ Len(adds) \in Nat /\ ai <= Len(adds)
      /\ pos \in Nat /\ (pos > 0 => pos = p) /\ (pos = 0 => ai = 0) /\ pos <= p
      /\ \A i \in DOMAIN committed : committed[i] \in Entity
      /\ \A j \in DOMAIN adds : adds[j] \in Entity
  BY <1>1, InputsTyped, PrimedFront
<1>5. AtStop'
  BY <1>3, ArgumentsFixed DEF AtStop, args
<1>6. \A j \in DOMAIN adds : j > ai => Less(committed[p], adds[j])
  <2> SUFFICES ASSUME NEW j \in DOMAIN adds, j > ai PROVE Less(committed[p], adds[j])
    OBVIOUS
  <2>1. ai + 1 \in DOMAIN adds /\ Less(committed[p], adds[ai + 1])
    BY <1>2, <1>4 DEF HaveAdd
  <2>2. CASE j = ai + 1
    BY <2>1, <2>2
  <2>3. CASE j > ai + 1
    <3>1. Less(adds[ai + 1], adds[j])
      BY <1>1, <1>4, <2>1, <2>3 DEF TypeOK, Sorted
    <3> QED BY <1>3, <1>4, <2>1, <3>1, LessTransitive
  <2> QED BY <1>4, <2>2, <2>3
<1>7. \A j \in DOMAIN adds : j <= ai => Less(adds[j], committed[p])
  <2> SUFFICES ASSUME NEW j \in DOMAIN adds, j <= ai PROVE Less(adds[j], committed[p])
    OBVIOUS
  <2>1. [from |-> "overlay", row |-> adds[j]] \in Delivered
    BY <1>4 DEF FrontInv, Taken, OverlayTo
  <2>2. PICK k \in DOMAIN out : out[k].row = adds[j]
    BY <2>1 DEF Delivered
  <2> QED BY <1>3, <1>4, <2>2 DEF FrontInv, IInv, AheadOfYielded
<1>8. \A j \in DOMAIN adds : adds[j] # committed[p]
  BY <1>3, <1>4, <1>6, <1>7, LessStrict DEF NotAfter
<1>9. Taken'
  <2>1. Delivered' = Delivered \cup {[from |-> "committed", row |-> committed[p]]}
    BY <1>1, <1>2, <1>3, <1>4, DeliversOneMore
  <2> QED BY <1>2, <1>3, <1>8, <2>1, ArgumentsFixed DEF FrontInv, Taken
<1>10. NoneLeftBehind'
  <2> SUFFICES ASSUME NEW i \in DOMAIN committed, NEW j \in DOMAIN adds,
                      i < pos', Live(i), NotAfter(adds[j], committed[i])
               PROVE  j <= ai
    BY <1>2, ArgumentsFixed DEF NoneLeftBehind, args
  <2>1. CASE i < pos
    BY <2>1 DEF FrontInv, NoneLeftBehind
  <2>2. CASE i = p
    BY <1>3, <1>4, <1>6, <2>2, LessStrict
  <2> QED BY <1>3, <2>1, <2>2
<1>11. NoneAhead'
  <2> SUFFICES ASSUME NEW j \in 1..ai
               PROVE  \E i \in DOMAIN committed \ {failAt} :
                        i <= pos' /\ Live(i) /\ NotAfter(adds[j], committed[i])
    BY <1>2, ArgumentsFixed DEF NoneAhead, args
  <2>1. pos = p /\ pos \in DOMAIN committed
    BY <1>3, <1>4
  <2>2. PICK i \in DOMAIN committed \ {failAt} :
          i <= pos /\ Live(i) /\ NotAfter(adds[j], committed[i])
    BY <2>1 DEF FrontInv, NoneAhead
  <2> QED BY <1>3, <1>4, <2>1, <2>2
<1>12. ResultTells'
  BY <1>2 DEF ResultTells
<1>13. [from |-> "committed", row |-> committed[p]] \in View
  BY <1>3, <1>8 DEF View, Live
<1> QED BY <1>5, <1>9, <1>10, <1>11, <1>12, <1>13

\* The end comes when nothing is left, the error at the failing call.
LEMMA ReturnFront ==
    ASSUME FrontInv, NEW p \in 1..(Len(committed) + 1), Primed(p),
           ReturnEnd(p) \/ ReturnError(p), UNCHANGED args
    PROVE  AtStop' /\ Taken' /\ NoneLeftBehind' /\ NoneAhead' /\ ResultTells'
<1>1. TypeOK
  BY DEF FrontInv, IInv
<1>2. /\ pos <= p /\ (pos = 0 => ai = 0) /\ (pos > 0 => p = pos) /\ Stops(p)
      /\ failAt # 0 => p <= failAt
      /\ \A i \in DOMAIN committed : i < p /\ Live(i) => i < pos
      /\ CommittedTo(p) = CommittedTo(pos)
  BY PrimedFront
<1>3. pos' = p /\ ai' = ai /\ out' = out
  BY DEF ReturnEnd, ReturnError
<1>4. ai \in Nat /\ pos \in Nat /\ DOMAIN committed = 1..Len(committed)
      /\ Len(committed) \in Nat /\ Len(adds) \in Nat /\ ai <= Len(adds)
  BY <1>1, InputsTyped
<1>5. AtStop'
  BY <1>2, <1>3, ArgumentsFixed DEF AtStop, args
<1>6. Taken'
  BY <1>2, <1>3, ArgumentsFixed DEF FrontInv, Taken, Delivered
<1>7. NoneLeftBehind'
  BY <1>2, <1>3, ArgumentsFixed DEF FrontInv, NoneLeftBehind, args
<1>8. NoneAhead'
  BY <1>2, <1>3, <1>4, ArgumentsFixed DEF FrontInv, NoneAhead, args
<1>9. ResultTells'
  BY <1>2, <1>3, <1>4 DEF ReturnEnd, ReturnError, ResultTells, Buffered, HaveAdd, args
<1> QED BY <1>5, <1>6, <1>7, <1>8, <1>9

\* At first nothing is taken.
LEMMA InitFront == Init => FrontInv
<1> SUFFICES ASSUME Init PROVE FrontInv
  OBVIOUS
<1>1. IInv /\ TypeOK
  BY InitIInv DEF IInv
<1>2. pos = 0 /\ ai = 0 /\ out = <<>> /\ result = "none"
  BY DEF Init
<1>3. AtStop /\ NoneLeftBehind /\ NoneAhead /\ ResultTells
  BY <1>1, <1>2, InputsTyped DEF AtStop, NoneLeftBehind, NoneAhead, ResultTells
<1>4. Delivered = {} /\ OverlayTo(ai) = {} /\ CommittedTo(pos) = {}
  BY <1>1, <1>2, InputsTyped DEF Delivered, OverlayTo, CommittedTo
<1> QED BY <1>1, <1>3, <1>4 DEF FrontInv, Taken

\* Every step keeps FrontInv.
LEMMA StepFront == FrontInv /\ [Next]_vars => FrontInv'
<1> SUFFICES ASSUME FrontInv, [Next]_vars PROVE FrontInv'
  OBVIOUS
<1>1. CASE UNCHANGED vars
  BY <1>1 DEF vars, args, FrontInv, IInv, TypeOK, InOrder, AheadOfYielded, FailPoints, AtStop, Stops,
              Taken, Delivered, OverlayTo, CommittedTo, Live, NoneLeftBehind, NoneAhead, ResultTells
<1>2. CASE Pull
  <2>1. PICK p \in 1..(Len(committed) + 1) :
          /\ Primed(p)
          /\ ReturnError(p) \/ TakeAdd(p) \/ TakeCollision(p) \/ TakeCommitted(p) \/ ReturnEnd(p)
    BY <1>2 DEF Pull
  <2>2. IInv' /\ UNCHANGED args
    BY <1>2, PullIInv DEF FrontInv, Pull
  <2> QED BY <2>1, <2>2, TakeAddFront, TakeCollisionFront, TakeCommittedFront, ReturnFront
          DEF FrontInv
<1> QED BY <1>1, <1>2 DEF Next

\* At every pull, what was yielded is exactly the rows of the view before the place
\* the closure of MergeOrdered has reached.
THEOREM FrontInvariance == Spec => []FrontInv
BY InitFront, StepFront, PTL DEF Spec

\* When the source fails, the rows yielded are exactly those whose place in the
\* order is known: the rows fetched before the failure and the overlay rows up
\* to the last of them.
THEOREM ErrorComesAfterFetched == Spec => []ErrorAfterFetched
<1>1. FrontInv => ErrorAfterFetched
  <2> SUFFICES ASSUME FrontInv, result = "error"
               PROVE  Yielded = FetchedLive \cup
                        {adds[j] : j \in {j \in DOMAIN adds :
                            \E c \in FetchedLive : c = adds[j] \/ Less(adds[j], c)}}
    BY DEF ErrorAfterFetched
  <2>1. TypeOK /\ pos = failAt /\ pos > 0
    BY DEF FrontInv, IInv, ResultTells
  <2>2. /\ DOMAIN committed = 1..Len(committed) /\ Len(committed) \in Nat
        /\ DOMAIN adds = 1..Len(adds) /\ ai \in 0..Len(adds) /\ pos \in 1..(Len(committed) + 1)
    BY <2>1, InputsTyped
  <2>3. /\ 1..(pos - 1) \subseteq DOMAIN committed
        /\ \A i \in DOMAIN committed : i < pos <=> i \in 1..(pos - 1)
    BY <2>2
  <2>4. FetchedLive = {committed[i] : i \in {i \in DOMAIN committed : i < pos /\ Live(i)}}
    BY <2>3 DEF FetchedLive, Live
  <2>5. Yielded = {d.row : d \in Delivered}
    BY DEF Yielded, Delivered
  <2>6. \A row : row \in Yielded <=>
          \/ \E j \in 1..ai : row = adds[j]
          \/ \E i \in DOMAIN committed : /\ i < pos /\ Live(i) /\ row = committed[i]
                                         /\ \A j \in DOMAIN adds : adds[j] # committed[i]
    <3>1. \A row : (\E d \in OverlayTo(ai) : d.row = row) <=> \E j \in 1..ai : row = adds[j]
      <4> TAKE row
      <4>1. ASSUME NEW d \in OverlayTo(ai), d.row = row PROVE \E j \in 1..ai : row = adds[j]
        <5>1. PICK j \in 1..ai : d = [from |-> "overlay", row |-> adds[j]]
          BY DEF OverlayTo
        <5> QED BY <4>1, <5>1
      <4>2. ASSUME NEW j \in 1..ai, row = adds[j] PROVE \E d \in OverlayTo(ai) : d.row = row
        <5> DEFINE d == [from |-> "overlay", row |-> adds[j]]
        <5>1. d \in OverlayTo(ai) /\ d.row = row
          BY <4>2 DEF OverlayTo
        <5> QED BY <5>1
      <4> QED BY <4>1, <4>2
    <3>2. \A row : (\E d \in CommittedTo(pos) : d.row = row) <=>
            \E i \in DOMAIN committed : /\ i < pos /\ Live(i) /\ row = committed[i]
                                        /\ \A j \in DOMAIN adds : adds[j] # committed[i]
      <4> TAKE row
      <4> DEFINE Passed(i) == i < pos /\ Live(i) /\ \A j \in DOMAIN adds : adds[j] # committed[i]
      <4>0. CommittedTo(pos) = {[from |-> "committed", row |-> committed[i]] :
                                 i \in {i \in DOMAIN committed : Passed(i)}}
        BY DEF CommittedTo
      <4> HIDE DEF Passed
      <4>1. ASSUME NEW d \in CommittedTo(pos), d.row = row
            PROVE  \E i \in DOMAIN committed : Passed(i) /\ row = committed[i]
        <5>1. PICK i \in DOMAIN committed :
                Passed(i) /\ d = [from |-> "committed", row |-> committed[i]]
          BY <4>0
        <5> QED BY <4>1, <5>1
      <4>2. ASSUME NEW i \in DOMAIN committed, Passed(i), row = committed[i]
            PROVE  \E d \in CommittedTo(pos) : d.row = row
        <5> DEFINE d == [from |-> "committed", row |-> committed[i]]
        <5>1. d \in CommittedTo(pos) /\ d.row = row
          BY <4>0, <4>2
        <5> QED BY <5>1
      <4> USE DEF Passed
      <4> QED BY <4>1, <4>2
    <3>3. Delivered = OverlayTo(ai) \cup CommittedTo(pos)
      BY DEF FrontInv, Taken
    <3>4. \A row : row \in Yielded <=> \/ \E d \in OverlayTo(ai) : d.row = row
                                      \/ \E d \in CommittedTo(pos) : d.row = row
      BY <2>5, <3>3
    <3> QED BY <3>1, <3>2, <3>4
  <2>7. ASSUME NEW row \in FetchedLive PROVE row \in Yielded
    <3>1. PICK i \in DOMAIN committed : i < pos /\ Live(i) /\ row = committed[i]
      BY <2>4
    <3>2. CASE \A j \in DOMAIN adds : adds[j] # committed[i]
      BY <2>6, <3>1, <3>2
    <3>3. ASSUME NEW j \in DOMAIN adds, adds[j] = committed[i] PROVE row \in Yielded
      <4>1. j \in 1..ai
        BY <2>2, <3>1, <3>3 DEF FrontInv, NoneLeftBehind, NotAfter
      <4> QED BY <2>6, <3>1, <3>3, <4>1
    <3> QED BY <3>2, <3>3
  <2>8. ASSUME NEW j \in DOMAIN adds, NEW c \in FetchedLive, c = adds[j] \/ Less(adds[j], c)
        PROVE  adds[j] \in Yielded
    <3>1. PICK i \in DOMAIN committed : i < pos /\ Live(i) /\ c = committed[i]
      BY <2>4
    <3>2. j \in 1..ai
      BY <2>2, <2>8, <3>1 DEF FrontInv, NoneLeftBehind, NotAfter
    <3> QED BY <2>6, <3>2
  <2>9. ASSUME NEW j \in 1..ai
        PROVE  j \in DOMAIN adds /\ \E c \in FetchedLive : c = adds[j] \/ Less(adds[j], c)
    <3>1. PICK i \in DOMAIN committed \ {failAt} : i <= pos /\ Live(i) /\ NotAfter(adds[j], committed[i])
      BY <2>1 DEF FrontInv, NoneAhead
    <3>2. i < pos /\ j \in DOMAIN adds
      BY <2>1, <2>2, <3>1
    <3> QED BY <2>4, <3>1, <3>2 DEF NotAfter
  <2>10. ASSUME NEW row \in Yielded
         PROVE  row \in FetchedLive \cup
                   {adds[j] : j \in {j \in DOMAIN adds :
                       \E c \in FetchedLive : c = adds[j] \/ Less(adds[j], c)}}
    BY <2>4, <2>6, <2>9
  <2> QED BY <2>7, <2>8, <2>10
<1> QED BY <1>1, FrontInvariance, PTL

-----------------------------------------------------------------------------
(* The closure implements ViewStream.                                      *)

\* A row of the view outside what was taken is still to come.
LEMMA StillToCome ==
    ASSUME TypeOK, NEW a \in Nat, NEW p \in Nat, NEW q \in View,
           q \notin OverlayTo(a), q \notin CommittedTo(p)
    PROVE  \/ \E j \in DOMAIN adds : j > a /\ q.row = adds[j]
           \/ \E i \in DOMAIN committed : i >= p /\ q.row = committed[i]
<1>1. DOMAIN committed = 1..Len(committed) /\ DOMAIN adds = 1..Len(adds)
      /\ Len(committed) \in Nat /\ Len(adds) \in Nat
  BY InputsTyped
<1>2. CASE \E j \in DOMAIN adds : q = [from |-> "overlay", row |-> adds[j]]
  BY <1>1, <1>2 DEF OverlayTo
<1>3. CASE \E i \in DOMAIN committed :
             /\ Live(i) /\ \A j \in DOMAIN adds : adds[j] # committed[i]
             /\ q = [from |-> "committed", row |-> committed[i]]
  BY <1>1, <1>3 DEF CommittedTo
<1> QED BY <1>2, <1>3 DEF View, Live

\* A row of the view that is yielded is the first of those pending.
LEMMA YieldDelivers ==
    ASSUME FrontInv, FrontInv', NEW row \in Entity, NEW origin \in {"overlay", "committed"},
           UNCHANGED args, Yield(origin, row), result \in {"none", "row"},
           [from |-> origin, row |-> row] \in View
    PROVE  Stream!Deliver
<1> DEFINE new == [from |-> origin, row |-> row]
<1>1. TypeOK /\ View' = View /\ (failAt # 0)' = (failAt # 0)
  BY DEF FrontInv, IInv, args, View
<1>2. /\ out \in Seq([from : {"overlay", "committed"}, row : Entity])
      /\ new \in [from : {"overlay", "committed"}, row : Entity]
      /\ out' = Append(out, new) /\ result' = "row"
  BY <1>1 DEF TypeOK, Yield
<1>3. /\ Len(out) \in Nat
      /\ DOMAIN out = 1..Len(out)
      /\ DOMAIN out' = 1..(Len(out) + 1)
      /\ \A k \in DOMAIN out : out'[k] = out[k]
      /\ out'[Len(out) + 1] = new /\ new.row = row
  BY <1>2
<1>4. new \in Stream!Pending
  <2> SUFFICES ASSUME NEW k \in DOMAIN out, out[k] = new PROVE FALSE
    BY DEF Stream!Pending
  <2>1. out'[k] = new /\ k < Len(out) + 1 /\ k \in DOMAIN out' /\ Len(out) + 1 \in DOMAIN out'
    BY <1>3
  <2>2. Less(row, row)
    BY <1>3, <2>1 DEF FrontInv, IInv, InOrder
  <2> QED BY <2>2, LessStrict DEF NotAfter
<1>5. ASSUME NEW q \in Stream!Pending \ {new} PROVE Less(new.row, q.row)
  <2>1. q \in View /\ q \notin Delivered'
    BY <1>3, <1>5 DEF Stream!Pending, Delivered
  <2>2. q \notin OverlayTo(ai') /\ q \notin CommittedTo(pos')
    BY <2>1, ArgumentsFixed DEF FrontInv, Taken
  <2>3. ai' \in Nat /\ pos' \in Nat
    BY DEF FrontInv, IInv, TypeOK
  <2>4. \/ \E j \in DOMAIN adds : j > ai' /\ q.row = adds[j]
        \/ \E i \in DOMAIN committed : i >= pos' /\ q.row = committed[i]
    BY <1>1, <2>1, <2>2, <2>3, StillToCome
  <2>5. Len(out) + 1 \in DOMAIN out' /\ adds' = adds /\ committed' = committed
    BY <1>3 DEF args
  <2> QED BY <1>3, <2>4, <2>5 DEF FrontInv, IInv, AheadOfYielded
<1>6. \A q \in Stream!Pending \ {new} : Stream!Less(new.row, q.row)
  BY <1>5 DEF Less, Stream!Less
<1>7. /\ (IF result \in {"end", "error"} THEN result ELSE "open") = "open"
      /\ (IF result' \in {"end", "error"} THEN result' ELSE "open") = "open"
  BY <1>2
<1> HIDE DEF new
<1> QED BY <1>1, <1>2, <1>4, <1>6, <1>7 DEF Stream!Deliver

\* After the end or the error the stream repeats its answer.
LEMMA Finished ==
    ASSUME FrontInv, Pull, result \in {"end", "error"}
    PROVE  result' = result /\ UNCHANGED <<args, out>>
<1>1. PICK p \in 1..(Len(committed) + 1) :
        /\ Primed(p)
        /\ ReturnError(p) \/ TakeAdd(p) \/ TakeCollision(p) \/ TakeCommitted(p) \/ ReturnEnd(p)
  BY DEF Pull
<1>2. TypeOK /\ UNCHANGED args
  BY DEF FrontInv, IInv, Pull
<1>3. pos \in Nat /\ pos > 0 /\ p = pos /\ DOMAIN committed = 1..Len(committed)
      /\ Len(committed) \in Nat /\ (result = "end" => pos # failAt /\ ~HaveAdd)
  BY <1>1, <1>2, InputsTyped DEF FrontInv, ResultTells, HaveAdd, Primed
<1>4. ~Buffered(p) /\ (result = "error" => p = failAt)
  BY <1>2, <1>3, InputsTyped DEF FrontInv, ResultTells, Buffered
<1> QED BY <1>1, <1>2, <1>3, <1>4
        DEF ReturnError, ReturnEnd, TakeAdd, TakeCollision, TakeCommitted

\* One pull delivers the first of the pending rows, ends, fails or repeats its answer.
LEMMA PullStreams ==
    ASSUME FrontInv, FrontInv', Pull
    PROVE  [Stream!Next]_(Stream!vars)
<1>1. PICK p \in 1..(Len(committed) + 1) :
        /\ Primed(p)
        /\ ReturnError(p) \/ TakeAdd(p) \/ TakeCollision(p) \/ TakeCommitted(p) \/ ReturnEnd(p)
  BY DEF Pull
<1>2. TypeOK /\ UNCHANGED args /\ View' = View
  BY DEF FrontInv, IInv, Pull, args, View
<1>3. CASE result \in {"end", "error"}
  <2>1. result' = result /\ out' = out
    BY <1>3, Finished
  <2> QED BY <1>2, <2>1 DEF Stream!vars, args
<1>4. CASE result \in {"none", "row"}
  <2>1. HaveAdd => /\ ai + 1 \in DOMAIN adds /\ adds[ai + 1] \in Entity
                   /\ [from |-> "overlay", row |-> adds[ai + 1]] \in View
    BY <1>2, InputsTyped DEF HaveAdd, View
  <2>2. CASE TakeAdd(p) \/ TakeCollision(p)
    <3>1. HaveAdd /\ Yield("overlay", adds[ai + 1])
      BY <2>2 DEF TakeAdd, TakeCollision
    <3> QED BY <1>2, <1>4, <2>1, <3>1, YieldDelivers DEF Stream!Next
  <2>3. CASE TakeCommitted(p)
    <3>1. Yield("committed", committed[p]) /\ committed[p] \in Entity
      BY <1>2, <2>3, InputsTyped DEF TakeCommitted, Buffered
    <3>2. [from |-> "committed", row |-> committed[p]] \in View
      BY <1>1, <1>2, <2>3, TakeCommittedFront
    <3> QED BY <1>2, <1>4, <3>1, <3>2, YieldDelivers DEF Stream!Next
  <2>4. CASE ReturnEnd(p)
    <3>1. out' = out /\ result' = "end" /\ ResultTells'
      BY <2>4 DEF ReturnEnd, FrontInv
    <3>2. pos' = Len(committed) + 1 /\ ai' = Len(adds)
      BY <1>2, <3>1 DEF ResultTells, args
    <3>3. Stream!Pending = {}
      <4> SUFFICES ASSUME NEW q \in Stream!Pending PROVE FALSE
        OBVIOUS
      <4>1. q \in View /\ q \notin Delivered'
        BY <3>1 DEF Stream!Pending, Delivered
      <4>2. q \notin OverlayTo(ai') /\ q \notin CommittedTo(pos')
        BY <1>2, <4>1, ArgumentsFixed DEF FrontInv, Taken
      <4>3. ai' \in Nat /\ pos' \in Nat
        BY DEF FrontInv, IInv, TypeOK
      <4>4. \/ \E j \in DOMAIN adds : j > ai'
            \/ \E i \in DOMAIN committed : i >= pos'
        BY <1>2, <4>1, <4>2, <4>3, StillToCome
      <4> QED BY <1>2, <3>2, <4>4, InputsTyped
    <3> QED BY <1>2, <1>4, <3>1, <3>3 DEF Stream!End, Stream!Next, args
  <2>5. CASE ReturnError(p)
    <3>1. failAt # 0 /\ out' = out /\ result' = "error"
      BY <1>1, <2>5 DEF ReturnError
    <3> QED BY <1>2, <1>4, <3>1 DEF Stream!Fail, Stream!Next, args
  <2> QED BY <1>1, <2>2, <2>3, <2>4, <2>5
<1> QED BY <1>2, <1>3, <1>4 DEF TypeOK

\* The closure implements the stream of a view: every row of the view once, the
\* first of those pending next, the end only when none is left and an error only
\* when the source fails.
THEOREM ImplementsViewStream == Spec => StreamsTheView
<1>1. Init => Stream!Init
  BY DEF Init, Stream!Init
<1>2. FrontInv /\ FrontInv' /\ [Next]_vars => [Stream!Next]_(Stream!vars)
  <2> SUFFICES ASSUME FrontInv, FrontInv', [Next]_vars PROVE [Stream!Next]_(Stream!vars)
    OBVIOUS
  <2>1. CASE Pull
    BY <2>1, PullStreams
  <2>2. CASE UNCHANGED vars
    BY <2>2 DEF vars, args, Stream!vars, View
  <2> QED BY <2>1, <2>2 DEF Next
<1> QED BY <1>1, <1>2, FrontInvariance, PTL DEF Spec, StreamsTheView, Stream!Spec

\* Wherever an overlay row and the committed row of its id have one place in the
\* order, or the id is named as deleted.
ReplacedInPlace ==
    \A i \in DOMAIN committed, j \in DOMAIN adds :
      Live(i) /\ committed[i].id = adds[j].id => committed[i] = adds[j]

OneRowPerId(s) == \A i, j \in DOMAIN s : s[i].id = s[j].id => i = j

\* The inputs name an id once each, for as long as the stream is read.
LEMMA InputsNameIdsOnce == Spec => [](OneRowPerId(committed) /\ OneRowPerId(adds))
<1>1. Init => OneRowPerId(committed) /\ OneRowPerId(adds)
  BY DEF Init, Given, Rows, OneRowPerId
<1>2. /\ OneRowPerId(committed) /\ OneRowPerId(adds)
      /\ [Next]_vars
      => (OneRowPerId(committed) /\ OneRowPerId(adds))'
  BY DEF Next, Pull, vars, args, OneRowPerId
<1> QED BY <1>1, <1>2, PTL DEF Spec

\* Two rows of one id are then one row, and no row is yielded twice.
LEMMA IdsApart ==
    ASSUME FrontInv, OneRowPerId(committed), OneRowPerId(adds), ReplacedInPlace
    PROVE  OneYieldPerId
<1> SUFFICES ASSUME NEW k \in DOMAIN out, NEW l \in DOMAIN out, out[k].row.id = out[l].row.id
             PROVE  k = l
  BY DEF OneYieldPerId
<1>1. /\ OverlayTo(ai) = {[from |-> "overlay", row |-> adds[j]] : j \in 1..ai}
      /\ 1..ai \subseteq DOMAIN adds
  BY InputsTyped DEF FrontInv, IInv, OverlayTo
<1>2. ASSUME NEW m \in DOMAIN out
      PROVE  \/ \E j \in DOMAIN adds : out[m].row = adds[j]
             \/ \E i \in DOMAIN committed :
                  /\ Live(i) /\ out[m].row = committed[i]
                  /\ \A j \in DOMAIN adds : adds[j] # committed[i]
  <2>1. out[m] \in OverlayTo(ai) \cup CommittedTo(pos)
    BY <1>2 DEF FrontInv, Taken, Delivered
  <2>2. CASE out[m] \in OverlayTo(ai)
    BY <1>1, <2>2
  <2>3. CASE out[m] \in CommittedTo(pos)
    BY <2>3 DEF CommittedTo
  <2> QED BY <2>1, <2>2, <2>3
<1>3. out[k].row = out[l].row
  BY <1>2 DEF OneRowPerId, ReplacedInPlace
<1>4. \A m \in DOMAIN out : m \in Int /\ out[m].row \in Entity /\ ~ Less(out[m].row, out[m].row)
  <2> DEFINE R == [from : {"overlay", "committed"}, row : Entity]
  <2>1. out \in Seq(R)
    BY DEF FrontInv, IInv, TypeOK
  <2>2. \A e \in R : e.row \in Entity
    OBVIOUS
  <2>3. \A e \in Entity : ~ Less(e, e)
    BY LessStrict DEF NotAfter
  <2> HIDE DEF R
  <2>4. \A m \in DOMAIN out : m \in Int /\ out[m] \in R
    BY <2>1
  <2> QED BY <2>2, <2>3, <2>4
<1>5. ~ (k < l) /\ ~ (l < k)
  BY <1>3, <1>4 DEF FrontInv, IInv, InOrder
<1> QED BY <1>4, <1>5

\* What merge_ordered.go:8 says of a collision, with the condition under which the
\* code does it: an id is yielded once if every committed row the overlay
\* replaces compares equal with the row that replaces it, or its id is named
\* as deleted.
THEOREM OneYieldInPlace == Spec => [](ReplacedInPlace => OneYieldPerId)
<1>1. FrontInv /\ OneRowPerId(committed) /\ OneRowPerId(adds)
        => (ReplacedInPlace => OneYieldPerId)
  BY IdsApart
<1> QED BY <1>1, FrontInvariance, InputsNameIdsOnce, PTL

-----------------------------------------------------------------------------
(* The page of MergeBounded.                                               *)

PageTypeOK == /\ committed \in Seq(Entity) /\ Sorted(committed)
          /\ adds \in Seq(Entity) /\ Sorted(adds)
          /\ failAt \in Nat /\ limit \in Int
          /\ fetched \in 0..(Len(committed) + 1)
          /\ laid \in 0..Len(adds)
          /\ page \in Seq([from : {"overlay", "committed"}, row : Entity])
          /\ answer \in {"none", "contract", "running", "error", "rows", "limitExceeded"}

\* The live committed rows that call p of next found behind it.
Before(p) == {i \in LiveCommitted : i < p}

FromOverlay(j)   == [from |-> "overlay", row |-> adds[j]]
FromCommitted(i) == [from |-> "committed", row |-> committed[i]]

PageRows == {page[k] : k \in DOMAIN page}
PageTaken == PageRows = {FromOverlay(j) : j \in 1..laid} \cup {FromCommitted(i) : i \in Before(fetched)}

Idle    == fetched = 0 /\ laid = 0 /\ page = <<>>
Merging == /\ fetched > 0 /\ limit > 0
           /\ PageTaken
           /\ Len(page) = laid + Cardinality(Before(fetched))
           /\ Len(page) <= limit + 1

\* Where each answer leaves the call.
Stages ==
    /\ answer = "none" => Idle
    /\ answer = "contract" => Idle /\ limit <= 0
    /\ answer \in {"running", "rows", "limitExceeded"} => Merging
    /\ answer = "running" /\ HaveCommitted => fetched \in LiveCommitted
    /\ answer = "error" => /\ fetched = failAt
                           /\ Cardinality(Before(fetched)) + laid <= limit + 1
    /\ answer = "rows" => Len(page) <= limit /\ laid = Len(adds) /\ fetched = Len(committed) + 1
    /\ answer = "limitExceeded" => Len(page) > limit

NoneTwice == \A k, l \in DOMAIN page : page[k] = page[l] => k = l

PageInOrder == \A k, l \in DOMAIN page : k < l => ~Less(page[l].row, page[k].row)

\* What was taken sorts no later than what is still to come.
AheadOfPage ==
    \A k \in DOMAIN page :
      /\ \A i \in DOMAIN committed : i >= fetched => ~Less(committed[i], page[k].row)
      /\ \A j \in DOMAIN adds : j > laid => ~Less(adds[j], page[k].row)

PageInv == PageTypeOK /\ Stages /\ NoneTwice /\ PageInOrder /\ AheadOfPage

-----------------------------------------------------------------------------
(* The order and the arguments.                                            *)

\* What does not sort before something sorts no earlier than what that follows.
LEMMA NotLessTransitive ==
    ASSUME NEW a \in Entity, NEW b \in Entity, NEW c \in Entity
    PROVE  /\ ~Less(c, b) /\ ~Less(b, a) => ~Less(c, a)
           /\ Less(a, b) => ~Less(b, a)
<1>1. /\ a.key \in Int /\ b.key \in Int /\ c.key \in Int
      /\ a.id \in Int /\ b.id \in Int /\ c.id \in Int
  BY OrderAssumption DEF Entity
<1> QED BY <1>1 DEF Less

\* A row does not sort before itself, so a sorted input has no row twice.
LEMMA SortedDistinct ==
    ASSUME NEW s \in Seq(Entity), Sorted(s), NEW i \in DOMAIN s, NEW j \in DOMAIN s, i # j
    PROVE  s[i] # s[j]
<1>1. i \in Int /\ j \in Int /\ s[i] \in Entity
  OBVIOUS
<1>2. ~Less(s[i], s[i])
  BY <1>1, NotLessTransitive
<1>3. i < j \/ j < i
  BY <1>1
<1> QED BY <1>2, <1>3 DEF Sorted

\* The arguments and the two places, with their indices.
LEMMA PageTyped ==
    ASSUME PageTypeOK
    PROVE  /\ Len(committed) \in Nat /\ DOMAIN committed = 1..Len(committed)
           /\ Len(adds) \in Nat /\ DOMAIN adds = 1..Len(adds)
           /\ Len(page) \in Nat /\ DOMAIN page = 1..Len(page)
           /\ fetched \in Nat /\ laid \in Nat
           /\ \A i \in DOMAIN committed : i \in Nat /\ committed[i] \in Entity
           /\ \A j \in DOMAIN adds : j \in Nat /\ adds[j] \in Entity
           /\ \A k \in DOMAIN page : k \in Nat /\ page[k].row \in Entity
<1>1. /\ Len(committed) \in Nat /\ DOMAIN committed = 1..Len(committed)
      /\ Len(adds) \in Nat /\ DOMAIN adds = 1..Len(adds)
      /\ Len(page) \in Nat /\ DOMAIN page = 1..Len(page)
  BY DEF PageTypeOK
<1>2. fetched \in Nat /\ laid \in Nat
  BY <1>1 DEF PageTypeOK
<1>3. /\ \A i \in DOMAIN committed : i \in Nat /\ committed[i] \in Entity
      /\ \A j \in DOMAIN adds : j \in Nat /\ adds[j] \in Entity
  BY <1>1 DEF PageTypeOK
<1>4. \A k \in DOMAIN page : k \in Nat /\ page[k] \in [from : {"overlay", "committed"}, row : Entity]
  <2> DEFINE D == [from : {"overlay", "committed"}, row : Entity]
  <2>1. page \in Seq(D)
    BY DEF PageTypeOK
  <2> HIDE DEF D
  <2>2. \A k \in DOMAIN page : page[k] \in D
    BY <2>1
  <2> QED BY <1>1, <2>2 DEF D
<1>5. \A k \in DOMAIN page : page[k].row \in Entity
  BY <1>4
<1> QED BY <1>1, <1>2, <1>3, <1>4, <1>5

-----------------------------------------------------------------------------
(* The rows behind the buffered one, and their number.                     *)

\* The committed rows that may be taken are finitely many.
LEMMA LiveFinite ==
    ASSUME PageTypeOK
    PROVE  /\ IsFiniteSet(LiveCommitted)
           /\ \A S \in SUBSET LiveCommitted : IsFiniteSet(S) /\ Cardinality(S) \in Nat
<1>1. LiveCommitted \in SUBSET (1..Len(committed)) /\ Len(committed) \in Nat
  BY PageTyped DEF LiveCommitted
<1>2. IsFiniteSet(1..Len(committed))
  BY <1>1, FS_Interval
<1>3. IsFiniteSet(LiveCommitted)
  BY <1>1, <1>2, FS_Subset
<1>4. ASSUME NEW S \in SUBSET LiveCommitted PROVE IsFiniteSet(S) /\ Cardinality(S) \in Nat
  <2>1. IsFiniteSet(S)
    BY <1>3, FS_Subset
  <2> QED BY <2>1, FS_CardinalityType
<1> QED BY <1>3, <1>4

\* An advance from a live row passes that row and no other.
LEMMA AdvancePasses ==
    ASSUME PageTypeOK, FetchNext, HaveCommitted, fetched \in LiveCommitted
    PROVE  /\ fetched' \in (fetched + 1)..(Len(committed) + 1)
           /\ Before(fetched') = Before(fetched) \cup {fetched}
           /\ Cardinality(Before(fetched')) = Cardinality(Before(fetched)) + 1
           /\ answer' \in {"running", "error"}
           /\ answer' = "error" => fetched' = failAt
           /\ answer' = "running" /\ fetched' \in DOMAIN committed => fetched' \in LiveCommitted
<1>1. PICK q \in (fetched + 1)..(Len(committed) + 1) :
        /\ Stops(q)
        /\ \A r \in (fetched + 1)..(q - 1) : ~Stops(r)
        /\ fetched' = q
        /\ answer' = IF q = failAt THEN "error" ELSE "running"
  BY DEF FetchNext
<1>2. q \in Nat /\ fetched \in Nat /\ fetched < q
  BY <1>1, PageTyped
<1>3. \A r \in LiveCommitted : r \in Nat /\ Stops(r)
  BY PageTyped DEF LiveCommitted, Stops
<1>4. \A r \in LiveCommitted : r < q <=> r < fetched \/ r = fetched
  <2> SUFFICES ASSUME NEW r \in LiveCommitted, r < q PROVE r <= fetched
    BY <1>2, <1>3
  <2>1. r \notin (fetched + 1)..(q - 1)
    BY <1>1, <1>3
  <2> QED BY <1>2, <1>3, <2>1
<1>5. Before(q) = Before(fetched) \cup {fetched} /\ fetched \notin Before(fetched)
  <2>1. fetched \notin Before(fetched)
    BY <1>2 DEF Before
  <2>2. \A r : r \in Before(q) <=> r \in Before(fetched) \/ r = fetched
    BY <1>4 DEF Before
  <2> QED BY <2>1, <2>2
<1>6. IsFiniteSet(Before(fetched))
  BY LiveFinite DEF Before
<1>7. Cardinality(Before(q)) = Cardinality(Before(fetched)) + 1
  BY <1>5, <1>6, FS_AddElement
<1>8. answer' = "running" /\ q \in DOMAIN committed => q \in LiveCommitted
  BY <1>1 DEF Stops, LiveCommitted
<1> QED BY <1>1, <1>5, <1>7, <1>8

\* The first advance passes no live row.
LEMMA FirstAdvance ==
    ASSUME PageTypeOK, FetchNext, fetched = 0
    PROVE  /\ fetched' \in 1..(Len(committed) + 1)
           /\ Before(fetched') = {}
           /\ answer' \in {"running", "error"}
           /\ answer' = "error" => fetched' = failAt
           /\ answer' = "running" /\ fetched' \in DOMAIN committed => fetched' \in LiveCommitted
<1>1. PICK q \in 1..(Len(committed) + 1) :
        /\ Stops(q)
        /\ \A r \in 1..(q - 1) : ~Stops(r)
        /\ fetched' = q
        /\ answer' = IF q = failAt THEN "error" ELSE "running"
  <2>1. fetched + 1 = 1
    OBVIOUS
  <2> QED BY <2>1 DEF FetchNext
<1>2. \A r \in LiveCommitted : r \in Nat /\ r > 0 /\ Stops(r)
  BY PageTyped DEF LiveCommitted, Stops
<1>3. ASSUME NEW r \in Before(q) PROVE FALSE
  <2>1. r \in LiveCommitted /\ r < q
    BY DEF Before
  <2>2. q \in Nat /\ r \in 1..(q - 1)
    BY <1>2, <2>1, PageTyped
  <2> QED BY <1>1, <1>2, <2>1, <2>2
<1>4. answer' = "running" /\ q \in DOMAIN committed => q \in LiveCommitted
  BY <1>1 DEF Stops, LiveCommitted
<1> QED BY <1>1, <1>3, <1>4

-----------------------------------------------------------------------------
(* The steps.                                                              *)

\* One more row, not taken before, that sorts no earlier than those taken and no
\* later than what is still to come.
LEMMA PageKeepsOrder ==
    ASSUME PageInv, UNCHANGED request,
           NEW row \in Entity, NEW origin \in {"overlay", "committed"},
           [from |-> origin, row |-> row] \notin PageRows,
           page' = Append(page, [from |-> origin, row |-> row]),
           fetched' \in 0..(Len(committed) + 1), fetched <= fetched', laid' \in 0..Len(adds), laid <= laid',
           \A k \in DOMAIN page : ~Less(row, page[k].row),
           \A i \in DOMAIN committed : i >= fetched' => ~Less(committed[i], row),
           \A j \in DOMAIN adds : j > laid' => ~Less(adds[j], row)
    PROVE  /\ page' \in Seq([from : {"overlay", "committed"}, row : Entity])
           /\ Len(page') = Len(page) + 1
           /\ PageRows' = PageRows \cup {[from |-> origin, row |-> row]}
           /\ NoneTwice' /\ PageInOrder' /\ AheadOfPage'
<1> DEFINE new == [from |-> origin, row |-> row]
           D == [from : {"overlay", "committed"}, row : Entity]
<1>1. page \in Seq(D) /\ new \in D /\ new.row = row /\ page' = Append(page, new)
  BY DEF PageInv, PageTypeOK
<1>2. new \notin PageRows
  OBVIOUS
<1> HIDE DEF new, D
<1>3. /\ Len(page) \in Nat /\ DOMAIN page = 1..Len(page)
      /\ page' \in Seq(D) /\ Len(page') = Len(page) + 1
      /\ DOMAIN page' = 1..(Len(page) + 1)
      /\ \A k \in DOMAIN page : page'[k] = page[k]
      /\ page'[Len(page) + 1] = new
  BY <1>1
<1>4. \A k \in DOMAIN page' : k \in Int /\ (k \in DOMAIN page \/ k = Len(page) + 1)
  BY <1>3
<1>5. PageRows' = PageRows \cup {new}
  BY <1>3, <1>4 DEF PageRows
<1>6. NoneTwice'
  <2>1. \A k \in DOMAIN page : page[k] # new
    BY <1>2 DEF PageRows
  <2> SUFFICES ASSUME NEW k \in DOMAIN page', NEW l \in DOMAIN page', page'[k] = page'[l]
               PROVE  k = l
    BY DEF NoneTwice
  <2>2. CASE k \in DOMAIN page /\ l \in DOMAIN page
    BY <1>3, <2>2 DEF PageInv, NoneTwice
  <2>3. CASE k = Len(page) + 1 \/ l = Len(page) + 1
    BY <1>3, <1>4, <2>1, <2>3
  <2> QED BY <1>4, <2>2, <2>3
<1>7. PageInOrder'
  <2> SUFFICES ASSUME NEW k \in DOMAIN page', NEW l \in DOMAIN page', k < l
               PROVE  ~Less(page'[l].row, page'[k].row)
    BY DEF PageInOrder
  <2>1. k \in DOMAIN page
    BY <1>3, <1>4
  <2>2. CASE l \in DOMAIN page
    BY <1>3, <2>1, <2>2 DEF PageInv, PageInOrder
  <2>3. CASE l = Len(page) + 1
    BY <1>1, <1>3, <2>1, <2>3
  <2> QED BY <1>4, <2>2, <2>3
<1>8. AheadOfPage'
  <2> SUFFICES ASSUME NEW k \in DOMAIN page'
               PROVE  /\ \A i \in DOMAIN committed : i >= fetched' => ~Less(committed[i], page'[k].row)
                      /\ \A j \in DOMAIN adds : j > laid' => ~Less(adds[j], page'[k].row)
    BY DEF AheadOfPage, request, args
  <2>1. CASE k \in DOMAIN page
    <3>1. /\ \A i \in DOMAIN committed : i \in Nat /\ (i >= fetched' => i >= fetched)
          /\ \A j \in DOMAIN adds : j \in Nat /\ (j > laid' => j > laid)
      BY PageTyped DEF PageInv
    <3> QED BY <1>3, <2>1, <3>1 DEF PageInv, AheadOfPage
  <2>2. CASE k = Len(page) + 1
    BY <1>1, <1>3, <2>2
  <2> QED BY <1>4, <2>1, <2>2
<1> QED BY <1>3, <1>5, <1>6, <1>7, <1>8 DEF new, D

\* A step that takes no row keeps what was taken in order.
LEMMA NothingLaid ==
    ASSUME PageInv, UNCHANGED <<request, page, laid>>,
           fetched' \in 0..(Len(committed) + 1), fetched <= fetched',
           answer' \in {"none", "contract", "running", "error", "rows", "limitExceeded"}
    PROVE  PageTypeOK' /\ NoneTwice' /\ PageInOrder' /\ AheadOfPage'
<1>1. PageTypeOK'
  BY DEF PageInv, PageTypeOK, request, args
<1>2. NoneTwice' /\ PageInOrder'
  BY DEF PageInv, NoneTwice, PageInOrder
<1>3. \A i \in DOMAIN committed : i \in Nat /\ (i >= fetched' => i >= fetched)
  BY PageTyped DEF PageInv
<1>4. AheadOfPage'
  BY <1>3 DEF PageInv, AheadOfPage, request, args
<1> QED BY <1>1, <1>2, <1>4

\* What the arguments determine stays.
LEMMA RequestFixed ==
    ASSUME UNCHANGED request
    PROVE  /\ committed' = committed /\ adds' = adds /\ limit' = limit /\ failAt' = failAt
           /\ LiveCommitted' = LiveCommitted /\ Survivors' = Survivors
           /\ Before(fetched)' = Before(fetched')
           /\ \A i : FromOverlay(i)' = FromOverlay(i) /\ FromCommitted(i)' = FromCommitted(i)
BY DEF request, args, LiveCommitted, Survivors, Before, FromOverlay, FromCommitted

\* Until the first row is taken nothing is behind the buffered row.
LEMMA StartKeeps ==
    ASSUME PageInv, UNCHANGED request, RefuseLimit \/ StartPage
    PROVE  PageInv'
<1>1. PageTypeOK /\ Idle /\ UNCHANGED <<laid, page>>
  BY DEF PageInv, Stages, RefuseLimit, StartPage
<1>2. CASE RefuseLimit
  <2>1. answer' = "contract" /\ fetched' = fetched /\ limit <= 0
    BY <1>2 DEF RefuseLimit
  <2>2. Stages'
    BY <1>1, <2>1, RequestFixed DEF Stages, Idle
  <2> QED BY <1>1, <2>1, <2>2, PageTyped, NothingLaid DEF PageInv, PageTypeOK
<1>3. CASE StartPage
  <2>1. limit > 0 /\ FetchNext
    BY <1>3 DEF StartPage
  <2>2. /\ fetched' \in 1..(Len(committed) + 1) /\ Before(fetched') = {}
        /\ answer' \in {"running", "error"}
        /\ answer' = "error" => fetched' = failAt
        /\ answer' = "running" /\ fetched' \in DOMAIN committed => fetched' \in LiveCommitted
    BY <1>1, <2>1, FirstAdvance DEF Idle
  <2>3. Cardinality(Before(fetched')) = 0
    BY <2>2, FS_EmptySet
  <2>4. PageRows' = {} /\ Len(page') = 0 /\ laid' = 0 /\ fetched' > 0 /\ limit \in Int
    BY <1>1, <2>2, PageTyped DEF PageRows, Idle, PageTypeOK
  <2>5. PageTaken'
    <3>1. {FromOverlay(j) : j \in 1..0} = {} /\ {FromCommitted(i) : i \in {}} = {}
      OBVIOUS
    <3> QED BY <2>2, <2>4, <3>1, RequestFixed DEF PageTaken
  <2>6. Merging'
    BY <2>1, <2>3, <2>4, <2>5, RequestFixed DEF Merging
  <2>7. Stages'
    <3>1. answer' = "error" => /\ fetched' = failAt'
                               /\ Cardinality(Before(fetched)') + laid' <= limit' + 1
      <4>1. /\ Cardinality(Before(fetched)') = 0 /\ limit' = limit /\ failAt' = failAt
        BY <2>3, RequestFixed
      <4> QED BY <2>1, <2>2, <2>4, <4>1
    <3>2. answer' = "running" /\ HaveCommitted' => fetched' \in LiveCommitted'
      BY <2>2, RequestFixed DEF HaveCommitted
    <3> QED BY <2>2, <2>6, <3>1, <3>2 DEF Stages
  <2>8. fetched' \in 0..(Len(committed) + 1) /\ fetched <= fetched'
    BY <1>1, <2>2, PageTyped DEF Idle
  <2> QED BY <1>1, <2>2, <2>7, <2>8, NothingLaid DEF PageInv
<1> QED BY <1>2, <1>3

\* Nothing sorts before a row of a sorted input from its place on.
LEMMA SortedAhead ==
    ASSUME NEW s \in Seq(Entity), Sorted(s), NEW a \in DOMAIN s, NEW row \in Entity,
           ~Less(s[a], row), NEW b \in DOMAIN s, b >= a
    PROVE  ~Less(s[b], row)
<1>1. a \in Int /\ b \in Int /\ s[a] \in Entity /\ s[b] \in Entity
  OBVIOUS
<1>2. CASE b = a
  BY <1>2
<1>3. CASE b > a
  <2>1. Less(s[a], s[b])
    BY <1>1, <1>3 DEF Sorted
  <2>2. ~Less(s[b], s[a])
    BY <1>1, <2>1, NotLessTransitive
  <2> QED BY <1>1, <2>2, NotLessTransitive
<1> QED BY <1>1, <1>2, <1>3

\* The overlay row taken is the next, and sorts before the buffered row.
LEMMA TakeAddKeeps ==
    ASSUME PageInv, UNCHANGED request, PageAdd
    PROVE  PageInv'
<1> DEFINE row == adds[laid + 1]
<1>1. /\ PageTypeOK /\ Merging /\ answer = "running" /\ answer' = "running" /\ fetched' = fetched
      /\ laid' = laid + 1 /\ page' = Append(page, [from |-> "overlay", row |-> row])
      /\ laid < Len(adds) /\ ~(Len(page) >= limit + 1)
      /\ fetched \in DOMAIN committed => Less(row, committed[fetched])
      /\ fetched \in DOMAIN committed => fetched \in LiveCommitted
  BY DEF PageInv, Stages, PageAdd, HaveOverlay, HaveCommitted, Full
<1>2. /\ laid + 1 \in DOMAIN adds /\ row \in Entity /\ laid + 1 \in 0..Len(adds)
      /\ fetched \in 0..(Len(committed) + 1) /\ fetched > 0 /\ limit \in Int /\ Len(page) \in Nat
      /\ laid \in Nat
  BY <1>1, PageTyped DEF PageTypeOK, Merging
<1>3. FromOverlay(laid + 1) \notin PageRows
  <2>1. \A j \in 1..laid : adds[j] # row
    <3> SUFFICES ASSUME NEW j \in 1..laid PROVE adds[j] # row
      OBVIOUS
    <3>1. j \in DOMAIN adds /\ j # laid + 1
      BY <1>1, <1>2, PageTyped
    <3> QED BY <1>1, <1>2, <3>1, SortedDistinct DEF PageTypeOK
  <2> QED BY <1>1, <2>1 DEF Merging, PageTaken, FromOverlay, FromCommitted
<1>4. \A k \in DOMAIN page : ~Less(row, page[k].row)
  BY <1>2 DEF PageInv, AheadOfPage
<1>5. ASSUME NEW i \in DOMAIN committed, i >= fetched PROVE ~Less(committed[i], row)
  <2>1. fetched \in DOMAIN committed /\ committed[fetched] \in Entity
    BY <1>1, <1>2, <1>5, PageTyped
  <2>2. ~Less(committed[fetched], row)
    BY <1>1, <1>2, <2>1, NotLessTransitive
  <2> QED BY <1>1, <1>2, <1>5, <2>1, <2>2, SortedAhead DEF PageTypeOK
<1>6. ASSUME NEW j \in DOMAIN adds, j > laid + 1 PROVE ~Less(adds[j], row)
  <2>1. Less(row, adds[j]) /\ adds[j] \in Entity
    BY <1>1, <1>2, <1>6, PageTyped DEF PageTypeOK, Sorted
  <2> QED BY <1>2, <2>1, NotLessTransitive
<1>7. fetched <= fetched' /\ laid <= laid' /\ fetched' \in 0..(Len(committed) + 1) /\ laid' \in 0..Len(adds)
  BY <1>1, <1>2, PageTyped
<1>8. FromOverlay(laid + 1) = [from |-> "overlay", row |-> row]
  BY DEF FromOverlay
<1> HIDE DEF row
<1>9. /\ page' \in Seq([from : {"overlay", "committed"}, row : Entity])
      /\ Len(page') = Len(page) + 1
      /\ PageRows' = PageRows \cup {FromOverlay(laid + 1)}
      /\ NoneTwice' /\ PageInOrder' /\ AheadOfPage'
  <2>1. [from |-> "overlay", row |-> row] \notin PageRows
    BY <1>3, <1>8
  <2>2. /\ \A i \in DOMAIN committed : i >= fetched' => ~Less(committed[i], row)
        /\ \A j \in DOMAIN adds : j > laid' => ~Less(adds[j], row)
    BY <1>1, <1>5, <1>6
  <2> QED BY <1>1, <1>2, <1>4, <1>7, <1>8, <2>1, <2>2, PageKeepsOrder
<1>10. PageTypeOK'
  BY <1>1, <1>7, <1>9 DEF PageTypeOK, request, args
<1>11. PageTaken'
  <2>1. 1..(laid + 1) = 1..laid \cup {laid + 1}
    BY <1>2
  <2>2. {FromOverlay(j) : j \in 1..(laid + 1)} = {FromOverlay(j) : j \in 1..laid} \cup {FromOverlay(laid + 1)}
    BY <2>1
  <2>3. PageRows' = {FromOverlay(j) : j \in 1..(laid + 1)} \cup {FromCommitted(i) : i \in Before(fetched)}
    BY <1>1, <1>9, <2>2 DEF Merging, PageTaken
  <2> QED BY <1>1, <2>3, RequestFixed DEF PageTaken
<1>12. Merging'
  <2>1. Cardinality(Before(fetched)) \in Nat /\ Before(fetched)' = Before(fetched) /\ limit' = limit
    BY <1>1, LiveFinite, RequestFixed DEF Before
  <2> QED BY <1>1, <1>2, <1>9, <1>11, <2>1 DEF Merging
<1>13. Stages'
  BY <1>1, <1>12, RequestFixed DEF Stages, HaveCommitted
<1> QED BY <1>9, <1>10, <1>13 DEF PageInv

\* The buffered row is taken, unless the call of next behind it fails.
LEMMA TakeCommittedKeeps ==
    ASSUME PageInv, UNCHANGED request, PageCommitted
    PROVE  PageInv'
<1> DEFINE row == committed[fetched]
<1>1. /\ PageTypeOK /\ Merging /\ laid' = laid /\ FetchNext /\ HaveCommitted /\ fetched \in LiveCommitted
      /\ page' = IF answer' = "error" THEN page
                ELSE Append(page, [from |-> "committed", row |-> row])
      /\ ~(Len(page) >= limit + 1)
      /\ laid < Len(adds) => ~Less(adds[laid + 1], row)
  BY DEF PageInv, Stages, PageCommitted, HaveOverlay, HaveCommitted, Full
<1>2. /\ fetched' \in (fetched + 1)..(Len(committed) + 1)
      /\ Before(fetched') = Before(fetched) \cup {fetched}
      /\ Cardinality(Before(fetched')) = Cardinality(Before(fetched)) + 1
      /\ answer' \in {"running", "error"}
      /\ answer' = "error" => fetched' = failAt
      /\ answer' = "running" /\ fetched' \in DOMAIN committed => fetched' \in LiveCommitted
  BY <1>1, AdvancePasses
<1>3. /\ fetched \in DOMAIN committed /\ row \in Entity /\ fetched \in Nat /\ laid \in Nat
      /\ limit \in Int /\ Len(page) \in Nat /\ fetched > 0 /\ limit > 0
      /\ Len(page) = laid + Cardinality(Before(fetched)) /\ Cardinality(Before(fetched)) \in Nat
  BY <1>1, PageTyped, LiveFinite DEF HaveCommitted, PageTypeOK, Merging, Before
<1>4. /\ fetched <= fetched' /\ fetched < fetched' /\ fetched' \in Nat /\ fetched' \in 0..(Len(committed) + 1)
      /\ laid <= laid' /\ laid' \in 0..Len(adds)
  BY <1>1, <1>2, <1>3, PageTyped DEF PageTypeOK
<1>5. CASE answer' = "error"
  <2>1. PageTypeOK' /\ NoneTwice' /\ PageInOrder' /\ AheadOfPage'
    BY <1>1, <1>4, <1>5, NothingLaid
  <2>2. fetched' = failAt /\ Cardinality(Before(fetched')) + laid' <= limit + 1
    BY <1>1, <1>2, <1>3, <1>5
  <2>3. fetched' = failAt' /\ Cardinality(Before(fetched)') + laid' <= limit' + 1
    BY <2>2, RequestFixed
  <2>4. Stages'
    BY <1>5, <2>3 DEF Stages
  <2> QED BY <2>1, <2>4 DEF PageInv
<1>6. CASE answer' = "running"
  <2>1. FromCommitted(fetched) \notin PageRows
    <3>1. \A i \in Before(fetched) : committed[i] # row
      <4> SUFFICES ASSUME NEW i \in Before(fetched) PROVE committed[i] # row
        OBVIOUS
      <4>1. i \in DOMAIN committed /\ i < fetched
        BY DEF Before, LiveCommitted
      <4>2. i # fetched
        BY <1>3, <4>1, PageTyped, <1>1
      <4> QED BY <1>1, <1>3, <4>1, <4>2, SortedDistinct DEF PageTypeOK
    <3> QED BY <1>1, <3>1 DEF Merging, PageTaken, FromOverlay, FromCommitted
  <2>2. \A k \in DOMAIN page : ~Less(row, page[k].row)
    BY <1>3 DEF PageInv, AheadOfPage
  <2>3. ASSUME NEW i \in DOMAIN committed, i >= fetched' PROVE ~Less(committed[i], row)
    <3>1. i > fetched /\ committed[i] \in Entity
      BY <1>1, <1>3, <1>4, <2>3, PageTyped
    <3>2. Less(row, committed[i])
      BY <1>1, <1>3, <3>1 DEF PageTypeOK, Sorted
    <3> QED BY <1>3, <3>1, <3>2, NotLessTransitive
  <2>4. ASSUME NEW j \in DOMAIN adds, j > laid' PROVE ~Less(adds[j], row)
    <3>1. laid + 1 \in DOMAIN adds /\ j >= laid + 1
      BY <1>1, <1>3, <2>4, PageTyped
    <3>2. ~Less(adds[laid + 1], row)
      BY <1>1, <3>1, PageTyped
    <3> QED BY <1>1, <1>3, <2>4, <3>1, <3>2, SortedAhead DEF PageTypeOK
  <2>5. FromCommitted(fetched) = [from |-> "committed", row |-> row]
    BY DEF FromCommitted
  <2>6. page' = Append(page, [from |-> "committed", row |-> row])
    BY <1>1, <1>6
  <2> HIDE DEF row
  <2>7. /\ page' \in Seq([from : {"overlay", "committed"}, row : Entity])
        /\ Len(page') = Len(page) + 1
        /\ PageRows' = PageRows \cup {FromCommitted(fetched)}
        /\ NoneTwice' /\ PageInOrder' /\ AheadOfPage'
    <3>1. [from |-> "committed", row |-> row] \notin PageRows
      BY <2>1, <2>5
    <3> QED BY <1>3, <1>4, <2>2, <2>3, <2>4, <2>5, <2>6, <3>1, PageKeepsOrder
  <2>8. PageTypeOK'
    BY <1>1, <1>4, <1>6, <2>7 DEF PageTypeOK, request, args
  <2>9. PageTaken'
    <3>1. {FromCommitted(i) : i \in Before(fetched')} =
            {FromCommitted(i) : i \in Before(fetched)} \cup {FromCommitted(fetched)}
      BY <1>2
    <3>2. PageRows' = {FromOverlay(j) : j \in 1..laid} \cup {FromCommitted(i) : i \in Before(fetched')}
      BY <1>1, <2>7, <3>1 DEF Merging, PageTaken
    <3> QED BY <1>1, <3>2, RequestFixed DEF PageTaken
  <2>10. Merging'
    <3>1. fetched' > 0 /\ Len(page') = laid' + Cardinality(Before(fetched')) /\ Len(page') <= limit + 1
      BY <1>1, <1>2, <1>3, <1>4, <2>7
    <3> QED BY <1>3, <2>9, <3>1, RequestFixed DEF Merging
  <2>11. Stages'
    BY <1>2, <1>6, <2>10, RequestFixed DEF Stages, HaveCommitted
  <2> QED BY <2>7, <2>8, <2>11 DEF PageInv
<1> QED BY <1>2, <1>5, <1>6

\* The merge returns when it holds one row too many or all there are.
LEMMA ReturnKeeps ==
    ASSUME PageInv, UNCHANGED request, ReturnPage
    PROVE  PageInv'
<1>1. /\ PageTypeOK /\ Merging /\ UNCHANGED <<fetched, laid, page>>
      /\ Len(page) >= limit + 1 \/ (fetched \notin DOMAIN committed /\ ~(laid < Len(adds)))
      /\ answer' = IF Len(page) > limit THEN "limitExceeded" ELSE "rows"
  BY DEF PageInv, Stages, ReturnPage, HaveOverlay, HaveCommitted, Full
<1>2. limit \in Int /\ Len(page) \in Nat /\ fetched > 0 /\ fetched \in 0..(Len(committed) + 1) /\ laid \in 0..Len(adds)
  BY <1>1, PageTyped DEF PageTypeOK, Merging
<1>3. PageTypeOK' /\ NoneTwice' /\ PageInOrder' /\ AheadOfPage'
  BY <1>1, <1>2, PageTyped, NothingLaid
<1>4. Merging'
  BY <1>1 DEF request, args, Merging, PageTaken, PageRows, FromOverlay, FromCommitted, Before, LiveCommitted
<1>5. answer' = "rows" => Len(page) <= limit /\ laid = Len(adds) /\ fetched = Len(committed) + 1
  <2> SUFFICES ASSUME answer' = "rows"
               PROVE  Len(page) <= limit /\ laid = Len(adds) /\ fetched = Len(committed) + 1
    OBVIOUS
  <2>1. ~(Len(page) > limit)
    BY <1>1
  <2>2. fetched \notin DOMAIN committed /\ ~(laid < Len(adds))
    BY <1>1, <1>2, <2>1
  <2>3. Len(committed) \in Nat /\ DOMAIN committed = 1..Len(committed) /\ Len(adds) \in Nat
    BY <1>1, PageTyped
  <2> QED BY <1>2, <2>1, <2>2, <2>3
<1>6. Stages'
  BY <1>1, <1>4, <1>5, RequestFixed DEF Stages
<1> QED BY <1>3, <1>6 DEF PageInv

\* At first nothing is taken.
LEMMA InitPageInv ==
    ASSUME InitPage
    PROVE  PageInv
<1>1. /\ committed \in Seq(Entity) /\ Sorted(committed)
      /\ adds \in Seq(Entity) /\ Sorted(adds)
  BY RowsAreSorted DEF InitPage, Given
<1>2. PageTypeOK
  BY <1>1, LimitsAssumption DEF InitPage, Given, FailPoints, PageTypeOK
<1>3. DOMAIN page = {}
  BY DEF InitPage
<1> QED BY <1>2, <1>3 DEF InitPage, PageInv, Stages, Idle, NoneTwice, PageInOrder, AheadOfPage

\* Every step keeps PageInv.
LEMMA StepPageInv ==
    ASSUME PageInv, [NextPage]_<<args, pageVars>>
    PROVE  PageInv'
<1>1. CASE UNCHANGED <<args, pageVars>>
  <2>1. UNCHANGED <<committed, adds, deleted, failAt, limit, fetched, laid, page, answer>>
    BY <1>1 DEF pageVars, args
  <2>2. PageTypeOK' /\ NoneTwice' /\ PageInOrder' /\ AheadOfPage'
    BY <2>1 DEF PageInv, PageTypeOK, NoneTwice, PageInOrder, AheadOfPage, LiveCommitted
  <2>3. Stages'
    BY <2>1 DEF PageInv, Stages, Idle, Merging, PageTaken, PageRows, Before, LiveCommitted,
                FromOverlay, FromCommitted, HaveCommitted
  <2> QED BY <2>2, <2>3 DEF PageInv
<1>2. CASE NextPage
  BY <1>2, StartKeeps, TakeAddKeeps, TakeCommittedKeeps, ReturnKeeps DEF NextPage
<1> QED BY <1>1, <1>2

\* MergeBounded's variables keep their types, and at every step the rows taken
\* are those of the view before the place the call has reached.
THEOREM PageInvariance == SpecPage => []PageInv
<1>1. InitPage => PageInv
  BY InitPageInv
<1>2. PageInv /\ [NextPage]_<<args, pageVars>> => PageInv'
  BY StepPageInv
<1> QED BY <1>1, <1>2, PTL DEF SpecPage

-----------------------------------------------------------------------------
\* The rows taken number as many as the list of them is long.
LEMMA PageCount ==
    ASSUME PageInv
    PROVE  IsFiniteSet(PageRows) /\ Cardinality(PageRows) = Len(page)
<1>1. Len(page) \in Nat /\ DOMAIN page = 1..Len(page)
  BY PageTyped DEF PageInv
<1> DEFINE f == [k \in 1..Len(page) |-> page[k]]
<1>2. f \in Bijection(1..Len(page), PageRows)
  <2>1. f \in [1..Len(page) -> PageRows]
    BY <1>1 DEF PageRows
  <2>2. \A k, l \in 1..Len(page) : f[k] = f[l] => k = l
    BY <1>1 DEF PageInv, NoneTwice
  <2>3. \A d \in PageRows : \E k \in 1..Len(page) : f[k] = d
    BY <1>1 DEF PageRows
  <2> QED BY <2>1, <2>2, <2>3 DEF Bijection, Injection, Surjection, IsInjective
<1>3. ExistsBijection(1..Len(page), PageRows)
  BY <1>2 DEF ExistsBijection
<1> QED BY <1>1, <1>3, FS_CountingElements, FS_NatBijection

\* The view is finite, and whatever was taken is of it.
LEMMA SurvivorsFinite ==
    ASSUME PageInv
    PROVE  /\ IsFiniteSet(Survivors)
           /\ Merging => PageRows \subseteq Survivors
<1>1. PageTypeOK
  BY DEF PageInv
<1> DEFINE C == {FromCommitted(i) : i \in LiveCommitted}
           A == {FromOverlay(j) : j \in DOMAIN adds}
           f == [i \in LiveCommitted |-> FromCommitted(i)]
           g == [j \in DOMAIN adds |-> FromOverlay(j)]
<1>2. Survivors = C \cup A
  BY DEF Survivors, FromCommitted, FromOverlay
<1>3. IsFiniteSet(C)
  <2>1. f \in Surjection(LiveCommitted, C)
    BY DEF Surjection
  <2> QED BY <1>1, <2>1, LiveFinite, FS_Surjection
<1>4. IsFiniteSet(A)
  <2>1. g \in Surjection(DOMAIN adds, A)
    BY DEF Surjection
  <2>2. IsFiniteSet(DOMAIN adds)
    BY <1>1, PageTyped, FS_Interval
  <2> QED BY <2>1, <2>2, FS_Surjection
<1>5. ASSUME Merging PROVE PageRows \subseteq C \cup A
  <2>1. 1..laid \subseteq DOMAIN adds /\ Before(fetched) \subseteq LiveCommitted
    BY <1>1, PageTyped DEF PageTypeOK, Before
  <2> QED BY <1>5, <2>1 DEF Merging, PageTaken
<1> QED BY <1>2, <1>3, <1>4, <1>5, FS_Union

\* "Bounded or fail": whatever the limit, rows come back only as the complete
\* merged view in order, none twice and no more than the limit, and the limit is
\* reported exceeded only when the view exceeds it.
THEOREM PagesAreWhole == SpecPage => []BoundedOrFail
<1>1. PageInv => BoundedOrFail
  <2> SUFFICES ASSUME PageInv PROVE BoundedOrFail
    OBVIOUS
  <2>1. PageTypeOK /\ IsFiniteSet(PageRows) /\ Cardinality(PageRows) = Len(page) /\ IsFiniteSet(Survivors)
    BY PageCount, SurvivorsFinite DEF PageInv
  <2>2. CASE answer = "rows"
    <3>1. PageTaken /\ laid = Len(adds) /\ fetched = Len(committed) + 1 /\ Len(page) <= limit
      BY <2>2 DEF PageInv, Stages, Merging
    <3>2. Before(fetched) = LiveCommitted /\ 1..laid = DOMAIN adds
      BY <2>1, <3>1, PageTyped DEF Before, LiveCommitted
    <3>3. PageRows = Survivors
      BY <3>1, <3>2 DEF PageTaken, Survivors, FromOverlay, FromCommitted
    <3>4. \A i, j \in DOMAIN page : i < j => ~Less(page[j].row, page[i].row)
      BY DEF PageInv, PageInOrder
    <3> QED BY <2>1, <2>2, <3>1, <3>3, <3>4 DEF BoundedOrFail, SurvivorCount, PageRows
  <2>3. CASE answer = "limitExceeded"
    <3>1. PageRows \in SUBSET Survivors /\ Len(page) > limit
      BY <2>3, SurvivorsFinite DEF PageInv, Stages
    <3>2. Cardinality(PageRows) <= Cardinality(Survivors) /\ Cardinality(Survivors) \in Nat
      BY <2>1, <3>1, FS_Subset, FS_CardinalityType
    <3>3. limit \in Int /\ Len(page) \in Nat
      BY <2>1, PageTyped DEF PageTypeOK
    <3> QED BY <2>1, <2>3, <3>1, <3>2, <3>3 DEF BoundedOrFail, SurvivorCount
  <2> QED BY <2>2, <2>3 DEF BoundedOrFail
<1> QED BY <1>1, PageInvariance, PTL

\* The committed source is pulled lazily: with laid overlay rows taken, at most
\* limit + 1 - laid committed rows were taken and one more is buffered.
THEOREM FetchIsBounded == SpecPage => []BoundedFetch
<1>1. PageInv => BoundedFetch
  <2> DEFINE live == {i \in LiveCommitted : i <= fetched /\ i # failAt}
  <2> SUFFICES ASSUME PageInv, limit > 0 PROVE Cardinality(live) <= limit + 2 - laid
    BY DEF BoundedFetch
  <2>1. /\ PageTypeOK /\ limit \in Int /\ laid \in Nat /\ fetched \in Nat /\ Len(page) \in Nat
        /\ \A i \in LiveCommitted : i \in Nat /\ i > 0
    BY PageTyped DEF PageInv, PageTypeOK, LiveCommitted
  <2>2. /\ IsFiniteSet(Before(fetched)) /\ Cardinality(Before(fetched)) \in Nat
        /\ IsFiniteSet(live) /\ Cardinality(live) \in Nat
    BY <2>1, LiveFinite DEF Before
  <2>3. CASE answer = "none" \/ answer = "contract"
    <3>1. fetched = 0 /\ laid = 0
      BY <2>3 DEF PageInv, Stages, Idle
    <3>2. live = {}
      BY <2>1, <3>1
    <3>3. Cardinality(live) = 0
      BY <3>2, FS_EmptySet
    <3> HIDE DEF live
    <3> QED BY <2>1, <3>1, <3>3
  <2>4. CASE answer = "error"
    <3>1. fetched = failAt /\ Cardinality(Before(fetched)) + laid <= limit + 1
      BY <2>4 DEF PageInv, Stages
    <3>2. live \in SUBSET Before(fetched)
      BY <2>1, <3>1 DEF Before
    <3>3. Cardinality(live) <= Cardinality(Before(fetched))
      BY <2>2, <3>2, FS_Subset
    <3> HIDE DEF live
    <3> QED BY <2>1, <2>2, <3>1, <3>3
  <2>5. CASE answer \in {"running", "rows", "limitExceeded"}
    <3>1. Len(page) = laid + Cardinality(Before(fetched)) /\ Len(page) <= limit + 1
      BY <2>5 DEF PageInv, Stages, Merging
    <3>2. live \in SUBSET (Before(fetched) \cup {fetched})
      BY <2>1 DEF Before
    <3>3. /\ IsFiniteSet(Before(fetched) \cup {fetched})
          /\ Cardinality(Before(fetched) \cup {fetched}) <= Cardinality(Before(fetched)) + 1
      BY <2>2, FS_AddElement
    <3>4. Cardinality(live) <= Cardinality(Before(fetched) \cup {fetched})
      BY <3>2, <3>3, FS_Subset
    <3>5. Cardinality(Before(fetched) \cup {fetched}) \in Nat
      BY <3>3, FS_CardinalityType
    <3> HIDE DEF live
    <3> QED BY <2>1, <2>2, <3>1, <3>3, <3>4, <3>5
  <2> QED BY <2>1, <2>3, <2>4, <2>5 DEF PageTypeOK
<1> QED BY <1>1, PageInvariance, PTL
=============================================================================
