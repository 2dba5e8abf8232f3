------------------------ MODULE ScheduledTasksProofs ------------------------
(***************************************************************************)
(* The types of ScheduledTasks, that at most one task of an entity is      *)
(* RUNNING, that a transaction replaces only rows still as it found them   *)
(* and keeps the rows it wrote until it ends, and two bounds on the lives  *)
(* of tasks: every attempt and every lost owner that a life counts was a   *)
(* claim of that life, each a different one, and work that may not be      *)
(* repeated is handed off at most once in a life.  All for any number of   *)
(* tasks, owners and transactions and whatever the bounds.                 *)
(*                                                                         *)
(* OneRunningPerEntity is not inductive: a commit writes back whole rows   *)
(* of a view that may be old, and could bring back a RUNNING row whose     *)
(* sibling was claimed since.  It takes first-committer-wins to exclude    *)
(* that: a row no one wrote since Begin is as the snapshot shows it, and a *)
(* transaction never makes a row RUNNING that its snapshot does not show   *)
(* RUNNING.                                                                *)
(*                                                                         *)
(* For the same reason the count of a life has to hold of the views as     *)
(* well as of the rows; views may lag behind, and claim tokens only grow.  *)
(*                                                                         *)
(* Handing off once rests on the mark, which has to stand as long as the   *)
(* life it is of.  A mark is swept when its life is over, and the life     *)
(* must not come back: a commit puts back a row of the current life, none, *)
(* or one that nobody was given a claim of, since a transaction whose row  *)
(* was claimed meanwhile has a rival and does not commit it.  A mark is    *)
(* cleared by the run that made it, and nobody else may have been told     *)
(* that it is there: a claim is answered once, to one owner, and run once. *)
(***************************************************************************)
EXTENDS ScheduledTasks, TLAPS

\* Rows without a rival are as the snapshot shows them.
SnapshotHolds == \A x \in Tx : tx[x].open =>
                   \A t \in Task : t \notin tx[x].rivals => row[t] = tx[x].snap[t]

\* A transaction claims nothing.
ViewClaimsNothing == \A x \in Tx : \A t \in Task :
                       tx[x].view[t].status = "RUNNING" => tx[x].snap[t].status = "RUNNING"

IInv == TypeOK /\ SnapshotHolds /\ ViewClaimsNothing /\ OneRunningPerEntity

-----------------------------------------------------------------------------
(* The operators the actions are built from.                               *)

LEMMA GoneIsRow == Gone \in Row
BY TaskAssumption DEF Gone, Row, RowRecord

LEMMA FreshIsRow ==
    ASSUME TypeOK, NEW t \in Task
    PROVE  Fresh(t) \in Row /\ Fresh(t).status = "WAITING"
<1>1. lastArm[t] + 1 \in Nat /\ lastClaim[t] \in Nat
  BY DEF TypeOK
<1> QED BY <1>1 DEF Fresh, Row, RowRecord

LEMMA ClaimedIsRow ==
    ASSUME TypeOK, NEW t \in Task, NEW o \in Owner
    PROVE  Claimed(t, o) \in Row
<1>1. row[t] \in RowRecord /\ lastClaim[t] + 1 \in Nat \ {0} /\ o # None
  BY TaskAssumption DEF TypeOK, Row
<1>2. (IF OwnerLost(t) THEN row[t].lost + 1 ELSE row[t].lost) \in Nat
  BY <1>1 DEF RowRecord
<1> QED BY <1>1, <1>2 DEF Claimed, Row, RowRecord

LEMMA ReleasedIsRow ==
    ASSUME NEW r \in Row, NEW status \in {"WAITING", "FAILED"}
    PROVE  /\ Released(r, status) \in Row
           /\ Released(r, status).status = status
BY TaskAssumption DEF Released, Row, RowRecord

LEMMA CountedIsRow ==
    ASSUME NEW r \in Row, NEW counted \in BOOLEAN
    PROVE  Counted(r, counted) \in Row /\ Counted(r, counted).status = r.status
BY DEF Counted, Row, RowRecord

LEMMA StampedIsRow ==
    ASSUME NEW r \in Row, NEW partial \in BOOLEAN
    PROVE  Stamped(r, partial) \in Row /\ Stamped(r, partial).status = r.status
BY DEF Stamped, Row, RowRecord

LEMMA ClosedIsTyped == Closed \in TxState
BY GoneIsRow DEF Closed, TxState

\* What Raced leaves and what it adds.
LEMMA RacedTyped ==
    ASSUME NEW txs \in [Tx -> TxState], NEW T \in SUBSET Task
    PROVE  Raced(txs, T) \in [Tx -> TxState]
<1> SUFFICES ASSUME NEW x \in Tx PROVE Raced(txs, T)[x] \in TxState
  BY DEF Raced
<1>1. txs[x] \in TxState
  OBVIOUS
<1> QED BY <1>1 DEF Raced, TxState

LEMMA RacedFields ==
    ASSUME NEW txs \in [Tx -> TxState], NEW T \in SUBSET Task, NEW x \in Tx
    PROVE  /\ Raced(txs, T)[x].open = txs[x].open
           /\ Raced(txs, T)[x].snap = txs[x].snap
           /\ Raced(txs, T)[x].view = txs[x].view
           /\ txs[x].open => Raced(txs, T)[x].rivals = txs[x].rivals \cup T
<1>1. txs[x] \in TxState
  OBVIOUS
<1> QED BY <1>1 DEF Raced, TxState

LEMMA StageTyped ==
    ASSUME TypeOK, NEW x \in Tx, NEW T \in SUBSET Task, NEW new \in [Task -> Row],
           Stage(x, T, new)
    PROVE  tx' \in [Tx -> TxState]
<1>1. tx[x] \in TxState
  BY DEF TypeOK
<1> QED BY <1>1 DEF Stage, TypeOK, TxState

LEMMA StageFields ==
    ASSUME TypeOK, NEW x \in Tx, NEW T \in SUBSET Task, NEW new \in [Task -> Row],
           Stage(x, T, new)
    PROVE  \A y \in Tx :
             /\ tx'[y].open = tx[y].open
             /\ tx'[y].snap = tx[y].snap
             /\ tx'[y].rivals = tx[y].rivals
             /\ \A t \in Task : tx'[y].view[t] = IF y = x /\ t \in T THEN new[t] ELSE tx[y].view[t]
<1> SUFFICES ASSUME NEW y \in Tx
             PROVE  /\ tx'[y].open = tx[y].open
                    /\ tx'[y].snap = tx[y].snap
                    /\ tx'[y].rivals = tx[y].rivals
                    /\ \A t \in Task : tx'[y].view[t] = IF y = x /\ t \in T THEN new[t] ELSE tx[y].view[t]
  OBVIOUS
<1>1. tx[x] \in TxState /\ tx[y] \in TxState
  BY DEF TypeOK
<1> QED BY <1>1 DEF Stage, TypeOK, TxState

-----------------------------------------------------------------------------
(* How a step may change the rows and the transactions, and keep IInv.     *)

\* A write outside transactions: the rows of T, and every open transaction has
\* T for rivals.
LEMMA WriteKeeps ==
    ASSUME IInv, NEW T \in SUBSET Task,
           row' \in [Task -> Row], \A t \in Task \ T : row'[t] = row[t],
           tx' = Raced(tx, T)
    PROVE  tx' \in [Tx -> TxState] /\ SnapshotHolds' /\ ViewClaimsNothing'
<1>1. tx \in [Tx -> TxState]
  BY DEF IInv, TypeOK
<1>2. tx' \in [Tx -> TxState]
  BY <1>1, RacedTyped
<1>3. SnapshotHolds'
  <2> SUFFICES ASSUME NEW x \in Tx, tx'[x].open, NEW t \in Task, t \notin tx'[x].rivals
               PROVE  row'[t] = tx'[x].snap[t]
    BY DEF SnapshotHolds
  <2>1. tx[x].open /\ t \notin tx[x].rivals /\ t \notin T /\ tx'[x].snap = tx[x].snap
    BY <1>1, RacedFields
  <2> QED BY <2>1 DEF IInv, SnapshotHolds
<1>4. ViewClaimsNothing'
  <2> SUFFICES ASSUME NEW x \in Tx, NEW t \in Task, tx'[x].view[t].status = "RUNNING"
               PROVE  tx'[x].snap[t].status = "RUNNING"
    BY DEF ViewClaimsNothing
  <2>1. tx'[x].view = tx[x].view /\ tx'[x].snap = tx[x].snap
    BY <1>1, RacedFields
  <2> QED BY <2>1 DEF IInv, ViewClaimsNothing
<1> QED BY <1>2, <1>3, <1>4

\* The claims of the entity are no more than they were.
LEMMA NoNewClaims ==
    ASSUME IInv, \A t \in Task : row'[t].status = "RUNNING" => row[t].status = "RUNNING"
    PROVE  OneRunningPerEntity'
BY DEF IInv, OneRunningPerEntity

\* A transaction's own write: no row changes, and its view claims nothing new.
LEMMA StageKeeps ==
    ASSUME IInv, NEW x \in Tx, NEW T \in SUBSET Task, NEW new \in [Task -> Row],
           Stage(x, T, new), UNCHANGED row,
           \A t \in T : new[t].status = "RUNNING" => tx[x].view[t].status = "RUNNING"
    PROVE  tx' \in [Tx -> TxState] /\ SnapshotHolds' /\ ViewClaimsNothing' /\ OneRunningPerEntity'
<1>1. TypeOK
  BY DEF IInv
<1>2. tx' \in [Tx -> TxState]
  BY <1>1, StageTyped
<1>3. SnapshotHolds'
  <2> SUFFICES ASSUME NEW y \in Tx, tx'[y].open, NEW t \in Task, t \notin tx'[y].rivals
               PROVE  row'[t] = tx'[y].snap[t]
    BY DEF SnapshotHolds
  <2>1. tx[y].open /\ t \notin tx[y].rivals /\ tx'[y].snap = tx[y].snap
    BY <1>1, StageFields
  <2> QED BY <2>1 DEF IInv, SnapshotHolds
<1>4. ViewClaimsNothing'
  <2> SUFFICES ASSUME NEW y \in Tx, NEW t \in Task, tx'[y].view[t].status = "RUNNING"
               PROVE  tx'[y].snap[t].status = "RUNNING"
    BY DEF ViewClaimsNothing
  <2>1. tx[y].view[t].status = "RUNNING" /\ tx'[y].snap = tx[y].snap
    BY <1>1, StageFields
  <2> QED BY <2>1 DEF IInv, ViewClaimsNothing
<1>5. OneRunningPerEntity'
  BY DEF IInv, OneRunningPerEntity
<1> QED BY <1>2, <1>3, <1>4, <1>5

\* Transactions that end without a write.
LEMMA CloseKeeps ==
    ASSUME IInv, NEW X \in SUBSET Tx, UNCHANGED row,
           tx' = [x \in Tx |-> IF x \in X THEN Closed ELSE tx[x]]
    PROVE  tx' \in [Tx -> TxState] /\ SnapshotHolds' /\ ViewClaimsNothing' /\ OneRunningPerEntity'
<1>1. tx' \in [Tx -> TxState]
  BY ClosedIsTyped DEF IInv, TypeOK
<1>2. ~Closed.open /\ \A t \in Task : Closed.view[t].status # "RUNNING"
  BY DEF Closed, Gone
<1>3. SnapshotHolds'
  BY <1>2 DEF IInv, SnapshotHolds
<1>4. ViewClaimsNothing'
  BY <1>2 DEF IInv, ViewClaimsNothing
<1>5. OneRunningPerEntity'
  BY DEF IInv, OneRunningPerEntity
<1> QED BY <1>1, <1>3, <1>4, <1>5

-----------------------------------------------------------------------------
(* One lemma per group of actions, one step per action.                    *)

LEMMA NothingToDo ==
    ASSUME IInv, UNCHANGED <<row, tx>>
    PROVE  /\ row' \in [Task -> Row] /\ tx' \in [Tx -> TxState]
           /\ SnapshotHolds' /\ ViewClaimsNothing' /\ OneRunningPerEntity'
BY DEF IInv, TypeOK, SnapshotHolds, ViewClaimsNothing, OneRunningPerEntity

LEMMA DisturbTyped ==
    ASSUME TypeOK, Disturb \/ UNCHANGED disturbances
    PROVE  disturbances' \in Nat
BY DEF TypeOK, Disturb

LEMMA ClaimKeeps ==
    ASSUME IInv, NEW o \in Owner, ClaimDue(o)
    PROVE  IInv'
<1>1. PICK S \in SUBSET {t \in Task : Claimable(t) /\ lastClaim[t] < MaxClaims} :
        /\ \A t \in S : Siblings(t) \cap S = {}
        /\ lastClaim' = [t \in Task |-> IF t \in S THEN lastClaim[t] + 1 ELSE lastClaim[t]]
        /\ row' = [t \in Task |-> IF t \in S THEN Claimed(t, o) ELSE row[t]]
        /\ reply' = [reply EXCEPT ![o] =
             {[id |-> t, arm |-> row[t].arm, claim |-> lastClaim[t] + 1] : t \in S}]
        /\ tx' = Raced(tx, S)
  BY DEF ClaimDue
<1>2. TypeOK
  BY DEF IInv
<1>3. row' \in [Task -> Row]
  BY <1>1, <1>2, ClaimedIsRow DEF TypeOK
<1>4. tx' \in [Tx -> TxState] /\ SnapshotHolds' /\ ViewClaimsNothing'
  <2>1. S \in SUBSET Task /\ \A t \in Task \ S : row'[t] = row[t]
    BY <1>1
  <2> QED BY <1>1, <1>3, <2>1, WriteKeeps
<1>5. OneRunningPerEntity'
  <2> SUFFICES ASSUME NEW t \in Task, NEW u \in Task, EntityOf[t] = EntityOf[u], t # u,
                      row'[t].status = "RUNNING", row'[u].status = "RUNNING"
               PROVE  FALSE
    BY DEF OneRunningPerEntity
  <2>1. u \in Siblings(t) /\ t \in Siblings(u)
    BY DEF Siblings
  <2>2. ~(t \in S /\ u \in S)
    BY <1>1, <2>1
  <2>3. CASE t \in S /\ u \notin S
    BY <1>1, <2>1, <2>3 DEF Claimable
  <2>4. CASE u \in S /\ t \notin S
    BY <1>1, <2>1, <2>4 DEF Claimable
  <2>5. CASE t \notin S /\ u \notin S
    BY <1>1, <2>5 DEF IInv, OneRunningPerEntity
  <2> QED BY <2>2, <2>3, <2>4, <2>5
<1>6. lastClaim' \in [Task -> Nat]
  BY <1>1, <1>2 DEF TypeOK
<1>7. reply' \in [Owner -> SUBSET Ref]
  <2>1. \A t \in S : [id |-> t, arm |-> row[t].arm, claim |-> lastClaim[t] + 1] \in Ref
    BY <1>2 DEF TypeOK, Row, RowRecord, Ref
  <2> QED BY <1>1, <1>2, <2>1 DEF TypeOK
<1> QED BY <1>2, <1>3, <1>4, <1>5, <1>6, <1>7 DEF ClaimDue, IInv, TypeOK

LEMMA GiveBackKeeps ==
    ASSUME IInv, NEW o \in Owner, GiveBackIdle(o)
    PROVE  IInv'
<1>1. TypeOK /\ Idle(o) \in SUBSET Task
  BY DEF IInv, Idle
<1>2. \A t \in Task : /\ row[t] \in Row
                      /\ Released(row[t], "WAITING") \in Row
                      /\ Released(row[t], "WAITING").status = "WAITING"
  BY <1>1, ReleasedIsRow DEF TypeOK
<1>3. row' = [t \in Task |-> IF t \in Idle(o) THEN Released(row[t], "WAITING") ELSE row[t]]
  BY DEF GiveBackIdle
<1>4. row' \in [Task -> Row] /\ \A t \in Task \ Idle(o) : row'[t] = row[t]
  BY <1>2, <1>3
<1>5. tx' \in [Tx -> TxState] /\ SnapshotHolds' /\ ViewClaimsNothing'
  BY <1>1, <1>4, WriteKeeps DEF GiveBackIdle
<1>6. OneRunningPerEntity'
  <2>1. \A t \in Task : row'[t].status = "RUNNING" => row[t].status = "RUNNING"
    BY <1>2, <1>3
  <2> QED BY <2>1, NoNewClaims
<1>7. disturbances' \in Nat
  BY <1>1, DisturbTyped DEF GiveBackIdle
<1> QED BY <1>1, <1>4, <1>5, <1>6, <1>7 DEF GiveBackIdle, IInv, TypeOK, engine

\* The steps of an owner that leave rows and transactions alone.
LEMMA OwnerOnlyKeeps ==
    ASSUME IInv, NEW o \in Owner,
           Heartbeat(o) \/ SweepOwner(o) \/ Deliver(o) \/ LoseReply(o) \/ GoesStale(o)
    PROVE  IInv'
<1>1. TypeOK
  BY DEF IInv
<1>2. UNCHANGED <<row, tx>>
  BY DEF Heartbeat, SweepOwner, Deliver, LoseReply, GoesStale, store
<1>3. /\ row' \in [Task -> Row] /\ tx' \in [Tx -> TxState]
      /\ SnapshotHolds' /\ ViewClaimsNothing' /\ OneRunningPerEntity'
  BY <1>2, NothingToDo
<1>4. CASE Heartbeat(o)
  BY <1>1, <1>3, <1>4 DEF Heartbeat, IInv, TypeOK, engine
<1>5. CASE SweepOwner(o)
  BY <1>1, <1>3, <1>5 DEF SweepOwner, IInv, TypeOK, engine
<1>6. CASE Deliver(o)
  <2>1. {[ref |-> c, phase |-> "ready"] : c \in reply[o]} \subseteq Run
    BY <1>1 DEF TypeOK, Run
  <2> QED BY <1>1, <1>3, <1>6, <2>1 DEF Deliver, IInv, TypeOK, store
<1>7. CASE LoseReply(o)
  BY <1>1, <1>3, <1>7, DisturbTyped DEF LoseReply, IInv, TypeOK, store
<1>8. CASE GoesStale(o)
  BY <1>1, <1>3, <1>8, DisturbTyped DEF GoesStale, IInv, TypeOK, engine
<1> QED BY <1>4, <1>5, <1>6, <1>7, <1>8

LEMMA StopKeeps ==
    ASSUME IInv, NEW o \in Owner, NEW retires \in BOOLEAN, Stop(o, retires)
    PROVE  IInv'
<1> DEFINE X == {x \in Tx : tx[x].by = o}
<1>1. TypeOK
  BY DEF IInv
<1>2. UNCHANGED row /\ tx' = [x \in Tx |-> IF x \in X THEN Closed ELSE tx[x]]
  BY DEF Stop
<1>3. tx' \in [Tx -> TxState] /\ SnapshotHolds' /\ ViewClaimsNothing' /\ OneRunningPerEntity'
  <2> HIDE DEF X
  <2>1. X \in SUBSET Tx
    BY DEF X
  <2> QED BY <1>2, <2>1, CloseKeeps
<1>4. alive' \in [Owner -> {"fresh", "stale", "none"}]
  BY <1>1 DEF Stop, TypeOK
<1>5. disturbances' \in Nat
  BY <1>1, DisturbTyped DEF Stop
<1> QED BY <1>1, <1>3, <1>4, <1>5 DEF Stop, IInv, TypeOK

LEMMA SweepMarksKeeps ==
    ASSUME IInv, SweepMarks
    PROVE  IInv'
<1>1. TypeOK /\ UNCHANGED <<row, tx>>
  BY DEF IInv, SweepMarks
<1>2. SnapshotHolds' /\ ViewClaimsNothing' /\ OneRunningPerEntity'
  BY <1>1, NothingToDo
<1> QED BY <1>1, <1>2 DEF SweepMarks, IInv, TypeOK, engine

-----------------------------------------------------------------------------
(* The steps of a run.                                                     *)

LEMMA BecomesTyped ==
    ASSUME TypeOK, NEW o \in Owner, NEW r \in runs[o],
           NEW phase \in {"marked", "working", "ended"}
    PROVE  /\ Becomes(o, r, phase) => runs' \in [Owner -> SUBSET Run]
           /\ Leaves(o, r) => runs' \in [Owner -> SUBSET Run]
           /\ r.ref \in Ref /\ r.ref.id \in Task
<1>1. r \in Run
  BY DEF TypeOK
<1>2. [r EXCEPT !.phase = phase] \in Run
  BY <1>1 DEF Run
<1> QED BY <1>1, <1>2 DEF TypeOK, Becomes, Leaves, Run, Ref

LEMMA RunOnlyKeeps ==
    ASSUME IInv, NEW o \in Owner, NEW r \in runs[o],
           MarkUnsafe(o, r) \/ HandOff(o, r) \/ Superseded(o, r)
    PROVE  IInv'
<1>1. TypeOK
  BY DEF IInv
<1>2. UNCHANGED <<row, tx>>
  BY DEF MarkUnsafe, HandOff, Superseded, store
<1>3. /\ row' \in [Task -> Row] /\ tx' \in [Tx -> TxState]
      /\ SnapshotHolds' /\ ViewClaimsNothing' /\ OneRunningPerEntity'
  BY <1>2, NothingToDo
<1>4. CASE MarkUnsafe(o, r)
  BY <1>1, <1>3, <1>4, BecomesTyped DEF MarkUnsafe, IInv, TypeOK
<1>5. CASE HandOff(o, r)
  BY <1>1, <1>3, <1>5, BecomesTyped DEF HandOff, IInv, TypeOK, store
<1>6. CASE Superseded(o, r)
  BY <1>1, <1>3, <1>6, BecomesTyped DEF Superseded, IInv, TypeOK, store
<1> QED BY <1>4, <1>5, <1>6

LEMMA RecordKeeps ==
    ASSUME IInv, NEW o \in Owner, NEW r \in runs[o], RecordAttempt(o, r)
    PROVE  IInv'
<1>1. TypeOK
  BY DEF IInv
<1>2. r.ref.id \in Task /\ runs' \in [Owner -> SUBSET Run]
  BY <1>1, BecomesTyped DEF RecordAttempt
<1> DEFINE t == r.ref.id
<1>3. PICK counted \in BOOLEAN, clear \in {FALSE, r.ref \notin handedOff} :
        Recorded(r.ref, counted, clear)
  BY DEF RecordAttempt
<1> DEFINE new == Counted(Released(row[t], "WAITING"), counted)
<1>4. new \in Row /\ new.status = "WAITING"
  <2>1. row[t] \in Row
    BY <1>1, <1>2 DEF TypeOK
  <2> QED BY <2>1, ReleasedIsRow, CountedIsRow
<1>5. row' = [row EXCEPT ![t] = new]
  BY <1>3 DEF Recorded
<1> HIDE DEF new, t
<1>6. row' \in [Task -> Row] /\ \A u \in Task \ {t} : row'[u] = row[u]
  BY <1>1, <1>4, <1>5 DEF TypeOK
<1>7. tx' \in [Tx -> TxState] /\ SnapshotHolds' /\ ViewClaimsNothing'
  <2>1. {t} \in SUBSET Task /\ tx' = Raced(tx, {t})
    BY <1>2 DEF RecordAttempt, t
  <2> QED BY <1>6, <2>1, WriteKeeps
<1>8. OneRunningPerEntity'
  <2>1. \A u \in Task : row'[u].status = "RUNNING" => row[u].status = "RUNNING"
    BY <1>1, <1>4, <1>5 DEF TypeOK
  <2> QED BY <2>1, NoNewClaims
<1>9. marks' \subseteq Ref
  BY <1>1, <1>3 DEF Recorded, TypeOK
<1> QED BY <1>1, <1>2, <1>6, <1>7, <1>8, <1>9 DEF RecordAttempt, IInv, TypeOK

-----------------------------------------------------------------------------
(* The steps of a transaction.                                             *)

LEMMA BeginKeeps ==
    ASSUME IInv, NEW x \in Tx, NEW by \in Owner \cup {None}, Begin(x, by)
    PROVE  IInv'
<1> DEFINE begun == [open |-> TRUE, by |-> by, snap |-> row, view |-> row,
                     wrote |-> {}, rivals |-> {}]
<1>1. TypeOK /\ UNCHANGED <<store, engine>> /\ tx' = [tx EXCEPT ![x] = begun]
  BY DEF IInv, Begin
<1>2. begun \in TxState
  BY <1>1 DEF TypeOK, TxState
<1>3. tx' \in [Tx -> TxState]
  BY <1>1, <1>2 DEF TypeOK
<1>4. SnapshotHolds' /\ ViewClaimsNothing'
  BY <1>1 DEF IInv, TypeOK, SnapshotHolds, ViewClaimsNothing, store
<1>5. OneRunningPerEntity'
  BY <1>1, NoNewClaims DEF store
<1>6. disturbances' \in Nat
  BY <1>1, DisturbTyped DEF Begin
<1> QED BY <1>1, <1>3, <1>4, <1>5, <1>6 DEF IInv, TypeOK, store, engine

LEMMA ReconcileKeeps ==
    ASSUME IInv, NEW x \in Tx, NEW e \in Entity, NEW S \in SUBSET Task,
           ReconcileForEntity(x, e, S)
    PROVE  IInv'
<1> DEFINE others == {t \in Task : EntityOf[t] = e /\ tx[x].view[t].status # "NONE"}
<1>1. TypeOK /\ S \cup others \in SUBSET Task
  BY DEF IInv
<1>2. Rearmed(x, S) \in [Task -> Row] /\ \A t \in Task : Rearmed(x, S)[t].status # "RUNNING"
  <2>1. \A t \in Task : Fresh(t) \in Row /\ Fresh(t).status = "WAITING"
    BY <1>1, FreshIsRow
  <2>2. Gone \in Row /\ Gone.status = "NONE"
    BY GoneIsRow DEF Gone
  <2> QED BY <2>1, <2>2 DEF Rearmed
<1>3. Stage(x, S \cup others, Rearmed(x, S)) /\ UNCHANGED row
  BY DEF ReconcileForEntity
<1>4. tx' \in [Tx -> TxState] /\ SnapshotHolds' /\ ViewClaimsNothing' /\ OneRunningPerEntity'
  <2> HIDE DEF others
  <2>1. \A t \in S \cup others : Rearmed(x, S)[t].status # "RUNNING"
    BY <1>1, <1>2
  <2> QED BY <1>1, <1>2, <1>3, <2>1, StageKeeps
<1>5. lastArm' \in [Task -> Nat]
  BY <1>1 DEF ReconcileForEntity, TypeOK
<1> QED BY <1>1, <1>4, <1>5 DEF ReconcileForEntity, IInv, TypeOK, engine

LEMMA DeleteKeeps ==
    ASSUME IInv, NEW x \in Tx, NEW S \in SUBSET Task, Delete(x, S)
    PROVE  IInv'
<1>1. TypeOK /\ UNCHANGED <<store, engine, disturbances>>
  BY DEF IInv, Delete
<1>2. tx' \in [Tx -> TxState] /\ SnapshotHolds' /\ ViewClaimsNothing' /\ OneRunningPerEntity'
  <2> DEFINE new == [t \in Task |-> Gone]
  <2>1. new \in [Task -> Row] /\ \A t \in S : new[t].status # "RUNNING"
    BY GoneIsRow DEF Gone
  <2>2. Stage(x, S, new) /\ UNCHANGED row
    BY <1>1 DEF Delete, store
  <2> HIDE DEF new
  <2> QED BY <2>1, <2>2, StageKeeps
<1> QED BY <1>1, <1>2 DEF IInv, TypeOK, store, engine

LEMMA RunWritesKeeps ==
    ASSUME IInv, NEW x \in Tx, NEW o \in Owner, NEW r \in runs[o], RunWrites(x, o, r)
    PROVE  IInv'
<1>1. TypeOK /\ UNCHANGED <<store, engine, disturbances>>
  BY DEF IInv, RunWrites
<1> DEFINE t == r.ref.id
           view == tx[x].view
<1>2. t \in Task /\ view \in [Task -> Row] /\ view[t] \in Row
  BY <1>1, BecomesTyped DEF TypeOK, TxState
<1>3. ASSUME NEW new \in [Task -> Row], Stage(x, {t}, new),
             new[t].status = "RUNNING" => view[t].status = "RUNNING"
      PROVE  tx' \in [Tx -> TxState] /\ SnapshotHolds' /\ ViewClaimsNothing' /\ OneRunningPerEntity'
  <2>1. UNCHANGED row /\ {t} \in SUBSET Task
    BY <1>1, <1>2 DEF store
  <2>2. \A u \in {t} : new[u].status = "RUNNING" => tx[x].view[u].status = "RUNNING"
    BY <1>3
  <2> HIDE DEF t, view
  <2> QED BY <1>3, <2>1, <2>2, StageKeeps
<1>4. CASE RemoveLife(x, r.ref)
  <2>1. [u \in Task |-> Gone] \in [Task -> Row] /\ Gone.status # "RUNNING"
    BY GoneIsRow DEF Gone
  <2>2. Stage(x, {t}, [u \in Task |-> Gone]) /\ [u \in Task |-> Gone][t].status # "RUNNING"
    BY <1>2, <1>4, <2>1 DEF RemoveLife
  <2>3. tx' \in [Tx -> TxState] /\ SnapshotHolds' /\ ViewClaimsNothing' /\ OneRunningPerEntity'
    BY <1>3, <2>1, <2>2
  <2> QED BY <1>1, <2>3 DEF IInv, TypeOK, store, engine
<1>5. CASE StampSegment(x, r.ref)
  <2>1. PICK partial \in BOOLEAN : Stage(x, {t}, [view EXCEPT ![t] = Stamped(view[t], partial)])
    BY <1>5 DEF StampSegment
  <2>2. Stamped(view[t], partial) \in Row /\ Stamped(view[t], partial).status = view[t].status
    BY <1>2, StampedIsRow
  <2> DEFINE new == [view EXCEPT ![t] = Stamped(view[t], partial)]
  <2>3. new \in [Task -> Row] /\ (new[t].status = "RUNNING" => view[t].status = "RUNNING")
    BY <1>2, <2>2
  <2>4. tx' \in [Tx -> TxState] /\ SnapshotHolds' /\ ViewClaimsNothing' /\ OneRunningPerEntity'
    BY <1>3, <2>1, <2>3
  <2> QED BY <1>1, <2>4 DEF IInv, TypeOK, store, engine
<1>6. CASE Fail(x, r.ref)
  <2>1. Stage(x, {t}, [view EXCEPT ![t] = Released(view[t], "FAILED")])
    BY <1>6 DEF Fail
  <2>2. Released(view[t], "FAILED") \in Row /\ Released(view[t], "FAILED").status = "FAILED"
    BY <1>2, ReleasedIsRow
  <2> DEFINE new == [view EXCEPT ![t] = Released(view[t], "FAILED")]
  <2>3. new \in [Task -> Row] /\ (new[t].status = "RUNNING" => view[t].status = "RUNNING")
    BY <1>2, <2>2
  <2>4. tx' \in [Tx -> TxState] /\ SnapshotHolds' /\ ViewClaimsNothing' /\ OneRunningPerEntity'
    BY <1>3, <2>1, <2>3
  <2> QED BY <1>1, <2>4 DEF IInv, TypeOK, store, engine
<1> QED BY <1>4, <1>5, <1>6 DEF RunWrites

LEMMA RollbackKeeps ==
    ASSUME IInv, NEW x \in Tx, Rollback(x)
    PROVE  IInv'
<1>1. TypeOK /\ UNCHANGED <<store, engine, disturbances>>
  BY DEF IInv, Rollback
<1>2. tx' = [y \in Tx |-> IF y \in {x} THEN Closed ELSE tx[y]]
  BY <1>1 DEF Rollback, TypeOK
<1>3. tx' \in [Tx -> TxState] /\ SnapshotHolds' /\ ViewClaimsNothing' /\ OneRunningPerEntity'
  <2>1. UNCHANGED row /\ {x} \in SUBSET Tx
    BY <1>1 DEF store
  <2> QED BY <1>2, <2>1, CloseKeeps
<1> QED BY <1>1, <1>3 DEF IInv, TypeOK, store, engine

\* What a transaction commits is still as its snapshot shows it.
LEMMA CommittedIsUnchanged ==
    ASSUME IInv, NEW x \in Tx, tx[x].open, ~Conflict(x), NEW t \in tx[x].wrote
    PROVE  t \in Task /\ row[t] = tx[x].snap[t]
<1>1. tx[x] \in TxState
  BY DEF IInv, TypeOK
<1>2. t \in Task /\ t \notin tx[x].rivals
  BY <1>1 DEF TxState, Conflict
<1> QED BY <1>2 DEF IInv, SnapshotHolds

\* The transactions after Commit(x).
LEMMA CommitFields ==
    ASSUME TypeOK, NEW x \in Tx, Commit(x)
    PROVE  /\ tx' \in [Tx -> TxState] /\ ~tx'[x].open
           /\ \A t \in Task : tx'[x].view[t] = Gone
           /\ \A y \in Tx \ {x} : /\ tx'[y].open = tx[y].open
                                  /\ tx'[y].snap = tx[y].snap
                                  /\ tx'[y].view = tx[y].view
                                  /\ tx[y].open => tx'[y].rivals = tx[y].rivals \cup tx[x].wrote
<1> DEFINE closed == [tx EXCEPT ![x] = Closed]
<1>1. closed \in [Tx -> TxState] /\ tx[x].wrote \in SUBSET Task
  BY ClosedIsTyped DEF TypeOK, TxState
<1>2. tx' = Raced(closed, tx[x].wrote)
  BY DEF Commit
<1>3. ~closed[x].open /\ closed[x].view = [t \in Task |-> Gone] /\ \A y \in Tx \ {x} : closed[y] = tx[y]
  BY DEF TypeOK, Closed
<1> HIDE DEF closed
<1>4. tx' \in [Tx -> TxState]
  BY <1>1, <1>2, RacedTyped
<1>5. ~tx'[x].open /\ \A t \in Task : tx'[x].view[t] = Gone
  BY <1>1, <1>2, <1>3, RacedFields
<1>6. ASSUME NEW y \in Tx \ {x}
      PROVE  /\ tx'[y].open = tx[y].open
             /\ tx'[y].snap = tx[y].snap
             /\ tx'[y].view = tx[y].view
             /\ tx[y].open => tx'[y].rivals = tx[y].rivals \cup tx[x].wrote
  BY <1>1, <1>2, <1>3, RacedFields
<1> QED BY <1>4, <1>5, <1>6

LEMMA CommitKeeps ==
    ASSUME IInv, NEW x \in Tx, Commit(x)
    PROVE  IInv'
<1>1. TypeOK /\ tx[x].open /\ ~Conflict(x)
  BY DEF IInv, Commit
<1>2. row' = [t \in Task |-> IF t \in tx[x].wrote THEN tx[x].view[t] ELSE row[t]]
  BY DEF Commit
<1>3. row' \in [Task -> Row]
  BY <1>1, <1>2 DEF TypeOK, TxState
<1>4. tx' \in [Tx -> TxState]
  BY <1>1, CommitFields
<1>5. SnapshotHolds'
  <2> SUFFICES ASSUME NEW y \in Tx, tx'[y].open, NEW t \in Task, t \notin tx'[y].rivals
               PROVE  row'[t] = tx'[y].snap[t]
    BY DEF SnapshotHolds
  <2>1. y # x /\ tx[y].open /\ t \notin tx[y].rivals /\ t \notin tx[x].wrote
        /\ tx'[y].snap = tx[y].snap
    BY <1>1, CommitFields
  <2> QED BY <1>2, <2>1 DEF IInv, SnapshotHolds
<1>6. ViewClaimsNothing'
  <2> SUFFICES ASSUME NEW y \in Tx, NEW t \in Task, tx'[y].view[t].status = "RUNNING"
               PROVE  tx'[y].snap[t].status = "RUNNING"
    BY DEF ViewClaimsNothing
  <2>1. y # x /\ tx'[y].view = tx[y].view /\ tx'[y].snap = tx[y].snap
    BY <1>1, CommitFields DEF Gone
  <2> QED BY <2>1 DEF IInv, ViewClaimsNothing
<1>7. OneRunningPerEntity'
  <2> SUFFICES ASSUME NEW t \in Task, row'[t].status = "RUNNING" PROVE row[t].status = "RUNNING"
    BY NoNewClaims
  <2>1. CASE t \in tx[x].wrote
    <3>1. tx[x].view[t].status = "RUNNING"
      BY <1>2, <2>1
    <3>2. tx[x].snap[t].status = "RUNNING"
      BY <3>1 DEF IInv, ViewClaimsNothing
    <3> QED BY <1>1, <2>1, <3>2, CommittedIsUnchanged
  <2>2. CASE t \notin tx[x].wrote
    BY <1>2, <2>2
  <2> QED BY <2>1, <2>2
<1> QED BY <1>1, <1>3, <1>4, <1>5, <1>6, <1>7 DEF Commit, IInv, TypeOK, engine

-----------------------------------------------------------------------------
LEMMA InitIsInv ==
    ASSUME Init
    PROVE  IInv
<1>1. TypeOK
  BY GoneIsRow, ClosedIsTyped DEF Init, TypeOK
<1>2. OneRunningPerEntity
  BY DEF Init, Gone, OneRunningPerEntity
<1>3. SnapshotHolds /\ ViewClaimsNothing
  BY DEF Init, Closed, Gone, SnapshotHolds, ViewClaimsNothing
<1> QED BY <1>1, <1>2, <1>3 DEF IInv

LEMMA StepKeepsInv ==
    ASSUME IInv, [Next]_vars
    PROVE  IInv'
<1>1. ASSUME NEW o \in Owner, OwnerStep(o) PROVE IInv'
  BY <1>1, ClaimKeeps, GiveBackKeeps, OwnerOnlyKeeps, StopKeeps DEF OwnerStep
<1>2. ASSUME NEW o \in Owner, NEW r \in runs[o], RunStep(o, r) PROVE IInv'
  BY <1>2, RunOnlyKeeps, RecordKeeps DEF RunStep
<1>3. ASSUME NEW x \in Tx, TxStep(x) PROVE IInv'
  BY <1>3, BeginKeeps, ReconcileKeeps, DeleteKeeps, RunWritesKeeps, CommitKeeps, RollbackKeeps
     DEF TxStep
<1>4. CASE SweepMarks
  BY <1>4, SweepMarksKeeps
<1>5. CASE UNCHANGED vars
  BY <1>5 DEF vars, store, engine, IInv, TypeOK, SnapshotHolds, ViewClaimsNothing,
              OneRunningPerEntity
<1> QED BY <1>1, <1>2, <1>3, <1>4, <1>5 DEF Next

THEOREM Invariance == Spec => []IInv
<1>1. Init => IInv
  BY InitIsInv
<1>2. IInv /\ [Next]_vars => IInv'
  BY StepKeepsInv
<1> QED BY <1>1, <1>2, PTL DEF Spec

\* Rows, transactions, replies and runs keep their types: in particular a row
\* has an owner and a claim exactly while it is RUNNING.
THEOREM Typed == Spec => []TypeOK
<1>1. IInv => TypeOK
  BY DEF IInv
<1> QED BY <1>1, Invariance, PTL

\* At most one task of an entity is RUNNING.
THEOREM OneRunning == Spec => []OneRunningPerEntity
<1>1. IInv => OneRunningPerEntity
  BY DEF IInv
<1> QED BY <1>1, Invariance, PTL

-----------------------------------------------------------------------------
(* What a step may do to a row.                                            *)

\* A step that changes rows, but is no commit, changes rows that no open
\* transaction has written, and ends no transaction.
LEMMA OutsideSteps ==
    ASSUME IInv, [Next]_vars, row' # row, \A x \in Tx : ~Commit(x)
    PROVE  /\ \A t \in Task : Busy(t) => row'[t] = row[t]
           /\ \A x \in Tx : tx'[x].open = tx[x].open
<1>1. TypeOK /\ tx \in [Tx -> TxState]
  BY DEF IInv, TypeOK
<1>2. ASSUME NEW o \in Owner, ClaimDue(o)
      PROVE  /\ \A t \in Task : Busy(t) => row'[t] = row[t]
             /\ \A x \in Tx : tx'[x].open = tx[x].open
  <2>1. PICK S \in SUBSET {t \in Task : Claimable(t) /\ lastClaim[t] < MaxClaims} :
          /\ row' = [t \in Task |-> IF t \in S THEN Claimed(t, o) ELSE row[t]]
          /\ tx' = Raced(tx, S)
    BY <1>2 DEF ClaimDue
  <2>2. S \in SUBSET Task /\ \A t \in S : ~Busy(t)
    BY DEF Claimable
  <2>3. \A x \in Tx : tx'[x].open = tx[x].open
    BY <1>1, <2>1, <2>2, RacedFields
  <2> QED BY <2>1, <2>2, <2>3
<1>3. ASSUME NEW o \in Owner, GiveBackIdle(o)
      PROVE  /\ \A t \in Task : Busy(t) => row'[t] = row[t]
             /\ \A x \in Tx : tx'[x].open = tx[x].open
  <2>1. Idle(o) \in SUBSET Task /\ \A t \in Idle(o) : ~Busy(t)
    BY DEF Idle
  <2>2. \A x \in Tx : tx'[x].open = tx[x].open
    BY <1>1, <1>3, <2>1, RacedFields DEF GiveBackIdle
  <2> QED BY <1>3, <2>1, <2>2 DEF GiveBackIdle
<1>4. ASSUME NEW o \in Owner, NEW r \in runs[o], RecordAttempt(o, r)
      PROVE  /\ \A t \in Task : Busy(t) => row'[t] = row[t]
             /\ \A x \in Tx : tx'[x].open = tx[x].open
  <2>1. {r.ref.id} \in SUBSET Task /\ ~Busy(r.ref.id)
    BY <1>1, <1>4, BecomesTyped DEF RecordAttempt
  <2>2. \A x \in Tx : tx'[x].open = tx[x].open
    BY <1>1, <1>4, <2>1, RacedFields DEF RecordAttempt
  <2>3. \A t \in Task \ {r.ref.id} : row'[t] = row[t]
    BY <1>1, <1>4 DEF RecordAttempt, Recorded, TypeOK
  <2> QED BY <2>1, <2>2, <2>3
<1>5. ASSUME NEW o \in Owner, OwnerStep(o)
      PROVE  ClaimDue(o) \/ GiveBackIdle(o)
  BY <1>5 DEF OwnerStep, Heartbeat, SweepOwner, Deliver, LoseReply, GoesStale, Stop, store
<1>6. ASSUME NEW o \in Owner, NEW r \in runs[o], RunStep(o, r)
      PROVE  RecordAttempt(o, r)
  BY <1>6 DEF RunStep, MarkUnsafe, HandOff, Superseded, store
<1>7. ASSUME NEW x \in Tx, TxStep(x)
      PROVE  FALSE
  BY <1>7 DEF TxStep, Begin, ReconcileForEntity, Delete, RunWrites, Rollback, store
<1> QED BY <1>2, <1>3, <1>4, <1>5, <1>6, <1>7 DEF Next, SweepMarks, vars, store

\* A transaction replaces only rows that are still as it found them: the
\* committed state it read is the one it overwrites.
THEOREM FirstCommitter == Spec => FirstCommitterWins
<1> DEFINE A == \A x \in Tx : tx[x].open /\ ~tx'[x].open /\ row' # row
                                => \A t \in tx[x].wrote : row[t] = tx[x].snap[t]
<1>1. IInv /\ [Next]_vars => A
  <2> SUFFICES ASSUME IInv, [Next]_vars, NEW x \in Tx, tx[x].open, ~tx'[x].open, row' # row,
                      NEW t \in tx[x].wrote
               PROVE  row[t] = tx[x].snap[t]
    OBVIOUS
  <2>1. PICK y \in Tx : Commit(y)
    BY OutsideSteps
  <2>2. y = x
    BY <2>1, CommitFields DEF IInv
  <2> QED BY <2>1, <2>2, CommittedIsUnchanged DEF Commit
<1> QED BY <1>1, Invariance, PTL DEF Spec, FirstCommitterWins

\* What stays outside transactions takes no row away that an open transaction
\* has written.
THEOREM Held == Spec => HeldUntilTheEnd
<1> DEFINE A == \A t \in Task : Busy(t) /\ row'[t] # row[t]
                  => \E x \in Tx : t \in tx[x].wrote /\ row'[t] = tx[x].view[t] /\ ~tx'[x].open
<1>1. IInv /\ [Next]_vars => A
  <2> SUFFICES ASSUME IInv, [Next]_vars, NEW t \in Task, Busy(t), row'[t] # row[t]
               PROVE  \E x \in Tx : t \in tx[x].wrote /\ row'[t] = tx[x].view[t] /\ ~tx'[x].open
    OBVIOUS
  <2>1. PICK x \in Tx : Commit(x)
    BY OutsideSteps
  <2>2. t \in tx[x].wrote /\ row'[t] = tx[x].view[t]
    BY <2>1 DEF Commit
  <2>3. ~tx'[x].open
    BY <2>1, CommitFields DEF IInv
  <2> QED BY <2>2, <2>3
<1> QED BY <1>1, Invariance, PTL DEF Spec, HeldUntilTheEnd

-----------------------------------------------------------------------------
(* The count of a life.                                                    *)

\* The row counts no more than the claims of its life up to the n-th of the task.
Within(r, n) == ClaimsUsed(r) <= n - r.base

ViewsWithin == \A x \in Tx : \A t \in Task : Within(tx[x].view[t], lastClaim[t])

CountInv == CountedOnce /\ ViewsWithin

-----------------------------------------------------------------------------
(* What each write of a row does to its count.                             *)

LEMMA WithinGone == ASSUME NEW n \in Nat PROVE Within(Gone, n)
BY DEF Within, ClaimsUsed, Gone

LEMMA WithinFresh ==
    ASSUME TypeOK, NEW t \in Task
    PROVE  Within(Fresh(t), lastClaim[t])
BY DEF TypeOK, Within, ClaimsUsed, Fresh

LEMMA WithinMore ==
    ASSUME NEW r \in Row, NEW n \in Nat, NEW m \in Nat, n <= m, Within(r, n)
    PROVE  Within(r, m)
BY DEF Within, ClaimsUsed, Row, RowRecord

LEMMA WithinStamped ==
    ASSUME NEW r \in Row, NEW n \in Nat, NEW partial \in BOOLEAN, Within(r, n)
    PROVE  Within(Stamped(r, partial), n)
BY DEF Within, ClaimsUsed, Stamped, Row, RowRecord

\* Giving up a claim leaves room for one attempt.
LEMMA WithinReleased ==
    ASSUME NEW r \in Row, NEW n \in Nat, r.status = "RUNNING", Within(r, n), NEW counted \in BOOLEAN
    PROVE  /\ Within(Released(r, "WAITING"), n)
           /\ Within(Released(r, "FAILED"), n)
           /\ Within(Counted(Released(r, "WAITING"), counted), n)
<1>1. Released(r, "WAITING") \in Row /\ Released(r, "FAILED") \in Row
  BY ReleasedIsRow
<1>2. r.attempts \in Nat /\ r.lost \in Nat /\ r.base \in Nat
  BY DEF Row, RowRecord
<1>3. ClaimsUsed(r) = r.attempts + r.lost + 1
  BY DEF ClaimsUsed
<1>4. /\ Released(r, "WAITING").attempts = r.attempts
      /\ Released(r, "WAITING").lost = r.lost
      /\ Released(r, "WAITING").base = r.base
      /\ Released(r, "WAITING").status = "WAITING"
  BY DEF Released, Row, RowRecord
<1>5. /\ Released(r, "FAILED").attempts = r.attempts
      /\ Released(r, "FAILED").lost = r.lost
      /\ Released(r, "FAILED").base = r.base
      /\ Released(r, "FAILED").status = "FAILED"
  BY DEF Released, Row, RowRecord
<1>6. Within(Released(r, "WAITING"), n)
  BY <1>2, <1>3, <1>4 DEF Within, ClaimsUsed
<1>7. Within(Released(r, "FAILED"), n)
  BY <1>2, <1>3, <1>5 DEF Within, ClaimsUsed
<1>8. Within(Counted(Released(r, "WAITING"), counted), n)
  <2> DEFINE w == Released(r, "WAITING")
             c == Counted(w, counted)
  <2>1. /\ c.attempts \in {w.attempts, w.attempts + 1} /\ c.lost = w.lost
        /\ c.base = w.base /\ c.status = w.status
    BY <1>1 DEF Counted, Row, RowRecord
  <2> HIDE DEF c, w
  <2>2. c.attempts \in Nat /\ c.attempts <= r.attempts + 1 /\ c.lost = r.lost
        /\ c.base = r.base /\ c.status = "WAITING"
    BY <1>2, <1>4, <2>1 DEF w
  <2>3. Within(c, n)
    BY <1>2, <1>3, <2>2 DEF Within, ClaimsUsed
  <2> QED BY <2>3 DEF c, w
<1> QED BY <1>6, <1>7, <1>8

\* A claim is used by the run it starts, or by the owner that was lost.
LEMMA WithinClaimed ==
    ASSUME TypeOK, NEW t \in Task, NEW o \in Owner,
           row[t].status = "WAITING" \/ OwnerLost(t), Within(row[t], lastClaim[t])
    PROVE  Within(Claimed(t, o), lastClaim[t] + 1)
<1>1. row[t] \in RowRecord /\ lastClaim[t] \in Nat
  BY DEF TypeOK, Row
<1>2. /\ Claimed(t, o).attempts = row[t].attempts /\ Claimed(t, o).base = row[t].base
      /\ Claimed(t, o).status = "RUNNING"
      /\ Claimed(t, o).lost = IF OwnerLost(t) THEN row[t].lost + 1 ELSE row[t].lost
  BY <1>1 DEF Claimed, RowRecord
<1>3. row[t].attempts \in Nat /\ row[t].base \in Nat /\ row[t].lost \in Nat
  BY <1>1 DEF RowRecord
<1>4. CASE OwnerLost(t)
  <2>1. row[t].status = "RUNNING"
    BY <1>4 DEF OwnerLost
  <2> QED BY <1>1, <1>2, <1>3, <1>4, <2>1 DEF Within, ClaimsUsed
<1>5. CASE ~OwnerLost(t)
  BY <1>1, <1>2, <1>3, <1>5 DEF Within, ClaimsUsed
<1> QED BY <1>4, <1>5

\* The row that a reference holds is RUNNING.
LEMMA HeldIsRunning ==
    ASSUME NEW r \in Row, NEW ref \in Ref, Holds(r, ref)
    PROVE  r.status = "RUNNING"
BY DEF Holds, Ref, Row

-----------------------------------------------------------------------------
(* The steps.                                                              *)

\* Views that are as they were, or empty, under tokens that only grow.
LEMMA ViewsKept ==
    ASSUME IInv, CountInv, \A t \in Task : lastClaim'[t] \in Nat /\ lastClaim[t] <= lastClaim'[t],
           \A x \in Tx : \A t \in Task : tx'[x].view[t] \in {tx[x].view[t], Gone}
    PROVE  ViewsWithin'
<1> SUFFICES ASSUME NEW x \in Tx, NEW t \in Task PROVE Within(tx'[x].view[t], lastClaim'[t])
  BY DEF ViewsWithin, Within, ClaimsUsed
<1>1. tx[x].view[t] \in Row /\ lastClaim[t] \in Nat /\ Within(tx[x].view[t], lastClaim[t])
  BY DEF IInv, TypeOK, TxState, CountInv, ViewsWithin
<1>2. Within(tx[x].view[t], lastClaim'[t])
  BY <1>1, WithinMore
<1> QED BY <1>2, WithinGone

\* A transaction's own write.
LEMMA StageCounts ==
    ASSUME IInv, CountInv, NEW x \in Tx, NEW T \in SUBSET Task, NEW new \in [Task -> Row],
           Stage(x, T, new), UNCHANGED <<row, lastClaim>>,
           \A t \in T : Within(new[t], lastClaim[t])
    PROVE  CountInv'
<1>1. ASSUME NEW y \in Tx, NEW t \in Task PROVE Within(tx'[y].view[t], lastClaim[t])
  <2>1. tx'[y].view[t] = IF y = x /\ t \in T THEN new[t] ELSE tx[y].view[t]
    BY StageFields DEF IInv
  <2> QED BY <2>1 DEF CountInv, ViewsWithin
<1> QED BY <1>1 DEF CountInv, CountedOnce, ViewsWithin, Within, ClaimsUsed

\* What the raced transactions see, they saw before.
LEMMA RacedViews ==
    ASSUME IInv, NEW T \in SUBSET Task, tx' = Raced(tx, T)
    PROVE  \A x \in Tx : \A t \in Task : tx'[x].view[t] \in {tx[x].view[t], Gone}
BY RacedFields DEF IInv, TypeOK

LEMMA ClaimCounts ==
    ASSUME IInv, CountInv, NEW o \in Owner, ClaimDue(o)
    PROVE  CountInv'
<1>1. PICK S \in SUBSET {t \in Task : Claimable(t) /\ lastClaim[t] < MaxClaims} :
        /\ lastClaim' = [t \in Task |-> IF t \in S THEN lastClaim[t] + 1 ELSE lastClaim[t]]
        /\ row' = [t \in Task |-> IF t \in S THEN Claimed(t, o) ELSE row[t]]
        /\ tx' = Raced(tx, S)
  BY DEF ClaimDue
<1>2. TypeOK /\ lastClaim \in [Task -> Nat] /\ row \in [Task -> Row] /\ S \in SUBSET Task
  BY DEF IInv, TypeOK
<1>3. ViewsWithin'
  <2>1. \A t \in Task : lastClaim'[t] \in Nat /\ lastClaim[t] <= lastClaim'[t]
    BY <1>1, <1>2
  <2> QED BY <1>1, <1>2, <2>1, RacedViews, ViewsKept
<1>4. ASSUME NEW t \in Task PROVE Within(row'[t], lastClaim'[t])
  <2>1. Within(row[t], lastClaim[t])
    BY DEF CountInv, CountedOnce, Within
  <2>2. CASE t \in S
    <3>1. row[t].status = "WAITING" \/ OwnerLost(t)
      BY <2>2 DEF Claimable
    <3> QED BY <1>1, <1>2, <2>1, <2>2, <3>1, WithinClaimed
  <2>3. CASE t \notin S
    BY <1>1, <2>1, <2>3
  <2> QED BY <2>2, <2>3
<1> QED BY <1>3, <1>4 DEF CountInv, CountedOnce, Within, ClaimsUsed

LEMMA GiveBackCounts ==
    ASSUME IInv, CountInv, NEW o \in Owner, GiveBackIdle(o)
    PROVE  CountInv'
<1>1. lastClaim \in [Task -> Nat] /\ row \in [Task -> Row] /\ Idle(o) \in SUBSET Task
  BY DEF IInv, TypeOK, Idle
<1>2. /\ row' = [t \in Task |-> IF t \in Idle(o) THEN Released(row[t], "WAITING") ELSE row[t]]
      /\ tx' = Raced(tx, Idle(o)) /\ UNCHANGED lastClaim
  BY DEF GiveBackIdle
<1>3. ViewsWithin'
  BY <1>1, <1>2, RacedViews, ViewsKept
<1>4. ASSUME NEW t \in Task PROVE Within(row'[t], lastClaim[t])
  <2>1. Within(row[t], lastClaim[t]) /\ row[t] \in Row /\ lastClaim[t] \in Nat
    BY <1>1 DEF CountInv, CountedOnce, Within
  <2>2. CASE t \in Idle(o)
    <3>1. row[t].status = "RUNNING"
      BY <2>2 DEF Idle
    <3> QED BY <1>2, <2>1, <2>2, <3>1, WithinReleased
  <2>3. CASE t \notin Idle(o)
    BY <1>2, <2>1, <2>3
  <2> QED BY <2>2, <2>3
<1> QED BY <1>2, <1>3, <1>4 DEF CountInv, CountedOnce, Within, ClaimsUsed

LEMMA RecordCounts ==
    ASSUME IInv, CountInv, NEW o \in Owner, NEW r \in runs[o], RecordAttempt(o, r)
    PROVE  CountInv'
<1> DEFINE t == r.ref.id
<1>1. lastClaim \in [Task -> Nat] /\ row \in [Task -> Row] /\ r.ref \in Ref /\ t \in Task
  BY BecomesTyped DEF IInv, TypeOK
<1>2. PICK counted \in BOOLEAN :
        row' = [row EXCEPT ![t] = Counted(Released(row[t], "WAITING"), counted)]
  BY DEF RecordAttempt, Recorded
<1>3. tx' = Raced(tx, {t}) /\ UNCHANGED lastClaim /\ row[t].status = "RUNNING"
  BY <1>1, HeldIsRunning DEF RecordAttempt, Fenced
<1> HIDE DEF t
<1>4. ViewsWithin'
  <2>1. {t} \in SUBSET Task /\ \A u \in Task : lastClaim'[u] \in Nat /\ lastClaim[u] <= lastClaim'[u]
    BY <1>1, <1>3
  <2> QED BY <1>3, <2>1, RacedViews, ViewsKept
<1>5. ASSUME NEW u \in Task PROVE Within(row'[u], lastClaim[u])
  <2>1. Within(row[u], lastClaim[u]) /\ row[u] \in Row /\ lastClaim[u] \in Nat
    BY <1>1 DEF CountInv, CountedOnce, Within
  <2>2. CASE u = t
    <3>1. Within(Counted(Released(row[t], "WAITING"), counted), lastClaim[t])
      BY <1>3, <2>1, <2>2, WithinReleased
    <3>2. row'[u] = Counted(Released(row[t], "WAITING"), counted)
      BY <1>1, <1>2, <2>2
    <3> QED BY <2>2, <3>1, <3>2
  <2>3. CASE u # t
    BY <1>1, <1>2, <2>1, <2>3
  <2> QED BY <2>2, <2>3
<1> QED BY <1>3, <1>4, <1>5 DEF CountInv, CountedOnce, Within, ClaimsUsed

LEMMA WritesCount ==
    ASSUME IInv, CountInv, NEW x \in Tx, NEW o \in Owner, NEW r \in runs[o], RunWrites(x, o, r)
    PROVE  CountInv'
<1> DEFINE t == r.ref.id
           view == tx[x].view
<1>1. UNCHANGED <<row, lastClaim>> /\ lastClaim \in [Task -> Nat]
  BY DEF RunWrites, store, IInv, TypeOK
<1>2. t \in Task /\ r.ref \in Ref /\ view \in [Task -> Row] /\ view[t] \in Row
  BY BecomesTyped DEF IInv, TypeOK, TxState
<1>3. Within(view[t], lastClaim[t]) /\ lastClaim[t] \in Nat
  BY <1>1, <1>2 DEF CountInv, ViewsWithin
<1>4. ASSUME NEW new \in [Task -> Row], Stage(x, {t}, new), Within(new[t], lastClaim[t])
      PROVE  CountInv'
  <2>1. {t} \in SUBSET Task /\ \A u \in {t} : Within(new[u], lastClaim[u])
    BY <1>2, <1>4
  <2> HIDE DEF t, view
  <2> QED BY <1>1, <1>4, <2>1, StageCounts
<1>5. CASE RemoveLife(x, r.ref)
  <2> DEFINE new == [u \in Task |-> Gone]
  <2>1. new \in [Task -> Row] /\ Within(new[t], lastClaim[t])
    BY <1>2, <1>3, GoneIsRow, WithinGone
  <2>2. Stage(x, {t}, new)
    BY <1>5 DEF RemoveLife
  <2> QED BY <1>4, <2>1, <2>2
<1>6. CASE StampSegment(x, r.ref)
  <2>1. PICK partial \in BOOLEAN : Stage(x, {t}, [view EXCEPT ![t] = Stamped(view[t], partial)])
    BY <1>6 DEF StampSegment
  <2> DEFINE new == [view EXCEPT ![t] = Stamped(view[t], partial)]
  <2>2. Stamped(view[t], partial) \in Row /\ Within(Stamped(view[t], partial), lastClaim[t])
    BY <1>2, <1>3, StampedIsRow, WithinStamped
  <2>3. new \in [Task -> Row] /\ new[t] = Stamped(view[t], partial)
    BY <1>2, <2>2
  <2> QED BY <1>4, <2>1, <2>2, <2>3
<1>7. CASE Fail(x, r.ref)
  <2>1. Stage(x, {t}, [view EXCEPT ![t] = Released(view[t], "FAILED")]) /\ Holds(view[t], r.ref)
    BY <1>7 DEF Fail
  <2> DEFINE new == [view EXCEPT ![t] = Released(view[t], "FAILED")]
  <2>2. view[t].status = "RUNNING"
    BY <1>2, <2>1, HeldIsRunning
  <2>3. Released(view[t], "FAILED") \in Row /\ Within(Released(view[t], "FAILED"), lastClaim[t])
    BY <1>2, <1>3, <2>2, ReleasedIsRow, WithinReleased
  <2>4. new \in [Task -> Row] /\ new[t] = Released(view[t], "FAILED")
    BY <1>2, <2>3
  <2> QED BY <1>4, <2>1, <2>3, <2>4
<1> QED BY <1>5, <1>6, <1>7 DEF RunWrites

LEMMA ReconcileCounts ==
    ASSUME IInv, CountInv, NEW x \in Tx, NEW e \in Entity, NEW S \in SUBSET Task,
           ReconcileForEntity(x, e, S)
    PROVE  CountInv'
<1> DEFINE T == S \cup {t \in Task : EntityOf[t] = e /\ tx[x].view[t].status # "NONE"}
<1>1. TypeOK /\ T \in SUBSET Task
  BY DEF IInv
<1>2. \A t \in Task : /\ Fresh(t) \in Row /\ Within(Fresh(t), lastClaim[t])
                      /\ Gone \in Row /\ Within(Gone, lastClaim[t])
  BY <1>1, FreshIsRow, GoneIsRow, WithinFresh, WithinGone DEF TypeOK
<1>3. Rearmed(x, S) \in [Task -> Row] /\ \A t \in Task : Within(Rearmed(x, S)[t], lastClaim[t])
  BY <1>2 DEF Rearmed
<1>4. Stage(x, T, Rearmed(x, S)) /\ UNCHANGED <<row, lastClaim>>
  BY DEF ReconcileForEntity
<1> HIDE DEF T
<1>5. \A t \in T : Within(Rearmed(x, S)[t], lastClaim[t])
  BY <1>1, <1>3
<1> QED BY <1>1, <1>3, <1>4, <1>5, StageCounts

LEMMA DeleteCounts ==
    ASSUME IInv, CountInv, NEW x \in Tx, NEW S \in SUBSET Task, Delete(x, S)
    PROVE  CountInv'
<1> DEFINE new == [t \in Task |-> Gone]
<1>1. lastClaim \in [Task -> Nat]
  BY DEF IInv, TypeOK
<1>2. new \in [Task -> Row] /\ \A t \in S : Within(new[t], lastClaim[t])
  BY <1>1, GoneIsRow, WithinGone
<1>3. Stage(x, S, new) /\ UNCHANGED <<row, lastClaim>>
  BY DEF Delete, store
<1> HIDE DEF new
<1> QED BY <1>2, <1>3, StageCounts

LEMMA BeginCounts ==
    ASSUME IInv, CountInv, NEW x \in Tx, NEW by \in Owner \cup {None}, Begin(x, by)
    PROVE  CountInv'
<1>1. UNCHANGED <<row, lastClaim>> /\ tx \in [Tx -> TxState]
  BY DEF Begin, store, IInv, TypeOK
<1>2. ASSUME NEW y \in Tx, NEW t \in Task PROVE Within(tx'[y].view[t], lastClaim[t])
  <2>1. tx'[y].view = IF y = x THEN row ELSE tx[y].view
    BY <1>1 DEF Begin
  <2> QED BY <2>1 DEF CountInv, CountedOnce, ViewsWithin, Within
<1> QED BY <1>1, <1>2 DEF CountInv, CountedOnce, ViewsWithin, Within, ClaimsUsed

LEMMA CommitCounts ==
    ASSUME IInv, CountInv, NEW x \in Tx, Commit(x)
    PROVE  CountInv'
<1>1. TypeOK /\ lastClaim \in [Task -> Nat] /\ UNCHANGED lastClaim
  BY DEF IInv, TypeOK, Commit
<1>2. ViewsWithin'
  <2>1. \A y \in Tx : \A t \in Task : tx'[y].view[t] \in {tx[y].view[t], Gone}
    BY <1>1, CommitFields
  <2> QED BY <1>1, <2>1, ViewsKept
<1>3. \A t \in Task : row'[t] \in {tx[x].view[t], row[t]}
  BY DEF Commit
<1> QED BY <1>1, <1>2, <1>3 DEF CountInv, CountedOnce, ViewsWithin, Within, ClaimsUsed

\* Steps that change neither rows nor claim tokens, and open or write no transaction.
LEMMA OtherCounts ==
    ASSUME IInv, CountInv, UNCHANGED <<row, lastClaim>>,
           \A x \in Tx : \A t \in Task : tx'[x].view[t] \in {tx[x].view[t], Gone}
    PROVE  CountInv'
<1>1. lastClaim \in [Task -> Nat]
  BY DEF IInv, TypeOK
<1>2. ViewsWithin'
  BY <1>1, ViewsKept
<1> QED BY <1>2 DEF CountInv, CountedOnce, ClaimsUsed

LEMMA ClosingViews ==
    ASSUME IInv,
           \/ UNCHANGED tx
           \/ \E X \in SUBSET Tx : tx' = [x \in Tx |-> IF x \in X THEN Closed ELSE tx[x]]
    PROVE  \A x \in Tx : \A t \in Task : tx'[x].view[t] \in {tx[x].view[t], Gone}
BY DEF Closed

LEMMA StepCounts ==
    ASSUME IInv, CountInv, [Next]_vars
    PROVE  CountInv'
<1>1. ASSUME NEW o \in Owner, OwnerStep(o) PROVE CountInv'
  <2>1. CASE ClaimDue(o)
    BY <2>1, ClaimCounts
  <2>2. CASE GiveBackIdle(o)
    BY <2>2, GiveBackCounts
  <2>3. CASE Heartbeat(o) \/ SweepOwner(o) \/ Deliver(o) \/ LoseReply(o) \/ GoesStale(o)
    <3>1. UNCHANGED <<row, lastClaim, tx>>
      BY <2>3 DEF Heartbeat, SweepOwner, Deliver, LoseReply, GoesStale, store
    <3> QED BY <3>1, ClosingViews, OtherCounts
  <2>4. ASSUME NEW retires \in BOOLEAN, Stop(o, retires) PROVE CountInv'
    <3>1. UNCHANGED <<row, lastClaim>>
      BY <2>4 DEF Stop
    <3>2. tx' = [x \in Tx |-> IF x \in {y \in Tx : tx[y].by = o} THEN Closed ELSE tx[x]]
      BY <2>4 DEF Stop
    <3>3. \A x \in Tx : \A t \in Task : tx'[x].view[t] \in {tx[x].view[t], Gone}
      BY <3>2 DEF Closed
    <3> QED BY <3>1, <3>3, OtherCounts
  <2> QED BY <1>1, <2>1, <2>2, <2>3, <2>4 DEF OwnerStep
<1>2. ASSUME NEW o \in Owner, NEW r \in runs[o], RunStep(o, r) PROVE CountInv'
  <2>1. CASE RecordAttempt(o, r)
    BY <2>1, RecordCounts
  <2>2. CASE MarkUnsafe(o, r) \/ HandOff(o, r) \/ Superseded(o, r)
    <3>1. UNCHANGED <<row, lastClaim, tx>>
      BY <2>2 DEF MarkUnsafe, HandOff, Superseded, store
    <3> QED BY <3>1, ClosingViews, OtherCounts
  <2> QED BY <1>2, <2>1, <2>2 DEF RunStep
<1>3. ASSUME NEW x \in Tx, TxStep(x) PROVE CountInv'
  <2>1. CASE Rollback(x)
    <3>1. UNCHANGED <<row, lastClaim>>
      BY <2>1 DEF Rollback, store
    <3>2. \A y \in Tx : \A t \in Task : tx'[y].view[t] \in {tx[y].view[t], Gone}
      BY <2>1 DEF Rollback, Closed, IInv, TypeOK
    <3> QED BY <3>1, <3>2, OtherCounts
  <2> QED BY <1>3, <2>1, BeginCounts, ReconcileCounts, DeleteCounts, WritesCount, CommitCounts
          DEF TxStep
<1>4. CASE SweepMarks
  <2>1. UNCHANGED <<row, lastClaim, tx>>
    BY <1>4 DEF SweepMarks
  <2> QED BY <2>1, ClosingViews, OtherCounts
<1>5. CASE UNCHANGED vars
  <2>1. UNCHANGED <<row, lastClaim, tx>>
    BY <1>5 DEF vars, store
  <2> QED BY <2>1, ClosingViews, OtherCounts
<1> QED BY <1>1, <1>2, <1>3, <1>4, <1>5 DEF Next

\* Every attempt counted and every owner counted as lost was a claim of this
\* life, each a different one.
THEOREM CountedOnlyOnce == Spec => []CountedOnce
<1>1. Init => CountInv
  <2> SUFFICES ASSUME Init PROVE CountInv
    OBVIOUS
  <2>1. Within(Gone, 0)
    BY WithinGone
  <2> QED BY <2>1 DEF Init, Closed, CountInv, CountedOnce, ViewsWithin, Within
<1>2. IInv /\ CountInv /\ [Next]_vars => CountInv'
  BY StepCounts
<1>3. CountInv => CountedOnce
  BY DEF CountInv
<1> QED BY <1>1, <1>2, <1>3, Invariance, PTL DEF Spec

-----------------------------------------------------------------------------
(* The mark of a life.                                                     *)

\* The claims that anyone still knows of, and those whose mark was answered
\* accepted: their work is handed off, or may be without asking again.
InHand(o) == reply[o] \cup {r.ref : r \in runs[o]}
Known == marks \cup handedOff \cup UNION {InHand(o) : o \in Owner}

MarkedRefs(o) == {r.ref : r \in {s \in runs[o] : s.phase = "marked"}}
Accepted == handedOff \cup UNION {MarkedRefs(o) : o \in Owner}

\* Rows and views carry arm tokens that were drawn, and a task that is there has one.
Armed(r, n) == r.arm <= n /\ (r.status # "NONE" => r.arm # 0)
RowsArmed == \A t \in Task : /\ Armed(row[t], lastArm[t])
                             /\ \A x \in Tx : Armed(tx[x].view[t], lastArm[t])

RefsDrawn == \A v \in Known : /\ v.arm # 0
                              /\ v.arm <= lastArm[v.id]
                              /\ v.claim <= lastClaim[v.id]

\* One claim is answered once and run once.
OneRunPerClaim ==
    \A o, p \in Owner :
      /\ \A r \in runs[o], s \in runs[p] : r.ref = s.ref => o = p /\ r = s
      /\ \A v \in reply[o] : /\ v \in reply[p] => o = p
                             /\ \A s \in runs[p] : s.ref # v

\* A life that a transaction may commit is the current one or new to everyone.
NewLives == \A x \in Tx : tx[x].open => \A t \in Task \ tx[x].rivals :
               \/ tx[x].view[t].arm \in {0, row[t].arm}
               \/ \A v \in Known : v.id = t => v.arm # tx[x].view[t].arm

\* The mark of accepted work stands as long as its life.
MarkStands == \A v \in Accepted : v \in marks \/ row[v.id].arm # v.arm

OneAccepted == \A v, w \in marks \cup Accepted : v.id = w.id /\ v.arm = w.arm => v = w

MarkInv == RowsArmed /\ RefsDrawn /\ OneRunPerClaim /\ NewLives /\ MarkStands /\ OneAccepted

-----------------------------------------------------------------------------
\* Everything known of is a reference, and accepted work is known.
LEMMA KnownTyped ==
    ASSUME TypeOK
    PROVE  Known \subseteq Ref /\ Accepted \subseteq Known /\ marks \subseteq Known
<1>1. \A o \in Owner : InHand(o) \subseteq Ref /\ MarkedRefs(o) \subseteq InHand(o)
  BY DEF TypeOK, InHand, MarkedRefs, Run
<1>2. UNION {MarkedRefs(o) : o \in Owner} \subseteq UNION {InHand(o) : o \in Owner}
  BY <1>1
<1> QED BY <1>1, <1>2 DEF TypeOK, Known, Accepted

\* What a step leaves alone.
LivesStay == \A t \in Task : /\ row'[t].arm = row[t].arm
                             /\ row'[t].status # "NONE" => row[t].status # "NONE"
TokensGrow == \A t \in Task : /\ lastArm'[t] \in Nat /\ lastArm[t] <= lastArm'[t]
                              /\ lastClaim'[t] \in Nat /\ lastClaim[t] <= lastClaim'[t]
ViewsStay == \A x \in Tx : /\ \A t \in Task : tx'[x].view[t] \in {tx[x].view[t], Gone}
                           /\ tx'[x].open => /\ tx[x].open /\ tx'[x].view = tx[x].view
                                             /\ tx[x].rivals \subseteq tx'[x].rivals
HandsStay == \A o \in Owner : reply'[o] \subseteq reply[o] /\ runs'[o] \subseteq runs[o]

\* Rows that keep their life keep a drawn token.
LEMMA RowsStayArmed ==
    ASSUME TypeOK, MarkInv, LivesStay, TokensGrow, ViewsStay
    PROVE  RowsArmed'
<1> SUFFICES ASSUME NEW t \in Task
             PROVE  /\ Armed(row'[t], lastArm'[t])
                    /\ \A x \in Tx : Armed(tx'[x].view[t], lastArm'[t])
  BY DEF RowsArmed, Armed
<1>1. row[t].arm \in Nat /\ lastArm[t] \in Nat /\ \A x \in Tx : tx[x].view[t].arm \in Nat
  BY DEF TypeOK, Row, RowRecord, TxState
<1>2. lastArm'[t] \in Nat /\ lastArm[t] <= lastArm'[t]
  BY DEF TokensGrow
<1>3. Armed(row[t], lastArm[t]) /\ \A x \in Tx : Armed(tx[x].view[t], lastArm[t])
  BY DEF MarkInv, RowsArmed
<1>4. Armed(row'[t], lastArm'[t])
  BY <1>1, <1>2, <1>3 DEF Armed, LivesStay
<1>5. ASSUME NEW x \in Tx PROVE Armed(tx'[x].view[t], lastArm'[t])
  <2>1. CASE tx'[x].view[t] = Gone
    BY <1>2, <2>1 DEF Armed, Gone
  <2>2. CASE tx'[x].view[t] = tx[x].view[t]
    BY <1>1, <1>2, <1>3, <2>2 DEF Armed
  <2> QED BY <2>1, <2>2 DEF ViewsStay
<1> QED BY <1>4, <1>5

\* Tokens only grow, so no known reference is ahead of them.
LEMMA RefsStayDrawn ==
    ASSUME TypeOK, MarkInv, TokensGrow, Known' \subseteq Known
    PROVE  RefsDrawn'
<1> SUFFICES ASSUME NEW v \in Known'
             PROVE  v.arm # 0 /\ v.arm <= lastArm'[v.id] /\ v.claim <= lastClaim'[v.id]
  BY DEF RefsDrawn
<1>1. v \in Ref /\ v.arm # 0 /\ v.arm <= lastArm[v.id] /\ v.claim <= lastClaim[v.id]
  BY KnownTyped DEF MarkInv, RefsDrawn
<1>2. v.id \in Task /\ v.arm \in Nat /\ v.claim \in Nat
  BY <1>1 DEF Ref
<1> QED BY <1>1, <1>2 DEF TokensGrow, TypeOK

\* Nothing new becomes known of a life that only a transaction has.
LEMMA NewLivesStay ==
    ASSUME MarkInv, LivesStay, ViewsStay, Known' \subseteq Known
    PROVE  NewLives'
<1> SUFFICES ASSUME NEW x \in Tx, tx'[x].open, NEW t \in Task \ tx'[x].rivals
             PROVE  \/ tx'[x].view[t].arm \in {0, row'[t].arm}
                    \/ \A v \in Known' : v.id = t => v.arm # tx'[x].view[t].arm
  BY DEF NewLives
<1>1. tx[x].open /\ tx'[x].view = tx[x].view /\ t \in Task \ tx[x].rivals
  BY DEF ViewsStay
<1> QED BY <1>1 DEF MarkInv, NewLives, LivesStay

\* Dropping replies and runs makes no claim run twice.
LEMMA RunsStayOne ==
    ASSUME MarkInv, HandsStay
    PROVE  OneRunPerClaim'
BY DEF MarkInv, HandsStay, OneRunPerClaim

\* Marks go only with their life, or when no one was answered that they are there.
LEMMA MarksStay ==
    ASSUME TypeOK, MarkInv, LivesStay,
           marks' \subseteq marks, Accepted' \subseteq Accepted,
           \A v \in marks \ marks' : v \notin Accepted' \/ row[v.id].arm # v.arm
    PROVE  MarkStands' /\ OneAccepted'
<1>1. MarkStands'
  <2> SUFFICES ASSUME NEW v \in Accepted' PROVE v \in marks' \/ row'[v.id].arm # v.arm
    BY DEF MarkStands
  <2>1. v \in marks \/ row[v.id].arm # v.arm
    BY DEF MarkInv, MarkStands
  <2>2. v.id \in Task
    BY KnownTyped DEF Ref
  <2> QED BY <2>1, <2>2 DEF LivesStay
<1>2. OneAccepted'
  BY DEF MarkInv, OneAccepted
<1> QED BY <1>1, <1>2

\* The steps that leave every life, token and reference as it is, or drop some.
LEMMA QuietKeepsMarks ==
    ASSUME TypeOK, MarkInv, LivesStay, TokensGrow, ViewsStay, OneRunPerClaim',
           Known' \subseteq Known, marks' \subseteq marks, Accepted' \subseteq Accepted,
           \A v \in marks \ marks' : v \notin Accepted' \/ row[v.id].arm # v.arm
    PROVE  MarkInv'
<1>1. RowsArmed'
  BY RowsStayArmed
<1>2. RefsDrawn' /\ NewLives'
  BY RefsStayDrawn, NewLivesStay
<1>3. MarkStands' /\ OneAccepted'
  BY MarksStay
<1> QED BY <1>1, <1>2, <1>3 DEF MarkInv

\* Rows and tokens that do not change, transactions that do not or end.
LEMMA StoreStays ==
    ASSUME TypeOK, UNCHANGED <<row, lastArm, lastClaim>>,
           \/ UNCHANGED tx
           \/ \E X \in SUBSET Tx : tx' = [x \in Tx |-> IF x \in X THEN Closed ELSE tx[x]]
    PROVE  LivesStay /\ TokensGrow /\ ViewsStay
BY DEF TypeOK, LivesStay, TokensGrow, ViewsStay, Closed

\* Transactions that learn of rivals.
LEMMA RacedStays ==
    ASSUME TypeOK, NEW T \in SUBSET Task, tx' = Raced(tx, T)
    PROVE  ViewsStay
<1>1. \A x \in Tx : tx[x].rivals \in SUBSET Task
  BY DEF TypeOK, TxState
<1> QED BY <1>1, RacedFields DEF TypeOK, ViewsStay

\* The references of all hands are those of each.
LEMMA KnownGrows ==
    ASSUME NEW X, \A p \in Owner : InHand(p)' \subseteq InHand(p) \cup X,
           marks' \subseteq marks \cup X, handedOff' \subseteq handedOff \cup X
    PROVE  Known' \subseteq Known \cup X
<1>1. UNION {InHand(p)' : p \in Owner} \subseteq (UNION {InHand(p) : p \in Owner}) \cup X
  OBVIOUS
<1> QED BY <1>1 DEF Known

\* The accepted references of all hands are those of each.
LEMMA AcceptedGrows ==
    ASSUME NEW X, \A p \in Owner : MarkedRefs(p)' \subseteq MarkedRefs(p) \cup X,
           handedOff' \subseteq handedOff \cup X
    PROVE  Accepted' \subseteq Accepted \cup X
<1>1. UNION {MarkedRefs(p)' : p \in Owner} \subseteq (UNION {MarkedRefs(p) : p \in Owner}) \cup X
  OBVIOUS
<1> QED BY <1>1 DEF Accepted

\* Replies and runs that are dropped.
LEMMA DroppedHands ==
    ASSUME HandsStay, marks' \subseteq marks, UNCHANGED handedOff
    PROVE  Known' \subseteq Known /\ Accepted' \subseteq Accepted
<1>1. \A o \in Owner : /\ InHand(o)' \subseteq InHand(o)
                       /\ MarkedRefs(o)' \subseteq MarkedRefs(o)
  BY DEF HandsStay, InHand, MarkedRefs
<1> QED BY <1>1 DEF Known, Accepted

\* What an owner does with its own registration touches no row and no mark.
LEMMA OwnerOnlyMarks ==
    ASSUME IInv, MarkInv, NEW o \in Owner,
           Heartbeat(o) \/ SweepOwner(o) \/ LoseReply(o) \/ GoesStale(o)
           \/ \E retires \in BOOLEAN : Stop(o, retires)
    PROVE  MarkInv'
<1>1. TypeOK
  BY DEF IInv
<1>2. UNCHANGED <<row, lastArm, lastClaim>>
  BY DEF Heartbeat, SweepOwner, LoseReply, GoesStale, Stop, store
<1>3. \/ UNCHANGED tx
      \/ \E X \in SUBSET Tx : tx' = [x \in Tx |-> IF x \in X THEN Closed ELSE tx[x]]
  <2>1. ASSUME NEW retires \in BOOLEAN, Stop(o, retires)
        PROVE  tx' = [x \in Tx |-> IF x \in {y \in Tx : tx[y].by = o} THEN Closed ELSE tx[x]]
    BY <2>1 DEF Stop
  <2> QED BY <2>1 DEF Heartbeat, SweepOwner, LoseReply, GoesStale, store
<1>4. LivesStay /\ TokensGrow /\ ViewsStay
  BY <1>1, <1>2, <1>3, StoreStays
<1>5. HandsStay /\ UNCHANGED <<marks, handedOff>>
  BY <1>1 DEF Heartbeat, SweepOwner, LoseReply, GoesStale, Stop, HandsStay, TypeOK, store, engine
<1>6. Known' \subseteq Known /\ Accepted' \subseteq Accepted
  BY <1>5, DroppedHands
<1>7. OneRunPerClaim'
  BY <1>5, RunsStayOne
<1> QED BY <1>1, <1>4, <1>5, <1>6, <1>7, QuietKeepsMarks

\* A swept mark is of a life that is over.
LEMMA SweptMarks ==
    ASSUME IInv, MarkInv, SweepMarks
    PROVE  MarkInv'
<1>1. TypeOK /\ UNCHANGED <<row, lastArm, lastClaim, tx, engine>> /\ marks' = marks \ EndedMarks
  BY DEF IInv, SweepMarks
<1>2. LivesStay /\ TokensGrow /\ ViewsStay /\ HandsStay
  BY <1>1, StoreStays DEF HandsStay, engine
<1>3. Known' \subseteq Known /\ Accepted' \subseteq Accepted
  BY <1>1, <1>2, DroppedHands DEF engine
<1>4. OneRunPerClaim'
  BY <1>2, RunsStayOne
<1>5. \A v \in marks \ marks' : row[v.id].arm # v.arm
  BY <1>1 DEF EndedMarks
<1> QED BY <1>1, <1>2, <1>3, <1>4, <1>5, QuietKeepsMarks

\* A row without its claim is still of its life.
LEMMA ReleasedLife ==
    ASSUME NEW r \in Row, NEW status \in {"WAITING", "FAILED"}, NEW counted \in BOOLEAN
    PROVE  /\ Released(r, status).arm = r.arm
           /\ Counted(Released(r, status), counted).arm = r.arm
           /\ Counted(Released(r, status), counted).status = status
<1>1. Released(r, status) \in Row /\ Released(r, status).status = status
      /\ Released(r, status).arm = r.arm
  BY ReleasedIsRow DEF Released, Row, RowRecord
<1> QED BY <1>1 DEF Counted, Row, RowRecord

\* A claim given back leaves the life and its mark.
LEMMA GiveBackMarks ==
    ASSUME IInv, MarkInv, NEW o \in Owner, GiveBackIdle(o)
    PROVE  MarkInv'
<1>1. TypeOK /\ Idle(o) \in SUBSET Task /\ \A t \in Task : row[t] \in Row
  BY DEF IInv, TypeOK, Idle
<1>2. /\ row' = [t \in Task |-> IF t \in Idle(o) THEN Released(row[t], "WAITING") ELSE row[t]]
      /\ tx' = Raced(tx, Idle(o))
      /\ UNCHANGED <<marks, lastArm, lastClaim, engine>>
  BY DEF GiveBackIdle
<1>3. LivesStay
  <2> SUFFICES ASSUME NEW t \in Task
               PROVE  row'[t].arm = row[t].arm /\ (row'[t].status # "NONE" => row[t].status # "NONE")
    BY DEF LivesStay
  <2>1. CASE t \in Idle(o)
    <3>1. row'[t] = Released(row[t], "WAITING") /\ row[t].status = "RUNNING"
      BY <1>2, <2>1 DEF Idle
    <3> QED BY <1>1, <3>1, ReleasedLife
  <2>2. CASE t \notin Idle(o)
    BY <1>2, <2>2
  <2> QED BY <2>1, <2>2
<1>4. ViewsStay
  BY <1>1, <1>2, RacedStays
<1>5. TokensGrow /\ HandsStay
  BY <1>1, <1>2 DEF TokensGrow, HandsStay, TypeOK, engine
<1>6. Known' \subseteq Known /\ Accepted' \subseteq Accepted
  BY <1>2, <1>5, DroppedHands DEF engine
<1>7. OneRunPerClaim'
  BY <1>5, RunsStayOne
<1> QED BY <1>1, <1>2, <1>3, <1>4, <1>5, <1>6, <1>7, QuietKeepsMarks

\* A claim draws a token no one knows of, in the current life, and every open
\* transaction has the row for a rival.
LEMMA ClaimMarks ==
    ASSUME IInv, MarkInv, NEW o \in Owner, ClaimDue(o)
    PROVE  MarkInv'
<1>1. PICK S \in SUBSET {t \in Task : Claimable(t) /\ lastClaim[t] < MaxClaims} :
        /\ lastClaim' = [t \in Task |-> IF t \in S THEN lastClaim[t] + 1 ELSE lastClaim[t]]
        /\ row' = [t \in Task |-> IF t \in S THEN Claimed(t, o) ELSE row[t]]
        /\ reply' = [reply EXCEPT ![o] =
             {[id |-> t, arm |-> row[t].arm, claim |-> lastClaim[t] + 1] : t \in S}]
        /\ tx' = Raced(tx, S)
  BY DEF ClaimDue
<1> DEFINE N == {[id |-> t, arm |-> row[t].arm, claim |-> lastClaim[t] + 1] : t \in S}
<1>2. TypeOK /\ S \in SUBSET Task /\ UNCHANGED <<marks, lastArm, runs, handedOff>> /\ reply[o] = {}
  BY DEF ClaimDue, IInv
<1>t. /\ \A t \in Task : row[t] \in RowRecord /\ lastClaim[t] \in Nat /\ lastArm[t] \in Nat
      /\ \A t \in S : row[t].status # "NONE"
  BY <1>2 DEF TypeOK, Row, Claimable, OwnerLost
<1>3. LivesStay
  BY <1>1, <1>t DEF LivesStay, Claimed, RowRecord
<1>4. ViewsStay
  BY <1>1, <1>2, RacedStays
<1>5. TokensGrow
  BY <1>1, <1>2, <1>t DEF TokensGrow
<1>6. \A v \in N : /\ v.id \in S /\ v.arm = row[v.id].arm /\ v.claim = lastClaim[v.id] + 1
                   /\ v.arm # 0 /\ v.arm <= lastArm[v.id]
  BY <1>2 DEF MarkInv, RowsArmed, Armed, Row, TypeOK, Claimable, OwnerLost
<1>7. N \cap Known = {}
  BY <1>2, <1>6, <1>t, KnownTyped DEF MarkInv, RefsDrawn, Ref
<1>8. /\ \A p \in Owner : reply'[p] = IF p = o THEN N ELSE reply[p]
      /\ Accepted' = Accepted /\ Known' \subseteq Known \cup N
  <2>1. \A p \in Owner : reply'[p] = IF p = o THEN N ELSE reply[p]
    BY <1>1, <1>2 DEF TypeOK
  <2>2. \A p \in Owner : InHand(p)' \subseteq InHand(p) \cup N
    BY <1>2, <2>1 DEF InHand
  <2>3. \A p \in Owner : MarkedRefs(p)' = MarkedRefs(p)
    BY <1>2 DEF MarkedRefs
  <2>4. Known' \subseteq Known \cup N
    BY <1>2, <2>2, KnownGrows
  <2>5. UNION {MarkedRefs(p)' : p \in Owner} = UNION {MarkedRefs(p) : p \in Owner}
    BY <2>3
  <2>6. Accepted' = Accepted
    BY <1>2, <2>5 DEF Accepted
  <2> QED BY <2>1, <2>4, <2>6
<1>9. RowsArmed'
  BY <1>2, <1>3, <1>4, <1>5, RowsStayArmed
<1> HIDE DEF N
<1>10. RefsDrawn'
  <2> SUFFICES ASSUME NEW v \in Known'
               PROVE  v.arm # 0 /\ v.arm <= lastArm'[v.id] /\ v.claim <= lastClaim'[v.id]
    BY DEF RefsDrawn
  <2>1. CASE v \in N
    BY <1>1, <1>2, <1>6, <1>t, <2>1
  <2>2. CASE v \in Known
    <3>1. v \in Ref /\ v.arm # 0 /\ v.arm <= lastArm[v.id] /\ v.claim <= lastClaim[v.id]
      BY <1>2, <2>2, KnownTyped DEF MarkInv, RefsDrawn
    <3>2. v.id \in Task /\ v.arm \in Nat /\ v.claim \in Nat
      BY <3>1 DEF Ref
    <3> QED BY <1>t, <1>5, <3>1, <3>2 DEF TokensGrow
  <2> QED BY <1>8, <2>1, <2>2
<1>11. OneRunPerClaim'
  <2>1. \A p \in Owner : /\ \A v \in reply[p] : v \notin N
                         /\ \A s \in runs[p] : s.ref \notin N
    BY <1>7 DEF Known, InHand
  <2> QED BY <1>2, <1>8, <2>1 DEF MarkInv, OneRunPerClaim
<1>12. NewLives'
  <2> SUFFICES ASSUME NEW x \in Tx, tx'[x].open, NEW t \in Task \ tx'[x].rivals
               PROVE  \/ tx'[x].view[t].arm \in {0, row'[t].arm}
                      \/ \A v \in Known' : v.id = t => v.arm # tx'[x].view[t].arm
    BY DEF NewLives
  <2>1. tx[x].open /\ tx'[x].view = tx[x].view /\ t \in Task \ tx[x].rivals /\ t \notin S
    BY <1>1, <1>2, RacedFields DEF TypeOK
  <2>2. \A v \in N : v.id # t
    BY <1>6, <2>1
  <2> QED BY <1>3, <1>8, <2>1, <2>2 DEF MarkInv, NewLives, LivesStay
<1>13. MarkStands' /\ OneAccepted'
  BY <1>2, <1>3, <1>8, MarksStay
<1> QED BY <1>9, <1>10, <1>11, <1>12, <1>13 DEF MarkInv

\* A delivered reply is the same references in other hands.
LEMMA DeliverMarks ==
    ASSUME IInv, MarkInv, NEW o \in Owner, Deliver(o)
    PROVE  MarkInv'
<1> DEFINE N == {[ref |-> c, phase |-> "ready"] : c \in reply[o]}
<1>1. TypeOK /\ UNCHANGED <<row, lastArm, lastClaim, tx, marks, handedOff>>
  BY DEF IInv, Deliver, store
<1>2. \A p \in Owner : /\ runs'[p] = IF p = o THEN runs[p] \cup N ELSE runs[p]
                       /\ reply'[p] = IF p = o THEN {} ELSE reply[p]
  BY <1>1 DEF Deliver, TypeOK
<1>3. \A r \in N : r.ref \in reply[o] /\ r.phase = "ready"
  OBVIOUS
<1>4. \A r, s \in N : r.ref = s.ref => r = s
  OBVIOUS
<1>5. LivesStay /\ TokensGrow /\ ViewsStay
  BY <1>1, StoreStays
<1> HIDE DEF N
<1>6. OneRunPerClaim'
  <2> SUFFICES ASSUME NEW p \in Owner, NEW q \in Owner
               PROVE  /\ \A r \in runs'[p], s \in runs'[q] : r.ref = s.ref => p = q /\ r = s
                      /\ \A v \in reply'[p] : /\ v \in reply'[q] => p = q
                                              /\ \A s \in runs'[q] : s.ref # v
    BY DEF OneRunPerClaim
  <2>a. \A w \in Owner : /\ \A u \in runs[w] : u.ref \notin reply[o]
                         /\ w # o => \A v \in reply[w] : v \notin reply[o]
    BY DEF MarkInv, OneRunPerClaim
  <2>1. ASSUME NEW r \in runs'[p], NEW s \in runs'[q], r.ref = s.ref PROVE p = q /\ r = s
    <3>1. (r \in runs[p] \/ (p = o /\ r \in N)) /\ (s \in runs[q] \/ (q = o /\ s \in N))
      BY <1>2
    <3>2. CASE r \in runs[p] /\ s \in runs[q]
      BY <2>1, <3>2 DEF MarkInv, OneRunPerClaim
    <3>3. CASE r \in runs[p] /\ s \notin runs[q]
      <4>1. s.ref \in reply[o]
        BY <1>3, <3>1, <3>3
      <4>2. r.ref \notin reply[o]
        BY <2>a, <3>3
      <4> QED BY <2>1, <4>1, <4>2
    <3>4. CASE r \notin runs[p] /\ s \in runs[q]
      <4>1. r.ref \in reply[o]
        BY <1>3, <3>1, <3>4
      <4>2. s.ref \notin reply[o]
        BY <2>a, <3>4
      <4> QED BY <2>1, <4>1, <4>2
    <3>5. CASE r \notin runs[p] /\ s \notin runs[q]
      BY <1>4, <2>1, <3>1, <3>5
    <3> QED BY <3>2, <3>3, <3>4, <3>5
  <2>2. ASSUME NEW v \in reply'[p]
        PROVE  (v \in reply'[q] => p = q) /\ \A s \in runs'[q] : s.ref # v
    <3>1. p # o /\ v \in reply[p] /\ v \notin reply[o]
      <4>1. p # o /\ v \in reply[p]
        BY <1>2
      <4> QED BY <2>a, <4>1
    <3>2. v \in reply'[q] => p = q
      BY <1>2, <3>1 DEF MarkInv, OneRunPerClaim
    <3>3. \A s \in runs[q] : s.ref # v
      BY <3>1 DEF MarkInv, OneRunPerClaim
    <3> QED BY <1>2, <1>3, <3>1, <3>2, <3>3
  <2> QED BY <2>1, <2>2
<1>7. Known' \subseteq Known /\ Accepted' \subseteq Accepted
  <2>1. \A p \in Owner : InHand(p)' \subseteq InHand(p)
    BY <1>2, <1>3 DEF InHand
  <2>2. \A p \in Owner : MarkedRefs(p)' \subseteq MarkedRefs(p)
    BY <1>2, <1>3 DEF MarkedRefs
  <2> QED BY <1>1, <2>1, <2>2 DEF Known, Accepted
<1> QED BY <1>1, <1>5, <1>6, <1>7, QuietKeepsMarks

\* A run that leaves or changes its phase takes its reference along.
LEMMA RunMoves ==
    ASSUME TypeOK, MarkInv, NEW o \in Owner, NEW r \in runs[o], NEW phase,
           Leaves(o, r) \/ Becomes(o, r, phase) \/ UNCHANGED runs, UNCHANGED reply
    PROVE  /\ OneRunPerClaim'
           /\ \A p \in Owner : InHand(p)' \subseteq InHand(p)
           /\ \A p \in Owner : MarkedRefs(p)' \subseteq MarkedRefs(p) \cup {r.ref}
           /\ phase # "marked" => \A p \in Owner : MarkedRefs(p)' \subseteq MarkedRefs(p)
<1> DEFINE new == [r EXCEPT !.phase = phase]
<1>1. r \in Run /\ new.ref = r.ref /\ new.phase = phase
  BY DEF TypeOK, Run
<1>2. \A p \in Owner : \A s \in runs'[p] : s \in runs[p] \/ (p = o /\ s = new)
  BY DEF Leaves, Becomes, TypeOK
<1>3. Becomes(o, r, phase) /\ new # r => r \notin runs'[o]
  BY DEF Becomes, TypeOK
<1> HIDE DEF new
<1>4. OneRunPerClaim'
  <2> SUFFICES ASSUME NEW p \in Owner, NEW q \in Owner
               PROVE  /\ \A s \in runs'[p], w \in runs'[q] : s.ref = w.ref => p = q /\ s = w
                      /\ \A v \in reply'[p] : /\ v \in reply'[q] => p = q
                                              /\ \A s \in runs'[q] : s.ref # v
    BY DEF OneRunPerClaim
  <2>1. ASSUME NEW s \in runs'[p], NEW w \in runs'[q], s.ref = w.ref PROVE p = q /\ s = w
    <3>1. CASE s \in runs[p] /\ w \in runs[q]
      BY <2>1, <3>1 DEF MarkInv, OneRunPerClaim
    <3>2. CASE s \notin runs[p] /\ w \in runs[q]
      <4>1. p = o /\ s = new /\ w.ref = r.ref
        BY <1>1, <1>2, <2>1, <3>2
      <4>2. q = o /\ w = r
        BY <3>2, <4>1 DEF MarkInv, OneRunPerClaim
      <4>3. new # r /\ Becomes(o, r, phase)
        BY <3>2, <4>1 DEF Leaves, TypeOK
      <4> QED BY <1>3, <2>1, <4>2, <4>3
    <3>3. CASE s \in runs[p] /\ w \notin runs[q]
      <4>1. q = o /\ w = new /\ s.ref = r.ref
        BY <1>1, <1>2, <2>1, <3>3
      <4>2. p = o /\ s = r
        BY <3>3, <4>1 DEF MarkInv, OneRunPerClaim
      <4>3. new # r /\ Becomes(o, r, phase)
        BY <3>3, <4>1 DEF Leaves, TypeOK
      <4> QED BY <1>3, <2>1, <4>2, <4>3
    <3>4. CASE s \notin runs[p] /\ w \notin runs[q]
      BY <1>2, <3>4
    <3> QED BY <3>1, <3>2, <3>3, <3>4
  <2>2. ASSUME NEW v \in reply'[p]
        PROVE  (v \in reply'[q] => p = q) /\ \A s \in runs'[q] : s.ref # v
    BY <1>1, <1>2, <2>2 DEF MarkInv, OneRunPerClaim
  <2> QED BY <2>1, <2>2
<1>5. \A p \in Owner : InHand(p)' \subseteq InHand(p)
  BY <1>1, <1>2 DEF InHand
<1>6. \A p \in Owner : MarkedRefs(p)' \subseteq MarkedRefs(p) \cup {r.ref}
  BY <1>1, <1>2 DEF MarkedRefs
<1>7. phase # "marked" => \A p \in Owner : MarkedRefs(p)' \subseteq MarkedRefs(p)
  BY <1>1, <1>2 DEF MarkedRefs
<1> QED BY <1>4, <1>5, <1>6, <1>7

\* The reference of a run is known, and of a task.
LEMMA RunIsKnown ==
    ASSUME TypeOK, NEW o \in Owner, NEW r \in runs[o]
    PROVE  /\ r \in Run /\ r.ref \in Ref /\ r.ref.id \in Task
           /\ r.ref \in Known
           /\ r.phase = "marked" => r.ref \in Accepted
<1>1. r \in Run /\ r.ref \in Ref /\ r.ref.id \in Task
  BY DEF TypeOK, Run, Ref
<1>2. r.ref \in InHand(o) /\ (r.phase = "marked" => r.ref \in MarkedRefs(o))
  BY DEF InHand, MarkedRefs
<1> QED BY <1>1, <1>2 DEF Known, Accepted

\* The work of a life that is not over is accepted for one claim only: the mark
\* of any other stands, and refuses this one.
LEMMA MarkUnsafeMarks ==
    ASSUME IInv, MarkInv, NEW o \in Owner, NEW r \in runs[o], MarkUnsafe(o, r)
    PROVE  MarkInv'
<1>1. /\ TypeOK /\ UNCHANGED <<row, lastArm, lastClaim, tx, reply, handedOff>>
      /\ marks' = marks \cup {r.ref} /\ row[r.ref.id].arm = r.ref.arm
      /\ ~MarkedByAnother(r.ref)
  BY DEF IInv, MarkUnsafe, Holds
<1>2. LivesStay /\ TokensGrow /\ ViewsStay
  BY <1>1, StoreStays
<1>3. /\ OneRunPerClaim'
      /\ \A p \in Owner : InHand(p)' \subseteq InHand(p)
      /\ \A p \in Owner : MarkedRefs(p)' \subseteq MarkedRefs(p) \cup {r.ref}
  <2>1. Leaves(o, r) \/ Becomes(o, r, "marked") \/ UNCHANGED runs
    BY DEF MarkUnsafe
  <2> QED BY <1>1, <2>1, RunMoves
<1>4. Known' \subseteq Known /\ Accepted' \subseteq Accepted \cup {r.ref}
  <2>1. r.ref \in Known
    BY <1>1, RunIsKnown
  <2>2. Known' \subseteq Known \cup {r.ref}
    BY <1>1, <1>3, KnownGrows
  <2>3. Accepted' \subseteq Accepted \cup {r.ref}
    BY <1>1, <1>3, AcceptedGrows
  <2> QED BY <2>1, <2>2, <2>3
<1>5. RowsArmed' /\ RefsDrawn' /\ NewLives'
  BY <1>1, <1>2, <1>4, RowsStayArmed, RefsStayDrawn, NewLivesStay
<1>6. MarkStands'
  BY <1>1, <1>4 DEF MarkInv, MarkStands
<1>7. \A v \in marks \cup Accepted : v.id = r.ref.id /\ v.arm = r.ref.arm => v = r.ref
  BY <1>1 DEF MarkInv, MarkStands, MarkedByAnother
<1>8. OneAccepted'
  BY <1>1, <1>4, <1>7 DEF MarkInv, OneAccepted
<1> QED BY <1>3, <1>5, <1>6, <1>8 DEF MarkInv

\* The work handed off had its mark accepted before.
LEMMA HandOffMarks ==
    ASSUME IInv, MarkInv, NEW o \in Owner, NEW r \in runs[o], HandOff(o, r)
    PROVE  MarkInv'
<1>1. TypeOK /\ UNCHANGED <<row, lastArm, lastClaim, tx, reply, marks>>
      /\ handedOff' = handedOff \cup {r.ref} /\ r.phase = "marked" /\ Becomes(o, r, "working")
  BY DEF IInv, HandOff, store
<1>2. LivesStay /\ TokensGrow /\ ViewsStay
  BY <1>1, StoreStays
<1>3. /\ OneRunPerClaim'
      /\ \A p \in Owner : InHand(p)' \subseteq InHand(p) /\ MarkedRefs(p)' \subseteq MarkedRefs(p)
  <2>1. Leaves(o, r) \/ Becomes(o, r, "working") \/ UNCHANGED runs
    BY <1>1
  <2> QED BY <1>1, <2>1, RunMoves
<1>4. Known' \subseteq Known /\ Accepted' \subseteq Accepted
  <2>1. r.ref \in Known /\ r.ref \in Accepted
    BY <1>1, RunIsKnown
  <2>2. Known' \subseteq Known \cup {r.ref} /\ Accepted' \subseteq Accepted \cup {r.ref}
    BY <1>1, <1>3, KnownGrows, AcceptedGrows
  <2> QED BY <2>1, <2>2
<1> QED BY <1>1, <1>2, <1>3, <1>4, QuietKeepsMarks

\* A run whose claim is not the holder leaves and takes nothing along.
LEMMA SupersededMarks ==
    ASSUME IInv, MarkInv, NEW o \in Owner, NEW r \in runs[o], Superseded(o, r)
    PROVE  MarkInv'
<1>1. TypeOK /\ UNCHANGED <<row, lastArm, lastClaim, tx, reply, marks, handedOff>> /\ Leaves(o, r)
  BY DEF IInv, Superseded, store
<1>2. LivesStay /\ TokensGrow /\ ViewsStay
  BY <1>1, StoreStays
<1>3. HandsStay
  BY <1>1 DEF HandsStay, Leaves, TypeOK
<1>4. Known' \subseteq Known /\ Accepted' \subseteq Accepted /\ OneRunPerClaim'
  BY <1>1, <1>3, DroppedHands, RunsStayOne
<1> QED BY <1>1, <1>2, <1>4, QuietKeepsMarks

\* A mark is cleared by the one run of its claim, which handed nothing off and
\* now never will.
LEMMA RecordMarks ==
    ASSUME IInv, MarkInv, NEW o \in Owner, NEW r \in runs[o], RecordAttempt(o, r)
    PROVE  MarkInv'
<1> DEFINE t == r.ref.id
<1>1. /\ TypeOK /\ UNCHANGED <<lastArm, lastClaim, reply, handedOff>>
      /\ tx' = Raced(tx, {t})
      /\ Leaves(o, r) \/ Becomes(o, r, "ended")
  BY DEF IInv, RecordAttempt
<1>2. t \in Task /\ r.ref \in Ref /\ row \in [Task -> Row] /\ row[t] \in Row
  BY <1>1, RunIsKnown DEF TypeOK
<1>3. PICK counted \in BOOLEAN, clear \in {FALSE, r.ref \notin handedOff} :
        Recorded(r.ref, counted, clear)
  BY DEF RecordAttempt
<1>4. LivesStay
  <2>1. row' = [row EXCEPT ![t] = Counted(Released(row[t], "WAITING"), counted)]
    BY <1>3 DEF Recorded
  <2>2. row[t].status = "RUNNING"
    BY <1>2, HeldIsRunning DEF RecordAttempt, Fenced
  <2>3. Counted(Released(row[t], "WAITING"), counted).arm = row[t].arm
    BY <1>2, ReleasedLife
  <2> HIDE DEF t
  <2>4. \A u \in Task : row'[u] = IF u = t THEN Counted(Released(row[t], "WAITING"), counted) ELSE row[u]
    BY <1>2, <2>1
  <2> QED BY <2>2, <2>3, <2>4 DEF LivesStay
<1>5. ViewsStay
  <2>1. {t} \in SUBSET Task
    BY <1>2
  <2> QED BY <1>1, <2>1, RacedStays
<1>6. TokensGrow
  BY <1>1 DEF TokensGrow, TypeOK
<1>7. /\ OneRunPerClaim'
      /\ \A p \in Owner : InHand(p)' \subseteq InHand(p) /\ MarkedRefs(p)' \subseteq MarkedRefs(p)
  <2>1. Leaves(o, r) \/ Becomes(o, r, "ended") \/ UNCHANGED runs
    BY <1>1
  <2> QED BY <1>1, <2>1, RunMoves
<1>8. marks' \subseteq marks /\ marks \ marks' \subseteq {r.ref}
      /\ (marks' # marks => r.ref \notin handedOff)
  BY <1>3 DEF Recorded
<1>9. Known' \subseteq Known /\ Accepted' \subseteq Accepted
  BY <1>1, <1>7, <1>8 DEF Known, Accepted
<1>10. \A p \in Owner : r.ref \notin MarkedRefs(p)'
  <2> SUFFICES ASSUME NEW p \in Owner, NEW s \in runs'[p], s.phase = "marked", s.ref = r.ref
               PROVE  FALSE
    BY DEF MarkedRefs
  <2>0. s.phase = "marked" /\ s.ref = r.ref
    OBVIOUS
  <2>1. s \in runs[p] /\ s # r
    <3>1. r \in Run /\ [r EXCEPT !.phase = "ended"].phase = "ended"
      BY <1>1, RunIsKnown DEF Run
    <3>2. CASE Leaves(o, r)
      <4>1. \A q \in Owner : runs'[q] = IF q = o THEN runs[o] \ {r} ELSE runs[q]
        BY <1>1, <3>2 DEF Leaves, TypeOK
      <4>2. p = o
        BY <2>0, <4>1 DEF MarkInv, OneRunPerClaim
      <4> QED BY <4>1, <4>2
    <3>3. CASE Becomes(o, r, "ended")
      <4>1. \A q \in Owner : runs'[q] = IF q = o
                               THEN (runs[o] \ {r}) \cup {[r EXCEPT !.phase = "ended"]}
                               ELSE runs[q]
        BY <1>1, <3>3 DEF Becomes, TypeOK
      <4>2. s # [r EXCEPT !.phase = "ended"]
        BY <2>0, <3>1
      <4>3. s \in runs[p]
        BY <4>1, <4>2
      <4>4. p = o
        BY <2>0, <4>3 DEF MarkInv, OneRunPerClaim
      <4> QED BY <4>1, <4>2, <4>4
    <3> QED BY <1>1, <3>2, <3>3
  <2> QED BY <2>0, <2>1 DEF MarkInv, OneRunPerClaim
<1>11. \A v \in marks \ marks' : v \notin Accepted'
  BY <1>1, <1>8, <1>10 DEF Accepted
<1> HIDE DEF t
<1> QED BY <1>1, <1>4, <1>5, <1>6, <1>7, <1>8, <1>9, <1>11, QuietKeepsMarks

-----------------------------------------------------------------------------
(* The steps of a transaction.                                             *)

\* A transaction's own write: the life it saw, none, or one just drawn.
OwnLives(x, T, new) ==
    \A t \in T : /\ Armed(new[t], lastArm'[t])
                 /\ new[t].arm \in {0, tx[x].view[t].arm} \/ new[t].arm > lastArm[t]

OnlyStages(x, T, new) == Stage(x, T, new) /\ UNCHANGED <<row, marks, engine>>

LEMMA StageMarks ==
    ASSUME IInv, MarkInv, NEW x \in Tx, NEW T \in SUBSET Task, NEW new \in [Task -> Row],
           OnlyStages(x, T, new), TokensGrow, OwnLives(x, T, new)
    PROVE  MarkInv'
<1> USE DEF OwnLives, OnlyStages
<1>1. TypeOK /\ UNCHANGED <<row, marks, reply, runs, handedOff>>
  BY DEF IInv, engine
<1>2. /\ \A t \in Task : row[t].arm \in Nat /\ lastArm[t] \in Nat
      /\ \A y \in Tx, t \in Task : tx[y].view[t].arm \in Nat
  BY <1>1 DEF TypeOK, Row, RowRecord, TxState
<1>3. Known' = Known /\ Accepted' = Accepted
  BY <1>1 DEF Known, Accepted, InHand, MarkedRefs
<1>4. \A y \in Tx : /\ tx'[y].open = tx[y].open /\ tx'[y].rivals = tx[y].rivals
                    /\ \A t \in Task : tx'[y].view[t] = IF y = x /\ t \in T THEN new[t] ELSE tx[y].view[t]
  <2>1. TypeOK /\ x \in Tx /\ T \in SUBSET Task /\ new \in [Task -> Row] /\ Stage(x, T, new)
    BY <1>1
  <2> QED BY ONLY <2>1, StageFields
<1>5. RowsArmed'
  <2> SUFFICES ASSUME NEW t \in Task
               PROVE  /\ Armed(row[t], lastArm'[t])
                      /\ \A y \in Tx : Armed(tx'[y].view[t], lastArm'[t])
    BY <1>1 DEF RowsArmed, Armed
  <2>1. lastArm'[t] \in Nat /\ lastArm[t] <= lastArm'[t]
    BY DEF TokensGrow
  <2>2. Armed(row[t], lastArm'[t])
    BY <1>2, <2>1 DEF MarkInv, RowsArmed, Armed
  <2>3. ASSUME NEW y \in Tx PROVE Armed(tx'[y].view[t], lastArm'[t])
    <3>1. CASE y = x /\ t \in T
      BY <1>4, <3>1
    <3>2. CASE ~(y = x /\ t \in T)
      BY <1>2, <1>4, <2>1, <3>2 DEF MarkInv, RowsArmed, Armed
    <3> QED BY <3>1, <3>2
  <2> QED BY <2>2, <2>3
<1>6. RefsDrawn' /\ OneRunPerClaim'
  BY <1>1, <1>3, RefsStayDrawn DEF MarkInv, OneRunPerClaim
<1>7. NewLives'
  <2> SUFFICES ASSUME NEW y \in Tx, tx[y].open, NEW t \in Task \ tx[y].rivals
               PROVE  \/ tx'[y].view[t].arm \in {0, row[t].arm}
                      \/ \A v \in Known : v.id = t => v.arm # tx'[y].view[t].arm
    BY <1>1, <1>3, <1>4 DEF NewLives
  <2>1. \/ tx[y].view[t].arm \in {0, row[t].arm}
        \/ \A v \in Known : v.id = t => v.arm # tx[y].view[t].arm
    BY DEF MarkInv, NewLives
  <2>2. CASE y = x /\ t \in T /\ new[t].arm > lastArm[t]
    <3>1. \A v \in Known : v.id = t => v.arm # new[t].arm
      BY <1>1, <1>2, <2>2, KnownTyped DEF MarkInv, RefsDrawn, Ref
    <3> QED BY <1>4, <2>2, <3>1
  <2>3. CASE y = x /\ t \in T /\ new[t].arm \in {0, tx[x].view[t].arm}
    BY <1>4, <2>1, <2>3
  <2>4. CASE ~(y = x /\ t \in T)
    BY <1>4, <2>1, <2>4
  <2> QED BY <2>2, <2>3, <2>4
<1>8. MarkStands' /\ OneAccepted'
  BY <1>1, <1>3 DEF MarkInv, MarkStands, OneAccepted
<1> QED BY <1>5, <1>6, <1>7, <1>8 DEF MarkInv

\* Re-arming stages lives that were just drawn, or none.
LEMMA ReconcileMarks ==
    ASSUME IInv, MarkInv, NEW x \in Tx, NEW e \in Entity, NEW S \in SUBSET Task,
           ReconcileForEntity(x, e, S)
    PROVE  MarkInv'
<1> DEFINE T == S \cup {t \in Task : EntityOf[t] = e /\ tx[x].view[t].status # "NONE"}
           new == Rearmed(x, S)
<1>1. TypeOK /\ T \in SUBSET Task /\ UNCHANGED <<row, marks, lastClaim, engine>>
      /\ lastArm' = [t \in Task |-> IF t \in S THEN lastArm[t] + 1 ELSE lastArm[t]]
      /\ Stage(x, T, new)
  BY DEF IInv, ReconcileForEntity
<1>2. TokensGrow
  BY <1>1 DEF TokensGrow, TypeOK
<1>3. \A t \in Task : Fresh(t) \in Row /\ Fresh(t).arm = lastArm[t] + 1 /\ Gone \in Row
  BY <1>1, FreshIsRow, GoneIsRow DEF Fresh
<1>4. new \in [Task -> Row] /\ \A t \in Task : new[t] = IF t \in S THEN Fresh(t) ELSE Gone
  BY <1>3 DEF Rearmed
<1> HIDE DEF T, new
<1>5. ASSUME NEW t \in T
      PROVE  /\ Armed(new[t], lastArm'[t])
             /\ new[t].arm \in {0, tx[x].view[t].arm} \/ new[t].arm > lastArm[t]
  <2>1. t \in Task /\ lastArm[t] \in Nat
    BY <1>1 DEF TypeOK
  <2>2. CASE t \in S
    BY <1>1, <1>3, <1>4, <2>1, <2>2 DEF Armed
  <2>3. CASE t \notin S
    BY <1>1, <1>4, <2>1, <2>3 DEF Armed, Gone
  <2> QED BY <2>2, <2>3
<1>6. OwnLives(x, T, new)
  BY <1>5 DEF OwnLives
<1>7. OnlyStages(x, T, new)
  BY <1>1 DEF OnlyStages
<1> QED BY <1>1, <1>2, <1>4, <1>6, <1>7, StageMarks

\* Deleting stages no life.
LEMMA DeleteMarks ==
    ASSUME IInv, MarkInv, NEW x \in Tx, NEW S \in SUBSET Task, Delete(x, S)
    PROVE  MarkInv'
<1> DEFINE new == [t \in Task |-> Gone]
<1>1. TypeOK /\ UNCHANGED <<row, marks, lastArm, lastClaim, engine>> /\ Stage(x, S, new)
  BY DEF IInv, Delete, store
<1>2. TokensGrow
  BY <1>1 DEF TokensGrow, TypeOK
<1>3. new \in [Task -> Row] /\ OwnLives(x, S, new)
  <2>1. \A t \in Task : new[t] = Gone /\ lastArm'[t] \in Nat
    BY <1>1 DEF TypeOK
  <2>2. new \in [Task -> Row]
    BY GoneIsRow
  <2>3. Gone.arm = 0 /\ \A l \in Nat : Armed(Gone, l)
    BY DEF Gone, Armed
  <2> HIDE DEF new
  <2> QED BY <2>1, <2>2, <2>3 DEF OwnLives
<1>4. OnlyStages(x, S, new)
  BY <1>1 DEF OnlyStages
<1> HIDE DEF new
<1> QED BY <1>2, <1>3, <1>4, StageMarks

\* A run stages the life it saw, or none.
LEMMA WritesMark ==
    ASSUME IInv, MarkInv, NEW x \in Tx, NEW o \in Owner, NEW r \in runs[o], RunWrites(x, o, r)
    PROVE  MarkInv'
<1> DEFINE t == r.ref.id
           view == tx[x].view
<1>1. TypeOK /\ UNCHANGED <<row, marks, lastArm, lastClaim, engine>>
  BY DEF IInv, RunWrites, store
<1>2. TokensGrow
  BY <1>1 DEF TokensGrow, TypeOK
<1>3. /\ t \in Task /\ r.ref \in Ref /\ view \in [Task -> Row] /\ view[t] \in Row
      /\ view[t].arm \in Nat /\ lastArm[t] \in Nat /\ Armed(view[t], lastArm[t])
  <2>1. t \in Task /\ r.ref \in Ref
    BY <1>1, RunIsKnown
  <2> HIDE DEF t
  <2>2. view \in [Task -> Row] /\ lastArm[t] \in Nat
    BY <1>1, <2>1 DEF TypeOK, TxState
  <2>3. view[t] \in Row
    BY <2>1, <2>2
  <2>4. view[t].arm \in Nat
    BY <2>3 DEF Row, RowRecord
  <2>5. Armed(view[t], lastArm[t])
    BY <2>1 DEF MarkInv, RowsArmed
  <2> QED BY <2>1, <2>2, <2>3, <2>4, <2>5
<1>4. ASSUME NEW new \in [Task -> Row], Stage(x, {t}, new),
             Armed(new[t], lastArm[t]), new[t].arm \in {0, view[t].arm}
      PROVE  MarkInv'
  <2>1. {t} \in SUBSET Task /\ OwnLives(x, {t}, new)
    BY <1>1, <1>3, <1>4 DEF OwnLives
  <2>2. OnlyStages(x, {t}, new)
    BY <1>1, <1>4 DEF OnlyStages
  <2> HIDE DEF t, view
  <2> QED BY <1>2, <1>4, <2>1, <2>2, StageMarks
<1>5. CASE RemoveLife(x, r.ref)
  <2> DEFINE new == [u \in Task |-> Gone]
  <2>1. new \in [Task -> Row] /\ new[t].arm = 0 /\ Armed(new[t], lastArm[t])
    BY <1>3, GoneIsRow DEF Gone, Armed
  <2>2. Stage(x, {t}, new)
    BY <1>5 DEF RemoveLife
  <2> HIDE DEF new
  <2> QED BY <1>4, <2>1, <2>2
<1>6. CASE StampSegment(x, r.ref)
  <2>1. PICK partial \in BOOLEAN : Stage(x, {t}, [view EXCEPT ![t] = Stamped(view[t], partial)])
    BY <1>6 DEF StampSegment
  <2> DEFINE new == [view EXCEPT ![t] = Stamped(view[t], partial)]
  <2>2. /\ Stamped(view[t], partial) \in Row /\ Stamped(view[t], partial).status = view[t].status
        /\ Stamped(view[t], partial).arm = view[t].arm
    BY <1>3, StampedIsRow DEF Stamped, Row, RowRecord
  <2>3. new \in [Task -> Row] /\ new[t].arm = view[t].arm /\ Armed(new[t], lastArm[t])
    BY <1>3, <2>2 DEF Armed
  <2>4. Stage(x, {t}, new)
    BY <2>1
  <2> HIDE DEF new
  <2> QED BY <1>4, <2>3, <2>4
<1>7. CASE Fail(x, r.ref)
  <2>1. Stage(x, {t}, [view EXCEPT ![t] = Released(view[t], "FAILED")]) /\ Holds(view[t], r.ref)
    BY <1>7 DEF Fail
  <2> DEFINE new == [view EXCEPT ![t] = Released(view[t], "FAILED")]
  <2>2. /\ Released(view[t], "FAILED") \in Row /\ view[t].status = "RUNNING"
        /\ Released(view[t], "FAILED").arm = view[t].arm
    BY <1>3, <2>1, ReleasedIsRow, ReleasedLife, HeldIsRunning
  <2>3. new \in [Task -> Row] /\ new[t].arm = view[t].arm /\ Armed(new[t], lastArm[t])
    BY <1>3, <2>2 DEF Armed
  <2>4. Stage(x, {t}, new)
    BY <2>1
  <2> HIDE DEF new
  <2> QED BY <1>4, <2>3, <2>4
<1> QED BY <1>5, <1>6, <1>7 DEF RunWrites

\* A transaction begins with the rows as they are.
LEMMA BeginMarks ==
    ASSUME IInv, MarkInv, NEW x \in Tx, NEW by \in Owner \cup {None}, Begin(x, by)
    PROVE  MarkInv'
<1>1. TypeOK /\ UNCHANGED <<row, marks, lastArm, lastClaim, reply, runs, handedOff>>
  BY DEF IInv, Begin, store, engine
<1>2. \A y \in Tx : IF y = x THEN tx'[y].view = row
                             ELSE tx'[y] = tx[y]
  BY <1>1 DEF Begin, TypeOK
<1>3. Known' = Known /\ Accepted' = Accepted
  BY <1>1 DEF Known, Accepted, InHand, MarkedRefs
<1>4. RowsArmed'
  BY <1>1, <1>2 DEF MarkInv, RowsArmed, Armed
<1>5. RefsDrawn' /\ OneRunPerClaim' /\ MarkStands' /\ OneAccepted'
  BY <1>1, <1>3 DEF MarkInv, RefsDrawn, OneRunPerClaim, MarkStands, OneAccepted
<1>6. NewLives'
  BY <1>1, <1>2, <1>3 DEF MarkInv, NewLives
<1> QED BY <1>4, <1>5, <1>6 DEF MarkInv

\* A transaction that is undone changes no row.
LEMMA RollbackMarks ==
    ASSUME IInv, MarkInv, NEW x \in Tx, Rollback(x)
    PROVE  MarkInv'
<1>1. TypeOK /\ UNCHANGED <<row, marks, lastArm, lastClaim, reply, runs, handedOff>>
  BY DEF IInv, Rollback, store, engine
<1>2. tx' = [y \in Tx |-> IF y \in {x} THEN Closed ELSE tx[y]] /\ {x} \in SUBSET Tx
  BY <1>1 DEF Rollback, TypeOK
<1>3. LivesStay /\ TokensGrow /\ ViewsStay
  BY <1>1, <1>2, StoreStays
<1>4. HandsStay
  BY <1>1 DEF HandsStay
<1>5. Known' \subseteq Known /\ Accepted' \subseteq Accepted /\ OneRunPerClaim'
  BY <1>1, <1>4, DroppedHands, RunsStayOne
<1> QED BY <1>1, <1>3, <1>5, QuietKeepsMarks

\* A life that a commit ends does not come back, for what a commit puts in its
\* place is no row or a life no claim was made of.
LEMMA CommitMarks ==
    ASSUME IInv, MarkInv, NEW x \in Tx, Commit(x)
    PROVE  MarkInv'
<1>1. /\ TypeOK /\ UNCHANGED <<marks, lastArm, lastClaim, reply, runs, handedOff>>
      /\ tx[x].open /\ ~Conflict(x)
      /\ row' = [t \in Task |-> IF t \in tx[x].wrote THEN tx[x].view[t] ELSE row[t]]
  BY DEF IInv, Commit, engine
<1>2. /\ tx[x].wrote \in SUBSET Task /\ tx[x].rivals \in SUBSET Task
      /\ tx[x].wrote \cap tx[x].rivals = {}
      /\ \A y \in Tx : tx[y].rivals \in SUBSET Task
  BY <1>1 DEF TypeOK, TxState, Conflict
<1>3. Known' = Known /\ Accepted' = Accepted
  BY <1>1 DEF Known, Accepted, InHand, MarkedRefs
<1>4. \A t \in Task : /\ \A y \in Tx : tx'[y].view[t] \in {tx[y].view[t], Gone}
                      /\ row'[t] \in {row[t], tx[x].view[t]}
                      /\ lastArm[t] \in Nat
  BY <1>1, CommitFields DEF TypeOK
<1>5. RowsArmed'
  <2>1. \A t \in Task : Armed(Gone, lastArm[t])
    BY <1>4 DEF Gone, Armed
  <2> QED BY <1>1, <1>4, <2>1 DEF MarkInv, RowsArmed, Armed
<1>6. RefsDrawn' /\ OneRunPerClaim' /\ OneAccepted'
  BY <1>1, <1>3 DEF MarkInv, RefsDrawn, OneRunPerClaim, OneAccepted
<1>7. NewLives'
  <2> SUFFICES ASSUME NEW y \in Tx, tx'[y].open, NEW t \in Task \ tx'[y].rivals
               PROVE  \/ tx'[y].view[t].arm \in {0, row'[t].arm}
                      \/ \A v \in Known : v.id = t => v.arm # tx'[y].view[t].arm
    BY <1>3 DEF NewLives
  <2>1. y # x /\ tx[y].open /\ tx'[y].view = tx[y].view
        /\ tx'[y].rivals = tx[y].rivals \cup tx[x].wrote
    BY <1>1, CommitFields
  <2>2. t \in Task \ tx[y].rivals /\ row'[t] = row[t]
    BY <1>1, <2>1
  <2> QED BY <2>1, <2>2 DEF MarkInv, NewLives
<1>8. MarkStands'
  <2> SUFFICES ASSUME NEW v \in Accepted, v \notin marks PROVE row'[v.id].arm # v.arm
    BY <1>1, <1>3 DEF MarkStands
  <2>1. v \in Known /\ v.id \in Task /\ v.arm # 0 /\ row[v.id].arm # v.arm
    BY <1>1, KnownTyped DEF MarkInv, MarkStands, RefsDrawn, Ref
  <2>2. CASE v.id \in tx[x].wrote
    <3>1. \/ tx[x].view[v.id].arm \in {0, row[v.id].arm}
          \/ tx[x].view[v.id].arm # v.arm
      BY <1>1, <1>2, <2>1, <2>2 DEF MarkInv, NewLives
    <3> QED BY <1>1, <2>1, <2>2, <3>1
  <2>3. CASE v.id \notin tx[x].wrote
    BY <1>1, <2>1, <2>3
  <2> QED BY <2>2, <2>3
<1> QED BY <1>5, <1>6, <1>7, <1>8 DEF MarkInv

-----------------------------------------------------------------------------
\* At first nobody knows of any claim.
LEMMA InitMarks ==
    ASSUME Init
    PROVE  MarkInv
<1>1. /\ marks = {} /\ handedOff = {}
      /\ \A o \in Owner : reply[o] = {} /\ runs[o] = {}
      /\ \A t \in Task : row[t] = Gone /\ lastArm[t] = 0
      /\ \A x \in Tx : tx[x] = Closed
  BY DEF Init
<1>2. Known = {} /\ Accepted = {}
  BY <1>1 DEF Known, Accepted, InHand, MarkedRefs
<1>3. RowsArmed
  BY <1>1 DEF RowsArmed, Armed, Gone, Closed
<1>4. NewLives
  BY <1>1 DEF NewLives, Closed
<1> QED BY <1>1, <1>2, <1>3, <1>4
        DEF MarkInv, RefsDrawn, OneRunPerClaim, MarkStands, OneAccepted

\* Every step keeps MarkInv.
LEMMA StepKeepsMarks ==
    ASSUME IInv, MarkInv, [Next]_vars
    PROVE  MarkInv'
<1>1. ASSUME NEW o \in Owner, OwnerStep(o) PROVE MarkInv'
  BY <1>1, ClaimMarks, DeliverMarks, GiveBackMarks, OwnerOnlyMarks DEF OwnerStep
<1>2. ASSUME NEW o \in Owner, NEW r \in runs[o], RunStep(o, r) PROVE MarkInv'
  BY <1>2, MarkUnsafeMarks, HandOffMarks, RecordMarks, SupersededMarks DEF RunStep
<1>3. ASSUME NEW x \in Tx, TxStep(x) PROVE MarkInv'
  BY <1>3, BeginMarks, ReconcileMarks, DeleteMarks, WritesMark, CommitMarks, RollbackMarks
     DEF TxStep
<1>4. CASE SweepMarks
  BY <1>4, SweptMarks
<1>5. CASE UNCHANGED vars
  <2>1. UNCHANGED <<row, lastArm, lastClaim, tx, marks, handedOff, reply, runs>>
    BY <1>5 DEF vars, store, engine
  <2>2. Known' = Known /\ Accepted' = Accepted
    BY <2>1 DEF Known, Accepted, InHand, MarkedRefs
  <2> QED BY <2>1, <2>2 DEF MarkInv, RowsArmed, Armed, RefsDrawn, OneRunPerClaim, NewLives,
                            MarkStands, OneAccepted
<1> QED BY <1>1, <1>2, <1>3, <1>4, <1>5 DEF Next

\* The mark of accepted work stands as long as its life, whatever is cleared, swept,
\* committed or lost: SweepMarks, ClearOwnMark and first-committer-wins together.
THEOREM MarksStand == Spec => []MarkInv
<1>1. Init => MarkInv
  BY InitMarks
<1>2. IInv /\ MarkInv /\ [Next]_vars => MarkInv'
  BY StepKeepsMarks
<1> QED BY <1>1, <1>2, Invariance, PTL DEF Spec

\* Work that may not be repeated is handed off at most once in a life, whoever
\* dies, is only slow or loses an answer, and whatever is cleared or swept.
THEOREM UnsafeWorkOnlyOnce == Spec => []UnsafeWorkOnce
<1>1. MarkInv => UnsafeWorkOnce
  BY DEF MarkInv, OneAccepted, Accepted, UnsafeWorkOnce
<1> QED BY <1>1, MarksStand, PTL
=============================================================================
