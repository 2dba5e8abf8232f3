--------------------------- MODULE ScheduledTasks ---------------------------
(***************************************************************************)
(* The scheduled-task store (ScheduledTaskStore, src/persistence.go), as   *)
(* the conformance suite in src/spitest drives it, together with the       *)
(* engine incarnations (owners) that claim and run tasks and the           *)
(* transactions that write task rows.                                      *)
(*                                                                         *)
(* A task has lives: every arm draws a new arm token.  A life is claimed   *)
(* again and again until it is removed or FAILED: after a recorded         *)
(* attempt, a give-back, or from an owner that stopped heartbeating.  Work *)
(* that may not be repeated is handed off only after MarkUnsafe accepted   *)
(* a mark, which belongs to the life and not to the claim.                 *)
(*                                                                         *)
(* One call of a store method is one step, as every clause of the          *)
(* interface demands; the interleavings are between calls.  A joining      *)
(* method is modelled inside a transaction only: without one it is a       *)
(* transaction of that one call.  Which waiting tasks are due is left      *)
(* open, since NowMs is each caller's own clock; the choice among due      *)
(* tasks is in SelectClaims.                                               *)
(***************************************************************************)
EXTENDS Integers, FiniteSets

CONSTANTS Task, Entity, EntityOf, Owner, Tx,
          None,           \* no owner: the owner of an unclaimed row, a client's transaction
          MaxArms, MaxClaims,  \* bounds on the tokens drawn for one task
          MaxDisturbances \* bound on what may go wrong or begin anew

ASSUME TaskAssumption ==
    /\ EntityOf \in [Task -> Entity]
    /\ None \notin Owner
    /\ MaxArms \in Nat /\ MaxClaims \in Nat /\ MaxDisturbances \in Nat

Ref == [id: Task, arm: Nat, claim: Nat \ {0}]

\* base is the last claim token drawn before the life (for CountedOnce).
RowRecord == [status: {"NONE", "WAITING", "RUNNING", "FAILED"},
              arm: Nat, claim: Nat, owner: Owner \cup {None},
              attempts: Nat, lost: Nat, partial: BOOLEAN, base: Nat]

\* A row is under a claim exactly while it is RUNNING.
Row == {r \in RowRecord : /\ (r.status = "RUNNING") <=> (r.owner # None)
                          /\ (r.status = "RUNNING") <=> (r.claim # 0)}

Gone == [status |-> "NONE", arm |-> 0, claim |-> 0, owner |-> None,
         attempts |-> 0, lost |-> 0, partial |-> FALSE, base |-> 0]

VARIABLES
  row,        \* [Task -> Row]: the committed rows
  marks,      \* the marks: the claims that wrote one
  alive,      \* [Owner -> ...]: the liveness record, judged by the store clock
  lastArm, lastClaim,  \* the last token drawn for each task
  tx,         \* the transactions
  reply,      \* [Owner -> SUBSET Ref]: the reply of a ClaimDue on its way
  runs,       \* [Owner -> SUBSET Run]: the runs an engine has in progress
  stopped,    \* the owners whose process has ended
  handedOff,  \* the unsafe work handed off, by the claim it ran under
  disturbances

store == <<row, marks, alive, lastArm, lastClaim>>
engine == <<reply, runs, stopped, handedOff>>
vars == <<store, tx, engine, disturbances>>

Run == [ref: Ref, phase: {"ready", "marked", "working", "ended"}]

TxState == [open: BOOLEAN, by: Owner \cup {None},
            snap: [Task -> Row],   \* the rows as of Begin
            view: [Task -> Row],   \* the snapshot under the transaction's own writes
            wrote: SUBSET Task,
            rivals: SUBSET Task]   \* rows someone else committed a write to since Begin

Closed == [open |-> FALSE, by |-> None, snap |-> [t \in Task |-> Gone],
           view |-> [t \in Task |-> Gone], wrote |-> {}, rivals |-> {}]

Init == /\ row = [t \in Task |-> Gone]
        /\ marks = {}
        /\ alive = [o \in Owner |-> "fresh"]
        /\ lastArm = [t \in Task |-> 0] /\ lastClaim = [t \in Task |-> 0]
        /\ tx = [x \in Tx |-> Closed]
        /\ reply = [o \in Owner |-> {}] /\ runs = [o \in Owner |-> {}]
        /\ stopped = {} /\ handedOff = {}
        /\ disturbances = 0

Disturb == disturbances < MaxDisturbances /\ disturbances' = disturbances + 1

\* The row is under the claim that ref names, in the life that ref names.
Holds(r, ref) == r.arm = ref.arm /\ r.claim = ref.claim

\* An open transaction has written the row.
Busy(t) == \E x \in Tx : tx[x].open /\ t \in tx[x].wrote

Siblings(t) == {u \in Task \ {t} : EntityOf[u] = EntityOf[t]}

\* A committed write to the rows of T, as the transactions open at the time see it.
Raced(txs, T) == [x \in Tx |-> IF txs[x].open THEN [txs[x] EXCEPT !.rivals = @ \cup T]
                                              ELSE txs[x]]

-----------------------------------------------------------------------------
(* Methods that never join a transaction.                                  *)

\* Mutant of OwnerLost: a record that is there counts, however old.
OwnerMissing(t) == row[t].status = "RUNNING" /\ alive[row[t].owner] = "none"

\* The owner's liveness record is missing or older than StaleAfter.
OwnerLost(t) == row[t].status = "RUNNING" /\ alive[row[t].owner] # "fresh"

\* Mutant of Claimable: siblings are not looked at.
ClaimableAlone(t) == /\ row[t].status = "WAITING" \/ OwnerLost(t)
                     /\ ~Busy(t)

\* Mutant of Claimable: a row that an open transaction has written is taken too.
ClaimableBusy(t) == /\ row[t].status = "WAITING" \/ OwnerLost(t)
                    /\ \A u \in Siblings(t) : row[u].status # "RUNNING"

Claimable(t) == /\ row[t].status = "WAITING" \/ OwnerLost(t)
                /\ ~Busy(t)
                /\ \A u \in Siblings(t) : row[u].status # "RUNNING"

Claimed(t, o) == [row[t] EXCEPT !.status = "RUNNING", !.claim = lastClaim[t] + 1, !.owner = o,
                                !.lost = IF OwnerLost(t) THEN @ + 1 ELSE @]

\* The row without its claim.
Released(r, status) == [r EXCEPT !.status = status, !.claim = 0, !.owner = None]

ClaimDue(o) ==
    /\ o \notin stopped /\ reply[o] = {}
    /\ \E S \in SUBSET {t \in Task : Claimable(t) /\ lastClaim[t] < MaxClaims} :
         /\ S # {}
         /\ \A t \in S : Siblings(t) \cap S = {}
         /\ lastClaim' = [t \in Task |-> IF t \in S THEN lastClaim[t] + 1 ELSE lastClaim[t]]
         /\ row' = [t \in Task |-> IF t \in S THEN Claimed(t, o) ELSE row[t]]
         /\ reply' = [reply EXCEPT ![o] =
              {[id |-> t, arm |-> row[t].arm, claim |-> lastClaim[t] + 1] : t \in S}]
         /\ tx' = Raced(tx, S)
    /\ UNCHANGED <<marks, alive, lastArm, runs, stopped, handedOff, disturbances>>

Heartbeat(o) == /\ o \notin stopped
                /\ alive[o] # "fresh"
                /\ alive' = [alive EXCEPT ![o] = "fresh"]
                /\ UNCHANGED <<row, marks, lastArm, lastClaim, tx, engine, disturbances>>

\* SweepOwners, one record at a time: their ages differ.
SweepOwner(o) == /\ alive[o] = "stale"
                 /\ \A t \in Task : row[t].owner # o
                 /\ alive' = [alive EXCEPT ![o] = "none"]
                 /\ UNCHANGED <<row, marks, lastArm, lastClaim, tx, engine, disturbances>>

\* The tasks under owner o that no run of o's registry holds.
InProgress(o, t) == \E r \in runs[o] : r.ref.id = t /\ r.ref.claim = row[t].claim

Idle(o) == {t \in Task : row[t].status = "RUNNING" /\ row[t].owner = o /\ ~InProgress(o, t) /\ ~Busy(t)}

\* GiveBackIdle; keep is the registry's claim tokens.  It can overtake the
\* reply of a claim, and then gives back what the engine is about to run.
GiveBackIdle(o) ==
    /\ o \notin stopped
    /\ Idle(o) # {}
    /\ row' = [t \in Task |-> IF t \in Idle(o) THEN Released(row[t], "WAITING") ELSE row[t]]
    /\ tx' = Raced(tx, Idle(o))
    /\ IF reply[o] = {} THEN UNCHANGED disturbances ELSE Disturb
    /\ UNCHANGED <<marks, alive, lastArm, lastClaim, engine>>

\* Mutant of EndedMarks: marks of lives that are not running are swept.
MarksNotRunning == {m \in marks : row[m.id].arm # m.arm \/ row[m.id].status # "RUNNING"}

EndedMarks == {m \in marks : row[m.id].arm # m.arm}

SweepMarks == /\ EndedMarks # {}
              /\ marks' = marks \ EndedMarks
              /\ UNCHANGED <<row, alive, lastArm, lastClaim, tx, engine, disturbances>>

-----------------------------------------------------------------------------
(* A run, from the reply of its claim to the write that ends it.           *)

Deliver(o) == /\ reply[o] # {}
              /\ runs' = [runs EXCEPT ![o] = @ \cup {[ref |-> c, phase |-> "ready"] : c \in reply[o]}]
              /\ reply' = [reply EXCEPT ![o] = {}]
              /\ UNCHANGED <<store, tx, stopped, handedOff, disturbances>>

LoseReply(o) == /\ reply[o] # {}
                /\ Disturb
                /\ reply' = [reply EXCEPT ![o] = {}]
                /\ UNCHANGED <<store, tx, runs, stopped, handedOff>>

Becomes(o, r, phase) == runs' = [runs EXCEPT ![o] = (@ \ {r}) \cup {[r EXCEPT !.phase = phase]}]
Leaves(o, r) == runs' = [runs EXCEPT ![o] = @ \ {r}]

\* Mutant of MarkedByAnother: a life that was marked can be marked again.
NeverMarked(ref) == FALSE

\* ErrMarkedByAnotherClaim.
MarkedByAnother(ref) == \E m \in marks : m.id = ref.id /\ m.arm = ref.arm /\ m # ref

\* MarkUnsafe is accepted, again for the same claim; its answer may be lost.
MarkUnsafe(o, r) ==
    /\ r.phase = "ready"
    /\ Holds(row[r.ref.id], r.ref)
    /\ ~Busy(r.ref.id)
    /\ ~MarkedByAnother(r.ref)
    /\ marks' = marks \cup {r.ref}
    /\ Becomes(o, r, "marked") \/ UNCHANGED runs
    /\ UNCHANGED <<row, alive, lastArm, lastClaim, tx, reply, stopped, handedOff, disturbances>>

\* The engine hands the unsafe work off.  Nothing of the store is asked.
HandOff(o, r) == /\ r.phase = "marked"
                 /\ Becomes(o, r, "working")
                 /\ handedOff' = handedOff \cup {r.ref}
                 /\ UNCHANGED <<store, tx, reply, stopped, disturbances>>

Counted(r, counted) == [r EXCEPT !.attempts = IF counted THEN @ + 1 ELSE @]

\* Mutant of Recorded: whoever wrote the mark, it is cleared.
RecordedClearingAll(ref, counted, clear) ==
    /\ marks' = IF clear THEN {m \in marks : m.id # ref.id} ELSE marks
    /\ row' = [row EXCEPT ![ref.id] = Counted(Released(@, "WAITING"), counted)]

\* The write of RecordAttempt.
Recorded(ref, counted, clear) ==
    /\ marks' = IF clear THEN marks \ {ref} ELSE marks
    /\ row' = [row EXCEPT ![ref.id] = Counted(Released(@, "WAITING"), counted)]

\* Mutant of Fenced: only the life is compared.
FencedByLife(ref) == row[ref.id].arm = ref.arm

\* The fence of the methods that never join.
Fenced(ref) == Holds(row[ref.id], ref)

\* RecordAttempt, which the engine repeats until it has an answer.  It asks for
\* ClearOwnMark only when it did not hand the work off.
RecordAttempt(o, r) ==
    /\ Fenced(r.ref)
    /\ ~Busy(r.ref.id)
    /\ \E counted \in BOOLEAN, clear \in {FALSE, r.ref \notin handedOff} : Recorded(r.ref, counted, clear)
    /\ tx' = Raced(tx, {r.ref.id})
    /\ Leaves(o, r) \/ Becomes(o, r, "ended")
    /\ UNCHANGED <<alive, lastArm, lastClaim, reply, stopped, handedOff, disturbances>>

\* A fenced call was answered ErrStaleClaim: the run is over.
Superseded(o, r) == /\ ~Holds(row[r.ref.id], r.ref)
                    /\ Leaves(o, r)
                    /\ UNCHANGED <<store, tx, reply, stopped, handedOff, disturbances>>

-----------------------------------------------------------------------------
(* Transactions and the methods that join them.                            *)

Begin(x, by) == /\ ~tx[x].open
                /\ by \notin stopped
                /\ by # None => runs[by] # {}
                /\ Disturb
                /\ tx' = [tx EXCEPT ![x] = [open |-> TRUE, by |-> by, snap |-> row, view |-> row,
                                            wrote |-> {}, rivals |-> {}]]
                /\ UNCHANGED <<store, engine>>

\* The transaction's view of the rows of T becomes new.
Stage(x, T, new) ==
    tx' = [tx EXCEPT ![x].wrote = @ \cup T,
                     ![x].view = [t \in Task |-> IF t \in T THEN new[t] ELSE @[t]]]

Fresh(t) == [status |-> "WAITING", arm |-> lastArm[t] + 1, claim |-> 0, owner |-> None,
             attempts |-> 0, lost |-> 0, partial |-> FALSE, base |-> lastClaim[t]]

\* Mutant of Rearmed: the owner of the old life stays on the row.
RearmedClaimed(x, S) == [t \in Task |-> IF t \in S THEN [Fresh(t) EXCEPT !.owner = tx[x].view[t].owner]
                                                   ELSE Gone]

Rearmed(x, S) == [t \in Task |-> IF t \in S THEN Fresh(t) ELSE Gone]

\* ReconcileForEntity with S for Arm: the other tasks of the entity go, the ids
\* of Cancel among them.
ReconcileForEntity(x, e, S) ==
    /\ tx[x].open
    /\ \A t \in S : lastArm[t] < MaxArms
    /\ LET others == {t \in Task : EntityOf[t] = e /\ tx[x].view[t].status # "NONE"}
       IN /\ S \cup others # {}
          /\ Stage(x, S \cup others, Rearmed(x, S))
    /\ lastArm' = [t \in Task |-> IF t \in S THEN lastArm[t] + 1 ELSE lastArm[t]]
    /\ UNCHANGED <<row, marks, alive, lastClaim, engine, disturbances>>

\* DeleteForEntities, and DeleteForModel with the tasks that keep does not keep.
Delete(x, S) == /\ tx[x].open
                /\ S # {}
                /\ \A t \in S : tx[x].view[t].status # "NONE"
                /\ Stage(x, S, [t \in Task |-> Gone])
                /\ UNCHANGED <<store, engine, disturbances>>

\* RemoveLife is a write exactly when the transaction sees that life as current.
RemoveLife(x, ref) == /\ tx[x].view[ref.id].arm = ref.arm
                      /\ Stage(x, {ref.id}, [t \in Task |-> Gone])

Stamped(r, partial) == [r EXCEPT !.partial = @ \/ partial]

StampSegment(x, ref) ==
    /\ Holds(tx[x].view[ref.id], ref)
    /\ \E partial \in BOOLEAN :
         Stage(x, {ref.id}, [tx[x].view EXCEPT ![ref.id] = Stamped(@, partial)])

Fail(x, ref) ==
    /\ Holds(tx[x].view[ref.id], ref)
    /\ Stage(x, {ref.id}, [tx[x].view EXCEPT ![ref.id] = Released(@, "FAILED")])

\* What a run writes of its own task in a transaction of its own.
RunWrites(x, o, r) == /\ tx[x].open /\ tx[x].by = o
                      /\ r.phase # "ended"
                      /\ RemoveLife(x, r.ref) \/ StampSegment(x, r.ref) \/ Fail(x, r.ref)
                      /\ UNCHANGED <<store, engine, disturbances>>

\* Mutant of Conflict: only rows that transactions changed are looked at.
ConflictWithCommits(x) == \E t \in tx[x].wrote \cap tx[x].rivals : row[t].status # "RUNNING"

\* First committer wins.
Conflict(x) == tx[x].wrote \cap tx[x].rivals # {}

Commit(x) == /\ tx[x].open
             /\ ~Conflict(x)
             /\ row' = [t \in Task |-> IF t \in tx[x].wrote THEN tx[x].view[t] ELSE row[t]]
             /\ tx' = Raced([tx EXCEPT ![x] = Closed], tx[x].wrote)
             /\ UNCHANGED <<marks, alive, lastArm, lastClaim, engine, disturbances>>

\* By the caller, or by a Commit answered ErrConflict.
Rollback(x) == /\ tx[x].open
               /\ tx' = [tx EXCEPT ![x] = Closed]
               /\ UNCHANGED <<store, engine, disturbances>>

-----------------------------------------------------------------------------
(* Time and failure.                                                       *)

\* An owner's record grows older than StaleAfter: its process has ended, or is
\* slow to heartbeat.
GoesStale(o) == /\ alive[o] = "fresh"
                /\ alive' = [alive EXCEPT ![o] = "stale"]
                /\ IF o \in stopped THEN UNCHANGED disturbances ELSE Disturb
                /\ UNCHANGED <<row, marks, lastArm, lastClaim, tx, engine>>

\* A process ends, by a crash or orderly with RetireOwner; its transactions roll
\* back.  The engine as a whole goes on: some owner stays.
Stop(o, retires) == /\ o \notin stopped
                    /\ stopped \cup {o} # Owner
                    /\ Disturb
                    /\ stopped' = stopped \cup {o}
                    /\ reply' = [reply EXCEPT ![o] = {}]
                    /\ runs' = [runs EXCEPT ![o] = {}]
                    /\ tx' = [x \in Tx |-> IF tx[x].by = o THEN Closed ELSE tx[x]]
                    /\ alive' = IF retires THEN [alive EXCEPT ![o] = "none"] ELSE alive
                    /\ UNCHANGED <<row, marks, lastArm, lastClaim, handedOff>>

OwnerStep(o) == \/ ClaimDue(o) \/ Heartbeat(o) \/ SweepOwner(o) \/ GiveBackIdle(o)
                \/ Deliver(o) \/ LoseReply(o) \/ GoesStale(o)
                \/ \E retires \in BOOLEAN : Stop(o, retires)

RunStep(o, r) == MarkUnsafe(o, r) \/ HandOff(o, r) \/ RecordAttempt(o, r) \/ Superseded(o, r)

TxStep(x) == \/ \E by \in Owner \cup {None} : Begin(x, by)
             \/ \E e \in Entity, S \in SUBSET Task :
                  S \subseteq {t \in Task : EntityOf[t] = e} /\ ReconcileForEntity(x, e, S)
             \/ \E S \in SUBSET Task : Delete(x, S)
             \/ \E o \in Owner : \E r \in runs[o] : RunWrites(x, o, r)
             \/ Commit(x) \/ Rollback(x)

Next == \/ SweepMarks
        \/ \E o \in Owner : OwnerStep(o)
        \/ \E o \in Owner : \E r \in runs[o] : RunStep(o, r)
        \/ \E x \in Tx : TxStep(x)

Spec == Init /\ [][Next]_vars

(* What an engine does again and again, whatever else happens: it          *)
(* heartbeats, claims, gives back what no run holds, ends its runs; and    *)
(* transactions end.  The record of a process that has ended grows stale.  *)
Fairness == /\ \A o \in Owner : /\ WF_vars(Heartbeat(o))
                                /\ WF_vars(ClaimDue(o))
                                /\ WF_vars(Deliver(o))
                                /\ WF_vars(GiveBackIdle(o))
                                /\ WF_vars(\E r \in runs[o] : RecordAttempt(o, r) \/ Superseded(o, r))
                                /\ WF_vars(o \in stopped /\ GoesStale(o))
            /\ \A x \in Tx : WF_vars(Commit(x) \/ Rollback(x))

FairSpec == Spec /\ Fairness

-----------------------------------------------------------------------------
TypeOK == /\ row \in [Task -> Row]
          /\ marks \subseteq Ref
          /\ alive \in [Owner -> {"fresh", "stale", "none"}]
          /\ lastArm \in [Task -> Nat] /\ lastClaim \in [Task -> Nat]
          /\ tx \in [Tx -> TxState]
          /\ reply \in [Owner -> SUBSET Ref]
          /\ runs \in [Owner -> SUBSET Run]
          /\ stopped \subseteq Owner
          /\ handedOff \subseteq Ref
          /\ disturbances \in Nat

\* Two runs of one entity are never in progress for the store: whoever claims,
\* gives back, fails and commits in between, at most one task of an entity is
\* RUNNING.
OneRunningPerEntity ==
    \A t, u \in Task : /\ row[t].status = "RUNNING" /\ row[u].status = "RUNNING"
                       /\ EntityOf[t] = EntityOf[u]
                       => t = u

\* Work that may not be repeated is handed off at most once in a life, across
\* owners that die or are only slow, answers that are lost, and marks cleared.
UnsafeWorkOnce == \A v, w \in handedOff : v.id = w.id /\ v.arm = w.arm => v = w

\* Every attempt counted and every lost owner counted was a claim of this life,
\* each a different one: a write repeated after its answer was lost adds nothing.
ClaimsUsed(r) == r.attempts + r.lost + (IF r.status \in {"RUNNING", "FAILED"} THEN 1 ELSE 0)
CountedOnce == \A t \in Task : ClaimsUsed(row[t]) <= lastClaim[t] - row[t].base

\* A transaction replaces only rows that are still as it found them.
FirstCommitterWins ==
    [][\A x \in Tx : tx[x].open /\ ~tx'[x].open /\ row' # row
                       => \A t \in tx[x].wrote : row[t] = tx[x].snap[t]]_vars

\* A row that an open transaction has written changes only when a transaction
\* commits it: nothing that stays outside transactions takes the row away.
HeldUntilTheEnd ==
    [][\A t \in Task : Busy(t) /\ row'[t] # row[t]
                         => \E x \in Tx : t \in tx[x].wrote /\ row'[t] = tx[x].view[t] /\ ~tx'[x].open]_vars

\* No claim is held for good: if the owner died, the reply was lost, the run was
\* left behind or a transaction was in the way, the task is claimable again or
\* ended.  The last claim MaxClaims allows has no claim to take over from it.
ClaimsEnd == \A t \in Task : \A c \in 1..(MaxClaims - 1) :
               row[t].claim = c ~> row[t].claim # c
=============================================================================
