----------------------------- MODULE Transactions -----------------------------
(* Transactions over entities: TransactionManager (transaction.go),            *)
(* TransactionState (txcontext.go) and what EntityStore (persistence.go) does  *)
(* inside a transaction.  A transaction reads the snapshot of its Begin under  *)
(* its own staged writes, may save and roll back to savepoints, and commits if *)
(* it lost no race: the first committer of an entity wins, and nothing it read *)
(* and recorded may have changed.                                              *)
(* Backends differ in when they notice a lost write: one with row locks at the *)
(* write (DetectsAtWrite), one that buffers writes at the commit.              *)
(* An operation on a transaction is one step: the application makes one at a   *)
(* time and Commit after all of them returned (txcontext.go:47-55).            *)
EXTENDS Naturals, Sequences, FiniteSets

CONSTANTS Tx, Entity,
          Outside,          \* the writer of a save made without a transaction
          MaxOutside,       \* bound: backend -> saves without a transaction
          MaxSavepoints     \* bound: savepoints of a transaction at a time

ASSUME OutsideIsNoTx == Outside \notin Tx

VARIABLES backend,          \* what the deployment runs on, chosen once
          log,              \* the commits in their order
          status,           \* tx -> where it is in its life
          snapshot,         \* tx -> how many commits its Begin saw
          work,             \* tx -> what it staged and recorded
          savepoints,       \* tx -> its work as it was at each savepoint
          lost,             \* tx -> it has a recorded lost race
          aborted           \* tx -> the engine refuses its statements

vars == <<backend, log, status, snapshot, work, savepoints, lost, aborted>>

Backends == {"buffering", "locking"}
DetectsAtWrite == backend = "locking"

\* Buffer, Deletes and ReadSet; and, as history, the entities whose committed
\* state the transaction has been told and relies on.
Work == [saved: SUBSET Entity, deleted: SUBSET Entity,
         reads: SUBSET Entity, seen: SUBSET Entity]
NoWork == [saved |-> {}, deleted |-> {}, reads |-> {}, seen |-> {}]

CommitRecord == [tx: Tx \cup {Outside}, saved: SUBSET Entity,
                 deleted: SUBSET Entity, snapshot: Nat, seen: SUBSET Entity]

Seed(entities) == [tx |-> Outside, saved |-> entities, deleted |-> {},
                   snapshot |-> 0, seen |-> {}]

Init == /\ backend \in Backends
        /\ \E entities \in SUBSET Entity : log = <<Seed(entities)>>
        /\ status = [t \in Tx |-> "unborn"]
        /\ snapshot = [t \in Tx |-> 0]
        /\ work = [t \in Tx |-> NoWork]
        /\ savepoints = [t \in Tx |-> <<>>]
        /\ lost = [t \in Tx |-> FALSE]
        /\ aborted = [t \in Tx |-> FALSE]

-----------------------------------------------------------------------------
\* The committed history, read at any of its lengths.

Writes(c) == c.saved \cup c.deleted

\* Some commit after the first n wrote the entity; none means unchanged.
WrittenAfter(n, e) == \E i \in n + 1 .. Len(log) : e \in Writes(log[i])

\* The entity is there after n commits: the last of them that wrote it saved it.
PresentAt(n, e) == \E i \in 1 .. n :
    /\ e \in log[i].saved
    /\ \A j \in i + 1 .. n : e \notin Writes(log[j])

-----------------------------------------------------------------------------
\* What a transaction sees and what it has lost.

WriteSet(t) == work[t].saved \cup work[t].deleted

\* Its own staged writes are its latest state; the rest is as of its Begin.
Visible(t) == {e \in Entity : \/ e \in work[t].saved
                              \/ PresentAt(snapshot[t], e) /\ e \notin work[t].deleted}

RivalWrote(t, e) == WrittenAfter(snapshot[t], e)

LostRace(t) == \/ lost[t]
               \/ ~DetectsAtWrite /\ \E e \in WriteSet(t) : RivalWrote(t, e)

\* Mutant of Held: a delete locks nothing.
HeldBySaves(t, e) == \E u \in Tx \ {t} : status[u] = "open" /\ e \in work[u].saved

\* Another transaction has the row locked until it ends or rolls it back.
Held(t, e) == \E u \in Tx \ {t} : status[u] = "open" /\ e \in WriteSet(u)

Runs(t) == status[t] = "open" /\ ~aborted[t]

-----------------------------------------------------------------------------

Begin(t) ==
    /\ status[t] = "unborn"
    /\ status' = [status EXCEPT ![t] = "open"]
    /\ snapshot' = [snapshot EXCEPT ![t] = Len(log)]
    /\ UNCHANGED <<log, work, savepoints, lost, aborted>>

\* A read that records: Get, a page, or a tracking Search or Iterate.  It
\* records exactly the entities it hands back.
Read(t, entities) ==
    /\ Runs(t)
    /\ entities # {} /\ entities \subseteq Visible(t)
    /\ work' = [work EXCEPT ![t].reads = @ \cup entities,
                            ![t].seen = @ \cup (entities \ WriteSet(t))]
    /\ UNCHANGED <<log, status, snapshot, savepoints, lost, aborted>>

\* Mutant of Write: gets the lock and does not ask what happened meanwhile.
WriteUnasked(t, entities, w) ==
    /\ Runs(t)
    /\ DetectsAtWrite => \A e \in entities : ~Held(t, e)
    /\ work' = [work EXCEPT ![t] = w]
    /\ UNCHANGED <<log, status, snapshot, savepoints, lost, aborted>>

\* A write of the entities: buffered, or refused by a backend that finds the
\* race lost.  One that locks rows waits while another transaction has one.
Write(t, entities, w) ==
    /\ Runs(t)
    /\ DetectsAtWrite => \A e \in entities : ~Held(t, e)
    /\ IF DetectsAtWrite /\ \E e \in entities : RivalWrote(t, e)
       THEN /\ lost' = [lost EXCEPT ![t] = TRUE]
            /\ aborted' = [aborted EXCEPT ![t] = TRUE]
            /\ UNCHANGED work
       ELSE /\ work' = [work EXCEPT ![t] = w]
            /\ UNCHANGED <<lost, aborted>>
    /\ UNCHANGED <<log, status, snapshot, savepoints>>

\* A save unstages a delete.
Saved(t, e) == [work[t] EXCEPT !.saved = @ \cup {e}, !.deleted = @ \ {e}]
Deleted(t, entities) ==
    [work[t] EXCEPT !.saved = @ \ entities, !.deleted = @ \cup entities]

Save(t, e) == Write(t, {e}, Saved(t, e))

\* Succeeds only where the expected transaction id is the entity's current one
\* in the transaction's own view: never for an entity that is not there.  The
\* caller now relies on what the comparison told it.
CompareAndSave(t, e) ==
    /\ e \in Visible(t)
    /\ Write(t, {e}, [Saved(t, e) EXCEPT !.seen = @ \cup ({e} \ WriteSet(t))])

Delete(t, e) == e \in Visible(t) /\ Write(t, {e}, Deleted(t, {e}))

\* An entity already deleted in the transaction is left as it is.
DeleteAll(t) == Visible(t) # {} /\ Write(t, Visible(t), Deleted(t, Visible(t)))

-----------------------------------------------------------------------------

Savepoint(t) ==
    /\ Runs(t)
    /\ Len(savepoints[t]) < MaxSavepoints
    /\ savepoints' = [savepoints EXCEPT ![t] = Append(@, work[t])]
    /\ UNCHANGED <<log, status, snapshot, work, lost, aborted>>

\* Mutant of RollbackToSavepoint: restores the record of lost races too.
RollbackForgets(t, k) ==
    /\ status[t] = "open"
    /\ work' = [work EXCEPT ![t] = savepoints[t][k]]
    /\ \E kept \in {k - 1, k} :
         savepoints' = [savepoints EXCEPT ![t] = SubSeq(@, 1, kept)]
    /\ aborted' = [aborted EXCEPT ![t] = FALSE]
    /\ UNCHANGED <<log, status, snapshot, lost>>

\* The work since savepoint k is discarded; a write among it that had lost its
\* race stays lost.  The savepoint itself is kept or spent with the later ones.
RollbackToSavepoint(t, k) ==
    /\ status[t] = "open"
    /\ work' = [work EXCEPT ![t] = savepoints[t][k]]
    /\ \E kept \in {k - 1, k} :
         savepoints' = [savepoints EXCEPT ![t] = SubSeq(@, 1, kept)]
    /\ lost' = [lost EXCEPT ![t] = LostRace(t)]
    /\ aborted' = [aborted EXCEPT ![t] = FALSE]
    /\ UNCHANGED <<log, status, snapshot>>

\* Only the record of the savepoint goes, alone or with those inside it.
ReleaseSavepoint(t, k) ==
    /\ Runs(t)
    /\ \/ savepoints' = [savepoints EXCEPT ![t] = SubSeq(@, 1, k - 1)]
       \/ savepoints' = [savepoints EXCEPT
            ![t] = SubSeq(@, 1, k - 1) \o SubSeq(@, k + 1, Len(@))]
    /\ UNCHANGED <<log, status, snapshot, work, lost, aborted>>

-----------------------------------------------------------------------------

\* Nothing of the transaction is left behind.
Ends(t, how) ==
    /\ status' = [status EXCEPT ![t] = how]
    /\ work' = [work EXCEPT ![t] = NoWork]
    /\ savepoints' = [savepoints EXCEPT ![t] = <<>>]
    /\ lost' = [lost EXCEPT ![t] = FALSE]
    /\ aborted' = [aborted EXCEPT ![t] = FALSE]
    /\ UNCHANGED snapshot

\* Mutant of Refusable: the read set is not checked.
RefusableByWrites(t) == LostRace(t)

Refusable(t) == LostRace(t) \/ \E e \in work[t].reads : RivalWrote(t, e)

Commit(t) ==
    /\ status[t] = "open"
    /\ IF Refusable(t)
       THEN Ends(t, "rolledBack") /\ UNCHANGED log
       ELSE /\ Ends(t, "committed")
            /\ log' = Append(log, [tx |-> t, saved |-> work[t].saved,
                                   deleted |-> work[t].deleted,
                                   snapshot |-> snapshot[t],
                                   seen |-> work[t].seen])

Rollback(t) ==
    /\ status[t] = "open"
    /\ Ends(t, "rolledBack")
    /\ UNCHANGED log

\* A save or delete without a transaction applies at once; row locks hold it up.
WriteOutside(e) ==
    /\ Cardinality({i \in 2 .. Len(log) : log[i].tx = Outside}) < MaxOutside[backend]
    /\ DetectsAtWrite => \A t \in Tx : ~(status[t] = "open" /\ e \in WriteSet(t))
    /\ \/ log' = Append(log, Seed({e}))
       \/ /\ PresentAt(Len(log), e)
          /\ log' = Append(log, [Seed({}) EXCEPT !.deleted = {e}])
    /\ UNCHANGED <<status, snapshot, work, savepoints, lost, aborted>>

Next == /\ UNCHANGED backend
        /\ \/ \E t \in Tx : \/ Begin(t) \/ DeleteAll(t) \/ Savepoint(t)
                            \/ Commit(t) \/ Rollback(t)
           \/ \E t \in Tx, entities \in SUBSET Entity : Read(t, entities)
           \/ \E t \in Tx, e \in Entity : Save(t, e) \/ CompareAndSave(t, e) \/ Delete(t, e)
           \/ \E t \in Tx : \E k \in 1 .. Len(savepoints[t]) :
                RollbackToSavepoint(t, k) \/ ReleaseSavepoint(t, k)
           \/ \E e \in Entity : WriteOutside(e)

Spec == Init /\ [][Next]_vars

-----------------------------------------------------------------------------

\* The types; an entity is staged as saved or as deleted, never as both, and a
\* transaction that is not open has nothing staged.
TypeOK ==
    /\ backend \in Backends
    /\ log \in Seq(CommitRecord)
    /\ status \in [Tx -> {"unborn", "open", "committed", "rolledBack"}]
    /\ snapshot \in [Tx -> Nat]
    /\ work \in [Tx -> Work]
    /\ savepoints \in [Tx -> Seq(Work)]
    /\ lost \in [Tx -> BOOLEAN] /\ aborted \in [Tx -> BOOLEAN]
    /\ \A t \in Tx : /\ work[t].saved \cap work[t].deleted = {}
                     /\ status[t] # "open" => work[t] = NoWork /\ savepoints[t] = <<>>

\* First-committer-wins as a fact about the whole history: of two commits that
\* wrote an entity the later one is of a transaction that began after the
\* earlier was there, or of a save made without a transaction.  No update is
\* lost, whatever was staged, discarded and staged again in between.
NoLostUpdate ==
    \A i, j \in DOMAIN log :
        /\ i < j /\ log[j].tx # Outside
        /\ Writes(log[i]) \cap Writes(log[j]) # {}
        => i <= log[j].snapshot

\* The commit order explains what committed transactions were told: every
\* entity one read with recording, or compared before saving, was still in that
\* state just before its own commit.
SerialInCommitOrder ==
    \A j \in DOMAIN log : \A e \in log[j].seen :
        \A i \in log[j].snapshot + 1 .. j - 1 : e \notin Writes(log[i])

\* Once LostRace answers true it does until the transaction ends, rollbacks to
\* savepoints included, and then the transaction does not commit.
LostStaysLost ==
    [][\A t \in Tx : status[t] = "open" /\ LostRace(t) =>
          \/ status'[t] = "open" /\ LostRace(t)'
          \/ status'[t] = "rolledBack"]_vars

\* LostRace answers the same on every backend: one that locks rows and checks
\* at the write has, without asking the history, recorded every race that the
\* check of a buffering backend would find.
OneAnswer ==
    \A t \in Tx : status[t] = "open" =>
        ((\E e \in WriteSet(t) : RivalWrote(t, e)) => LostRace(t))
=============================================================================
