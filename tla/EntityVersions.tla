---------------------------- MODULE EntityVersions ----------------------------
(* The version histories an EntityStore keeps, as persistence.go promises them *)
(* and spitest/entity.go holds every backend to: what a transaction stages,    *)
(* which rows its commit appends and with which stamp and creation date, and   *)
(* what a read as at an instant makes of them.  Backends differ in what they   *)
(* keep of a transaction that changes its mind, and in the date an entity gets *)
(* that is created again.                                                      *)
(* Reads that record, CompareAndSave and savepoints are in Transactions.       *)
EXTENDS Naturals, Sequences, FiniteSets, SequencesExt

CONSTANTS Id, Model, Content,
          Absent,          \* the content of a tombstone
          Offered,         \* bound: the entities the writers have to save
          Tx,
          MaxInstant,      \* bound: the last instant
          MaxStaged,       \* bound: writes staged at a time, by all transactions
          MaxVersions      \* bound: entity -> how many versions a write without
                           \* a transaction may bring it to

ASSUME TombstonesAreEmpty == Absent \notin Content
ASSUME InstantsAreNaturals == MaxInstant \in Nat
ASSUME EntitiesAreOffered == Offered \subseteq [id: Id, model: Model, content: Content]

VARIABLES backend,   \* what the deployment keeps, chosen once
          now,       \* the instant of the latest commit
          history,   \* entity -> its versions; the version number is the index
          status,    \* transaction -> where it is in its life
          base,      \* transaction -> entity -> the versions its Begin saw
          staged     \* transaction -> entity -> its writes in their order

vars == <<backend, now, history, status, base, staged>>

\* evicts: a delete drops what the transaction staged of the entity.  unstages: a
\* save drops its delete.  renews: an entity created again gets a new date.
Backends == [evicts: BOOLEAN, unstages: BOOLEAN, renews: BOOLEAN]

NothingStaged == [id \in Id |-> <<>>]

Init == /\ backend \in Backends
        /\ now = 0
        /\ history = [id \in Id |-> <<>>]
        /\ status = [t \in Tx |-> "unborn"]
        /\ base = [t \in Tx |-> [id \in Id |-> 0]]
        /\ staged = [t \in Tx |-> NothingStaged]

-----------------------------------------------------------------------------
\* Reading a history.

\* Mutant of Newest: of one commit's rows the first stands.
FirstOfStamp(h, S) ==
    CHOOSE k \in S : \A j \in S \ {k} : \/ h[j].stamp < h[k].stamp
                                        \/ h[j].stamp = h[k].stamp /\ k < j

\* The version that stands for the set: the latest stamp, and of one commit's
\* rows the highest version.
Newest(h, S) ==
    CHOOSE k \in S : \A j \in S \ {k} : \/ h[j].stamp < h[k].stamp
                                        \/ h[j].stamp = h[k].stamp /\ j < k

\* GetAsAt: committed versions only, whoever asks.
AsAt(h, i) ==
    LET S == {k \in DOMAIN h : h[k].stamp <= i}
    IN IF S = {} THEN Absent ELSE h[Newest(h, S)].content

\* What the transaction was given and did to the entity, latest last.
Rows(t, id) == SubSeq(history[id], 1, base[t][id]) \o staged[t][id]

\* Get: its own staged writes over the committed state of its Begin.
View(t, id) == IF Rows(t, id) = <<>> THEN Absent ELSE Last(Rows(t, id)).content

-----------------------------------------------------------------------------
\* Writing.

RoomFor(n) ==
    MapThenSumSet(LAMBDA t : MapThenSumSet(LAMBDA id : Len(staged[t][id]), Id), Tx)
      + n <= MaxStaged

\* Mutant of MayBe: a tombstone says nothing of the model.
MayBeIfLive(rows, m) == \A k \in DOMAIN rows : rows[k].content # Absent => rows[k].model = m

\* ErrEntityModelMismatch otherwise: tombstones too belong to the model.
MayBe(rows, m) == \A k \in DOMAIN rows : rows[k].model = m

\* The k-th of a set of places, and what a sequence has at them.
Place(S, k) == CHOOSE i \in S : Cardinality({j \in S : j <= i}) = k
OnlyAt(s, S) == [k \in 1 .. Cardinality(S) |-> s[Place(S, k)]]

\* An entity's staged writes after one more.
Staging(ops, r) ==
    LET drops(o) == IF r.content = Absent THEN backend.evicts
                    ELSE backend.unstages /\ o.content = Absent
    IN Append(OnlyAt(ops, {k \in DOMAIN ops : ~drops(ops[k])}), r)

\* The entities of ids are written in the transaction, id with row[id].
Stage(t, ids, row) ==
    /\ staged' = [staged EXCEPT
         ![t] = [id \in Id |-> IF id \in ids THEN Staging(@[id], row[id]) ELSE @[id]]]
    /\ UNCHANGED <<backend, now, history, status, base>>

Row(r) == [model |-> r.model, content |-> r.content]

\* DefaultSaveAll: in order, up to the first save that is refused; of different
\* entities, so that none of the saves has to do with another.
SaveAll(t, rows) ==
    LET saved == {k \in DOMAIN rows :
                    \A j \in 1 .. k : MayBe(Rows(t, rows[j].id), rows[j].model)}
    IN /\ status[t] = "open"
       /\ RoomFor(Len(rows))
       /\ Stage(t, {rows[k].id : k \in saved},
                [id \in Id |-> Row(rows[CHOOSE k \in DOMAIN rows : rows[k].id = id])])

Save(t, r) == SaveAll(t, <<r>>)

Tombstone(rows) == [model |-> Last(rows).model, content |-> Absent]

\* Every entity of the set that is there in the transaction's view.
DeleteEach(t, ids) ==
    /\ status[t] = "open" /\ RoomFor(Cardinality(ids))
    /\ \A id \in ids : View(t, id) # Absent
    /\ Stage(t, ids, [id \in Id |-> Tombstone(Rows(t, id))])

\* ErrNotFound for an entity that is not there in the transaction's view.
Delete(t, id) == DeleteEach(t, {id})

\* Every entity of the model the transaction sees; its own deletes stand.
DeleteAll(t, m) ==
    DeleteEach(t, {id \in Id : View(t, id) # Absent /\ Last(Rows(t, id)).model = m})

-----------------------------------------------------------------------------
\* Committing.

LiveIn(h) == {k \in DOMAIN h : h[k].content # Absent}

\* Mutant of CreationDate: asks the first version, tombstone or not.
CreationOfFirst(h, before, s) ==
    IF h # <<>> /\ h[1].content # Absent THEN h[1].created ELSE s

\* The date of a version that a commit at instant s appends to h behind the rows
\* before: carried forward from a predecessor that is live, in one life since h;
\* after a tombstone anew, or from the first life if h has one.  A life that the
\* commit itself begins has its instant either way.
CreationDate(h, before, s) ==
    IF /\ h # <<>> /\ Last(h).content # Absent
       /\ \A k \in DOMAIN before : before[k].content # Absent THEN Last(h).created
    ELSE IF backend.renews \/ LiveIn(h) = {} THEN s
    ELSE h[CHOOSE k \in LiveIn(h) : \A j \in LiveIn(h) : k <= j].created

Version(h, rows, k, s) ==
    [model |-> rows[k].model, content |-> rows[k].content, stamp |-> s,
     created |-> CreationDate(h, SubSeq(rows, 1, k - 1), s)]

AppendAll(h, rows, s) == h \o [k \in DOMAIN rows |-> Version(h, rows, k, s)]

\* Commits may follow each other within one reading of the clock.
Instants == {s \in {now, now + 1} : s <= MaxInstant}

Begin(t) == /\ status[t] = "unborn"
            /\ status' = [status EXCEPT ![t] = "open"]
            /\ base' = [base EXCEPT ![t] = [id \in Id |-> Len(history[id])]]
            /\ UNCHANGED <<backend, now, history, staged>>

Ends(t) == /\ status[t] = "open"
           /\ status' = [status EXCEPT ![t] = "ended"]
           /\ base' = [base EXCEPT ![t] = [id \in Id |-> 0]]
           /\ staged' = [staged EXCEPT ![t] = NothingStaged]
           /\ UNCHANGED backend

\* Somebody committed a version of an entity it wrote after its Begin.
LostRace(t) == \E id \in Id : /\ staged[t][id] # <<>>
                              /\ Len(history[id]) > base[t][id]

\* The rows in the order they were made, with one stamp for all of them.
Commit(t) ==
    /\ ~LostRace(t)
    /\ Ends(t)
    /\ \E s \in Instants :
         /\ now' = s
         /\ history' = [id \in Id |-> AppendAll(history[id], staged[t][id], s)]

\* By the caller, or by a Commit that finds the race lost.
Rollback(t) == Ends(t) /\ UNCHANGED <<now, history>>

\* A write without a transaction is a commit of its own.
Direct(id, row) ==
    /\ Len(history[id]) < MaxVersions[id]
    /\ \E s \in Instants :
         /\ now' = s
         /\ history' = [history EXCEPT ![id] = AppendAll(@, <<row>>, s)]
    /\ UNCHANGED <<backend, status, base, staged>>

DirectSave(r) == MayBe(history[r.id], r.model) /\ Direct(r.id, Row(r))

DirectDelete(id) == /\ AsAt(history[id], now) # Absent
                    /\ Direct(id, Tombstone(history[id]))

Next == \/ \E t \in Tx : Begin(t) \/ Commit(t) \/ Rollback(t)
        \/ \E t \in Tx, r \in Offered : Save(t, r)
        \/ \E t \in Tx, r, q \in Offered : r.id # q.id /\ SaveAll(t, <<r, q>>)
        \/ \E t \in Tx, id \in Id : Delete(t, id)
        \/ \E t \in Tx, m \in Model : DeleteAll(t, m)
        \/ \E r \in Offered : DirectSave(r)
        \/ \E id \in Id : DirectDelete(id)

Spec == Init /\ [][Next]_vars

-----------------------------------------------------------------------------

\* An entity has one model, whoever created, deleted and created it again, in
\* one transaction or in rival ones: a soft-deleted entity keeps its history,
\* which a read as at an instant finds by model.
OneModel == \A id \in Id : \A j, k \in DOMAIN history[id] :
                history[id][j].model = history[id][k].model

\* A creation date is the stamp of a commit that did save the entity, and no
\* later version moves it, also where the history begins with a tombstone.
CreationStands ==
    \A id \in Id : LET h == history[id] IN
        /\ \A k \in LiveIn(h) : \E j \in LiveIn(h) : j <= k /\ h[j].stamp = h[k].created
        /\ \A k \in LiveIn(h) : k - 1 \in LiveIn(h) => h[k].created = h[k - 1].created

\* Reads of every instant: what a reader sees is the timeline that has no
\* versions.  A commit shows the transaction's own view at its one instant and
\* nothing of it before, whatever was staged over what, and the past stands.
Timeline == INSTANCE EntityTimeline WITH
    shown <- [i \in 0 .. MaxInstant |-> [id \in Id |-> AsAt(history[id], i)]],
    open <- {t \in Tx : status[t] = "open"},
    view <- [t \in Tx |-> [id \in Id |-> View(t, id)]],
    wrote <- [t \in Tx |-> {id \in Id : staged[t][id] # <<>>}]

ShowsTheTimeline == Timeline!Spec
=============================================================================
