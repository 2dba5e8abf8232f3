-------------------------- MODULE TransactionsProofs --------------------------
(* Proofs about Transactions, for any number of transactions and entities and  *)
(* for both kinds of backend.  WInv is about each transaction for itself: what *)
(* it staged, recorded and saved at its savepoints fits together.  HInv adds   *)
(* the history: who holds which row, and what the commits so far amount to.    *)
EXTENDS Transactions, SequenceTheorems, TLAPS

Staged(w) == w.saved \cup w.deleted

\* Staged once, and whatever it relies on is in its read set or its write set.
Sound(w) == /\ w.saved \cap w.deleted = {}
            /\ w.seen \subseteq w.reads \cup Staged(w)

\* Savepoints are sound and nested: each staged no more than the later ones.
Good(w, sp) ==
    /\ Sound(w)
    /\ \A k \in 1 .. Len(sp) :
         /\ Sound(sp[k])
         /\ Staged(sp[k]) \subseteq Staged(w)
         /\ \A j \in 1 .. k : Staged(sp[j]) \subseteq Staged(sp[k])

WorkGood == \A t \in Tx : Good(work[t], savepoints[t])

SnapshotsKnown == \A t \in Tx : snapshot[t] <= Len(log)

WInv == TypeOK /\ WorkGood /\ SnapshotsKnown

\* A row is staged by one open transaction at a time where rows are locked.
RowsLocked ==
    DetectsAtWrite =>
        \A t, u \in Tx : t # u /\ status[t] = "open" /\ status[u] = "open"
                         => WriteSet(t) \cap WriteSet(u) = {}

HInv == RowsLocked /\ OneAnswer /\ NoLostUpdate /\ SerialInCommitOrder

-----------------------------------------------------------------------------
\* What the operations make of a transaction's work and savepoints.

\* NoWork is a work, and good without savepoints.
LEMMA NoWorkGood == NoWork \in Work /\ Good(NoWork, <<>>)
  BY DEF NoWork, Work, Good, Sound, Staged

\* Work that stages no less stays good.
LEMMA GoodGrows ==
    ASSUME NEW w \in Work, NEW v \in Work, NEW sp \in Seq(Work),
           Good(w, sp), Sound(v), Staged(w) \subseteq Staged(v)
    PROVE  Good(v, sp)
  BY DEF Good

\* A savepoint of the present work keeps it good.
LEMMA GoodAppend ==
    ASSUME NEW w \in Work, NEW sp \in Seq(Work), Good(w, sp)
    PROVE  Append(sp, w) \in Seq(Work) /\ Good(w, Append(sp, w))
<1> DEFINE s == Append(sp, w)
<1>1. /\ s \in Seq(Work) /\ Len(s) = Len(sp) + 1 /\ s[Len(sp) + 1] = w
      /\ \A k \in 1 .. Len(sp) : s[k] = sp[k]
  OBVIOUS
<1> HIDE DEF s
<1>2. ASSUME NEW k \in 1 .. Len(s)
      PROVE  /\ Sound(s[k]) /\ Staged(s[k]) \subseteq Staged(w)
             /\ \A j \in 1 .. k : Staged(s[j]) \subseteq Staged(s[k])
  <2>1. CASE k \in 1 .. Len(sp)
    <3>1. /\ s[k] = sp[k] /\ Len(sp) \in Nat
          /\ \A j \in 1 .. k : j \in 1 .. Len(sp) /\ s[j] = sp[j]
      BY <1>1, <2>1
    <3> QED  BY <2>1, <3>1 DEF Good
  <2>2. CASE k = Len(sp) + 1
    <3>1. \A j \in 1 .. Len(sp) : Staged(s[j]) \subseteq Staged(w)
      BY <1>1 DEF Good
    <3>2. s[k] = w
      BY <1>1, <2>2
    <3> QED  BY <1>1, <2>2, <3>1, <3>2 DEF Good
  <2> QED  BY <1>1, <1>2, <2>1, <2>2
<1>3. s \in Seq(Work) /\ Good(w, s)
  BY <1>1, <1>2 DEF Good
<1> QED  BY <1>3 DEF s

\* Back at savepoint k, with it or without it.
LEMMA GoodPrefix ==
    ASSUME NEW w \in Work, NEW sp \in Seq(Work), Good(w, sp),
           NEW k \in 1 .. Len(sp), NEW n \in {k - 1, k}
    PROVE  /\ SubSeq(sp, 1, n) \in Seq(Work)
           /\ Good(sp[k], SubSeq(sp, 1, n))
           /\ Good(w, SubSeq(sp, 1, n))
<1> DEFINE s == SubSeq(sp, 1, n)
<1>1. n \in Nat /\ n <= k /\ k \in Nat /\ Len(sp) \in Nat /\ n <= Len(sp)
  OBVIOUS
<1>2. /\ s \in Seq(Work) /\ Len(s) = n
      /\ \A j \in 1 .. n : s[j] = sp[j]
  BY <1>1
<1> HIDE DEF s
<1>a. \A j \in 1 .. n : j \in 1 .. k /\ j \in 1 .. Len(sp)
  BY <1>1
<1>3. \A j \in 1 .. n : Staged(s[j]) \subseteq Staged(sp[k])
  BY <1>2, <1>a DEF Good
<1>4. \A j \in 1 .. n : /\ Sound(s[j]) /\ Staged(s[j]) \subseteq Staged(w)
                         /\ \A i \in 1 .. j : Staged(s[i]) \subseteq Staged(s[j])
  BY <1>1, <1>2, <1>a, <1>3 DEF Good
<1>5. Good(sp[k], s) /\ Good(w, s)
  BY <1>2, <1>3, <1>4 DEF Good
<1> QED  BY <1>2, <1>5 DEF s

\* Without savepoint k.
LEMMA GoodWithout ==
    ASSUME NEW w \in Work, NEW sp \in Seq(Work), Good(w, sp), NEW k \in 1 .. Len(sp)
    PROVE  /\ SubSeq(sp, 1, k - 1) \o SubSeq(sp, k + 1, Len(sp)) \in Seq(Work)
           /\ Good(w, SubSeq(sp, 1, k - 1) \o SubSeq(sp, k + 1, Len(sp)))
<1> DEFINE a == SubSeq(sp, 1, k - 1)
           b == SubSeq(sp, k + 1, Len(sp))
           s == a \o b
           at(j) == IF j < k THEN j ELSE j + 1
<1>1. a \in Seq(Work) /\ Len(a) = k - 1 /\ \A j \in 1 .. k - 1 : a[j] = sp[j]
  OBVIOUS
<1>2. b \in Seq(Work) /\ Len(b) = Len(sp) - k /\ \A j \in 1 .. Len(sp) - k : b[j] = sp[j + k]
  OBVIOUS
<1> HIDE DEF a, b
<1>a. k \in Nat /\ Len(sp) \in Nat /\ k >= 1 /\ k <= Len(sp)
  OBVIOUS
<1>3. /\ s \in Seq(Work) /\ Len(s) = Len(sp) - 1
      /\ \A j \in 1 .. k - 1 : s[j] = sp[j]
      /\ \A j \in k .. Len(sp) - 1 : s[j] = sp[j + 1]
  <2>1. /\ s \in Seq(Work) /\ Len(s) = Len(a) + Len(b)
        /\ \A j \in 1 .. Len(a) + Len(b) :
             s[j] = IF j <= Len(a) THEN a[j] ELSE b[j - Len(a)]
    BY <1>1, <1>2, ConcatProperties
  <2> HIDE DEF s
  <2>2. Len(s) = Len(sp) - 1
    BY <1>1, <1>2, <1>a, <2>1
  <2>3. ASSUME NEW j \in 1 .. k - 1 PROVE s[j] = sp[j]
    <3>1. j \in 1 .. Len(a) + Len(b) /\ j <= Len(a)
      BY <1>1, <1>2, <1>a
    <3> QED  BY <1>1, <2>1, <3>1
  <2>4. ASSUME NEW j \in k .. Len(sp) - 1 PROVE s[j] = sp[j + 1]
    <3>1. /\ j \in 1 .. Len(a) + Len(b) /\ ~(j <= Len(a))
          /\ j - Len(a) \in 1 .. Len(sp) - k /\ j - Len(a) + k = j + 1
      BY <1>1, <1>2, <1>a
    <3> QED  BY <1>2, <2>1, <3>1
  <2> QED  BY <2>1, <2>2, <2>3, <2>4
<1> HIDE DEF s
<1>4. \A j \in 1 .. Len(sp) - 1 : s[j] = sp[at(j)]
  BY <1>a, <1>3
<1>5. \A i, j \in 1 .. Len(sp) - 1 :
        at(j) \in 1 .. Len(sp) /\ (i <= j => at(i) \in 1 .. at(j))
  BY <1>a
<1> HIDE DEF at
<1>6. \A j \in 1 .. Len(s) :
        /\ Sound(s[j]) /\ Staged(s[j]) \subseteq Staged(w)
        /\ \A i \in 1 .. j : Staged(s[i]) \subseteq Staged(s[j])
  <2> SUFFICES ASSUME NEW j \in 1 .. Len(sp) - 1
               PROVE  /\ Sound(s[j]) /\ Staged(s[j]) \subseteq Staged(w)
                      /\ \A i \in 1 .. j : Staged(s[i]) \subseteq Staged(s[j])
    BY <1>3
  <2>1. at(j) \in 1 .. Len(sp) /\ s[j] = sp[at(j)]
    BY <1>4, <1>5
  <2>2. \A i \in 1 .. j : s[i] = sp[at(i)] /\ at(i) \in 1 .. at(j)
    BY <1>a, <1>4, <1>5
  <2> QED  BY <2>1, <2>2 DEF Good
<1> QED  BY <1>3, <1>6 DEF s, a, b, Good

-----------------------------------------------------------------------------
\* The four writes are one: each stages the entities it writes, and no others.

Stages(t, entities, w) ==
    w \in Work /\ Sound(w) /\ Staged(w) = WriteSet(t) \cup entities

WritesSomething(t) ==
    \/ DeleteAll(t)
    \/ \E e \in Entity : Save(t, e) \/ CompareAndSave(t, e) \/ Delete(t, e)

LEMMA Stagings ==
    ASSUME WInv, NEW t \in Tx, NEW e \in Entity
    PROVE  /\ Stages(t, {e}, Saved(t, e))
           /\ Stages(t, {e}, [Saved(t, e) EXCEPT !.seen = @ \cup ({e} \ WriteSet(t))])
<1>1. work[t] \in Work /\ Sound(work[t])
  BY DEF WInv, TypeOK, WorkGood, Good
<1>2. Stages(t, {e}, Saved(t, e))
  BY <1>1 DEF Stages, Saved, Work, Sound, Staged, WriteSet
<1>3. Stages(t, {e}, [Saved(t, e) EXCEPT !.seen = @ \cup ({e} \ WriteSet(t))])
  BY <1>2 DEF Stages, Work, Sound, Staged
<1> QED  BY <1>2, <1>3

LEMMA DeletedStages ==
    ASSUME WInv, NEW t \in Tx, NEW entities \in SUBSET Entity
    PROVE  Stages(t, entities, Deleted(t, entities))
<1>1. work[t] \in Work /\ Sound(work[t])
  BY DEF WInv, TypeOK, WorkGood, Good
<1> QED  BY <1>1 DEF Stages, Deleted, Work, Sound, Staged, WriteSet

LEMMA WritesAreOne ==
    ASSUME WInv, NEW t \in Tx, WritesSomething(t)
    PROVE  \E entities \in SUBSET Entity, w \in Work :
             Stages(t, entities, w) /\ Write(t, entities, w)
<1>1. CASE DeleteAll(t)
  <2>1. Visible(t) \in SUBSET Entity
    BY DEF Visible
  <2>2. Stages(t, Visible(t), Deleted(t, Visible(t)))
    BY <2>1, DeletedStages
  <2>3. Deleted(t, Visible(t)) \in Work
    BY <2>2 DEF Stages
  <2>4. Write(t, Visible(t), Deleted(t, Visible(t)))
    BY <1>1 DEF DeleteAll
  <2> QED  BY <2>1, <2>2, <2>3, <2>4
<1>2. ASSUME NEW e \in Entity, Save(t, e)
      PROVE  \E entities \in SUBSET Entity, w \in Work :
               Stages(t, entities, w) /\ Write(t, entities, w)
  <2>1. Stages(t, {e}, Saved(t, e)) /\ Saved(t, e) \in Work
    BY Stagings DEF Stages
  <2>2. Write(t, {e}, Saved(t, e)) /\ {e} \in SUBSET Entity
    BY <1>2 DEF Save
  <2> QED  BY <2>1, <2>2
<1>3. ASSUME NEW e \in Entity, CompareAndSave(t, e)
      PROVE  \E entities \in SUBSET Entity, w \in Work :
               Stages(t, entities, w) /\ Write(t, entities, w)
  <2> DEFINE v == [Saved(t, e) EXCEPT !.seen = @ \cup ({e} \ WriteSet(t))]
  <2>1. Stages(t, {e}, v) /\ v \in Work
    BY Stagings DEF Stages
  <2>2. Write(t, {e}, v) /\ {e} \in SUBSET Entity
    BY <1>3 DEF CompareAndSave
  <2> HIDE DEF v
  <2> QED  BY <2>1, <2>2
<1>4. ASSUME NEW e \in Entity, Delete(t, e)
      PROVE  \E entities \in SUBSET Entity, w \in Work :
               Stages(t, entities, w) /\ Write(t, entities, w)
  <2>1. {e} \in SUBSET Entity
    OBVIOUS
  <2>2. Stages(t, {e}, Deleted(t, {e})) /\ Deleted(t, {e}) \in Work
    BY <2>1, DeletedStages DEF Stages
  <2>3. Write(t, {e}, Deleted(t, {e}))
    BY <1>4 DEF Delete
  <2> QED  BY <2>1, <2>2, <2>3
<1> QED  BY <1>1, <1>2, <1>3, <1>4 DEF WritesSomething

-----------------------------------------------------------------------------
\* The transactions' own state.

\* One transaction's work and savepoints change to good ones.
LEMMA OneChanges ==
    ASSUME work \in [Tx -> Work], savepoints \in [Tx -> Seq(Work)], WorkGood,
           NEW t \in Tx, NEW w \in Work, NEW sp \in Seq(Work), Good(w, sp),
           work' = [work EXCEPT ![t] = w],
           savepoints' = [savepoints EXCEPT ![t] = sp]
    PROVE  /\ work' \in [Tx -> Work]
           /\ savepoints' \in [Tx -> Seq(Work)]
           /\ WorkGood'
           /\ \A u \in Tx : work'[u].saved \cap work'[u].deleted = {}
<1>1. \A u \in Tx : Good(work'[u], savepoints'[u])
  BY DEF WorkGood
<1> QED  BY <1>1 DEF WorkGood, Good, Sound

\* A step of an open transaction that stays open and leaves the log alone.
LEMMA OpenStep ==
    ASSUME WInv, NEW t \in Tx, status[t] = "open",
           NEW w \in Work, NEW sp \in Seq(Work), Good(w, sp),
           work' = [work EXCEPT ![t] = w],
           savepoints' = [savepoints EXCEPT ![t] = sp],
           NEW l \in BOOLEAN, lost' = [lost EXCEPT ![t] = l],
           NEW a \in BOOLEAN, aborted' = [aborted EXCEPT ![t] = a],
           UNCHANGED <<backend, log, status, snapshot>>
    PROVE  WInv'
<1>1. /\ work' \in [Tx -> Work] /\ savepoints' \in [Tx -> Seq(Work)] /\ WorkGood'
      /\ \A u \in Tx : work'[u].saved \cap work'[u].deleted = {}
  BY OneChanges DEF WInv, TypeOK
<1>2. \A u \in Tx : status'[u] # "open" => work'[u] = NoWork /\ savepoints'[u] = <<>>
  <2> SUFFICES ASSUME NEW u \in Tx, status'[u] # "open"
               PROVE  work'[u] = NoWork /\ savepoints'[u] = <<>>
    OBVIOUS
  <2>1. u # t /\ status[u] # "open"
    OBVIOUS
  <2> QED  BY <2>1 DEF WInv, TypeOK
<1>3. lost' \in [Tx -> BOOLEAN] /\ aborted' \in [Tx -> BOOLEAN]
  BY DEF WInv, TypeOK
<1>4. SnapshotsKnown'
  BY DEF WInv, SnapshotsKnown
<1> QED  BY <1>1, <1>2, <1>3, <1>4 DEF WInv, TypeOK

\* The end of a transaction, with or without a commit.
LEMMA EndStep ==
    ASSUME WInv, UNCHANGED backend, NEW t \in Tx, NEW how \in {"committed", "rolledBack"}, Ends(t, how),
           log' \in Seq(CommitRecord), Len(log') >= Len(log)
    PROVE  WInv'
<1>1. /\ work' \in [Tx -> Work] /\ savepoints' \in [Tx -> Seq(Work)] /\ WorkGood'
      /\ \A u \in Tx : work'[u].saved \cap work'[u].deleted = {}
  <2>1. /\ work \in [Tx -> Work] /\ savepoints \in [Tx -> Seq(Work)] /\ WorkGood
        /\ work' = [work EXCEPT ![t] = NoWork]
        /\ savepoints' = [savepoints EXCEPT ![t] = <<>>]
        /\ <<>> \in Seq(Work)
    BY DEF WInv, TypeOK, Ends
  <2> QED  BY <2>1, NoWorkGood, OneChanges
<1>2. \A u \in Tx : status'[u] # "open" => work'[u] = NoWork /\ savepoints'[u] = <<>>
  BY DEF WInv, TypeOK, Ends
<1>3. /\ status' \in [Tx -> {"unborn", "open", "committed", "rolledBack"}]
      /\ lost' \in [Tx -> BOOLEAN] /\ aborted' \in [Tx -> BOOLEAN]
      /\ snapshot' = snapshot
  BY DEF WInv, TypeOK, Ends
<1>4. SnapshotsKnown'
  <2>1. Len(log) \in Nat /\ Len(log') \in Nat /\ \A u \in Tx : snapshot[u] \in Nat
    BY DEF WInv, TypeOK
  <2> QED  BY <1>3, <2>1 DEF WInv, SnapshotsKnown
<1> QED  BY <1>1, <1>2, <1>3, <1>4 DEF WInv, TypeOK

\* A write: refused and recorded as lost, or staged.
LEMMA WriteStep ==
    ASSUME WInv, UNCHANGED backend, NEW t \in Tx, NEW entities \in SUBSET Entity, NEW w \in Work,
           Stages(t, entities, w), Write(t, entities, w)
    PROVE  WInv'
<1>1. /\ work \in [Tx -> Work] /\ savepoints[t] \in Seq(Work) /\ work[t] \in Work
      /\ savepoints \in [Tx -> Seq(Work)]
      /\ lost \in [Tx -> BOOLEAN] /\ aborted \in [Tx -> BOOLEAN]
      /\ Good(work[t], savepoints[t])
      /\ status[t] = "open" /\ UNCHANGED <<log, status, snapshot, savepoints>>
  BY DEF WInv, TypeOK, WorkGood, Write, Runs
<1>2. savepoints' = [savepoints EXCEPT ![t] = savepoints[t]]
  BY <1>1
<1>3. CASE DetectsAtWrite /\ \E e \in entities : RivalWrote(t, e)
  <2>1. /\ work' = [work EXCEPT ![t] = work[t]]
        /\ lost' = [lost EXCEPT ![t] = TRUE] /\ aborted' = [aborted EXCEPT ![t] = TRUE]
    BY <1>1, <1>3 DEF Write
  <2> QED  BY <1>1, <1>2, <2>1, OpenStep
<1>4. CASE ~(DetectsAtWrite /\ \E e \in entities : RivalWrote(t, e))
  <2>1. /\ work' = [work EXCEPT ![t] = w]
        /\ lost' = [lost EXCEPT ![t] = lost[t]] /\ aborted' = [aborted EXCEPT ![t] = aborted[t]]
        /\ lost[t] \in BOOLEAN /\ aborted[t] \in BOOLEAN
    BY <1>1, <1>4 DEF Write
  <2>2. Good(w, savepoints[t])
    <3>1. Sound(w) /\ Staged(work[t]) \subseteq Staged(w)
      BY DEF Stages, WriteSet, Staged
    <3> QED  BY <1>1, <3>1, GoodGrows
  <2> QED  BY <1>1, <1>2, <2>1, <2>2, OpenStep
<1> QED  BY <1>3, <1>4

\* A commit appends one record, of the transaction's own work.
CommitOf(t) == [tx |-> t, saved |-> work[t].saved, deleted |-> work[t].deleted,
                snapshot |-> snapshot[t], seen |-> work[t].seen]

LEMMA CommitIsRecord ==
    ASSUME WInv, NEW t \in Tx
    PROVE  CommitOf(t) \in CommitRecord
<1>1. work[t] \in Work /\ snapshot[t] \in Nat
  BY DEF WInv, TypeOK
<1> QED  BY <1>1 DEF CommitOf, CommitRecord, Work

LEMMA OutsideIsRecord ==
    ASSUME NEW e \in Entity
    PROVE  Seed({e}) \in CommitRecord /\ [Seed({}) EXCEPT !.deleted = {e}] \in CommitRecord
  BY DEF Seed, CommitRecord

\* Every step keeps the transactions' own state in order.
LEMMA WPreserved ==
    ASSUME WInv, [Next]_vars
    PROVE  WInv'
<1>0. /\ log \in Seq(CommitRecord) /\ Len(log) \in Nat
      /\ work \in [Tx -> Work] /\ savepoints \in [Tx -> Seq(Work)]
      /\ lost \in [Tx -> BOOLEAN] /\ aborted \in [Tx -> BOOLEAN]
      /\ snapshot \in [Tx -> Nat] /\ WorkGood
  BY DEF WInv, TypeOK
<1>b. UNCHANGED backend
  BY DEF Next, vars
<1>a. \A t \in Tx : /\ work[t] \in Work /\ savepoints[t] \in Seq(Work)
                    /\ lost[t] \in BOOLEAN /\ aborted[t] \in BOOLEAN
                    /\ Good(work[t], savepoints[t])
                    /\ lost = [lost EXCEPT ![t] = lost[t]]
                    /\ aborted = [aborted EXCEPT ![t] = aborted[t]]
                    /\ savepoints = [savepoints EXCEPT ![t] = savepoints[t]]
                    /\ work = [work EXCEPT ![t] = work[t]]
  BY <1>0 DEF WorkGood
<1>1. ASSUME NEW t \in Tx, Begin(t) PROVE WInv'
  <2>1. /\ status' \in [Tx -> {"unborn", "open", "committed", "rolledBack"}]
        /\ snapshot' \in [Tx -> Nat]
        /\ \A u \in Tx : snapshot'[u] <= Len(log)
        /\ \A u \in Tx : status'[u] # "open" => status[u] # "open"
    BY <1>0, <1>1 DEF Begin, WInv, TypeOK, SnapshotsKnown
  <2>2. UNCHANGED <<log, work, savepoints, lost, aborted>>
    BY <1>1 DEF Begin
  <2>3. TypeOK'
    BY <1>b, <2>1, <2>2 DEF WInv, TypeOK
  <2>4. WorkGood' /\ SnapshotsKnown'
    BY <2>1, <2>2 DEF WInv, WorkGood, SnapshotsKnown
  <2> QED  BY <2>3, <2>4 DEF WInv
<1>2. ASSUME NEW t \in Tx, NEW entities \in SUBSET Entity, Read(t, entities)
      PROVE  WInv'
  <2> DEFINE w == [work[t] EXCEPT !.reads = @ \cup entities,
                                  !.seen = @ \cup (entities \ WriteSet(t))]
  <2>1. w \in Work /\ Sound(w) /\ Staged(work[t]) \subseteq Staged(w)
    <3>1. work[t] \in Work /\ Sound(work[t])
      BY <1>a DEF Good
    <3> QED  BY <3>1 DEF Work, Sound, Staged
  <2>2. work' = [work EXCEPT ![t] = w]
    BY <1>0, <1>2 DEF Read
  <2>3. status[t] = "open" /\ UNCHANGED <<log, status, snapshot, savepoints, lost, aborted>>
    BY <1>2 DEF Read, Runs
  <2> HIDE DEF w
  <2>4. Good(w, savepoints[t])
    BY <1>a, <2>1, GoodGrows
  <2> QED  BY <1>a, <2>1, <2>2, <2>3, <2>4, <1>b, OpenStep
<1>3. ASSUME NEW t \in Tx, WritesSomething(t) PROVE WInv'
  BY <1>3, WritesAreOne, <1>b, WriteStep
<1>4. ASSUME NEW t \in Tx, Savepoint(t) PROVE WInv'
  <2>1. /\ status[t] = "open" /\ UNCHANGED <<log, status, snapshot, work, lost, aborted>>
        /\ savepoints' = [savepoints EXCEPT ![t] = Append(savepoints[t], work[t])]
    BY <1>4 DEF Savepoint, Runs
  <2>2. /\ Append(savepoints[t], work[t]) \in Seq(Work)
        /\ Good(work[t], Append(savepoints[t], work[t]))
    BY <1>a, GoodAppend
  <2> QED  BY <1>a, <2>1, <2>2, <1>b, OpenStep
<1>5. ASSUME NEW t \in Tx, NEW k \in 1 .. Len(savepoints[t]), RollbackToSavepoint(t, k)
      PROVE  WInv'
  <2>1. PICK n \in {k - 1, k} :
               savepoints' = [savepoints EXCEPT ![t] = SubSeq(savepoints[t], 1, n)]
    BY <1>5 DEF RollbackToSavepoint
  <2>2. /\ status[t] = "open" /\ UNCHANGED <<log, status, snapshot>>
        /\ work' = [work EXCEPT ![t] = savepoints[t][k]]
        /\ lost' = [lost EXCEPT ![t] = LostRace(t)]
        /\ aborted' = [aborted EXCEPT ![t] = FALSE]
    BY <1>5 DEF RollbackToSavepoint
  <2>3. /\ SubSeq(savepoints[t], 1, n) \in Seq(Work)
        /\ Good(savepoints[t][k], SubSeq(savepoints[t], 1, n))
    BY <1>a, GoodPrefix
  <2>4. savepoints[t][k] \in Work /\ LostRace(t) \in BOOLEAN
    BY <1>a DEF LostRace
  <2> QED  BY <2>1, <2>2, <2>3, <2>4, <1>b, OpenStep
<1>6. ASSUME NEW t \in Tx, NEW k \in 1 .. Len(savepoints[t]), ReleaseSavepoint(t, k)
      PROVE  WInv'
  <2> DEFINE a == SubSeq(savepoints[t], 1, k - 1)
             b == SubSeq(savepoints[t], 1, k - 1)
                    \o SubSeq(savepoints[t], k + 1, Len(savepoints[t]))
  <2>1. /\ status[t] = "open" /\ UNCHANGED <<log, status, snapshot, work, lost, aborted>>
        /\ \/ savepoints' = [savepoints EXCEPT ![t] = a]
           \/ savepoints' = [savepoints EXCEPT ![t] = b]
    BY <1>6 DEF ReleaseSavepoint, Runs
  <2>2. a \in Seq(Work) /\ Good(work[t], a)
    BY <1>a, GoodPrefix
  <2>3. b \in Seq(Work) /\ Good(work[t], b)
    BY <1>a, GoodWithout
  <2> HIDE DEF a, b
  <2> QED  BY <1>a, <2>1, <2>2, <2>3, <1>b, OpenStep
<1>7. ASSUME NEW t \in Tx, Commit(t) PROVE WInv'
  <2>1. \/ Ends(t, "rolledBack") /\ log' = log
        \/ Ends(t, "committed") /\ log' = Append(log, CommitOf(t))
    BY <1>7 DEF Commit, CommitOf
  <2>2. log' \in Seq(CommitRecord) /\ Len(log') >= Len(log)
    <3>1. CommitOf(t) \in CommitRecord
      BY CommitIsRecord
    <3>2. /\ Append(log, CommitOf(t)) \in Seq(CommitRecord)
          /\ Len(Append(log, CommitOf(t))) = Len(log) + 1
      BY <1>0, <3>1, AppendProperties
    <3> DEFINE longer == Append(log, CommitOf(t))
    <3>3. longer \in Seq(CommitRecord) /\ Len(longer) >= Len(log)
      BY <1>0, <3>2
    <3>4. log' = log \/ log' = longer
      BY <2>1
    <3> HIDE DEF longer
    <3> QED  BY <1>0, <3>3, <3>4
  <2> QED  BY <2>1, <2>2, <1>b, EndStep
<1>8. ASSUME NEW t \in Tx, Rollback(t) PROVE WInv'
  <2>1. Ends(t, "rolledBack") /\ log' = log
    BY <1>8 DEF Rollback
  <2> QED  BY <1>0, <2>1, <1>b, EndStep
<1>9. ASSUME NEW e \in Entity, WriteOutside(e) PROVE WInv'
  <2>1. PICK c \in CommitRecord : log' = Append(log, c)
    BY <1>9, OutsideIsRecord DEF WriteOutside
  <2>2. log' \in Seq(CommitRecord) /\ Len(log') = Len(log) + 1
    BY <1>0, <2>1
  <2>3. UNCHANGED <<status, snapshot, work, savepoints, lost, aborted>>
    BY <1>9 DEF WriteOutside
  <2>4. TypeOK'
    BY <1>b, <2>2, <2>3 DEF WInv, TypeOK
  <2>5. WorkGood' /\ SnapshotsKnown'
    BY <1>0, <2>2, <2>3 DEF WInv, WorkGood, SnapshotsKnown
  <2> QED  BY <2>4, <2>5 DEF WInv
<1>10. CASE UNCHANGED vars
  BY <1>10 DEF vars, WInv, TypeOK, WorkGood, SnapshotsKnown
<1> QED
  BY <1>1, <1>2, <1>3, <1>4, <1>5, <1>6, <1>7, <1>8, <1>9, <1>10 DEF Next, WritesSomething

-----------------------------------------------------------------------------
\* The history.

\* A commit is a rival of every transaction that began before it.
LEMMA RivalsOfAppend ==
    ASSUME WInv, NEW c \in CommitRecord, log' = Append(log, c),
           NEW t \in Tx, snapshot'[t] = snapshot[t], NEW e \in Entity
    PROVE  RivalWrote(t, e)' <=> RivalWrote(t, e) \/ e \in Writes(c)
<1>1. /\ Len(log) \in Nat /\ snapshot[t] \in Nat /\ snapshot[t] <= Len(log)
      /\ Len(log') = Len(log) + 1 /\ log'[Len(log) + 1] = c
      /\ \A i \in 1 .. Len(log) : log'[i] = log[i]
  BY DEF WInv, TypeOK, SnapshotsKnown
<1>2. RivalWrote(t, e) <=> \E i \in snapshot[t] + 1 .. Len(log) : e \in Writes(log[i])
  BY DEF RivalWrote, WrittenAfter
<1>3. RivalWrote(t, e)' <=> \E i \in snapshot[t] + 1 .. Len(log) + 1 : e \in Writes(log'[i])
  BY <1>1 DEF RivalWrote, WrittenAfter, Writes
<1>4. \A i \in snapshot[t] + 1 .. Len(log) + 1 :
        /\ i # Len(log) + 1 => /\ i \in snapshot[t] + 1 .. Len(log)
                               /\ log'[i] = log[i]
        /\ i = Len(log) + 1 => log'[i] = c
  BY <1>1
<1>5. /\ Len(log) + 1 \in snapshot[t] + 1 .. Len(log) + 1
      /\ \A i \in snapshot[t] + 1 .. Len(log) : /\ i \in snapshot[t] + 1 .. Len(log) + 1
                                                /\ log'[i] = log[i]
  BY <1>1
<1> QED  BY <1>1, <1>2, <1>3, <1>4, <1>5

\* No commit, and each open transaction keeps what it recorded as lost and
\* stages no more than before.
LEMMA QuietStep ==
    ASSUME WInv, HInv, DetectsAtWrite' = DetectsAtWrite, log' = log,
           \A u \in Tx : status'[u] = "open" =>
               \/ WriteSet(u)' = {}
               \/ /\ status[u] = "open" /\ snapshot'[u] = snapshot[u]
                  /\ WriteSet(u)' \subseteq WriteSet(u)
                  /\ DetectsAtWrite => (lost[u] => lost'[u])
    PROVE  HInv'
<1>1. RowsLocked'
  BY DEF HInv, RowsLocked
<1>2. OneAnswer'
  <2> SUFFICES ASSUME NEW u \in Tx, status'[u] = "open",
                      NEW e \in WriteSet(u)', RivalWrote(u, e)'
               PROVE  LostRace(u)'
    BY DEF OneAnswer
  <2>1. CASE ~DetectsAtWrite
    BY <2>1 DEF LostRace
  <2>2. CASE DetectsAtWrite
    <3>1. /\ status[u] = "open" /\ snapshot'[u] = snapshot[u] /\ e \in WriteSet(u)
          /\ lost[u] => lost'[u]
      BY <2>2
    <3>2. RivalWrote(u, e)
      BY <3>1 DEF RivalWrote, WrittenAfter, Writes
    <3>3. LostRace(u)
      BY <3>1, <3>2 DEF HInv, OneAnswer
    <3> QED  BY <2>2, <3>1, <3>3 DEF LostRace
  <2> QED  BY <2>1, <2>2
<1>3. NoLostUpdate' /\ SerialInCommitOrder'
  BY DEF HInv, NoLostUpdate, SerialInCommitOrder, Writes
<1> QED  BY <1>1, <1>2, <1>3 DEF HInv

\* A commit or a save outside: of rows nobody else has locked, of a transaction
\* that had no rival, telling nothing that is no longer so.
LEMMA AppendStep ==
    ASSUME WInv, HInv, DetectsAtWrite' = DetectsAtWrite,
           NEW c \in CommitRecord, log' = Append(log, c),
           \A u \in Tx : status'[u] = "open" =>
               /\ status[u] = "open" /\ snapshot'[u] = snapshot[u]
               /\ WriteSet(u)' = WriteSet(u) /\ lost'[u] = lost[u]
               /\ DetectsAtWrite => WriteSet(u) \cap Writes(c) = {},
           c.tx # Outside =>
               \A i \in 1 .. Len(log) : Writes(log[i]) \cap Writes(c) # {} => i <= c.snapshot,
           \A e \in c.seen : \A i \in c.snapshot + 1 .. Len(log) : e \notin Writes(log[i])
    PROVE  HInv'
<1>0. /\ Len(log) \in Nat /\ Len(log') = Len(log) + 1 /\ log'[Len(log) + 1] = c
      /\ \A i \in 1 .. Len(log) : log'[i] = log[i]
      /\ DOMAIN log = 1 .. Len(log) /\ DOMAIN log' = 1 .. Len(log) + 1
      /\ \A i \in 1 .. Len(log) : log[i] \in CommitRecord
  BY DEF WInv, TypeOK
<1>1. RowsLocked'
  BY DEF HInv, RowsLocked
<1>2. OneAnswer'
  <2> SUFFICES ASSUME NEW u \in Tx, status'[u] = "open",
                      NEW e \in WriteSet(u)', RivalWrote(u, e)'
               PROVE  LostRace(u)'
    BY DEF OneAnswer
  <2>1. CASE ~DetectsAtWrite
    BY <2>1 DEF LostRace
  <2>2. CASE DetectsAtWrite
    <3>1. /\ status[u] = "open" /\ snapshot'[u] = snapshot[u] /\ e \in WriteSet(u)
          /\ lost'[u] = lost[u] /\ e \notin Writes(c)
      BY <2>2
    <3>2. e \in Entity
      BY <3>1 DEF WInv, TypeOK, WriteSet, Work
    <3>3. RivalWrote(u, e)
      BY <3>1, <3>2, RivalsOfAppend
    <3>4. LostRace(u)
      BY <3>1, <3>3 DEF HInv, OneAnswer
    <3> QED  BY <2>2, <3>1, <3>4 DEF LostRace
  <2> QED  BY <2>1, <2>2
<1>3. NoLostUpdate'
  <2> SUFFICES ASSUME NEW i \in 1 .. Len(log) + 1, NEW j \in 1 .. Len(log) + 1, i < j,
                      log'[j].tx # Outside, Writes(log'[i]) \cap Writes(log'[j]) # {}
               PROVE  i <= log'[j].snapshot
    BY <1>0 DEF NoLostUpdate, Writes
  <2>1. i \in 1 .. Len(log) /\ log'[i] = log[i]
    BY <1>0
  <2>2. CASE j = Len(log) + 1
    BY <1>0, <2>1, <2>2
  <2>3. CASE j # Len(log) + 1
    <3>1. j \in 1 .. Len(log) /\ log'[j] = log[j]
      BY <1>0, <2>3
    <3> QED  BY <1>0, <2>1, <3>1 DEF HInv, NoLostUpdate
  <2> QED  BY <2>2, <2>3
<1>4. SerialInCommitOrder'
  <2> SUFFICES ASSUME NEW j \in 1 .. Len(log) + 1, NEW e \in log'[j].seen,
                      NEW i \in log'[j].snapshot + 1 .. j - 1
               PROVE  e \notin Writes(log'[i])
    BY <1>0 DEF SerialInCommitOrder, Writes
  <2>1. CASE j = Len(log) + 1
    <3>1. e \in c.seen /\ i \in c.snapshot + 1 .. Len(log) /\ c.snapshot \in Nat
      BY <1>0, <2>1 DEF CommitRecord
    <3>2. i \in 1 .. Len(log) /\ log'[i] = log[i]
      BY <1>0, <3>1
    <3> QED  BY <3>1, <3>2
  <2>2. CASE j # Len(log) + 1
    <3>1. j \in 1 .. Len(log) /\ log'[j] = log[j] /\ log[j].snapshot \in Nat
      BY <1>0, <2>2 DEF CommitRecord
    <3>2. i \in log[j].snapshot + 1 .. j - 1 /\ i \in 1 .. Len(log) /\ log'[i] = log[i]
      BY <1>0, <3>1
    <3> QED  BY <1>0, <3>1, <3>2 DEF HInv, SerialInCommitOrder
  <2> QED  BY <2>1, <2>2
<1> QED  BY <1>1, <1>2, <1>3, <1>4 DEF HInv

\* Every step keeps the rows locked and the history in order.
LEMMA HPreserved ==
    ASSUME WInv, HInv, [Next]_vars
    PROVE  HInv'
<1>0. /\ log \in Seq(CommitRecord) /\ Len(log) \in Nat
      /\ work \in [Tx -> Work] /\ snapshot \in [Tx -> Nat]
      /\ status \in [Tx -> {"unborn", "open", "committed", "rolledBack"}]
      /\ lost \in [Tx -> BOOLEAN]
      /\ \A u \in Tx : status[u] # "open" => WriteSet(u) = {}
  BY DEF WInv, TypeOK, WriteSet, NoWork
<1>b. DetectsAtWrite' = DetectsAtWrite
  BY DEF Next, vars, DetectsAtWrite
<1>a. \A u \in Tx : work'[u] = work[u] => WriteSet(u)' = WriteSet(u)
  BY DEF WriteSet
<1>1. ASSUME NEW t \in Tx, Begin(t) PROVE HInv'
  <2>1. \A u \in Tx : status'[u] = "open" =>
          \/ u = t
          \/ status[u] = "open" /\ snapshot'[u] = snapshot[u]
    BY <1>0, <1>1 DEF Begin
  <2>2. UNCHANGED <<log, work, lost>> /\ status[t] = "unborn"
    BY <1>1 DEF Begin
  <2>3. \A u \in Tx : WriteSet(u)' = WriteSet(u)
    BY <1>a, <2>2
  <2> QED  BY <1>0, <2>1, <2>2, <2>3, <1>b, QuietStep
<1>2. ASSUME NEW t \in Tx, NEW entities \in SUBSET Entity, Read(t, entities)
      PROVE  HInv'
  <2>1. /\ \A u \in Tx : /\ work'[u].saved = work[u].saved
                         /\ work'[u].deleted = work[u].deleted
        /\ UNCHANGED <<log, status, snapshot, lost>>
    <3>1. /\ work' = [work EXCEPT ![t] = [work[t] EXCEPT
                        !.reads = @ \cup entities,
                        !.seen = @ \cup (entities \ WriteSet(t))]]
          /\ UNCHANGED <<log, status, snapshot, lost>>
      BY <1>0, <1>2 DEF Read
    <3>2. work[t] \in Work
      BY <1>0
    <3> QED  BY <1>0, <3>1, <3>2 DEF Work
  <2>2. \A u \in Tx : WriteSet(u)' = WriteSet(u)
    BY <2>1 DEF WriteSet
  <2> QED  BY <2>1, <2>2, <1>b, QuietStep
<1>3. ASSUME NEW t \in Tx, NEW entities \in SUBSET Entity, NEW w \in Work,
             Stages(t, entities, w), Write(t, entities, w)
      PROVE  HInv'
  <2>0. UNCHANGED <<log, status, snapshot>> /\ status[t] = "open"
    BY <1>3 DEF Write, Runs
  <2>1. CASE DetectsAtWrite /\ \E e \in entities : RivalWrote(t, e)
    <3>1. lost' = [lost EXCEPT ![t] = TRUE] /\ work' = work
      BY <1>3, <2>1 DEF Write
    <3>2. \A u \in Tx : WriteSet(u)' = WriteSet(u) /\ (lost[u] => lost'[u])
      BY <1>0, <1>a, <3>1
    <3> QED  BY <2>0, <3>2, <1>b, QuietStep
  <2>2. CASE ~(DetectsAtWrite /\ \E e \in entities : RivalWrote(t, e))
    <3>1. work' = [work EXCEPT ![t] = w] /\ lost' = lost
      BY <1>3, <2>2 DEF Write
    <3>2. /\ WriteSet(t)' = WriteSet(t) \cup entities
          /\ \A u \in Tx \ {t} : WriteSet(u)' = WriteSet(u)
      <4>1. work'[t] = w /\ \A u \in Tx \ {t} : work'[u] = work[u]
        BY <1>0, <3>1
      <4>2. WriteSet(t)' = Staged(w)
        BY <4>1 DEF WriteSet, Staged
      <4> QED  BY <1>3, <1>a, <4>1, <4>2 DEF Stages
    <3>3. DetectsAtWrite => \A e \in entities : ~Held(t, e) /\ ~RivalWrote(t, e)
      BY <1>3, <2>2 DEF Write
    <3>4. RowsLocked'
      <4> SUFFICES ASSUME DetectsAtWrite, NEW u \in Tx, NEW v \in Tx, u # v,
                          status[u] = "open", status[v] = "open"
                   PROVE  WriteSet(u)' \cap WriteSet(v)' = {}
        BY <1>b, <2>0 DEF RowsLocked
      <4>1. WriteSet(u) \cap WriteSet(v) = {}
        BY DEF HInv, RowsLocked
      <4>2. \A x \in Tx \ {t} : status[x] = "open" => entities \cap WriteSet(x) = {}
        BY <3>3 DEF Held
      <4> QED  BY <3>2, <4>1, <4>2
    <3>5. OneAnswer'
      <4> SUFFICES ASSUME NEW u \in Tx, status[u] = "open",
                          NEW e \in WriteSet(u)', RivalWrote(u, e)'
                   PROVE  LostRace(u)'
        BY <2>0 DEF OneAnswer
      <4>1. CASE ~DetectsAtWrite
        BY <1>b, <4>1 DEF LostRace
      <4>2. CASE DetectsAtWrite
        <5>1. RivalWrote(u, e)
          BY <2>0 DEF RivalWrote, WrittenAfter, Writes
        <5>2. e \in WriteSet(u)
          BY <3>2, <3>3, <4>2, <5>1
        <5>3. LostRace(u)
          BY <5>1, <5>2 DEF HInv, OneAnswer
        <5> QED  BY <3>1, <4>2, <5>3 DEF LostRace
      <4> QED  BY <4>1, <4>2
    <3>6. NoLostUpdate' /\ SerialInCommitOrder'
      BY <2>0 DEF HInv, NoLostUpdate, SerialInCommitOrder, Writes
    <3> QED  BY <3>4, <3>5, <3>6 DEF HInv
  <2> QED  BY <2>1, <2>2
<1>4. ASSUME NEW t \in Tx, Savepoint(t) \/ \E k \in 1 .. Len(savepoints[t]) : ReleaseSavepoint(t, k)
      PROVE  HInv'
  <2>1. UNCHANGED <<log, status, snapshot, work, lost>>
    BY <1>4 DEF Savepoint, ReleaseSavepoint
  <2>2. \A u \in Tx : WriteSet(u)' = WriteSet(u)
    BY <1>a, <2>1
  <2> QED  BY <2>1, <2>2, <1>b, QuietStep
<1>5. ASSUME NEW t \in Tx, NEW k \in 1 .. Len(savepoints[t]), RollbackToSavepoint(t, k)
      PROVE  HInv'
  <2>1. /\ UNCHANGED <<log, status, snapshot>>
        /\ work' = [work EXCEPT ![t] = savepoints[t][k]]
        /\ lost' = [lost EXCEPT ![t] = LostRace(t)]
    BY <1>5 DEF RollbackToSavepoint
  <2>2. Staged(savepoints[t][k]) \subseteq WriteSet(t)
    BY DEF WInv, WorkGood, Good, WriteSet, Staged
  <2>3. WriteSet(t)' = Staged(savepoints[t][k])
    <3>1. work'[t] = savepoints[t][k]
      BY <1>0, <2>1
    <3> QED  BY <3>1 DEF WriteSet, Staged
  <2>4. \A u \in Tx \ {t} : WriteSet(u)' = WriteSet(u)
    BY <1>0, <1>a, <2>1
  <2>5. \A u \in Tx : lost[u] => lost'[u]
    <3>1. lost[t] => LostRace(t)
      BY DEF LostRace
    <3> QED  BY <1>0, <2>1, <3>1
  <2> QED  BY <2>1, <2>2, <2>3, <2>4, <2>5, <1>b, QuietStep
<1>6. ASSUME NEW t \in Tx, Ends(t, "rolledBack"), log' = log PROVE HInv'
  <2>1. \A u \in Tx : status'[u] = "open" =>
          /\ status[u] = "open" /\ snapshot'[u] = snapshot[u]
          /\ work'[u] = work[u] /\ lost'[u] = lost[u]
    BY <1>0, <1>6 DEF Ends
  <2> QED  BY <1>6, <1>a, <2>1, <1>b, QuietStep
<1>7. ASSUME NEW t \in Tx, Commit(t), ~Refusable(t) PROVE HInv'
  <2>1. /\ Ends(t, "committed") /\ log' = Append(log, CommitOf(t)) /\ status[t] = "open"
    BY <1>7 DEF Commit, CommitOf
  <2>2. \A u \in Tx : status'[u] = "open" =>
          /\ u # t /\ status[u] = "open" /\ snapshot'[u] = snapshot[u]
          /\ work'[u] = work[u] /\ lost'[u] = lost[u]
    BY <1>0, <2>1 DEF Ends
  <2>3. /\ Writes(CommitOf(t)) = WriteSet(t)
        /\ CommitOf(t).snapshot = snapshot[t] /\ CommitOf(t).seen = work[t].seen
    BY DEF CommitOf, Writes, WriteSet
  <2>4. /\ \A e \in WriteSet(t) : ~RivalWrote(t, e)
        /\ \A e \in work[t].reads : ~RivalWrote(t, e)
    BY <1>7, <2>1 DEF Refusable, HInv, OneAnswer
  <2>5. \A e \in work[t].seen : ~RivalWrote(t, e)
    <3>1. work[t].seen \subseteq work[t].reads \cup WriteSet(t)
      BY DEF WInv, WorkGood, Good, Sound, Staged, WriteSet
    <3> QED  BY <2>4, <3>1
  <2>6. \A e : ~RivalWrote(t, e) =>
          \A i \in snapshot[t] + 1 .. Len(log) : e \notin Writes(log[i])
    BY DEF RivalWrote, WrittenAfter
  <2>7. \A i \in 1 .. Len(log) :
          Writes(log[i]) \cap WriteSet(t) # {} => i <= snapshot[t]
    <3> SUFFICES ASSUME NEW i \in 1 .. Len(log), ~(i <= snapshot[t])
                 PROVE  Writes(log[i]) \cap WriteSet(t) = {}
      OBVIOUS
    <3>1. i \in snapshot[t] + 1 .. Len(log)
      BY <1>0
    <3> QED  BY <2>4, <2>6, <3>1
  <2>8. \A u \in Tx : status'[u] = "open" =>
          /\ status[u] = "open" /\ snapshot'[u] = snapshot[u]
          /\ WriteSet(u)' = WriteSet(u) /\ lost'[u] = lost[u]
          /\ DetectsAtWrite => WriteSet(u) \cap Writes(CommitOf(t)) = {}
    BY <1>a, <2>1, <2>2, <2>3 DEF HInv, RowsLocked
  <2>9. CommitOf(t) \in CommitRecord
    BY CommitIsRecord
  <2> QED  BY <2>1, <2>3, <2>5, <2>6, <2>7, <2>8, <2>9, <1>b, AppendStep
<1>8. ASSUME NEW e \in Entity, WriteOutside(e) PROVE HInv'
  <2>1. PICK c \in CommitRecord : /\ log' = Append(log, c)
                                  /\ c.tx = Outside /\ c.seen = {} /\ Writes(c) = {e}
    <3>1. /\ Seed({e}) \in CommitRecord /\ Seed({e}).tx = Outside
          /\ Seed({e}).seen = {} /\ Writes(Seed({e})) = {e}
      BY OutsideIsRecord DEF Seed, Writes
    <3> DEFINE d == [Seed({}) EXCEPT !.deleted = {e}]
    <3>2. d \in CommitRecord /\ d.tx = Outside /\ d.seen = {} /\ Writes(d) = {e}
      BY OutsideIsRecord DEF Seed, Writes
    <3>3. log' = Append(log, Seed({e})) \/ log' = Append(log, d)
      BY <1>8 DEF WriteOutside
    <3> HIDE DEF d
    <3> QED  BY <3>1, <3>2, <3>3
  <2>2. /\ UNCHANGED <<status, snapshot, work, lost>>
        /\ DetectsAtWrite => \A t \in Tx : ~(status[t] = "open" /\ e \in WriteSet(t))
    BY <1>8 DEF WriteOutside
  <2>3. \A u \in Tx : WriteSet(u)' = WriteSet(u)
    BY <1>a, <2>2
  <2> QED  BY <2>1, <2>2, <2>3, <1>b, AppendStep
<1>9. CASE UNCHANGED vars
  <2>1. UNCHANGED <<log, status, snapshot, work, lost>>
    BY <1>9 DEF vars
  <2>2. \A u \in Tx : WriteSet(u)' = WriteSet(u)
    BY <1>a, <2>1
  <2> QED  BY <2>1, <2>2, <1>b, QuietStep
<1>10. ASSUME NEW t \in Tx, WritesSomething(t) PROVE HInv'
  BY <1>3, <1>10, WritesAreOne
<1>11. ASSUME NEW t \in Tx, Commit(t) \/ Rollback(t) PROVE HInv'
  <2>1. CASE Commit(t) /\ ~Refusable(t)
    BY <1>7, <2>1
  <2>2. CASE Commit(t) /\ Refusable(t)
    BY <1>6, <2>2 DEF Commit
  <2>3. CASE Rollback(t)
    BY <1>6, <2>3 DEF Rollback
  <2> QED  BY <1>11, <2>1, <2>2, <2>3
<1> QED
  BY <1>1, <1>2, <1>4, <1>5, <1>8, <1>9, <1>10, <1>11 DEF Next, WritesSomething

-----------------------------------------------------------------------------
\* A lost race.

\* It is not forgotten by an open transaction that keeps what it recorded as
\* lost and what it staged, whatever is committed meanwhile.
LEMMA LostKept ==
    ASSUME WInv, DetectsAtWrite' = DetectsAtWrite, NEW t \in Tx, status[t] = "open", LostRace(t),
           status'[t] = "open", snapshot'[t] = snapshot[t],
           lost[t] => lost'[t], WriteSet(t) \subseteq WriteSet(t)',
           log' = log \/ \E c \in CommitRecord : log' = Append(log, c)
    PROVE  LostRace(t)'
<1>1. CASE lost[t]
  BY <1>1 DEF LostRace
<1>2. CASE ~lost[t]
  <2>1. PICK e \in WriteSet(t) : RivalWrote(t, e)
    BY <1>2 DEF LostRace
  <2>2. ~DetectsAtWrite
    BY <1>2 DEF LostRace
  <2>3. e \in Entity
    BY DEF WInv, TypeOK, WriteSet, Work
  <2>4. RivalWrote(t, e)'
    <3>1. CASE log' = log
      BY <2>1, <3>1 DEF RivalWrote, WrittenAfter, Writes
    <3>2. CASE \E c \in CommitRecord : log' = Append(log, c)
      BY <2>1, <2>3, <3>2, RivalsOfAppend
    <3> QED  BY <3>1, <3>2
  <2> QED  BY <2>1, <2>2, <2>4 DEF LostRace
<1> QED  BY <1>1, <1>2

LEMMA LostStep ==
    ASSUME WInv, [Next]_vars, NEW t \in Tx, status[t] = "open", LostRace(t)
    PROVE  \/ status'[t] = "open" /\ LostRace(t)'
           \/ status'[t] = "rolledBack"
<1>0. /\ work \in [Tx -> Work] /\ lost \in [Tx -> BOOLEAN]
      /\ status \in [Tx -> {"unborn", "open", "committed", "rolledBack"}]
      /\ snapshot \in [Tx -> Nat]
  BY DEF WInv, TypeOK
<1>b. DetectsAtWrite' = DetectsAtWrite
  BY DEF Next, vars, DetectsAtWrite
<1>a. work'[t] = work[t] => WriteSet(t)' = WriteSet(t)
  BY DEF WriteSet
<1>1. ASSUME NEW u \in Tx, Begin(u) PROVE status'[t] = "open" /\ LostRace(t)'
  <2>1. /\ status'[t] = "open" /\ snapshot'[t] = snapshot[t]
        /\ work'[t] = work[t] /\ lost'[t] = lost[t] /\ log' = log
    BY <1>0, <1>1 DEF Begin
  <2> QED  BY <1>a, <2>1, <1>b, LostKept
<1>2. ASSUME NEW u \in Tx, NEW entities \in SUBSET Entity, Read(u, entities)
      PROVE  status'[t] = "open" /\ LostRace(t)'
  <2>1. /\ work' = [work EXCEPT ![u] = [work[u] EXCEPT
                      !.reads = @ \cup entities,
                      !.seen = @ \cup (entities \ WriteSet(u))]]
        /\ UNCHANGED <<log, status, snapshot, lost>>
    BY <1>0, <1>2 DEF Read
  <2>2. work[u] \in Work
    BY <1>0
  <2>3. work'[t].saved = work[t].saved /\ work'[t].deleted = work[t].deleted
    BY <1>0, <2>1, <2>2 DEF Work
  <2>4. WriteSet(t)' = WriteSet(t)
    BY <2>3 DEF WriteSet
  <2> QED  BY <2>1, <2>4, <1>b, LostKept
<1>3. ASSUME NEW u \in Tx, NEW entities \in SUBSET Entity, NEW w \in Work,
             Stages(u, entities, w), Write(u, entities, w)
      PROVE  status'[t] = "open" /\ LostRace(t)'
  <2>1. UNCHANGED <<log, status, snapshot>>
    BY <1>3 DEF Write
  <2>2. lost[t] => lost'[t]
    BY <1>0, <1>3 DEF Write
  <2>3. work' = work \/ work' = [work EXCEPT ![u] = w]
    BY <1>3 DEF Write
  <2>4. WriteSet(t) \subseteq WriteSet(t)'
    <3>1. work'[t] = work[t] \/ (t = u /\ work'[t] = w)
      BY <1>0, <2>3
    <3>2. t = u /\ work'[t] = w => WriteSet(t)' = WriteSet(t) \cup entities
      BY <1>3 DEF Stages, Staged, WriteSet
    <3> QED  BY <1>a, <3>1, <3>2
  <2> QED  BY <2>1, <2>2, <2>4, <1>b, LostKept
<1>4. ASSUME NEW u \in Tx,
             Savepoint(u) \/ \E k \in 1 .. Len(savepoints[u]) : ReleaseSavepoint(u, k)
      PROVE  status'[t] = "open" /\ LostRace(t)'
  <2>1. UNCHANGED <<log, status, snapshot, work, lost>>
    BY <1>4 DEF Savepoint, ReleaseSavepoint
  <2> QED  BY <1>a, <2>1, <1>b, LostKept
<1>5. ASSUME NEW u \in Tx, NEW k \in 1 .. Len(savepoints[u]), RollbackToSavepoint(u, k)
      PROVE  status'[t] = "open" /\ LostRace(t)'
  <2>1. /\ UNCHANGED <<log, status, snapshot>>
        /\ work' = [work EXCEPT ![u] = savepoints[u][k]]
        /\ lost' = [lost EXCEPT ![u] = LostRace(u)]
    BY <1>5 DEF RollbackToSavepoint
  <2>2. CASE u = t
    <3>1. lost'[t]
      BY <1>0, <2>1, <2>2
    <3> QED  BY <2>1, <3>1 DEF LostRace
  <2>3. CASE u # t
    <3>1. work'[t] = work[t] /\ lost'[t] = lost[t]
      BY <1>0, <2>1, <2>3
    <3> QED  BY <1>a, <2>1, <3>1, <1>b, LostKept
  <2> QED  BY <2>2, <2>3
<1>6. ASSUME NEW u \in Tx, Commit(u) \/ Rollback(u)
      PROVE  \/ status'[t] = "open" /\ LostRace(t)'
             \/ status'[t] = "rolledBack"
  <2>1. CASE u = t
    <3>1. Ends(t, "rolledBack")
      BY <1>6, <2>1 DEF Commit, Rollback, Refusable
    <3> QED  BY <1>0, <3>1 DEF Ends
  <2>2. CASE u # t
    <3>1. /\ \E how : Ends(u, how)
          /\ log' = log \/ log' = Append(log, CommitOf(u))
      BY <1>6 DEF Commit, Rollback, CommitOf
    <3>2. /\ status'[t] = "open" /\ snapshot'[t] = snapshot[t]
          /\ work'[t] = work[t] /\ lost'[t] = lost[t]
      BY <1>0, <2>2, <3>1 DEF Ends
    <3>3. log' = log \/ \E c \in CommitRecord : log' = Append(log, c)
      BY <3>1, CommitIsRecord
    <3> QED  BY <1>a, <3>2, <3>3, <1>b, LostKept
  <2> QED  BY <2>1, <2>2
<1>7. ASSUME NEW e \in Entity, WriteOutside(e) PROVE status'[t] = "open" /\ LostRace(t)'
  <2>1. UNCHANGED <<status, snapshot, work, lost>>
    BY <1>7 DEF WriteOutside
  <2>2. \E c \in CommitRecord : log' = Append(log, c)
    BY <1>7, OutsideIsRecord DEF WriteOutside
  <2> QED  BY <1>a, <2>1, <2>2, <1>b, LostKept
<1>8. CASE UNCHANGED vars
  <2>1. UNCHANGED <<log, status, snapshot, work, lost>>
    BY <1>8 DEF vars
  <2> QED  BY <1>a, <2>1, <1>b, LostKept
<1>9. ASSUME NEW u \in Tx, WritesSomething(u) PROVE status'[t] = "open" /\ LostRace(t)'
  BY <1>3, <1>9, WritesAreOne
<1> QED
  BY <1>1, <1>2, <1>4, <1>5, <1>6, <1>7, <1>8, <1>9 DEF Next, WritesSomething

-----------------------------------------------------------------------------
\* The results.

\* What the two kinds of preservation come to: WInv and HInv always hold.
THEOREM Invariance == Spec => [](WInv /\ HInv)
<1>1. Init => WInv /\ HInv
  <2> SUFFICES ASSUME Init PROVE WInv /\ HInv
    OBVIOUS
  <2>1. PICK entities \in SUBSET Entity : log = <<Seed(entities)>>
    BY DEF Init
  <2>2. Seed(entities) \in CommitRecord /\ Seed(entities).seen = {}
    BY DEF Seed, CommitRecord
  <2>3. log \in Seq(CommitRecord) /\ Len(log) = 1 /\ log[1].seen = {}
    BY <2>1, <2>2
  <2>4. /\ status = [t \in Tx |-> "unborn"] /\ snapshot = [t \in Tx |-> 0]
        /\ work = [t \in Tx |-> NoWork] /\ savepoints = [t \in Tx |-> <<>>]
        /\ lost = [t \in Tx |-> FALSE] /\ aborted = [t \in Tx |-> FALSE]
    BY DEF Init
  <2>5. /\ \A t \in Tx : NoWork \in Work /\ <<>> \in Seq(Work)
        /\ NoWork.saved \cap NoWork.deleted = {}
    BY NoWorkGood DEF NoWork
  <2>6. TypeOK
    BY <2>3, <2>4, <2>5 DEF Init, TypeOK
  <2>7. WorkGood /\ SnapshotsKnown
    BY <2>3, <2>4, NoWorkGood DEF WorkGood, SnapshotsKnown
  <2>8. RowsLocked /\ OneAnswer
    BY <2>4 DEF RowsLocked, OneAnswer
  <2>9. NoLostUpdate /\ SerialInCommitOrder
    <3>1. DOMAIN log = {1}
      BY <2>3
    <3> QED  BY <2>3, <3>1 DEF NoLostUpdate, SerialInCommitOrder
  <2> QED  BY <2>6, <2>7, <2>8, <2>9 DEF WInv, HInv
<1>2. WInv /\ HInv /\ [Next]_vars => WInv' /\ HInv'
  BY WPreserved, HPreserved
<1> QED  BY <1>1, <1>2, PTL DEF Spec

\* Types hold: the state of TransactionState and the history of commits stay in
\* their types, and an entity is staged in one of Buffer and Deletes at most.
THEOREM Typed == Spec => []TypeOK
<1>1. WInv /\ HInv => TypeOK
  BY DEF WInv
<1> QED  BY <1>1, Invariance, PTL

\* First-committer-wins (Commit, ErrConflict), on a backend of either kind and
\* however many transactions, entities and savepoints there are.
THEOREM NothingLost == Spec => []NoLostUpdate
<1>1. WInv /\ HInv => NoLostUpdate
  BY DEF HInv
<1> QED  BY <1>1, Invariance, PTL

\* The read set as Commit validates it, and the write set for what
\* CompareAndSave compared, cover everything a transaction relies on.
THEOREM Serial == Spec => []SerialInCommitOrder
<1>1. WInv /\ HInv => SerialInCommitOrder
  BY DEF HInv
<1> QED  BY <1>1, Invariance, PTL

\* LostRace has the same answer on every backend (transaction.go:164-177).
THEOREM SameAnswer == Spec => []OneAnswer
<1>1. WInv /\ HInv => OneAnswer
  BY DEF HInv
<1> QED  BY <1>1, Invariance, PTL

\* Once LostRace answers true it stays true until Commit refuses or Rollback
\* ends the transaction (transaction.go:139-146, 189-190).
THEOREM StaysLost == Spec => LostStaysLost
<1>1. WInv /\ [Next]_vars =>
        [\A t \in Tx : status[t] = "open" /\ LostRace(t) =>
            \/ status'[t] = "open" /\ LostRace(t)'
            \/ status'[t] = "rolledBack"]_vars
  BY LostStep
<1>2. WInv /\ HInv => WInv
  OBVIOUS
<1> QED  BY <1>1, <1>2, Invariance, PTL DEF Spec, LostStaysLost
=============================================================================
