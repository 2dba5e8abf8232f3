---------------------------- MODULE EntityTimeline ----------------------------
(***************************************************************************)
(* What readers and writers of entities are promised, without versions:    *)
(* one content per entity and instant.  A transaction works on a copy of   *)
(* the present, and all it changed becomes the present at once, at one     *)
(* instant.  What was shown of an earlier instant is never changed.        *)
(***************************************************************************)
EXTENDS Naturals

CONSTANTS Id, Content, Absent, Tx, MaxInstant

VARIABLES now,      \* the instant of the present
          shown,    \* instant -> entity -> what a read as at it answers
          open,     \* the transactions under way
          view,     \* transaction -> entity -> what it reads
          wrote     \* transaction -> the entities it changed

vars == <<now, shown, open, view, wrote>>

Nothing == [id \in Id |-> Absent]

Init == /\ now = 0
        /\ shown = [i \in 0 .. MaxInstant |-> Nothing]
        /\ open = {}
        /\ view = [t \in Tx |-> Nothing]
        /\ wrote = [t \in Tx |-> {}]

Begin(t) == /\ t \notin open
            /\ open' = open \cup {t}
            /\ view' = [view EXCEPT ![t] = shown[now]]
            /\ UNCHANGED <<now, shown, wrote>>

\* Only the transaction's own copy changes, at entities it has then written.
Write(t) == /\ t \in open
            /\ \A u \in Tx \ {t} : view'[u] = view[u] /\ wrote'[u] = wrote[u]
            /\ wrote[t] \subseteq wrote'[t]
            /\ \A id \in Id : view'[t][id] # view[t][id] => id \in wrote'[t]
            /\ UNCHANGED <<now, shown, open>>

\* From instant s on, the entities show the new content.
ShowFrom(s, ids, new) ==
    /\ s >= now /\ now' = s
    /\ shown' = [i \in 0 .. MaxInstant |->
                   IF i < s THEN shown[i]
                   ELSE [id \in Id |-> IF id \in ids THEN new[id] ELSE shown[now][id]]]

Close(t) == /\ t \in open
            /\ open' = open \ {t}
            /\ view' = [view EXCEPT ![t] = Nothing]
            /\ wrote' = [wrote EXCEPT ![t] = {}]

Commit(t) == /\ Close(t)
             /\ \E s \in 0 .. MaxInstant : ShowFrom(s, wrote[t], view[t])

Rollback(t) == Close(t) /\ UNCHANGED <<now, shown>>

\* A change of one entity without a transaction.
Change(id, c) ==
    /\ \E s \in 0 .. MaxInstant : ShowFrom(s, {id}, [Nothing EXCEPT ![id] = c])
    /\ UNCHANGED <<open, view, wrote>>

Next == \/ \E t \in Tx : Begin(t) \/ Write(t) \/ Commit(t) \/ Rollback(t)
        \/ \E id \in Id, c \in Content \cup {Absent} : Change(id, c)

Spec == Init /\ [][Next]_vars
=============================================================================
