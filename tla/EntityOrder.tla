---------------------------- MODULE EntityOrder ----------------------------
(***************************************************************************)
(* The entities two merges combine and the total order both inputs are    *)
(* sorted by.  A search or an iteration reads the committed rows in the    *)
(* store's order and lays the transaction's own writes (the overlay) over  *)
(* them.  An entity is abstracted to its id and to the place of its sort   *)
(* values in the order; the id is the order's last key, as it is in        *)
(* LessByOrder.  That there is such a place DocumentSearch checks: there   *)
(* is, of any values but a text that a numeric key reads as NaN.           *)
(***************************************************************************)
EXTENDS Integers, Sequences

CONSTANTS Keys,     \* the sort values, as their places in the order
          Ids,      \* the entity ids, as their places in byte order
          MaxRows   \* bound: the rows of one input

ASSUME OrderAssumption == Keys \subseteq Int /\ Ids \subseteq Int /\ MaxRows \in Nat

Entity == [key : Keys, id : Ids]

\* LessByOrder: the sort values first, the id decides a tie.
Less(a, b) == \/ a.key < b.key
              \/ a.key = b.key /\ a.id < b.id

Sorted(s) == \A i, j \in DOMAIN s : i < j => Less(s[i], s[j])

\* What a store hands over: in order, one row per id.
Rows == {s \in UNION {[1..n -> Entity] : n \in 0..MaxRows} :
            Sorted(s) /\ \A i, j \in DOMAIN s : s[i].id = s[j].id => i = j}
=============================================================================
