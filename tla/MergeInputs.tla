---------------------------- MODULE MergeInputs ----------------------------
(***************************************************************************)
(* What both merges are given: the committed rows behind a function that   *)
(* hands over the next of them, the rows of the overlay, and the ids the   *)
(* transaction deleted.  Call number failAt of that function fails (0:     *)
(* none does), which may be the call that would find the end.              *)
(***************************************************************************)
EXTENDS EntityOrder

VARIABLES committed, adds, deleted, failAt

args == <<committed, adds, deleted, failAt>>

\* The calls of next that can fail: each row's, and the one that finds the end.
FailPoints(s) == 0..(Len(s) + 1)

Given == /\ committed \in Rows
         /\ adds \in Rows
         /\ deleted \in SUBSET Ids
         /\ failAt \in FailPoints(committed)

(* advance: call next until it fails, ends, or hands over a live row.      *)
Stops(q) == q \in DOMAIN committed \ {failAt} => committed[q].id \notin deleted
=============================================================================
