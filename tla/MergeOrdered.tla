---------------------------- MODULE MergeOrdered ----------------------------
(***************************************************************************)
(* The pull stream MergeOrdered returns (src/merge_ordered.go).  One step  *)
(* is one call of the returned function.  The variables of its closure     *)
(* are ai and the one-ahead buffer: pos is the number of calls of next so  *)
(* far, so started is pos > 0, cur is committed[pos] (Buffered), and       *)
(* pendingErr is pos = failAt.                                             *)
(*                                                                         *)
(* The arguments of MergeInputs are fixed when the stream is made.         *)
(***************************************************************************)
EXTENDS MergeInputs

VARIABLES pos, ai,   \* the closure
          out,       \* every row yielded, with its origin
          result     \* what the last call returned

vars == <<args, pos, ai, out, result>>

Init == /\ Given
        /\ pos = 0
        /\ ai = 0
        /\ out = <<>>
        /\ result = "none"

AdvancesTo(p, q) == /\ q \in (p + 1)..(Len(committed) + 1)
                    /\ Stops(q)
                    /\ \A r \in (p + 1)..(q - 1) : ~Stops(r)

Advance(p) == \E q \in 1..(Len(committed) + 1) : AdvancesTo(p, q) /\ pos' = q

\* haveC and haveA of the switch, with the buffer filled by call p of next.
Buffered(p) == p \in DOMAIN committed \ {failAt}
HaveAdd     == ai < Len(adds)

Yield(origin, row) == /\ out' = Append(out, [from |-> origin, row |-> row])
                      /\ result' = "row"

-----------------------------------------------------------------------------
(* The cases of one pull, p being the buffer's call of next. *)

\* Mutants of TakeAdd: the overlay is not compared with the committed row; the
\* pending error is looked at only when the overlay is used up.
TakeAddUncompared(p) == /\ p # failAt
                        /\ HaveAdd
                        /\ Yield("overlay", adds[ai + 1])
                        /\ ai' = ai + 1
                        /\ pos' = p

TakeAddBeforeError(p) == /\ HaveAdd
                         /\ Buffered(p) => Less(adds[ai + 1], committed[p])
                         /\ Yield("overlay", adds[ai + 1])
                         /\ ai' = ai + 1
                         /\ pos' = p

\* The overlay's row sorts first, or there is no committed row left.
TakeAdd(p) == /\ p # failAt
              /\ HaveAdd
              /\ Buffered(p) => Less(adds[ai + 1], committed[p])
              /\ Yield("overlay", adds[ai + 1])
              /\ ai' = ai + 1
              /\ pos' = p

\* Mutant of TakeCollision: the shadowed committed row is not consumed.
TakeCollisionKeeps(p) == /\ Buffered(p)
                         /\ HaveAdd
                         /\ adds[ai + 1] = committed[p]
                         /\ Yield("overlay", adds[ai + 1])
                         /\ ai' = ai + 1
                         /\ pos' = p

\* c == 0: the overlay wins and the committed row is consumed unseen.
TakeCollision(p) == /\ Buffered(p)
                    /\ HaveAdd
                    /\ adds[ai + 1] = committed[p]
                    /\ Yield("overlay", adds[ai + 1])
                    /\ ai' = ai + 1
                    /\ Advance(p)

TakeCommitted(p) == /\ Buffered(p)
                    /\ HaveAdd => Less(committed[p], adds[ai + 1])
                    /\ Yield("committed", committed[p])
                    /\ Advance(p)
                    /\ UNCHANGED ai

ReturnEnd(p) == /\ p # failAt
                /\ ~HaveAdd
                /\ ~Buffered(p)
                /\ result' = "end"
                /\ pos' = p
                /\ UNCHANGED <<ai, out>>

ReturnError(p) == /\ p = failAt
                  /\ result' = "error"
                  /\ pos' = p
                  /\ UNCHANGED <<ai, out>>

\* The first call fills the buffer before anything else.
Primed(p) == IF pos = 0 THEN AdvancesTo(0, p) ELSE p = pos

Pull == /\ \E p \in 1..(Len(committed) + 1) :
             /\ Primed(p)
             /\ \/ ReturnError(p)
                \/ TakeAdd(p)
                \/ TakeCollision(p)
                \/ TakeCommitted(p)
                \/ ReturnEnd(p)
        /\ UNCHANGED args

Next == Pull

Spec == Init /\ [][Next]_vars

-----------------------------------------------------------------------------
Yielded == {out[i].row : i \in DOMAIN out}

TypeOK == /\ committed \in Seq(Entity) /\ Sorted(committed)
          /\ adds \in Seq(Entity) /\ Sorted(adds)
          /\ deleted \in SUBSET Ids
          /\ failAt \in FailPoints(committed)
          /\ pos \in 0..(Len(committed) + 1)
          /\ ai \in 0..Len(adds)
          /\ out \in Seq([from : {"overlay", "committed"}, row : Entity])
          /\ result \in {"none", "row", "end", "error"}

\* The stream hands over its rows in the merged order, none of them twice.
InOrder == \A i, j \in DOMAIN out : i < j => Less(out[i].row, out[j].row)

\* When the source's error surfaces, exactly the rows whose place in the order
\* is known have been yielded: the live rows fetched before the failure and the
\* overlay rows that sort no later than the last of them.
FetchedLive == {committed[i] : i \in {i \in 1..(pos - 1) : committed[i].id \notin deleted}}
ErrorAfterFetched ==
    result = "error" =>
      Yielded = FetchedLive \cup
                {adds[i] : i \in {i \in DOMAIN adds :
                    \E c \in FetchedLive : c = adds[i] \/ Less(adds[i], c)}}

\* The transaction's view: every overlay row as the overlay's, and every live
\* committed row the overlay does not replace.
View == {[from |-> "overlay", row |-> adds[i]] : i \in DOMAIN adds} \cup
        {[from |-> "committed", row |-> committed[i]] :
            i \in {i \in DOMAIN committed :
                     /\ committed[i].id \notin deleted
                     /\ \A j \in DOMAIN adds : adds[j] # committed[i]}}

\* The closure implements the stream of a view: the rows come one by one in
\* order, the stream ends only when all of them have come, and it fails only
\* when its source does.
Stream == INSTANCE ViewStream WITH
            view <- View,
            broken <- failAt # 0,
            delivered <- out,
            outcome <- IF result \in {"end", "error"} THEN result ELSE "open"
StreamsTheView == Stream!Spec

\* "On an equal-ID collision the overlay entity wins [...] exactly one yield for
\* that ID" (merge_ordered.go:8): no id is yielded twice.
OneYieldPerId == \A i, j \in DOMAIN out : out[i].row.id = out[j].row.id => i = j
=============================================================================
