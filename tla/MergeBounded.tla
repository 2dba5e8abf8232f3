---------------------------- MODULE MergeBounded ----------------------------
(***************************************************************************)
(* MergeBounded (src/merge_bounded.go): the same two inputs as             *)
(* MergeOrdered, merged into one slice of at most limit rows or refused.   *)
(* A step is the part of the call that ends at a call of next, or at the   *)
(* return: the limit check and the first advance, one row taken, the       *)
(* return.  fetched counts the calls of next, so that committed[fetched]   *)
(* is cur; here a failing call of next ends the merge at once, and rows    *)
(* that compare equal are both kept, the committed one first.              *)
(***************************************************************************)
EXTENDS MergeInputs, FiniteSets

CONSTANT Limits     \* the limits a caller passes, 0 and negative ones included

ASSUME LimitsAssumption == Limits \subseteq Int

VARIABLES limit,            \* the argument MergeOrdered has not
          fetched, laid,    \* the calls of next, and ai
          page,             \* out
          answer            \* "none" before the call, "running", or what it returned

request == <<args, limit>>
pageVars == <<limit, fetched, laid, page, answer>>

InitPage == /\ Given
            /\ limit \in Limits
            /\ fetched = 0 /\ laid = 0 /\ page = <<>>
            /\ answer = "none"

(* An error of advance leaves the merge at once. *)
FetchNext == \E q \in (fetched + 1)..(Len(committed) + 1) :
               /\ Stops(q)
               /\ \A r \in (fetched + 1)..(q - 1) : ~Stops(r)
               /\ fetched' = q
               /\ answer' = IF q = failAt THEN "error" ELSE "running"

HaveCommitted == fetched \in DOMAIN committed
HaveOverlay   == laid < Len(adds)

\* Mutants of Full: the merge stops at limit rows; it never stops early.
FullAtLimit == Len(page) >= limit
NeverFull   == FALSE

Full == Len(page) >= limit + 1

RefuseLimit == /\ answer = "none"
               /\ limit <= 0
               /\ answer' = "contract"
               /\ UNCHANGED <<fetched, laid, page>>

StartPage == /\ answer = "none"
             /\ limit > 0
             /\ FetchNext
             /\ UNCHANGED <<laid, page>>

PageAdd == /\ answer = "running" /\ ~Full
           /\ HaveOverlay
           /\ HaveCommitted => Less(adds[laid + 1], committed[fetched])
           /\ page' = Append(page, [from |-> "overlay", row |-> adds[laid + 1]])
           /\ laid' = laid + 1
           /\ UNCHANGED <<fetched, answer>>

\* The next committed row is pulled before the bound is looked at.  A failing
\* pull drops the row that was taken with everything else.
PageCommitted == /\ answer = "running" /\ ~Full
                 /\ HaveCommitted
                 /\ HaveOverlay => ~Less(adds[laid + 1], committed[fetched])
                 /\ FetchNext
                 /\ page' = IF answer' = "error" THEN page
                            ELSE Append(page, [from |-> "committed", row |-> committed[fetched]])
                 /\ UNCHANGED laid

ReturnPage == /\ answer = "running"
              /\ Full \/ (~HaveCommitted /\ ~HaveOverlay)
              /\ answer' = IF Len(page) > limit THEN "limitExceeded" ELSE "rows"
              /\ UNCHANGED <<fetched, laid, page>>

NextPage == /\ UNCHANGED request
            /\ RefuseLimit \/ StartPage \/ PageAdd \/ PageCommitted \/ ReturnPage

SpecPage == InitPage /\ [][NextPage]_<<args, pageVars>>

-----------------------------------------------------------------------------
\* What the call is asked for: every live committed row and every overlay row.
LiveCommitted == {i \in DOMAIN committed : committed[i].id \notin deleted}
Survivors == {[from |-> "committed", row |-> committed[i]] : i \in LiveCommitted} \cup
             {[from |-> "overlay", row |-> adds[i]] : i \in DOMAIN adds}
SurvivorCount == Cardinality(Survivors)

\* Bounded or fail: rows come back only as the complete merged view, in order,
\* at most limit of them; the bound is reported only when it is exceeded.  A
\* prefix is never returned in place of the refusal.
BoundedOrFail ==
    /\ answer = "rows" =>
         /\ {page[i] : i \in DOMAIN page} = Survivors
         /\ Len(page) = SurvivorCount
         /\ SurvivorCount <= limit
         /\ \A i, j \in DOMAIN page : i < j => ~Less(page[j].row, page[i].row)
    /\ answer = "limitExceeded" => SurvivorCount > limit

\* "Memory is bounded to ~limit+1+len(adds): the committed source is pulled
\* lazily" (merge_bounded.go:14): with laid overlay rows taken, at most
\* limit+1-laid committed rows are taken and one more is buffered.
BoundedFetch ==
    limit > 0 => Cardinality({i \in LiveCommitted : i <= fetched /\ i # failAt}) <= limit + 2 - laid
=============================================================================
