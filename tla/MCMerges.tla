------------------------------ MODULE MCMerges ------------------------------
(* One stream is read to its end, and then the same inputs are asked for as  *)
(* one page (MergeBounded), of every limit.  The page has variables of its   *)
(* own: the stream stays as it was left.                                     *)
EXTENDS MCMergeOrdered, MergeBounded

MCLimits == 0..3

InitMerges == /\ Init
              /\ limit = 0 /\ fetched = 0 /\ laid = 0 /\ page = <<>>
              /\ answer = "none"

StreamIsRead == result \in {"end", "error"}

\* The call of MergeBounded, its limit chosen by the caller.
CallPage == /\ StreamIsRead
            /\ limit = 0 /\ answer = "none"
            /\ limit' \in Limits \ {0}
            /\ UNCHANGED <<vars, fetched, laid, page, answer>>

NextMerges == \/ Next /\ UNCHANGED pageVars
              \/ CallPage
              \/ StreamIsRead /\ NextPage /\ UNCHANGED vars

SpecMerges == InitMerges /\ [][NextMerges]_<<vars, pageVars>>
=============================================================================
