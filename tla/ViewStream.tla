----------------------------- MODULE ViewStream -----------------------------
(***************************************************************************)
(* What a reader of a merged stream is promised: the rows of one fixed     *)
(* view, each once, in the order, and then the end; or, when the committed *)
(* source is broken, a prefix of them and then an error for good.          *)
(***************************************************************************)
EXTENDS EntityOrder

VARIABLES view,       \* the rows the reader is to see, each with its origin
          broken,     \* whether the committed source fails somewhere
          delivered,  \* the rows handed over so far
          outcome     \* "open", "end" or "error"

vars == <<view, broken, delivered, outcome>>

Pending == view \ {delivered[i] : i \in DOMAIN delivered}

Init == delivered = <<>> /\ outcome = "open"

Deliver == /\ outcome = "open"
           /\ \E r \in Pending :
                /\ \A q \in Pending \ {r} : Less(r.row, q.row)
                /\ delivered' = Append(delivered, r)
           /\ UNCHANGED <<view, broken, outcome>>

End == /\ outcome = "open" /\ Pending = {}
       /\ outcome' = "end"
       /\ UNCHANGED <<view, broken, delivered>>

Fail == /\ outcome = "open" /\ broken
        /\ outcome' = "error"
        /\ UNCHANGED <<view, broken, delivered>>

Next == Deliver \/ End \/ Fail

Spec == Init /\ [][Next]_vars
=============================================================================
