-------------------------- MODULE MCScheduledTasks --------------------------
EXTENDS ScheduledTasks, TLC

CONSTANTS t1, t2, e1, o1, o2, x1, x2

\* Two tasks of one entity: a claim of either is in the way of the other.
TwoTasks == {t1, t2}
OneEntity == {e1}
OneEntityOf == [t \in {t1, t2} |-> e1]

\* One task, whose lives the owners and the transactions contend for.
OneTask == {t1}
OneTaskOf == [t \in {t1} |-> e1]

Owners == {o1, o2}
Txs == {x1, x2}
OneTx == {x1}

SiblingSymmetry == Permutations(Owners) \cup Permutations(TwoTasks)
=============================================================================
