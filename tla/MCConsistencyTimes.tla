-------------------------- MODULE MCConsistencyTimes --------------------------
(* ConsistencyTimes with a save of each of two tenants.                        *)
EXTENDS ConsistencyTimes

CONSTANTS a1, b1, a, b

MCSaves == {a1, b1}
MCTenants == {a, b}
MCTenantOf == [s \in MCSaves |-> IF s = b1 THEN b ELSE a]
=============================================================================
