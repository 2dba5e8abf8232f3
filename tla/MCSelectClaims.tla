--------------------------- MODULE MCSelectClaims ---------------------------
(* Two tenants, two entity ids that both use, two times and four tasks: a   *)
(* tenant with several entities and an entity with several tasks meet every *)
(* mix of a used up, a partial and a full quota.                            *)
EXTENDS SelectClaims

MCTenants == {1, 2}
MCEntities == {1, 2}
MCTimes == {1, 2}
MCLimits == {0, 3}
MCPerTenantLimits == {1, 2}
MCInProgress == {-1, 0, 2}
=============================================================================
