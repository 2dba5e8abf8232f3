----------------------------- MODULE MCSearchJobs -----------------------------
(* SearchJobs on a small instance; without symmetry, for Finishes.            *)
EXTENDS SearchJobs
=============================================================================
