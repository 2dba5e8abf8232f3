--------------------------- MODULE MCEntityVersions ---------------------------
(* EntityVersions on small instances, under two loads.  One entity with two    *)
(* contents and a rival model, up to three writes staged at a time   *)
(* (the constants of the configuration); or with it a second entity, saved and *)
(* deleted in the same calls, up to three.                         *)
EXTENDS EntityVersions, TLC

CONSTANTS e1, e2, m1, m2, c1, c2, c3

VARIABLE load     \* which of the two

OfOne == [id: {e1}, model: {m1, m2}, content: {c1, c2}]
OfTwo == [id: Id, model: {m1, m2}, content: {c3}]

DirectToTwo == [id \in Id |-> IF id = e1 THEN 2 ELSE 0]
DirectToOne == [id \in Id |-> IF id = e1 THEN 1 ELSE 0]

Pair == INSTANCE EntityVersions WITH
    Offered <- OfTwo, MaxStaged <- 3, MaxVersions <- DirectToOne

InitEither == load \in {"one", "two"} /\ Init

NextEither == /\ UNCHANGED load
              /\ \/ load = "one" /\ Next
                 \/ load = "two" /\ Pair!Next

SpecEither == InitEither /\ [][NextEither]_<<vars, load>>

Symmetry == Permutations(Tx) \cup Permutations({m1, m2}) \cup Permutations({c1, c2})
=============================================================================
