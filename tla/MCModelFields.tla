---------------------------- MODULE MCModelFields ----------------------------
(* The fields of a model, from two sides: how readers come by the flattening  *)
(* of its tree (FieldCache: an object, its child, and three reads of either), *)
(* and what becomes of the values of one field (FieldSearch).  Neither reads  *)
(* what the other writes, so a behaviour is about one of them.                *)
EXTENDS MCFieldSearch, FieldCache

CONSTANTS parent, child

TwoNodes == {parent, child}
ChildBelow == [n \in TwoNodes |-> IF n = parent THEN TwoNodes ELSE {child}]

TLCModule == INSTANCE TLC
ReaderSymmetry == TLCModule!Permutations(Reader)

VARIABLE side             \* the side this behaviour is about

InitFields == /\ CacheInit /\ Init
              /\ \/ side = "flattening" /\ pool = CHOOSE p \in Pools : TRUE
                 \/ side = "values" /\ root = [r \in Reader |-> parent]

NextFields == \/ side = "flattening" /\ CacheNext /\ UNCHANGED <<vars, side>>
              \/ side = "values" /\ Next /\ UNCHANGED <<cacheVars, side>>

SpecFields == InitFields /\ [][NextFields]_<<cacheVars, vars, side>>
=============================================================================
