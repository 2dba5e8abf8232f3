--------------------------- MODULE MCMergeOrdered ---------------------------
(* Two sort values and three ids: an overlay row can replace a committed    *)
(* row in place, move it, add one between two others, or be the last.       *)
EXTENDS MergeOrdered

MCKeys == {1, 2}
MCIds == {1, 2, 3}
=============================================================================
