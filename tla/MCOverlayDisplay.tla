--------------------------- MODULE MCOverlayDisplay ---------------------------
(* Small instances of OverlayDisplay for TLC.  Model values stand for      *)
(* contexts, rectangles and attribute values; surface slots are numbers,   *)
(* because the server hands out the lowest free one.                       *)
EXTENDS OverlayDisplay, TLC

MCSrfNos == {0, 1}
MCSrfNos3 == 0..2

Symmetry == Permutations(Ctxs) \cup Permutations(Regions) \cup Permutations(Values)
=============================================================================
