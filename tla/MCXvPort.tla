------------------------------- MODULE MCXvPort -------------------------------
(* Small instances of XvPort for TLC.                                      *)
EXTENDS XvPort, VideoGeometry, OverlayScaling, TLC

CONSTANTS small, large, near,
          MCCropped  \* a part of a large image may be shown

MCTooSmall == {<<large, near>>} \cap (Sizes \X Dims)

MCParts == {<<z, z>> : z \in Sizes} \cup (IF MCCropped THEN {<<small, large>>} ELSE {})

Symmetry ==
  UNION {Permutations(S) : S \in {Blocks, Positions, Clips, Keys, Pans}}
===============================================================================
