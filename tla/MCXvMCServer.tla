---------------------------- MODULE MCXvMCServer ----------------------------
(* Small instances of ClientContext over XvMCServer for TLC.               *)
EXTENDS ClientContext, TLC

Symmetry == Permutations(Ids) \cup Permutations(DrmBlocks) \cup Permutations(XBlocks)
=============================================================================
