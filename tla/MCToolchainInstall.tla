------------------------- MODULE MCToolchainInstall -------------------------
(***************************************************************************)
(* ToolchainInstall with two targets, which is enough for one to be in the *)
(* way of the other.  They differ in nothing but their names.              *)
(***************************************************************************)
EXTENDS ToolchainInstall, TLC

TargetSymmetry == Permutations(Targets)
=============================================================================
