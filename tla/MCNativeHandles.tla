-------------------------- MODULE MCNativeHandles --------------------------
(***************************************************************************)
(* Instances of NativeHandles.                                              *)
(***************************************************************************)
EXTENDS NativeHandles, TLC

Symmetry == Permutations(Objects) \cup Permutations(Handles)
=============================================================================
