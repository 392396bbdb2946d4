--------------------------- MODULE MCNativeAsync ---------------------------
(***************************************************************************)
(* Instances of NativeAsync.  Each task identity is used once, so Tasks     *)
(* bounds the number of start calls: one opens the handle, the others       *)
(* overlap on it.                                                           *)
(***************************************************************************)
EXTENDS NativeAsync, TLC

Symmetry == Permutations(Callers) \cup Permutations(Tasks)
=============================================================================
