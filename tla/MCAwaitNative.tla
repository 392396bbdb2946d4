--------------------------- MODULE MCAwaitNative ---------------------------
(***************************************************************************)
(* Instances of AwaitNative: fibers that overlap on one stream, and a whole *)
(* write on its own writer.                                                 *)
(***************************************************************************)
EXTENDS AwaitNative, TLC

Symmetry == Permutations(Fibers) \cup Permutations(Tasks)
=============================================================================
