----------------------------- MODULE MCAbiCall -----------------------------
(***************************************************************************)
(* Instances of AbiCall.  The three limits are apart, so that a length can  *)
(* pass one and fail the next, and the sizes lie on both sides of each.     *)
(***************************************************************************)
EXTENDS AbiCall
=============================================================================
