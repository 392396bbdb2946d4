--------------------------- MODULE MCBoundedRead ---------------------------
(***************************************************************************)
(* Instances of BoundedRead.  The word is wider than twice the limit, as    *)
(* u64 is, and the object longer than the limit, so that every comparison   *)
(* has both outcomes and the doubling meets the limit from below.           *)
(***************************************************************************)
EXTENDS BoundedRead
=============================================================================
