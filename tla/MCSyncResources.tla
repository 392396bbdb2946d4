-------------------------- MODULE MCSyncResources --------------------------
(***************************************************************************)
(* Instances of SyncResources.  Callers make calls for ever and only their  *)
(* last answer is kept, so no bound is needed.                              *)
(***************************************************************************)
EXTENDS SyncResources
=============================================================================
