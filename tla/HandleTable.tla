---------------------------- MODULE HandleTable ----------------------------
(***************************************************************************)
(* What the browser bridge promises of its scalar handles, whatever slots,  *)
(* generations and replacements it uses inside: a handle names at most one  *)
(* resource, ever.  A call may give up some live handles and issue others;  *)
(* an issued one has never been seen before, and after teardown none is     *)
(* issued any more.                                                         *)
(***************************************************************************)
CONSTANT Handles

VARIABLES
    live,     \* handles that name a resource
    dead,     \* handles that named one once
    closed    \* the bridge is torn down

vars == <<live, dead, closed>>

Init == live = {} /\ dead = {} /\ closed = FALSE

Call ==
    /\ closed = FALSE
    /\ \E gone \in SUBSET live, new \in SUBSET (Handles \ (live \cup dead)) :
        /\ live' = (live \ gone) \cup new
        /\ dead' = dead \cup gone
    /\ UNCHANGED closed

Teardown ==
    /\ closed' = TRUE
    /\ live' = {}
    /\ dead' = dead \cup live

Spec == Init /\ [][Call \/ Teardown]_vars
=============================================================================
