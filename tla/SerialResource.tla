--------------------------- MODULE SerialResource ---------------------------
(***************************************************************************)
(* What the ABI promises of the synchronous resources, whatever threads     *)
(* call them: every call takes effect at one instant, on a value that only  *)
(* the lifecycle of its kind allows, and answers accordingly.  Locks,       *)
(* waiting and the time a storage call takes do not show.                   *)
(***************************************************************************)
CONSTANTS Callers, Writers, Copiers, Listers, Streams, Readers, NoResource

VARIABLES
    value,   \* the lifecycle state of each resource
    told     \* each caller's last call: <<resource, operation, answer>>

vars == <<value, told>>

Resources == Writers \cup Copiers \cup Listers \cup Streams \cup Readers
Cursors   == Copiers \cup Listers \cup Streams

\* A listing that ended and one that failed are the same to its callers.
EndOf(r)    == IF r \in Listers THEN "Exhausted" ELSE "End"
BrokenOf(r) == IF r \in Listers THEN "Exhausted" ELSE "Failed"

Becomes(r, v) == value' = [value EXCEPT ![r] = v]

\* The call of c, on r for o, is pending and is answered with s.
Answers(c, r, o, s) ==
    /\ told[c] = <<r, o, "Pending">>
    /\ told' = [told EXCEPT ![c] = <<r, o, s>>]

Create(r) == value[r] = "Absent" /\ Becomes(r, "Open") /\ UNCHANGED told

Free(r) == Becomes(r, "Freed") /\ UNCHANGED told

Call(c, r, o) ==
    /\ told' = [told EXCEPT ![c] = <<r, o, "Pending">>]
    /\ UNCHANGED value

Advance(c, r, o) ==
    /\ \/ o = "write" /\ r \in Writers
       \/ o = "next"  /\ r \in Cursors
       \/ o = "read"  /\ r \in Readers
    /\ value[r] = "Open"
    /\ Answers(c, r, o, "Ok")
    /\ UNCHANGED value

ReachEnd(c, r) ==
    /\ r \in Cursors
    /\ value[r] \in {"Open", EndOf(r)}
    /\ Becomes(r, EndOf(r))
    /\ Answers(c, r, "next", "End")

Finish(c, r) ==
    /\ \/ r \in Writers /\ value[r] = "Open"
       \/ r \in Copiers /\ value[r] \in {"Open", "End"}
    /\ Becomes(r, "Finished")
    /\ Answers(c, r, "finish", "Ok")

Abort(c, r) ==
    /\ r \in Writers \cup Copiers
    /\ value[r] \in {"Open", "Aborted"}
    /\ Becomes(r, "Aborted")
    /\ Answers(c, r, "abort", "Ok")

\* Any failed step is final, except that an error of a positioned read leaves
\* its reader open.
Break(c, r, o, s) ==
    /\ r \notin Readers
    /\ value[r] = "Open" \/ (o = "finish" /\ value[r] = "End")
    /\ Becomes(r, BrokenOf(r))
    /\ Answers(c, r, o, s)

ReadFails(c, r) ==
    /\ r \in Readers
    /\ \/ value[r] = "Open" /\ Answers(c, r, "read", "Err") /\ UNCHANGED value
       \/ Becomes(r, "Closed") /\ Answers(c, r, "read", "Panic")

Close(c, r) ==
    /\ r \in Listers \cup Streams \cup Readers
    /\ Becomes(r, "Closed")
    /\ Answers(c, r, "close", "Ok")

Refuse(c, r, o) ==
    /\ value[r] # "Open"
    /\ o = "next"   => value[r] # EndOf(r)
    /\ o = "finish" => value[r] # "End"
    /\ o = "abort"  => value[r] # "Aborted"
    /\ Answers(c, r, o, "Closed")
    /\ UNCHANGED value

Ops == {"write", "next", "read", "finish", "abort", "close"}

Init ==
    /\ value = [r \in Resources |-> "Absent"]
    /\ told = [c \in Callers |-> <<NoResource, "none", "None">>]

Next ==
    \/ \E r \in Resources : Create(r) \/ Free(r)
    \/ \E c \in Callers, r \in Resources :
        \/ ReachEnd(c, r) \/ Finish(c, r) \/ Abort(c, r)
        \/ ReadFails(c, r) \/ Close(c, r)
        \/ \E o \in Ops :
            \/ Call(c, r, o) \/ Advance(c, r, o) \/ Refuse(c, r, o)
            \/ \E s \in {"Err", "Panic"} : Break(c, r, o, s)

Spec == Init /\ [][Next]_vars
=============================================================================
