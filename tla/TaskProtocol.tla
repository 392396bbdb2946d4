---------------------------- MODULE TaskProtocol ----------------------------
(***************************************************************************)
(* What the ABI promises of an asynchronous task and its completion pipe,   *)
(* whatever the worker, the supervisor and the racing callers do: one       *)
(* linearization point decides between completion and cancellation, a       *)
(* completed result is taken at most once, and the pipe shows one readiness *)
(* edge, never before the decision and always after it.                     *)
(***************************************************************************)
CONSTANT Tasks

VARIABLES
    state,   \* the decision so far
    woken    \* the pipe has shown its byte, or its end

vars == <<state, woken>>

Decided == {"Completed", "Taken", "Cancelled"}

Start(t) ==
    /\ state[t] = "Unused"
    /\ state' = [state EXCEPT ![t] = "Running"]
    /\ UNCHANGED woken

Complete(t) ==
    /\ state[t] = "Running"
    /\ state' = [state EXCEPT ![t] = "Completed"]
    /\ UNCHANGED woken

Take(t) ==
    /\ state[t] = "Completed"
    /\ state' = [state EXCEPT ![t] = "Taken"]
    /\ UNCHANGED woken

Cancel(t) ==
    /\ state[t] \in {"Running", "Completed"}
    /\ state' = [state EXCEPT ![t] = "Cancelled"]
    /\ UNCHANGED woken

Wake(t) ==
    /\ state[t] \in Decided
    /\ ~woken[t]
    /\ woken' = [woken EXCEPT ![t] = TRUE]
    /\ UNCHANGED state

Init ==
    /\ state = [t \in Tasks |-> "Unused"]
    /\ woken = [t \in Tasks |-> FALSE]

Next == \E t \in Tasks :
            Start(t) \/ Complete(t) \/ Take(t) \/ Cancel(t) \/ Wake(t)

SafeSpec == Init /\ [][Next]_vars

Spec == SafeSpec /\ \A t \in Tasks : WF_vars(Wake(t))
=============================================================================
