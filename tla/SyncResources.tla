--------------------------- MODULE SyncResources ---------------------------
(***************************************************************************)
(* The synchronous resources of the native library and the foreign threads *)
(* that share them (native/rust/src/lib.rs).                                *)
(*                                                                         *)
(* A Writer or a Copier is TAKEN out of its mutex, which then says Busy,    *)
(* while the storage call runs with no lock held; other callers wait on a   *)
(* condition variable.  A Lister or a ReadStream is used with its mutex     *)
(* LOCKED for the whole call, a terminal state standing in for the cursor.  *)
(* A Reader is used under a shared lock, and closed under the exclusive one.*)
(*                                                                         *)
(* A call is: Enter, then the lock (Take, Share, Wait, Answer or Close),    *)
(* then, if it reached the storage, Return.  A storage call ends with Ok,   *)
(* End, Err or a contained Panic.  The inner object is dropped by the       *)
(* thread that holds it, after the state is set; no other thread can see    *)
(* it, so the drop is part of that step.                                    *)
(***************************************************************************)
CONSTANTS
    Callers,    \* foreign threads
    Writers, Copiers, Listers, Streams, Readers,
    NoResource  \* what a caller that never made a call works on

Resources == Writers \cup Copiers \cup Listers \cup Streams \cup Readers
Taken     == Writers \cup Copiers
Locked    == Listers \cup Streams

ASSUME KindAssumption ==
    /\ Writers \cap Copiers = {}
    /\ Listers \cap Streams = {}
    /\ Taken \cap Locked = {}
    /\ Readers \cap (Taken \cup Locked) = {}
    /\ NoResource \notin Resources

VARIABLES
    state,   \* what the lock of each resource protects
    at,      \* where each caller stands
    on,      \* the resource its call is about, or was
    op,      \* which call it is, or was
    took,    \* the state the call has moved out of the lock
    answer   \* the status the call returned

vars == <<state, at, on, op, took, answer>>

States   == {"Absent", "Open", "Busy", "End", "Exhausted", "Finished",
             "Aborted", "Failed", "Closed", "Freed"}
Places   == {"Idle", "Locking", "Waiting", "Inside", "Unwound"}
Ops      == {"none", "write", "next", "read", "finish", "abort", "close"}
Answered == {"Ok", "End", "Err", "Panic", "Closed"}

\* The ABI's writer_close is what MoonBit calls finish.
OpsOf(r) ==
    IF r \in Writers THEN {"write", "finish", "abort"}
    ELSE IF r \in Copiers THEN {"next", "finish", "abort"}
    ELSE IF r \in Readers THEN {"read", "close"}
    ELSE {"next", "close"}

EndOf(r)    == IF r \in Listers THEN "Exhausted" ELSE "End"
BrokenOf(r) == IF r \in Listers THEN "Exhausted" ELSE "Failed"

Inside(r) == {c \in Callers : at[c] = "Inside" /\ on[c] = r}

Init ==
    /\ state = [r \in Resources |-> "Absent"]
    /\ at = [c \in Callers |-> "Idle"]
    /\ on = [c \in Callers |-> NoResource]
    /\ op = [c \in Callers |-> "none"]
    /\ took = [c \in Callers |-> "Absent"]
    /\ answer = [c \in Callers |-> "None"]

-----------------------------------------------------------------------------
\* The lock is held across the storage call of everything that is not taken.
Excluded(r) == r \notin Taken /\ Inside(r) # {}

\* Mutant of Takes: a Busy resource is taken again.
TakesBusy(s, o) == s \in {"Open", "Busy"} \/ (s = "End" /\ o = "finish")

Takes(s, o) == s = "Open" \/ (s = "End" /\ o = "finish")

\* What the lock protects while the call has the inner object.
StandIn(r) == IF r \in Taken THEN "Busy" ELSE BrokenOf(r)

\* A call that cannot take the resource restores what it swapped out.
PutBack(s) == s

\* What a call that cannot take the resource is told.
Status(s, o) ==
    IF o = "abort" /\ s = "Aborted" THEN "Ok"
    ELSE IF o = "next" /\ s \in {"End", "Exhausted"} THEN "End"
    ELSE "Closed"

\* Mutant of Notified: the condition variable is not signalled.
NotifiedNobody(r) == at

\* notify_all: whoever waits for r competes for its lock again.
Notified(r) == [c \in Callers |->
    IF at[c] = "Waiting" /\ on[c] = r THEN "Locking" ELSE at[c]]

\* The caller goes home with an answer; the others stand as in places.
Answers(c, s, places) ==
    /\ answer' = [answer EXCEPT ![c] = s]
    /\ at' = [places EXCEPT ![c] = "Idle"]
    /\ took' = [took EXCEPT ![c] = "Absent"]
    /\ UNCHANGED <<on, op>>

-----------------------------------------------------------------------------
\* A resource is created Open by the operator.
Create(r) ==
    /\ state[r] = "Absent"
    /\ state' = [state EXCEPT ![r] = "Open"]
    /\ UNCHANGED <<at, on, op, took, answer>>

Enter(c, r, o) ==
    /\ at[c] = "Idle"
    /\ state[r] \notin {"Absent", "Freed"}
    /\ o \in OpsOf(r)
    /\ at' = [at EXCEPT ![c] = "Locking"]
    /\ on' = [on EXCEPT ![c] = r]
    /\ op' = [op EXCEPT ![c] = o]
    /\ answer' = [answer EXCEPT ![c] = "Pending"]
    /\ UNCHANGED <<state, took>>

\* The call moves the inner object out and leaves a stand-in.
Take(c) ==
    /\ at[c] = "Locking"
    /\ op[c] \notin {"read", "close"}
    /\ ~Excluded(on[c])
    /\ Takes(state[on[c]], op[c])
    /\ took' = [took EXCEPT ![c] = state[on[c]]]
    /\ state' = [state EXCEPT ![on[c]] = StandIn(on[c])]
    /\ at' = [at EXCEPT ![c] = "Inside"]
    /\ UNCHANGED <<on, op, answer>>

\* A positioned read is admitted under the shared lock and borrows.
Share(c) ==
    /\ at[c] = "Locking"
    /\ op[c] = "read"
    /\ state[on[c]] = "Open"
    /\ at' = [at EXCEPT ![c] = "Inside"]
    /\ UNCHANGED <<state, on, op, took, answer>>

Wait(c) ==
    /\ at[c] = "Locking"
    /\ on[c] \in Taken
    /\ state[on[c]] = "Busy"
    /\ at' = [at EXCEPT ![c] = "Waiting"]
    /\ UNCHANGED <<state, on, op, took, answer>>

\* A condition variable may also wake a waiter for no reason.
SpuriousWake(c) ==
    /\ at[c] = "Waiting"
    /\ at' = [at EXCEPT ![c] = "Locking"]
    /\ UNCHANGED <<state, on, op, took, answer>>

\* Mutant of Decided: a caller that finds the resource Failed tries again.
DecidedNotFailed(s) == s \notin {"Busy", "Failed"}

\* Only a Busy resource has no answer yet.
Decided(s) == s # "Busy"

\* Terminal states, and the stable answers, need no storage call.
Answer(c) ==
    /\ at[c] = "Locking"
    /\ op[c] # "close"
    /\ ~Excluded(on[c])
    /\ Decided(state[on[c]])
    /\ ~Takes(state[on[c]], op[c])
    /\ state' = [state EXCEPT ![on[c]] = PutBack(@)]
    /\ Answers(c, Status(state[on[c]], op[c]), at)

\* Mutants of After: a panic or an error gives the object back.
AfterPanicReopens(r, o, res) ==
    IF res \in {"Ok", "Panic"} THEN "Open" ELSE BrokenOf(r)
AfterErrReopens(r, o, res) ==
    IF res = "Panic" THEN BrokenOf(r)
    ELSE IF res = "End" THEN EndOf(r)
    ELSE IF o = "finish" THEN "Finished" ELSE "Open"

\* The state a call leaves behind when the storage answered res.
After(r, o, res) ==
    IF res = "End" THEN EndOf(r)
    ELSE IF res # "Ok" THEN BrokenOf(r)
    ELSE IF o = "finish" THEN "Finished"
    ELSE IF o = "abort" THEN "Aborted"
    ELSE "Open"

Results(o) == {"Ok", "Err", "Panic"} \cup IF o = "next" THEN {"End"} ELSE {}

\* The storage call of a taken or locked resource ends.
Return(c) ==
    /\ at[c] = "Inside"
    /\ on[c] \notin Readers
    /\ \E res \in Results(op[c]) :
        /\ state' = [state EXCEPT ![on[c]] = After(on[c], op[c], res)]
        /\ Answers(c, res, Notified(on[c]))

\* A read gives its borrow back; if it panicked, its reader has to be closed.
ReadReturn(c) ==
    /\ at[c] = "Inside"
    /\ on[c] \in Readers
    /\ \/ \E res \in {"Ok", "Err"} : Answers(c, res, at)
       \/ at' = [at EXCEPT ![c] = "Unwound"] /\ UNCHANGED <<on, op, took, answer>>
    /\ UNCHANGED state

\* close, and what follows a panicked read.
Close(c) ==
    /\ at[c] = "Unwound" \/ (at[c] = "Locking" /\ op[c] = "close")
    /\ ~Excluded(on[c])
    /\ state' = [state EXCEPT ![on[c]] = "Closed"]
    /\ Answers(c, IF at[c] = "Unwound" THEN "Panic" ELSE "Ok", at)

\* The ABI forbids a free that races a call on the same handle.
Free(r) ==
    /\ state[r] \notin {"Absent", "Freed"}
    /\ \A c \in Callers : on[c] = r => at[c] = "Idle"
    /\ state' = [state EXCEPT ![r] = "Freed"]
    /\ UNCHANGED <<at, on, op, took, answer>>

\* The steps a thread makes once it is inside a call.
Proceed(c) ==
    Take(c) \/ Share(c) \/ Wait(c) \/ Answer(c) \/ Return(c) \/ ReadReturn(c) \/ Close(c)

Next ==
    \/ \E r \in Resources : Create(r) \/ Free(r)
    \/ \E c \in Callers : Proceed(c) \/ SpuriousWake(c)
    \/ \E c \in Callers, r \in Resources : \E o \in OpsOf(r) : Enter(c, r, o)

Spec == Init /\ [][Next]_vars

LiveSpec == Spec /\ \A c \in Callers : WF_vars(Proceed(c))

-----------------------------------------------------------------------------
\* The state variables have their types.
TypeOK ==
    /\ state \in [Resources -> States]
    /\ at \in [Callers -> Places]
    /\ on \in [Callers -> Resources \cup {NoResource}]
    /\ op \in [Callers -> Ops]
    /\ took \in [Callers -> {"Absent", "Open", "End"}]
    /\ answer \in [Callers -> {"None", "Pending"} \cup Answered]

\* Serialization (docs/design/c-abi.md, thread contract): at most one call at a
\* time is inside the storage with one Writer, Copier, Lister or ReadStream, and
\* Busy means exactly that someone is.
OneInside ==
    /\ \A c, d \in Callers :
        /\ at[c] = "Inside" /\ at[d] = "Inside"
        /\ on[c] = on[d] /\ on[c] \notin Readers
        => c = d
    /\ \A r \in Resources : state[r] = "Busy" <=> r \in Taken /\ Inside(r) # {}

\* take_writer_for_call and take_copier_for_call wait only while the resource
\* is Busy: nobody sleeps on a resource that could answer, since every change of
\* the state signals the condition variable under the same lock.
NoLostWakeup ==
    \A c \in Callers : at[c] = "Waiting" => state[on[c]] = "Busy"

\* What callers were told of a Writer or Copier is what happened to it: a
\* success of finish or abort, or a failure, is the last thing that happens, so
\* no two threads hear of two different ends, and none hears of an end that a
\* later call undoes.
VerdictsAgree ==
    \A c \in Callers : on[c] \in Taken =>
        /\ op[c] = "finish" /\ answer[c] = "Ok" => state[on[c]] \in {"Finished", "Freed"}
        /\ op[c] = "abort" /\ answer[c] = "Ok" => state[on[c]] \in {"Aborted", "Freed"}
        /\ answer[c] \in {"Err", "Panic"} => state[on[c]] \in {"Failed", "Freed"}

\* Close linearizes (thread contract): admitted calls finish before close, so
\* nobody is inside the storage with a closed Lister, ReadStream or Reader, and
\* once a read has panicked and returned, its Reader is closed.
CloseExcludes ==
    /\ \A r \in Locked \cup Readers : state[r] \in {"Closed", "Freed"} => Inside(r) = {}
    /\ \A c \in Callers :
        on[c] \in Readers /\ answer[c] = "Panic" => state[on[c]] \in {"Closed", "Freed"}

\* Both: no two calls that exclude one another are inside the storage at once.
Excludes == OneInside /\ CloseExcludes

Final == {"Finished", "Aborted", "Failed", "Closed", "Exhausted", "Freed"}

\* The lifecycle as seen between calls never runs backwards: a final state is
\* left only for Closed or Freed, however the threads interleave.  (While a
\* Lister or ReadStream is locked its stand-in is not a state callers can see.)
FinalSticks == [][\A r \in Resources :
    state[r] \in Final /\ Inside(r) = {} =>
        state'[r] \in {state[r], "Closed", "Freed"}]_vars

\* Once a Writer or Copier has reached a final state, every call that was in
\* progress on it, waiting or not, returns.
FinalDrains == \A c \in Callers, r \in Taken :
    (on[c] = r /\ state[r] \in Final) ~> at[c] = "Idle"

-----------------------------------------------------------------------------
\* What callers can see: the value a call has moved out is still the value.
Visible == [r \in Resources |->
    IF r \notin Readers /\ Inside(r) # {}
    THEN took[CHOOSE c \in Inside(r) : TRUE]
    ELSE state[r]]

Told == [c \in Callers |-> <<on[c], op[c], answer[c]>>]

Serial == INSTANCE SerialResource WITH value <- Visible, told <- Told

\* The locks, the waiting and the panics amount to SerialResource: every call
\* takes effect at one instant and is answered as its lifecycle allows.
ImplementsSerial == Serial!Spec

-----------------------------------------------------------------------------
(* The inductive invariant *)

\* The states the enum of each kind has.
StatesOf(r) == {"Absent", "Open", "Freed"} \cup
    IF r \in Writers THEN {"Busy", "Finished", "Aborted", "Failed"}
    ELSE IF r \in Copiers THEN {"Busy", "End", "Finished", "Aborted", "Failed"}
    ELSE IF r \in Listers THEN {"Exhausted", "Closed"}
    ELSE IF r \in Streams THEN {"End", "Failed", "Closed"}
    ELSE {"Closed"}

KindInv == \A r \in Resources : state[r] \in StatesOf(r)

\* A call in progress is a call its resource has, on a live handle.
CallInv ==
    \A c \in Callers : at[c] # "Idle" =>
        /\ on[c] \in Resources
        /\ op[c] \in OpsOf(on[c])
        /\ state[on[c]] \notin {"Absent", "Freed"}
        /\ answer[c] = "Pending"

\* Where a caller stands says what the lock protects.
PlaceInv ==
    /\ \A c \in Callers : at[c] = "Inside" =>
        /\ op[c] # "close"
        /\ on[c] \in Readers => state[on[c]] = "Open"
        /\ on[c] \notin Readers =>
            /\ state[on[c]] = StandIn(on[c])
            /\ Takes(took[c], op[c])
            /\ took[c] = "End" => on[c] \in Copiers
    /\ \A c \in Callers : at[c] = "Waiting" => on[c] \in Taken
    /\ \A c \in Callers : at[c] = "Unwound" => on[c] \in Readers /\ op[c] = "read"

IInv ==
    /\ TypeOK /\ KindInv /\ CallInv /\ PlaceInv
    /\ OneInside /\ NoLostWakeup /\ VerdictsAgree /\ CloseExcludes
=============================================================================
