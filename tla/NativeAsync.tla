---------------------------- MODULE NativeAsync ----------------------------
(***************************************************************************)
(* The asynchronous half of the native library: ABI tasks                  *)
(* (AsyncTaskShared), the Tokio worker and supervisor behind each task, the *)
(* completion pipe, and the two stateful handles, AsyncReadStreamCore and   *)
(* AsyncWriterCore (native/rust/src/lib.rs).                                *)
(*                                                                         *)
(* Callers are the foreign threads that call the C ABI.  A call that takes  *)
(* one mutex once is one action.  A call that releases a mutex and goes on  *)
(* (a start that installs an abort handle after the worker is already       *)
(* running; a cancel that poisons the handle and then writes the wake byte) *)
(* is several actions of one caller, joined by its program counter.         *)
(* An abort request only enables WorkerAbort, which the worker may still    *)
(* outrun, so it is made in the step of the lock section that precedes it.  *)
(* Calls that are rejected return an error and change nothing: they are     *)
(* stuttering steps and have no action.                                     *)
(***************************************************************************)
EXTENDS Naturals

CONSTANTS
    Callers,   \* foreign threads that call the ABI
    Tasks,     \* identities of AsyncTaskV1 objects, each used once
    Streams,   \* identities of AsyncReadStreamV1 objects
    Writers,   \* identities of AsyncWriterV1 objects
    NoTask,    \* an empty abort slot, or no task
    NoHandle   \* the subject of an operation on no stateful handle

Handles == Streams \cup Writers

ASSUME HandleAssumption ==
    /\ Streams \cap Writers = {}
    /\ NoHandle \notin Handles

ASSUME TaskAssumption == NoTask \notin Tasks

VARIABLES
    task,      \* AsyncTaskInner.state
    signal,    \* who holds the CompletionSignal, then what the pipe shows
    op,        \* the operation a task was started for
    subject,   \* the handle it works on, or the one it opens
    owns,      \* TRUE while its future holds the cursor or the Writer
    worker,    \* the spawned operation future
    outcome,   \* the AsyncOutcome the future returned
    abort,     \* an AbortHandle of the future was used
    super,     \* the supervisor future
    handle,    \* state of each stream or writer core
    slot,      \* the Option<AbortHandle> inside Busy
    pc,        \* where each caller stands
    job        \* the task a caller's unfinished call is about

taskVars   == <<task, signal>>
futureVars == <<op, subject, owns, worker, outcome, abort, super>>
handleVars == <<handle, slot>>
callerVars == <<pc, job>>
vars == <<taskVars, futureVars, handleVars, callerVars>>

TaskStates == {"Unused", "Running", "Completed", "Taken", "Cancelled"}
Signals    == {"None", "Task", "Publisher", "Canceller", "Byte", "Eof"}
OpenOps    == {"OpenStream", "OpenWriter"}
WriterOps  == {"Write", "Finish", "Abort"}
HandleOps  == {"Next"} \cup WriterOps
Ops        == {"Read"} \cup OpenOps \cup HandleOps
Outcomes   == {"Ok", "End", "Err", "Panic", "Aborted"}
Live       == {"Open", "Busy"}
Terminal   == {"End", "Failed", "Closed", "Finished", "Aborted"}
HandleStates == {"Absent"} \cup Live \cup Terminal

----------------------------------------------------------------------------
(* Helpers *)

\* The resource whose fail() a task calls: None for reads and opens.
Poisons(t) == IF op[t] \in HandleOps THEN {subject[t]} ELSE {}

\* A task's handle reaches the foreign caller when its start call returns.
Returned(t) ==
    /\ task[t] # "Unused"
    /\ \A c \in Callers : pc[c] = "Install" => job[c] # t

\* State of a core after its worker stores the result of an owning call.
After(o, out) ==
    CASE out = "Err" -> "Failed"
      [] out = "End" -> "End"
      [] out = "Ok" /\ o \in {"Next", "Write"} -> "Open"
      [] out = "Ok" /\ o = "Finish" -> "Finished"
      [] out = "Ok" /\ o = "Abort" -> "Aborted"

\* What the future of a task can return.
Results(t) ==
    CASE op[t] = "Next"  -> IF owns[t] THEN {"Ok", "End", "Err"} ELSE {"End"}
      [] op[t] = "Abort" -> IF owns[t] THEN {"Ok", "Err"} ELSE {"Ok"}
      [] OTHER           -> {"Ok", "Err"}

\* Store state s in the cores H; a Busy core's abort handle is used.
Store(H, s) ==
    /\ handle' = [r \in Handles |-> IF r \in H THEN s ELSE handle[r]]
    /\ slot' = [r \in Handles |-> IF r \in H THEN NoTask ELSE slot[r]]
    /\ abort' = [t \in Tasks |-> abort[t] \/ \E r \in H : slot[r] = t]

\* Mutants of Fail: an idle core is left alone; the core is offered again.
FailBusyOnly(H) == Store({r \in H : handle[r] = "Busy"}, "Failed")
FailReopens(H) == Store(H, "Open")

Fail(H) == Store(H, "Failed")

----------------------------------------------------------------------------
(* Start calls *)

\* AsyncLaunch::spawn: the worker and its supervisor start to run and the
\* task holds the duplicated completion descriptor.
Spawn(t, o, r, owning) ==
    /\ task[t] = "Unused"
    /\ task' = [task EXCEPT ![t] = "Running"]
    /\ signal' = [signal EXCEPT ![t] = "Task"]
    /\ op' = [op EXCEPT ![t] = o]
    /\ subject' = [subject EXCEPT ![t] = r]
    /\ owns' = [owns EXCEPT ![t] = owning]
    /\ worker' = [worker EXCEPT ![t] = "Running"]
    /\ super' = [super EXCEPT ![t] = "Await"]
    /\ UNCHANGED <<outcome, abort>>

ReadStart(c, t) ==
    /\ pc[c] = "Idle"
    /\ Spawn(t, "Read", NoHandle, FALSE)
    /\ UNCHANGED <<handleVars, callerVars>>

\* async_operator_read_stream_start and async_operator_writer_start.  The
\* core exists from the worker's success on but nobody can reach it before
\* the take, so its identity r is reserved here and opened by Take.
OpenStart(c, t, o, r) ==
    /\ pc[c] = "Idle"
    /\ IF o = "OpenStream" THEN r \in Streams ELSE r \in Writers
    /\ handle[r] = "Absent"
    /\ \A u \in Tasks : op[u] \in OpenOps /\ subject[u] = r
                            => task[u] \in {"Taken", "Cancelled"}
    /\ Spawn(t, o, r, FALSE)
    /\ UNCHANGED <<handleVars, callerVars>>

\* take_for_next / take_for_call admit the call and the worker is spawned
\* with the cursor; install_abort is a later lock section.
OwningStart(c, t, o, r) ==
    /\ pc[c] = "Idle"
    /\ handle[r] = "Open"
    /\ Spawn(t, o, r, TRUE)
    /\ handle' = [handle EXCEPT ![r] = "Busy"]
    /\ pc' = [pc EXCEPT ![c] = "Install"]
    /\ job' = [job EXCEPT ![c] = t]
    /\ UNCHANGED slot

\* A next at a stable end, or a repeated abort: a task that only answers.
\* No abort handle is installed for it.
AnswerStart(c, t, o, r) ==
    /\ pc[c] = "Idle"
    /\ \/ o = "Next" /\ handle[r] = "End"
       \/ o = "Abort" /\ handle[r] = "Aborted"
    /\ Spawn(t, o, r, FALSE)
    /\ UNCHANGED <<handleVars, callerVars>>

HandleStart(c, t, o, r) ==
    /\ IF o = "Next" THEN r \in Streams ELSE r \in Writers
    /\ OwningStart(c, t, o, r) \/ AnswerStart(c, t, o, r)

\* States in which install_abort finds the call already lost and aborts it.
Lost(r) == IF r \in Streams THEN {"Failed", "Closed"} ELSE {"Failed"}

\* Mutant of Installed: the abort handle is dropped.
InstalledNot(t) == slot[subject[t]]

\* The slot of the task's core after install_abort.
Installed(t) ==
    IF handle[subject[t]] = "Busy" /\ slot[subject[t]] = NoTask
    THEN t
    ELSE slot[subject[t]]

\* install_abort, after which the start call returns the task.
InstallAbort(c) ==
    LET t == job[c]
        r == subject[t]
    IN  /\ pc[c] = "Install"
        /\ slot' = [slot EXCEPT ![r] = Installed(t)]
        /\ abort' = [abort EXCEPT ![t] = @ \/ handle[r] \in Lost(r)]
        /\ pc' = [pc EXCEPT ![c] = "Idle"]
        /\ job' = [job EXCEPT ![c] = NoTask]
        /\ UNCHANGED <<taskVars, op, subject, owns, worker, outcome, super,
                       handle>>

----------------------------------------------------------------------------
(* The worker future *)

\* Mutant of Stores: a late worker stores its result all the same.
StoresLate(t) == owns[t]

\* complete_next / complete: a core that has left Busy ignores the result.
Stores(t) == owns[t] /\ handle[subject[t]] = "Busy"

\* The storage call ends; an owning worker hands the cursor or Writer back.
WorkerReturn(t, out) ==
    LET r == subject[t]
    IN  /\ worker[t] = "Running"
        /\ out \in Results(t)
        /\ worker' = [worker EXCEPT ![t] = "Done"]
        /\ outcome' = [outcome EXCEPT ![t] = out]
        /\ owns' = [owns EXCEPT ![t] = FALSE]
        /\ IF Stores(t)
           THEN /\ handle' = [handle EXCEPT ![r] = After(op[t], out)]
                /\ slot' = [slot EXCEPT ![r] = NoTask]
           ELSE UNCHANGED handleVars
        /\ UNCHANGED <<taskVars, op, subject, abort, super, callerVars>>

\* The future unwinds (catch_unwind) and drops what it owned.  The futures
\* that only answer have no code that can panic.
WorkerPanic(t) ==
    /\ worker[t] = "Running"
    /\ op[t] \in HandleOps => owns[t]
    /\ worker' = [worker EXCEPT ![t] = "Done"]
    /\ outcome' = [outcome EXCEPT ![t] = "Panic"]
    /\ owns' = [owns EXCEPT ![t] = FALSE]
    /\ UNCHANGED <<taskVars, op, subject, abort, super, handleVars, callerVars>>

\* Tokio drops an aborted future at an await point, and what it owned.
WorkerAbort(t) ==
    /\ worker[t] = "Running"
    /\ abort[t]
    /\ worker' = [worker EXCEPT ![t] = "Done"]
    /\ outcome' = [outcome EXCEPT ![t] = "Aborted"]
    /\ owns' = [owns EXCEPT ![t] = FALSE]
    /\ UNCHANGED <<taskVars, op, subject, abort, super, handleVars, callerVars>>

----------------------------------------------------------------------------
(* The supervisor future *)

\* Mutant of Joined: only a future that returned is joined, not an unwound one.
JoinedResultOnly(t) == worker[t] = "Done" /\ outcome[t] # "Panic"

\* operation.await is ready: the future returned, unwound or was dropped.
Joined(t) == worker[t] = "Done"

\* The supervisor goes on; after a panic the resource is failed first.
Supervise(t) ==
    /\ super[t] = "Await"
    /\ Joined(t)
    /\ super' = [super EXCEPT ![t] = "Publish"]
    /\ IF outcome[t] = "Panic"
       THEN Fail(Poisons(t))
       ELSE UNCHANGED <<handleVars, abort>>
    /\ UNCHANGED <<taskVars, op, subject, owns, worker, outcome, callerVars>>

\* Mutant of PublishWins: a late worker publishes over a cancellation.
PublishAlwaysWins(t) == TRUE

\* A cancellation that came first keeps the task and the signal.
PublishWins(t) == task[t] = "Running"

\* publish: the lock section.
Publish(t) ==
    /\ super[t] = "Publish"
    /\ IF PublishWins(t)
       THEN /\ task' = [task EXCEPT ![t] = "Completed"]
            /\ signal' = [signal EXCEPT ![t] = "Publisher"]
            /\ super' = [super EXCEPT ![t] = "Notify"]
       ELSE /\ super' = [super EXCEPT ![t] = "Done"]
            /\ UNCHANGED taskVars
    /\ UNCHANGED <<op, subject, owns, worker, outcome, abort, handleVars,
                   callerVars>>

\* Mutant of Notify: the descriptor is kept and nothing is written.
NotifyNothing(t) == UNCHANGED signal

\* CompletionSignal::notify: the byte is written, or a failing signal-mask
\* call or write makes it return early; either way the descriptor is dropped.
Notify(t) == \E w \in {"Byte", "Eof"} : signal' = [signal EXCEPT ![t] = w]

PublishNotify(t) ==
    /\ super[t] = "Notify"
    /\ Notify(t)
    /\ super' = [super EXCEPT ![t] = "Done"]
    /\ UNCHANGED <<task, op, subject, owns, worker, outcome, abort, handleVars,
                   callerVars>>

----------------------------------------------------------------------------
(* Calls on a task or a handle *)

\* async_task_cancel, async_task_free and the external-object finalizer: the
\* lock section of cancel.  On a Taken or Cancelled task nothing happens.
Cancel(c, t) ==
    /\ pc[c] = "Idle"
    /\ Returned(t)
    /\ task[t] \in {"Running", "Completed"}
    /\ task' = [task EXCEPT ![t] = "Cancelled"]
    /\ signal' = [signal EXCEPT ![t] = IF @ = "Task" THEN "Canceller" ELSE @]
    /\ abort' = [abort EXCEPT ![t] = @ \/ task[t] = "Running"]
    /\ pc' = [pc EXCEPT ![c] = "Poison"]
    /\ job' = [job EXCEPT ![c] = t]
    /\ UNCHANGED <<op, subject, owns, worker, outcome, super, handleVars>>

CancelPoison(c) ==
    /\ pc[c] = "Poison"
    /\ Fail(Poisons(job[c]))
    /\ pc' = [pc EXCEPT ![c] = "Notify"]
    /\ UNCHANGED <<taskVars, op, subject, owns, worker, outcome, super, job>>

CancelNotify(c) ==
    /\ pc[c] = "Notify"
    /\ IF signal[job[c]] = "Canceller" THEN Notify(job[c]) ELSE UNCHANGED signal
    /\ pc' = [pc EXCEPT ![c] = "Idle"]
    /\ job' = [job EXCEPT ![c] = NoTask]
    /\ UNCHANGED <<task, futureVars, handleVars>>

\* take and finish_async_payload_take with the matching kind: the outcome
\* leaves the task once, and a successful open hands over its core.
Take(c, t) ==
    LET r == subject[t]
    IN  /\ pc[c] = "Idle"
        /\ Returned(t)
        /\ task[t] = "Completed"
        /\ task' = [task EXCEPT ![t] = "Taken"]
        /\ handle' = IF op[t] \in OpenOps /\ outcome[t] = "Ok"
                     THEN [handle EXCEPT ![r] = "Open"]
                     ELSE handle
        /\ UNCHANGED <<signal, futureVars, slot, callerVars>>

\* async_read_stream_close and async_read_stream_free.
Close(c, r) ==
    /\ pc[c] = "Idle"
    /\ handle[r] # "Absent"
    /\ Store({r}, "Closed")
    /\ UNCHANGED <<taskVars, op, subject, owns, worker, outcome, super,
                   callerVars>>

\* async_writer_free: the core is failed; a free never races a call.
FreeWriter(c, r) ==
    /\ pc[c] = "Idle"
    /\ handle[r] # "Absent"
    /\ \A d \in Callers : pc[d] = "Install" => subject[job[d]] # r
    /\ Fail({r})
    /\ UNCHANGED <<taskVars, op, subject, owns, worker, outcome, super,
                   callerVars>>

----------------------------------------------------------------------------

Init ==
    /\ task    = [t \in Tasks |-> "Unused"]
    /\ signal  = [t \in Tasks |-> "None"]
    /\ op      = [t \in Tasks |-> "None"]
    /\ subject = [t \in Tasks |-> NoHandle]
    /\ owns    = [t \in Tasks |-> FALSE]
    /\ worker  = [t \in Tasks |-> "None"]
    /\ outcome = [t \in Tasks |-> "None"]
    /\ abort   = [t \in Tasks |-> FALSE]
    /\ super   = [t \in Tasks |-> "None"]
    /\ handle  = [r \in Handles |-> "Absent"]
    /\ slot    = [r \in Handles |-> NoTask]
    /\ pc      = [c \in Callers |-> "Idle"]
    /\ job     = [c \in Callers |-> NoTask]

CallerStep(c) == InstallAbort(c) \/ CancelPoison(c) \/ CancelNotify(c)

Call(c) ==
    \/ \E t \in Tasks : ReadStart(c, t) \/ Cancel(c, t) \/ Take(c, t)
    \/ \E t \in Tasks, o \in OpenOps, r \in Handles : OpenStart(c, t, o, r)
    \/ \E t \in Tasks, o \in HandleOps, r \in Handles : HandleStart(c, t, o, r)
    \/ \E r \in Streams : Close(c, r)
    \/ \E r \in Writers : FreeWriter(c, r)

WorkerStep(t) ==
    \/ \E out \in Outcomes : WorkerReturn(t, out)
    \/ WorkerPanic(t)
    \/ WorkerAbort(t)

SuperStep(t) == Supervise(t) \/ Publish(t) \/ PublishNotify(t)

Next ==
    \/ \E c \in Callers : Call(c) \/ CallerStep(c)
    \/ \E t \in Tasks : WorkerStep(t) \/ SuperStep(t)

Spec == Init /\ [][Next]_vars

\* Threads inside a call run on; Tokio polls every supervisor; a storage call
\* returns, fails or is dropped.  Nobody is obliged to make a call.
Fairness ==
    /\ \A c \in Callers : WF_vars(CallerStep(c))
    /\ \A t \in Tasks : WF_vars(WorkerStep(t)) /\ WF_vars(SuperStep(t))

FairSpec == Spec /\ Fairness

----------------------------------------------------------------------------
(* Properties *)

\* Every variable has its type.
TypeOK ==
    /\ task    \in [Tasks -> TaskStates]
    /\ signal  \in [Tasks -> Signals]
    /\ op      \in [Tasks -> Ops \cup {"None"}]
    /\ subject \in [Tasks -> Handles \cup {NoHandle}]
    /\ owns    \in [Tasks -> BOOLEAN]
    /\ worker  \in [Tasks -> {"None", "Running", "Done"}]
    /\ outcome \in [Tasks -> Outcomes \cup {"None"}]
    /\ abort   \in [Tasks -> BOOLEAN]
    /\ super   \in [Tasks -> {"None", "Await", "Publish", "Notify", "Done"}]
    /\ handle  \in [Handles -> HandleStates]
    /\ slot    \in [Handles -> Tasks \cup {NoTask}]
    /\ pc      \in [Callers -> {"Idle", "Install", "Poison", "Notify"}]
    /\ job     \in [Callers -> Tasks \cup {NoTask}]

Cancelling(t) == \E c \in Callers : pc[c] \in {"Poison", "Notify"} /\ job[c] = t

Poisoning(t) == \E c \in Callers : pc[c] = "Poison" /\ job[c] = t

\* The readiness byte is never visible before the task is decided, so a take
\* made after reading the byte never meets "result is not ready"; and the
\* descriptor is never lost between the worker and a racing cancel: a decided
\* task has shown its wake or exactly one side still holds it and will write.
WakeOwnership ==
    \A t \in Tasks :
        /\ task[t] = "Unused" => signal[t] = "None"
        /\ task[t] = "Running" => signal[t] = "Task"
        /\ task[t] \in {"Completed", "Taken", "Cancelled"} =>
               \/ signal[t] \in {"Byte", "Eof"}
               \/ signal[t] = "Publisher" /\ super[t] = "Notify"
               \/ signal[t] = "Canceller" /\ Cancelling(t)

\* Once a cancel that won, over running work or over an unclaimed result, has
\* passed its fail(), the stream or writer is terminal and no late worker and
\* no overlapping call brings it back.
CancelledIsPoisoned ==
    \A t \in Tasks : \A r \in Poisons(t) :
        task[t] = "Cancelled" /\ ~Poisoning(t) => handle[r] \in Terminal

\* A caller that can see an operation fail, panic or end as cancelled finds
\* the handle terminal: the failed cursor or Writer is never offered again.
FailureIsTerminal ==
    \A t \in Tasks : \A r \in Poisons(t) :
        /\ outcome[t] \in {"Err", "Panic", "Aborted"}
        /\ task[t] \in {"Completed", "Taken"}
        => handle[r] \in Terminal

\* Both: whoever can see that an operation was cancelled or went wrong finds the
\* stream or writer it worked on terminal.
Poisoned == CancelledIsPoisoned /\ FailureIsTerminal

\* One upstream operation at a time: two futures never hold the same cursor or
\* Writer, and while one holds it the core does not offer it again.
OneUpstream ==
    \A t \in Tasks : owns[t] =>
        /\ handle[subject[t]] # "Open"
        /\ \A u \in Tasks : owns[u] /\ subject[u] = subject[t] => u = t

\* A handle is never stuck Busy: somebody who will move it on still exists, the
\* worker that holds the cursor, the supervisor of a panicked one, or the
\* canceller of an aborted one.
BusyIsOwned ==
    \A r \in Handles : handle[r] = "Busy" =>
        \E t \in Tasks :
            /\ r \in Poisons(t)
            /\ \/ owns[t]
               \/ outcome[t] = "Panic" /\ super[t] = "Await"
               \/ outcome[t] = "Aborted" /\ Poisoning(t)

\* Both: a Busy handle belongs to somebody, a cursor to at most one operation.
Exclusive == OneUpstream /\ BusyIsOwned

\* close "cancels any in-flight operation": after a close every future that
\* still holds the cursor has been asked to stop, once no start is under way.
CloseCancels ==
    \A t \in Tasks :
        /\ owns[t]
        /\ handle[subject[t]] = "Closed"
        /\ \A c \in Callers : pc[c] = "Install" => subject[job[c]] # subject[t]
        => abort[t]

\* End, Failed, Closed, Finished and Aborted are left only for one another: no
\* interleaving returns a cursor to a terminal core.
TerminalSticks ==
    [][\A r \in Handles : handle[r] \in Terminal => handle'[r] \in Terminal]_vars

\* No handle stays Busy for ever.
EventuallyFree ==
    \A r \in Handles : handle[r] = "Busy" ~> handle[r] # "Busy"

\* The tasks implement the protocol the ABI promises, the wake included.
Protocol == INSTANCE TaskProtocol WITH
                state <- task,
                woken <- [t \in Tasks |-> signal[t] \in {"Byte", "Eof"}]

ImplementsProtocol == Protocol!Spec
----------------------------------------------------------------------------
(* The inductive strengthening of the safety properties *)

\* An unused identity carries nothing.
UnusedInv ==
    \A t \in Tasks : task[t] = "Unused" =>
        /\ signal[t] = "None" /\ op[t] = "None" /\ worker[t] = "None"
        /\ super[t] = "None" /\ outcome[t] = "None"
        /\ ~owns[t] /\ ~abort[t]

\* The worker, the supervisor and the task advance in step.
LifeInv ==
    \A t \in Tasks :
        /\ task[t] = "Running" => super[t] \in {"Await", "Publish"}
        /\ task[t] \in {"Completed", "Taken"} => super[t] \in {"Notify", "Done"}
        /\ super[t] = "Notify" =>
               task[t] \in {"Completed", "Taken", "Cancelled"}
        /\ worker[t] = "Running" => super[t] = "Await" /\ outcome[t] = "None"
        /\ owns[t] => worker[t] = "Running"
        /\ worker[t] = "Running" /\ op[t] \in {"Write", "Finish"} => owns[t]
        /\ op[t] \in HandleOps \cup OpenOps => subject[t] \in Handles

\* An unfinished call is about a task in the state the call needs.
CallInv ==
    \A c \in Callers :
        /\ pc[c] # "Idle" => job[c] \in Tasks
        /\ pc[c] = "Install" => op[job[c]] \in HandleOps
        /\ pc[c] \in {"Poison", "Notify"} => task[job[c]] = "Cancelled"

\* The identity an unclaimed open has reserved is unreachable and reserved
\* once; a handle some call works on has been handed out.
OpenInv ==
    /\ \A t \in Tasks :
          op[t] \in OpenOps /\ task[t] \in {"Running", "Completed"} =>
              /\ handle[subject[t]] = "Absent"
              /\ \A u \in Tasks :
                    /\ op[u] \in OpenOps /\ subject[u] = subject[t]
                    /\ task[u] \in {"Running", "Completed"}
                    => u = t
    /\ \A t \in Tasks : op[t] \in HandleOps => handle[subject[t]] # "Absent"

\* Only futures of handle calls own anything, one future per handle.
OwnInv ==
    \A t \in Tasks : owns[t] =>
        /\ op[t] \in HandleOps
        /\ handle[subject[t]] # "Open"
        /\ \A u \in Tasks : owns[u] /\ subject[u] = subject[t] => u = t

\* An abort handle sits in the slot of the handle its task works on, and an
\* aborted owner of a Busy handle is being cancelled.
SlotInv ==
    /\ \A r \in Handles : slot[r] # NoTask =>
          op[slot[r]] \in HandleOps /\ subject[slot[r]] = r
    /\ \A t \in Tasks :
          owns[t] /\ abort[t] /\ handle[subject[t]] = "Busy" => Poisoning(t)

\* Where a failure comes from: an abort request from a cancel or from a core
\* that is already terminal, an error stored by the worker, a panic failed by
\* the supervisor before it publishes.
FailInv ==
    \A t \in Tasks : \A r \in Poisons(t) :
        /\ abort[t] => task[t] = "Cancelled" \/ handle[r] \in Terminal
        /\ outcome[t] = "Aborted" =>
               task[t] = "Cancelled" \/ handle[r] \in Terminal
        /\ outcome[t] = "Err" => handle[r] \in Terminal
        /\ outcome[t] = "Panic" /\ super[t] # "Await" => handle[r] \in Terminal

IInv ==
    /\ TypeOK /\ UnusedInv /\ LifeInv /\ CallInv /\ OpenInv /\ OwnInv
    /\ SlotInv /\ FailInv /\ WakeOwnership /\ CancelledIsPoisoned
    /\ BusyIsOwned
=============================================================================
