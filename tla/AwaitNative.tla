---------------------------- MODULE AwaitNative ----------------------------
(***************************************************************************)
(* The MoonBit side of the native async ABI (src/async.mbt and the async    *)
(* part of src/opendal_stub.c): await_native_result, the AsyncReadStream    *)
(* and AsyncWriter methods built on it, and AsyncOperator::write.           *)
(*                                                                         *)
(* Fibers share one scheduler thread, so the ABI has one caller and a fiber *)
(* runs from one suspension point to the next.  The only suspension point   *)
(* of await_native_result is the read of the completion pipe, where the     *)
(* scheduler may also cancel the fiber.  Every step of a fiber is an ABI    *)
(* call of NativeAsync; workers and supervisors run beside it.              *)
(***************************************************************************)
EXTENDS NativeAsync, Integers

CONSTANTS
    Fibers,      \* fibers that call single operations on shared handles
    Uploads,     \* fibers that run AsyncOperator::write
    Scheduler,   \* the one thread that runs them
    MaxChunks    \* number of bounded Writer calls a whole write needs

ASSUME SchedulerAssumption == Callers = {Scheduler}
ASSUME FiberAssumption == Fibers \cap Uploads = {} /\ MaxChunks \in Nat

AllFibers == Fibers \cup Uploads

VARIABLES
    fiber,    \* what each fiber is doing
    awaits,   \* the task it waits for
    stage,    \* how far a whole write has come
    result,   \* what its last call gave it
    writer,   \* the handle it has opened
    chunks    \* Writer calls it has left

uploadVars == <<stage, result, writer, chunks>>
fiberVars == <<fiber, awaits, uploadVars>>
allVars == <<vars, fiberVars>>

Quiet == pc[Scheduler] = "Idle"

----------------------------------------------------------------------------
(* await_native_result *)

\* The start call: the task is awaited from here on.
Begin(f, t) ==
    /\ fiber[f] = "Ready"
    /\ fiber' = [fiber EXCEPT ![f] = "Waiting"]
    /\ awaits' = [awaits EXCEPT ![f] = t]

\* What the awaited call hands to the code after it, which only the whole
\* write's depends on.
Gives(f, what) ==
    result' = IF f \in Uploads THEN [result EXCEPT ![f] = what] ELSE result

\* Mutant of Ends: the fiber goes on waiting for the task.
EndsNot(f) == UNCHANGED <<fiber, awaits>>

Ends(f) ==
    /\ fiber' = [fiber EXCEPT ![f] = "Ready"]
    /\ awaits' = [awaits EXCEPT ![f] = NoTask]

\* One byte arrives, the result is taken, the deferred cancel finds it Taken.
\* A next that failed closes its stream before it raises.
Woken(f) ==
    LET t == awaits[f]
    IN  /\ fiber[f] = "Waiting"
        /\ signal[t] = "Byte"
        /\ Take(Scheduler, t)
        /\ Gives(f, IF outcome[t] = "Ok" THEN "Ok" ELSE "Raised")
        /\ IF op[t] = "Next" /\ outcome[t] \notin {"Ok", "End"}
           THEN fiber' = [fiber EXCEPT ![f] = "Closing"] /\ UNCHANGED awaits
           ELSE Ends(f)

\* Mutant of GivesUp: the deferred cancel is missing.
GivesUpOnly(f) ==
    /\ fiber[f] = "Waiting"
    /\ Gives(f, "Raised")
    /\ Ends(f)
    /\ UNCHANGED vars

\* The deferred cancel runs on a task whose result was not taken.
GivesUp(f) ==
    /\ fiber[f] = "Waiting"
    /\ Cancel(Scheduler, awaits[f])
    /\ Gives(f, "Raised")
    /\ Ends(f)

\* The pipe ends without a byte.
PipeEnds(f) ==
    /\ fiber[f] = "Waiting"
    /\ signal[awaits[f]] = "Eof"
    /\ GivesUp(f)

\* The scheduler cancels the fiber while it waits.
FiberCancelled(f) == GivesUp(f)

CloseFailed(f) ==
    /\ fiber[f] = "Closing"
    /\ Close(Scheduler, subject[awaits[f]])
    /\ Ends(f)
    /\ UNCHANGED result

Resumed(f) == Woken(f) \/ PipeEnds(f) \/ CloseFailed(f)

Await(f) == Resumed(f) \/ FiberCancelled(f)

----------------------------------------------------------------------------
(* Fibers that share handles *)

\* Handles of whole writes are local to them.
Shared(r) == \A f \in Uploads : writer[f] # r

Operation(f) ==
    /\ \E t \in Tasks :
        /\ Begin(f, t)
        /\ \/ ReadStart(Scheduler, t)
           \/ \E o \in OpenOps, r \in Handles :
                Shared(r) /\ OpenStart(Scheduler, t, o, r)
           \/ \E o \in HandleOps, r \in Handles :
                Shared(r) /\ HandleStart(Scheduler, t, o, r)
    /\ UNCHANGED result

CloseStream(f) ==
    /\ fiber[f] = "Ready"
    /\ \E r \in Streams : Shared(r) /\ Close(Scheduler, r)
    /\ UNCHANGED <<fiber, awaits, result>>

FiberStep(f) ==
    /\ Operation(f) \/ CloseStream(f) \/ Await(f)
    /\ UNCHANGED <<stage, writer, chunks>>

\* The finalizer of a writer no fiber is using any more.
DropWriter ==
    /\ \E r \in Writers :
        /\ \A f \in AllFibers : fiber[f] = "Waiting" => subject[awaits[f]] # r
        /\ \A f \in Uploads : writer[f] = r => stage[f] \in {"Returned", "Raised"}
        /\ FreeWriter(Scheduler, r)
    /\ UNCHANGED fiberVars

----------------------------------------------------------------------------
(* AsyncOperator::write *)

NextCall == [Open |-> "OpenWriter", Write |-> "Write",
             Finish |-> "Finish", Abort |-> "Abort"]

UploadCalls(f) ==
    /\ result[f] = "None"
    /\ stage[f] \in DOMAIN NextCall
    /\ \E t \in Tasks :
        /\ Begin(f, t)
        /\ IF stage[f] = "Open"
           THEN \E r \in Writers :
                   /\ Shared(r)
                   /\ OpenStart(Scheduler, t, "OpenWriter", r)
                   /\ writer' = [writer EXCEPT ![f] = r]
           ELSE /\ HandleStart(Scheduler, t, NextCall[stage[f]], writer[f])
                /\ UNCHANGED writer
    /\ UNCHANGED <<stage, result, chunks>>

\* The native writer rejects the call: it is no longer open.
UploadRejected(f) ==
    /\ fiber[f] = "Ready"
    /\ result[f] = "None"
    /\ stage[f] \in {"Write", "Finish", "Abort"}
    /\ Quiet
    /\ handle[writer[f]] # "Open"
    /\ ~(stage[f] = "Abort" /\ handle[writer[f]] = "Aborted")
    /\ Gives(f, "Raised")
    /\ UNCHANGED <<vars, fiber, awaits, stage, writer, chunks>>

\* No pipe, or a start call that fails before it touches the handle.
UploadStartFails(f) ==
    /\ fiber[f] = "Ready"
    /\ result[f] = "None"
    /\ stage[f] \in DOMAIN NextCall
    /\ Quiet
    /\ Gives(f, "Raised")
    /\ UNCHANGED <<vars, fiber, awaits, stage, writer, chunks>>

\* Mutants of AfterCall: the last chunk returns without a commit; a failed
\* abort is tried again.
AfterCallNoCommit(f, left) ==
    IF result[f] = "Ok" /\ left > 0 THEN "Write"
    ELSE IF result[f] = "Ok" THEN "Returned" ELSE "Raised"
AfterCallRetries(f, left) ==
    IF result[f] = "Ok"
    THEN CASE stage[f] = "Finish" -> "Returned"
           [] stage[f] = "Abort"  -> "Raised"
           [] OTHER -> IF left > 0 THEN "Write" ELSE "Finish"
    ELSE IF stage[f] = "Open" THEN "Raised" ELSE "Abort"

AfterCall(f, left) ==
    IF result[f] = "Ok"
    THEN CASE stage[f] = "Finish" -> "Returned"
           [] stage[f] = "Abort"  -> "Raised"
           [] OTHER -> IF left > 0 THEN "Write" ELSE "Finish"
    ELSE IF stage[f] \in {"Write", "Finish"} THEN "Abort" ELSE "Raised"

\* The loop over chunks, finish, and the catch clause: an error after the open
\* aborts the writer, ignores what that gives, and is raised again.
UploadAdvances(f) ==
    LET left == IF stage[f] = "Write" THEN chunks[f] - 1 ELSE chunks[f]
    IN  /\ fiber[f] = "Ready"
        /\ Quiet
        /\ result[f] # "None"
        /\ stage[f] \in DOMAIN NextCall
        /\ chunks' = [chunks EXCEPT ![f] = left]
        /\ stage' = [stage EXCEPT ![f] = AfterCall(f, left)]
        /\ Gives(f, "None")
        /\ UNCHANGED <<vars, fiber, awaits, writer>>

UploadGoesOn(f) == UploadCalls(f) \/ UploadRejected(f) \/ UploadAdvances(f)

UploadStep(f) ==
    \/ UploadGoesOn(f)
    \/ UploadStartFails(f)
    \/ Await(f) /\ UNCHANGED <<stage, writer, chunks>>

----------------------------------------------------------------------------

AwaitInit ==
    /\ Init
    /\ fiber = [f \in AllFibers |-> "Ready"]
    /\ awaits = [f \in AllFibers |-> NoTask]
    /\ stage = [f \in Uploads |-> "Open"]
    /\ result = [f \in Uploads |-> "None"]
    /\ writer = [f \in Uploads |-> NoHandle]
    /\ chunks \in [Uploads -> 0 .. MaxChunks]

Native ==
    /\ \/ CallerStep(Scheduler)
       \/ \E t \in Tasks : WorkerStep(t) \/ SuperStep(t)
    /\ UNCHANGED fiberVars

AwaitNext ==
    \/ Native
    \/ \E f \in Fibers : FiberStep(f)
    \/ \E f \in Uploads : UploadStep(f)
    \/ DropWriter

AwaitSpec == AwaitInit /\ [][AwaitNext]_allVars

\* Besides the native side's fairness, a runnable fiber is resumed, and a
\* whole write, once begun, goes on.
AwaitFairness ==
    /\ WF_allVars(CallerStep(Scheduler) /\ UNCHANGED fiberVars)
    /\ \A t \in Tasks : /\ WF_allVars(WorkerStep(t) /\ UNCHANGED fiberVars)
                        /\ WF_allVars(SuperStep(t) /\ UNCHANGED fiberVars)
    /\ \A f \in AllFibers : WF_allVars(Resumed(f) /\ UNCHANGED <<stage, writer, chunks>>)
    /\ \A f \in Uploads : WF_allVars(UploadGoesOn(f))

FairAwaitSpec == AwaitSpec /\ AwaitFairness

----------------------------------------------------------------------------
(* Properties *)

\* A fiber that reads the byte finds its result: the take that follows never
\* answers "not ready", "already taken" or "cancelled".
ByteMeansResult ==
    \A f \in AllFibers :
        fiber[f] = "Waiting" /\ Quiet /\ signal[awaits[f]] = "Byte"
            => task[awaits[f]] = "Completed"

\* No task is left behind: whatever is running or unclaimed has exactly one
\* fiber that will take it or cancel it.
NoOrphan ==
    \A t \in Tasks : task[t] \in {"Running", "Completed"} =>
        \E f \in AllFibers :
            /\ fiber[f] = "Waiting" /\ awaits[f] = t
            /\ \A g \in AllFibers : fiber[g] = "Waiting" /\ awaits[g] = t => g = f

\* The verdict of a whole write is the writer's: it returns only after a commit
\* whose metadata it holds, and when it raises its writer is not Finished, not
\* even when the commit won the race against a cancellation or a lost wake.
\* Either way it leaves no storage operation running on its writer that nobody
\* asked to stop.
UploadVerdict ==
    \A f \in Uploads :
        /\ stage[f] \in {"Returned", "Raised"} =>
               \A t \in Tasks : owns[t] /\ subject[t] = writer[f] => abort[t]
        /\ stage[f] = "Returned" =>
               \E t \in Tasks : /\ op[t] = "Finish" /\ subject[t] = writer[f]
                               /\ task[t] = "Taken" /\ outcome[t] = "Ok"
        /\ stage[f] = "Raised" /\ writer[f] # NoHandle
               => handle[writer[f]] # "Finished"

\* A whole write comes to an end if the storage calls do.
UploadEnds == \A f \in Uploads : <>(stage[f] \in {"Returned", "Raised"})

----------------------------------------------------------------------------
(* The inductive strengthening of the safety properties *)

\* A task works on a handle of the kind its operation needs.
SubjectInv ==
    \A t \in Tasks :
        /\ op[t] \in {"Next", "OpenStream"} => subject[t] \in Streams
        /\ op[t] \in WriterOps \cup {"OpenWriter"} => subject[t] \in Writers
        /\ op[t] \in {"None", "Read"} => subject[t] = NoHandle

Installing(t) == pc[Scheduler] = "Install" /\ job[Scheduler] = t

\* With one caller, a future that holds a cursor can be told to stop: its abort
\* handle is about to be installed, or in the slot of the busy handle, or used.
ReachInv ==
    /\ \A r \in Handles : handle[r] # "Busy" => slot[r] = NoTask
    /\ \A t \in Tasks : owns[t] =>
        /\ Installing(t) => /\ handle[subject[t]] \in {"Busy", "Failed"}
                            /\ slot[subject[t]] = NoTask
        /\ ~Installing(t) => IF handle[subject[t]] = "Busy"
                             THEN slot[subject[t]] = t
                             ELSE abort[t]
        /\ task[t] = "Cancelled" => abort[t]

\* A finished writer has a commit, and one that was cancelled undoes it still.
CommitInv ==
    \A r \in Handles : handle[r] = "Finished" =>
        \E t \in Tasks : /\ op[t] = "Finish" /\ subject[t] = r /\ outcome[t] = "Ok"
                         /\ task[t] = "Cancelled" => Poisoning(t)

FiberTypeOK ==
    /\ fiber \in [AllFibers -> {"Ready", "Waiting", "Closing"}]
    /\ awaits \in [AllFibers -> Tasks \cup {NoTask}]
    /\ stage \in [Uploads -> DOMAIN NextCall \cup {"Returned", "Raised"}]
    /\ result \in [Uploads -> {"None", "Ok", "Raised"}]
    /\ writer \in [Uploads -> Writers \cup {NoHandle}]

\* A fiber waits for a task that nobody has claimed, each for its own, and
\* closes a stream whose next has failed.
WaitInv ==
    \A f \in AllFibers :
        /\ fiber[f] = "Waiting" =>
               /\ awaits[f] \in Tasks
               /\ task[awaits[f]] \in {"Running", "Completed"}
               /\ \A g \in AllFibers :
                      fiber[g] = "Waiting" /\ awaits[g] = awaits[f] => g = f
        /\ fiber[f] = "Closing" =>
               f \in Fibers /\ awaits[f] \in Tasks /\ op[awaits[f]] = "Next"

\* A whole write waits for the call of its stage, on its own writer.
StageInv ==
    \A f \in Uploads : fiber[f] = "Waiting" =>
        /\ result[f] = "None"
        /\ stage[f] \in DOMAIN NextCall
        /\ op[awaits[f]] = NextCall[stage[f]]
        /\ subject[awaits[f]] = writer[f]

\* Nobody else's call is about the writer of a whole write.
PrivateInv ==
    \A f \in Uploads : writer[f] # NoHandle =>
        /\ \A g \in Uploads : writer[g] = writer[f] => g = f
        /\ \A t \in Tasks :
              subject[t] = writer[f] /\ task[t] \in {"Running", "Completed"}
                  => fiber[f] = "Waiting" /\ awaits[f] = t

HasCommit(f, t) ==
    op[t] = "Finish" /\ subject[t] = writer[f] /\ task[t] = "Taken" /\ outcome[t] = "Ok"

Committed(f) ==
    \/ stage[f] = "Finish" /\ result[f] = "Ok"
    \/ stage[f] = "Returned"

\* A whole write knows of the commit of its writer, and a commit whose
\* cancellation is under way finds it where it was cancelled.
VerdictInv ==
    \A f \in Uploads :
        /\ Committed(f) => \E t \in Tasks : HasCommit(f, t)
        /\ writer[f] # NoHandle => \A t \in Tasks :
              /\ HasCommit(f, t) => Committed(f)
              /\ op[t] = "Finish" /\ subject[t] = writer[f] /\ Poisoning(t)
                     => stage[f] = "Finish"

AwaitIInv ==
    /\ IInv /\ SubjectInv /\ ReachInv /\ CommitInv
    /\ FiberTypeOK /\ WaitInv /\ NoOrphan /\ StageInv /\ PrivateInv /\ VerdictInv
=============================================================================
