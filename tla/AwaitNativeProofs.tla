------------------------- MODULE AwaitNativeProofs -------------------------
(***************************************************************************)
(* The safety of the native asynchronous side, in two parts.                *)
(*                                                                         *)
(* NativeAsync, for any number of callers, tasks, streams and writers: IInv *)
(* is shown to be inductive, one lemma per action and in each lemma one      *)
(* step per conjunct that needs an argument of its own; the properties and   *)
(* the refinement of TaskProtocol follow from it.                           *)
(*                                                                         *)
(* AwaitNative, for any number of fibers, whole writes, tasks, streams and   *)
(* writers: every step of a fiber is shown to be a step of NativeAsync or to *)
(* leave it alone, so that the first part holds here; on top of its IInv,    *)
(* AwaitIInv is shown to be inductive.                                      *)
(***************************************************************************)
EXTENDS AwaitNative, TLAPS

USE DEF IInv, taskVars, futureVars, handleVars, callerVars, HandleOps,
        OpenOps, WriterOps

----------------------------------------------------------------------------
(* Every action preserves the invariant *)

\* The invariant survives when a whole read starts.
LEMMA ReadStartInv ==
    ASSUME NEW c \in Callers, NEW t \in Tasks,
           IInv, ReadStart(c, t)
    PROVE  IInv'
<1>1. TypeOK'
    BY DEF ReadStart, Spawn, TypeOK, TaskStates, Signals, Ops
<1>2. UnusedInv' /\ OpenInv' /\ OwnInv'
    BY DEF ReadStart, Spawn, UnusedInv, TypeOK, OpenInv, OwnInv
<1>3. LifeInv'
    BY DEF ReadStart, Spawn, LifeInv, TypeOK, UnusedInv
<1>4. CallInv'
    BY DEF ReadStart, Spawn, CallInv, UnusedInv
<1>5. SlotInv'
    BY DEF ReadStart, Spawn, SlotInv, Poisoning, UnusedInv
<1>6. FailInv'
    BY DEF ReadStart, Spawn, FailInv, TypeOK, Poisons
<1>7. WakeOwnership'
    BY DEF ReadStart, Spawn, WakeOwnership, TypeOK, Cancelling
<1>8. CancelledIsPoisoned'
    BY DEF ReadStart, Spawn, CancelledIsPoisoned, Poisons, Poisoning
<1>9. BusyIsOwned'
    BY DEF ReadStart, Spawn, BusyIsOwned, Poisons, Poisoning, UnusedInv
<1>10. QED
    BY <1>1, <1>2, <1>3, <1>4, <1>5, <1>6, <1>7, <1>8, <1>9 DEF IInv

\* The invariant survives when an open starts.
LEMMA OpenStartInv ==
    ASSUME NEW c \in Callers, NEW t \in Tasks, NEW o \in OpenOps, NEW r \in Handles,
           IInv, OpenStart(c, t, o, r)
    PROVE  IInv'
<1>1. TypeOK'
    BY DEF OpenStart, Spawn, TypeOK, TaskStates, Signals, Ops
<1>2. UnusedInv' /\ OpenInv' /\ OwnInv'
    BY DEF OpenStart, Spawn, UnusedInv, TypeOK, OpenInv, OwnInv
<1>3. LifeInv'
    BY DEF OpenStart, Spawn, LifeInv, TypeOK, UnusedInv
<1>4. CallInv'
    BY DEF OpenStart, Spawn, CallInv, UnusedInv
<1>5. SlotInv'
    BY DEF OpenStart, Spawn, SlotInv, Poisoning, UnusedInv
<1>6. FailInv'
    BY DEF OpenStart, Spawn, FailInv, TypeOK, Poisons
<1>7. WakeOwnership'
    BY DEF OpenStart, Spawn, WakeOwnership, TypeOK, Cancelling
<1>8. CancelledIsPoisoned'
    BY DEF OpenStart, Spawn, CancelledIsPoisoned, Poisons, Poisoning
<1>9. BusyIsOwned'
    BY DEF OpenStart, Spawn, BusyIsOwned, Poisons, Poisoning, UnusedInv
<1>10. QED
    BY <1>1, <1>2, <1>3, <1>4, <1>5, <1>6, <1>7, <1>8, <1>9 DEF IInv

\* The invariant survives when a call takes the cursor or Writer.
LEMMA OwningStartInv ==
    ASSUME NEW c \in Callers, NEW t \in Tasks, NEW o \in HandleOps, NEW r \in Handles,
           IInv, OwningStart(c, t, o, r)
    PROVE  IInv'
<1>1. TypeOK'
    BY DEF OwningStart, Spawn, TypeOK, TaskStates, Signals, Ops,
       HandleStates, Live
<1>2. UnusedInv' /\ CallInv' /\ OpenInv' /\ OwnInv'
    BY DEF OwningStart, Spawn, UnusedInv, TypeOK, CallInv, OpenInv, OwnInv
<1>3. LifeInv'
    BY DEF OwningStart, Spawn, LifeInv, TypeOK, UnusedInv
<1>4. SlotInv'
    BY DEF OwningStart, Spawn, UnusedInv, OwnInv, SlotInv, Poisoning
<1>5. FailInv'
    BY DEF OwningStart, Spawn, FailInv, Poisons, Terminal, UnusedInv
<1>6. WakeOwnership'
    BY DEF OwningStart, Spawn, WakeOwnership, TypeOK, Cancelling
<1>7. CancelledIsPoisoned'
    BY DEF OwningStart, Spawn, CancelledIsPoisoned, Poisons, Poisoning,
       Terminal
<1>8. BusyIsOwned'
    BY DEF OwningStart, Spawn, BusyIsOwned, TypeOK, Poisons, Poisoning,
       UnusedInv
<1>9. QED
    BY <1>1, <1>2, <1>3, <1>4, <1>5, <1>6, <1>7, <1>8 DEF IInv

\* The invariant survives when a call is answered at a stable end.
LEMMA AnswerStartInv ==
    ASSUME NEW c \in Callers, NEW t \in Tasks, NEW o \in HandleOps, NEW r \in Handles,
           IInv, AnswerStart(c, t, o, r)
    PROVE  IInv'
<1>1. TypeOK'
    BY DEF AnswerStart, Spawn, TypeOK, TaskStates, Signals, Ops
<1>2. UnusedInv' /\ CallInv' /\ OpenInv' /\ OwnInv'
    BY DEF AnswerStart, Spawn, UnusedInv, TypeOK, CallInv, OpenInv, OwnInv
<1>3. LifeInv'
    BY DEF AnswerStart, Spawn, LifeInv, TypeOK, UnusedInv
<1>4. SlotInv'
    BY DEF AnswerStart, Spawn, SlotInv, Poisoning, UnusedInv
<1>5. FailInv'
    BY DEF AnswerStart, Spawn, FailInv, TypeOK, Poisons, Terminal
<1>6. WakeOwnership'
    BY DEF AnswerStart, Spawn, WakeOwnership, TypeOK, Cancelling
<1>7. CancelledIsPoisoned'
    BY DEF AnswerStart, Spawn, CancelledIsPoisoned, Poisons, Poisoning
<1>8. BusyIsOwned'
    BY DEF AnswerStart, Spawn, BusyIsOwned, Poisons, Poisoning, UnusedInv
<1>9. QED
    BY <1>1, <1>2, <1>3, <1>4, <1>5, <1>6, <1>7, <1>8 DEF IInv

\* The invariant survives when a start call installs its abort handle.
LEMMA InstallAbortInv ==
    ASSUME NEW c \in Callers,
           IInv, InstallAbort(c)
    PROVE  IInv'
<1>1. TypeOK'
    BY DEF InstallAbort, Installed, TypeOK, LifeInv, CallInv
<1>2. UnusedInv'
    BY DEF InstallAbort, Installed, UnusedInv, CallInv
<1>3. LifeInv' /\ CallInv' /\ OpenInv' /\ OwnInv'
    BY DEF InstallAbort, Installed, LifeInv, CallInv, TypeOK, OpenInv, OwnInv
<1>4. SlotInv'
    BY DEF InstallAbort, Installed, Lost, SlotInv, TypeOK, Poisoning, CallInv
<1>5. FailInv'
    BY DEF InstallAbort, Installed, Lost, FailInv, TypeOK, Poisons, Terminal
<1>6. WakeOwnership'
    BY DEF InstallAbort, Installed, WakeOwnership, Cancelling
<1>7. CancelledIsPoisoned'
    BY DEF InstallAbort, Installed, CancelledIsPoisoned, Poisons, Poisoning
<1>8. BusyIsOwned'
    BY DEF InstallAbort, Installed, BusyIsOwned, Poisons, Poisoning
<1>9. QED
    BY <1>1, <1>2, <1>3, <1>4, <1>5, <1>6, <1>7, <1>8 DEF IInv

\* The invariant survives when a worker returns.
LEMMA WorkerReturnInv ==
    ASSUME NEW t \in Tasks, NEW out \in Outcomes,
           IInv, WorkerReturn(t, out)
    PROVE  IInv'
<1>1. TypeOK'
    BY DEF WorkerReturn, Stores, Results, After, TypeOK, UnusedInv, OwnInv,
       HandleStates, Live, Terminal, Poisoning, Cancelling, Handles
<1>2. UnusedInv' /\ LifeInv' /\ CallInv'
    BY DEF WorkerReturn, Stores, UnusedInv, LifeInv, TypeOK, CallInv
<1>3. OpenInv'
    BY DEF WorkerReturn, Stores, Results, After, TypeOK, LifeInv, OpenInv,
       OwnInv
<1>4. OwnInv'
    BY DEF WorkerReturn, Stores, OwnInv, TypeOK, LifeInv
<1>5. SlotInv'
    BY DEF WorkerReturn, Stores, TypeOK, LifeInv, CallInv, OpenInv, OwnInv,
       SlotInv, WakeOwnership, Poisoning
<1>6. FailInv'
    BY DEF WorkerReturn, Stores, Results, After, TypeOK, LifeInv, OpenInv,
       OwnInv, FailInv, HandleStates, Live, Terminal, Poisons
<1>7. WakeOwnership'
    BY DEF WorkerReturn, Stores, WakeOwnership, Cancelling
<1>8. CancelledIsPoisoned'
    BY DEF WorkerReturn, Stores, CancelledIsPoisoned, TypeOK, Poisons,
       Poisoning, Terminal, LifeInv
<1>9. BusyIsOwned'
    BY DEF WorkerReturn, Stores, Results, After, BusyIsOwned, TypeOK,
       Poisons, Poisoning, LifeInv
<1>10. QED
    BY <1>1, <1>2, <1>3, <1>4, <1>5, <1>6, <1>7, <1>8, <1>9 DEF IInv

\* The invariant survives when a worker panics.
LEMMA WorkerPanicInv ==
    ASSUME NEW t \in Tasks,
           IInv, WorkerPanic(t)
    PROVE  IInv'
<1>1. TypeOK'
    BY DEF WorkerPanic, TypeOK, Outcomes
<1>2. UnusedInv' /\ LifeInv' /\ CallInv' /\ OpenInv' /\ OwnInv' /\ SlotInv'
    BY DEF WorkerPanic, UnusedInv, LifeInv, TypeOK, CallInv, OpenInv, OwnInv,
       SlotInv, Poisoning
<1>3. FailInv'
    BY DEF WorkerPanic, FailInv, Poisons, LifeInv
<1>4. WakeOwnership'
    BY DEF WorkerPanic, WakeOwnership, Cancelling
<1>5. CancelledIsPoisoned'
    BY DEF WorkerPanic, CancelledIsPoisoned, Poisons, Poisoning
<1>6. BusyIsOwned'
    BY DEF WorkerPanic, BusyIsOwned, TypeOK, Poisons, Poisoning, LifeInv
<1>7. QED
    BY <1>1, <1>2, <1>3, <1>4, <1>5, <1>6 DEF IInv

\* The invariant survives when an aborted worker is dropped.
LEMMA WorkerAbortInv ==
    ASSUME NEW t \in Tasks,
           IInv, WorkerAbort(t)
    PROVE  IInv'
<1>1. TypeOK'
    BY DEF WorkerAbort, TypeOK, Outcomes
<1>2. UnusedInv' /\ LifeInv' /\ CallInv' /\ OpenInv' /\ OwnInv' /\ SlotInv'
    BY DEF WorkerAbort, UnusedInv, LifeInv, TypeOK, CallInv, OpenInv, OwnInv,
       SlotInv, Poisoning
<1>3. FailInv'
    BY DEF WorkerAbort, FailInv, Poisons
<1>4. WakeOwnership'
    BY DEF WorkerAbort, WakeOwnership, Cancelling
<1>5. CancelledIsPoisoned'
    BY DEF WorkerAbort, CancelledIsPoisoned, Poisons, Poisoning
<1>6. BusyIsOwned'
    BY DEF WorkerAbort, TypeOK, LifeInv, SlotInv, BusyIsOwned, Poisons,
       Poisoning
<1>7. QED
    BY <1>1, <1>2, <1>3, <1>4, <1>5, <1>6 DEF IInv

\* The invariant survives when a supervisor sees its worker end.
LEMMA SuperviseInv ==
    ASSUME NEW t \in Tasks,
           IInv, Supervise(t)
    PROVE  IInv'
<1>1. TypeOK'
  <2>1. CASE outcome[t] = "Panic"
    <3>1. handle' \in [Handles -> HandleStates]
      BY <2>1 DEF Supervise, Joined, Fail, Store, TypeOK, HandleStates, Terminal
    <3>2. slot' \in [Handles -> Tasks \cup {NoTask}]
      BY <2>1 DEF Supervise, Joined, Fail, Store, TypeOK
    <3>3. abort' \in [Tasks -> BOOLEAN]
      BY <2>1, Zenon DEF Supervise, Joined, Fail, Store
    <3>4. super' \in [Tasks -> {"None", "Await", "Publish", "Notify", "Done"}]
      BY DEF Supervise, Joined, TypeOK
    <3>5. QED
      BY <3>1, <3>2, <3>3, <3>4 DEF Supervise, Joined, TypeOK
  <2>2. CASE outcome[t] # "Panic"
    BY <2>2 DEF Supervise, Joined, TypeOK
  <2>3. QED
    BY <2>1, <2>2
<1>2. UnusedInv'
    BY TaskAssumption DEF Supervise, Joined, Fail, Store, TypeOK, UnusedInv, LifeInv,
       SlotInv, Poisons
<1>3. LifeInv' /\ CallInv'
    BY DEF Supervise, Joined, LifeInv, CallInv
<1>4. OpenInv'
    BY DEF Supervise, Joined, Fail, Store, OpenInv, LifeInv, Poisons
<1>5. OwnInv'
    BY DEF Supervise, Joined, Fail, Store, OwnInv, LifeInv
<1>6. SlotInv'
    BY TaskAssumption DEF Supervise, Joined, Fail, Store, TypeOK, LifeInv, OwnInv,
       SlotInv, Poisons, Poisoning
<1>7. FailInv'
    BY TaskAssumption DEF Supervise, Joined, Fail, Store, TypeOK, LifeInv, SlotInv,
       FailInv, Terminal, Poisons
<1>8. WakeOwnership'
    BY DEF Supervise, Joined, WakeOwnership, Cancelling
<1>9. CancelledIsPoisoned'
    BY DEF Supervise, Joined, Fail, Store, CancelledIsPoisoned, Poisons, Poisoning,
       Terminal, LifeInv
<1>10. BusyIsOwned'
    BY DEF Supervise, Joined, Fail, Store, BusyIsOwned, Poisons, Poisoning
<1>11. QED
    BY <1>1, <1>2, <1>3, <1>4, <1>5, <1>6, <1>7, <1>8, <1>9, <1>10 DEF IInv

\* The invariant survives when a supervisor publishes.
LEMMA PublishInv ==
    ASSUME NEW t \in Tasks,
           IInv, Publish(t)
    PROVE  IInv'
<1>1. TypeOK'
    BY DEF Publish, PublishWins, TypeOK, TaskStates, Signals
<1>2. UnusedInv' /\ LifeInv' /\ CallInv' /\ OpenInv' /\ OwnInv' /\ SlotInv'
    BY DEF Publish, PublishWins, UnusedInv, TypeOK, LifeInv, CallInv,
       OpenInv, OwnInv, SlotInv, Poisoning
<1>3. FailInv'
    BY DEF Publish, PublishWins, FailInv, TypeOK, Poisons
<1>4. WakeOwnership'
    BY DEF Publish, PublishWins, WakeOwnership, TypeOK, Cancelling
<1>5. CancelledIsPoisoned'
    BY DEF Publish, PublishWins, CancelledIsPoisoned, TypeOK, Poisons,
       Poisoning
<1>6. BusyIsOwned'
    BY DEF Publish, PublishWins, BusyIsOwned, TypeOK, Poisons, Poisoning
<1>7. QED
    BY <1>1, <1>2, <1>3, <1>4, <1>5, <1>6 DEF IInv

\* The invariant survives when a supervisor writes the wake.
LEMMA PublishNotifyInv ==
    ASSUME NEW t \in Tasks,
           IInv, PublishNotify(t)
    PROVE  IInv'
<1>1. TypeOK'
    BY DEF PublishNotify, Notify, TypeOK, Signals
<1>2. UnusedInv' /\ LifeInv' /\ CallInv' /\ OpenInv' /\ OwnInv' /\ SlotInv'
    BY DEF PublishNotify, Notify, UnusedInv, LifeInv, CallInv, OpenInv,
       OwnInv, SlotInv, Poisoning
<1>3. FailInv'
    BY DEF PublishNotify, FailInv, Poisons
<1>4. WakeOwnership'
    BY DEF PublishNotify, Notify, WakeOwnership, TypeOK, Cancelling, LifeInv
<1>5. CancelledIsPoisoned'
    BY DEF PublishNotify, CancelledIsPoisoned, Poisons, Poisoning
<1>6. BusyIsOwned'
    BY DEF PublishNotify, BusyIsOwned, Poisons, Poisoning
<1>7. QED
    BY <1>1, <1>2, <1>3, <1>4, <1>5, <1>6 DEF IInv

\* The invariant survives when a cancel takes the task.
LEMMA CancelInv ==
    ASSUME NEW c \in Callers, NEW t \in Tasks,
           IInv, Cancel(c, t)
    PROVE  IInv'
<1>1. TypeOK'
    BY DEF Cancel, TypeOK, TaskStates, Signals
<1>2. UnusedInv' /\ LifeInv' /\ CallInv' /\ OpenInv' /\ OwnInv' /\ SlotInv'
    BY DEF Cancel, UnusedInv, LifeInv, CallInv, TypeOK, OpenInv, OwnInv,
       SlotInv, Poisoning
<1>3. FailInv'
    BY DEF Cancel, FailInv, TypeOK, Poisons
<1>4. WakeOwnership'
    BY DEF Cancel, WakeOwnership, TypeOK, Cancelling
<1>5. CancelledIsPoisoned'
    BY DEF Cancel, CancelledIsPoisoned, TypeOK, Poisons, Poisoning
<1>6. BusyIsOwned'
    BY DEF Cancel, BusyIsOwned, Poisons, Poisoning
<1>7. QED
    BY <1>1, <1>2, <1>3, <1>4, <1>5, <1>6 DEF IInv

\* The invariant survives when a cancel fails the handle.
LEMMA CancelPoisonInv ==
    ASSUME NEW c \in Callers,
           IInv, CancelPoison(c)
    PROVE  IInv'
<1>1. TypeOK'
    BY DEF CancelPoison, Fail, Store, TypeOK, HandleStates, Terminal
<1>2. UnusedInv'
    BY TaskAssumption DEF CancelPoison, Fail, Store, TypeOK, UnusedInv,
       LifeInv, CallInv, SlotInv, Poisons
<1>3. LifeInv' /\ CallInv'
    BY DEF CancelPoison, LifeInv, CallInv
<1>4. OpenInv'
    BY DEF CancelPoison, Fail, Store, OpenInv, LifeInv, CallInv, Poisons
<1>5. OwnInv'
    BY DEF CancelPoison, Fail, Store, OwnInv, LifeInv
<1>6. SlotInv'
    BY TaskAssumption DEF CancelPoison, Fail, Store, TypeOK, LifeInv,
       CallInv, OwnInv, SlotInv, Poisons, Poisoning
<1>7. FailInv'
    BY TaskAssumption DEF CancelPoison, Fail, Store, TypeOK, LifeInv,
       CallInv, SlotInv, FailInv, Terminal, Poisons
<1>8. WakeOwnership'
    BY DEF CancelPoison, WakeOwnership, Cancelling
<1>9. CancelledIsPoisoned'
    BY DEF CancelPoison, Fail, Store, CancelledIsPoisoned, Poisons,
       Poisoning, Terminal, LifeInv
<1>10. BusyIsOwned'
    BY DEF CancelPoison, Fail, Store, BusyIsOwned, Poisons, Poisoning
<1>11. QED
    BY <1>1, <1>2, <1>3, <1>4, <1>5, <1>6, <1>7, <1>8, <1>9, <1>10 DEF IInv

\* The invariant survives when a cancel writes the wake.
LEMMA CancelNotifyInv ==
    ASSUME NEW c \in Callers,
           IInv, CancelNotify(c)
    PROVE  IInv'
<1>1. TypeOK'
    BY DEF CancelNotify, Notify, TypeOK, Signals
<1>2. UnusedInv' /\ LifeInv' /\ CallInv' /\ OpenInv' /\ OwnInv' /\ SlotInv'
    BY DEF CancelNotify, Notify, UnusedInv, TypeOK, LifeInv, CallInv,
       OpenInv, OwnInv, SlotInv, Poisoning
<1>3. FailInv'
    BY DEF CancelNotify, FailInv, Poisons
<1>4. WakeOwnership'
    BY DEF CancelNotify, Notify, WakeOwnership, TypeOK, Cancelling
<1>5. CancelledIsPoisoned'
    BY DEF CancelNotify, CancelledIsPoisoned, Poisons, Poisoning
<1>6. BusyIsOwned'
    BY DEF CancelNotify, BusyIsOwned, Poisons, Poisoning
<1>7. QED
    BY <1>1, <1>2, <1>3, <1>4, <1>5, <1>6 DEF IInv

\* The invariant survives when a result is taken.
LEMMA TakeInv ==
    ASSUME NEW c \in Callers, NEW t \in Tasks,
           IInv, Take(c, t)
    PROVE  IInv'
<1>1. TypeOK'
    BY DEF Take, TypeOK, TaskStates, HandleStates, Live, LifeInv
<1>2. UnusedInv' /\ LifeInv' /\ CallInv' /\ OpenInv' /\ SlotInv'
    BY DEF Take, UnusedInv, LifeInv, CallInv, OpenInv, TypeOK, SlotInv,
       Poisoning
<1>3. OwnInv'
    BY DEF Take, OpenInv, OwnInv
<1>4. FailInv'
    BY DEF Take, OpenInv, FailInv, Poisons
<1>5. WakeOwnership'
    BY DEF Take, WakeOwnership, Cancelling
<1>6. CancelledIsPoisoned'
    BY DEF Take, OpenInv, CancelledIsPoisoned, Poisons, Poisoning
<1>7. BusyIsOwned'
    BY DEF Take, BusyIsOwned, Poisons, Poisoning
<1>8. QED
    BY <1>1, <1>2, <1>3, <1>4, <1>5, <1>6, <1>7 DEF IInv

\* The invariant survives when a stream is closed.
LEMMA CloseInv ==
    ASSUME NEW c \in Callers, NEW r \in Streams,
           IInv, Close(c, r)
    PROVE  IInv'
<1>1. TypeOK'
    BY DEF Close, Store, TypeOK, HandleStates, Terminal
<1>2. UnusedInv'
    BY TaskAssumption DEF Close, Store, TypeOK, UnusedInv, SlotInv, Handles
<1>3. LifeInv' /\ CallInv'
    BY DEF Close, LifeInv, CallInv
<1>4. OpenInv'
    BY DEF Close, Store, OpenInv, LifeInv
<1>5. OwnInv'
    BY DEF Close, Store, OwnInv, LifeInv
<1>6. SlotInv'
    BY TaskAssumption DEF Close, Store, TypeOK, LifeInv, OwnInv, SlotInv,
       Poisoning, Handles
<1>7. FailInv'
    BY TaskAssumption DEF Close, Store, TypeOK, LifeInv, SlotInv, FailInv,
       Terminal, Poisons, Handles
<1>8. WakeOwnership'
    BY DEF Close, WakeOwnership, Cancelling
<1>9. CancelledIsPoisoned'
    BY DEF Close, Store, CancelledIsPoisoned, Poisons, Poisoning, Terminal,
       LifeInv
<1>10. BusyIsOwned'
    BY DEF Close, Store, BusyIsOwned, Poisons, Poisoning
<1>11. QED
    BY <1>1, <1>2, <1>3, <1>4, <1>5, <1>6, <1>7, <1>8, <1>9, <1>10 DEF IInv

\* The invariant survives when a writer is freed.
LEMMA FreeWriterInv ==
    ASSUME NEW c \in Callers, NEW r \in Writers,
           IInv, FreeWriter(c, r)
    PROVE  IInv'
<1>1. TypeOK'
    BY DEF FreeWriter, Fail, Store, TypeOK, HandleStates, Terminal
<1>2. UnusedInv'
    BY TaskAssumption DEF FreeWriter, Fail, Store, TypeOK, UnusedInv,
       SlotInv, Handles
<1>3. LifeInv' /\ CallInv'
    BY DEF FreeWriter, LifeInv, CallInv
<1>4. OpenInv'
    BY DEF FreeWriter, Fail, Store, OpenInv, LifeInv
<1>5. OwnInv'
    BY DEF FreeWriter, Fail, Store, OwnInv, LifeInv
<1>6. SlotInv'
    BY TaskAssumption DEF FreeWriter, Fail, Store, TypeOK, LifeInv, OwnInv,
       SlotInv, Poisoning, Handles
<1>7. FailInv'
    BY TaskAssumption DEF FreeWriter, Fail, Store, TypeOK, LifeInv, SlotInv,
       FailInv, Terminal, Poisons, Handles
<1>8. WakeOwnership'
    BY DEF FreeWriter, WakeOwnership, Cancelling
<1>9. CancelledIsPoisoned'
    BY DEF FreeWriter, Fail, Store, CancelledIsPoisoned, Poisons, Poisoning,
       Terminal, LifeInv
<1>10. BusyIsOwned'
    BY DEF FreeWriter, Fail, Store, BusyIsOwned, Poisons, Poisoning
<1>11. QED
    BY <1>1, <1>2, <1>3, <1>4, <1>5, <1>6, <1>7, <1>8, <1>9, <1>10 DEF IInv
----------------------------------------------------------------------------
(* The invariant holds *)

\* No task, no handle and no call: the invariant holds at the start.
LEMMA InitInv == Init => IInv
<1> SUFFICES ASSUME Init PROVE IInv
    OBVIOUS
<1>1. TypeOK
    BY DEF Init, TypeOK, TaskStates, Signals, Ops, Outcomes, HandleStates
<1>2. UnusedInv /\ LifeInv /\ CallInv /\ OpenInv /\ OwnInv /\ SlotInv
    BY DEF Init, UnusedInv, LifeInv, CallInv, OpenInv, OwnInv, SlotInv
<1>3. FailInv /\ WakeOwnership /\ CancelledIsPoisoned /\ BusyIsOwned
    BY DEF Init, FailInv, WakeOwnership, CancelledIsPoisoned, BusyIsOwned,
           Poisons
<1>4. QED
    BY <1>1, <1>2, <1>3

\* A step of a call, of a worker or of a supervisor preserves the invariant.
LEMMA NextInv == IInv /\ [Next]_vars => IInv'
<1> SUFFICES ASSUME IInv, [Next]_vars PROVE IInv'
    OBVIOUS
<1>1. CASE UNCHANGED vars
    BY <1>1 DEF vars, TypeOK, UnusedInv, LifeInv, CallInv, OpenInv, OwnInv,
                SlotInv, FailInv, WakeOwnership, CancelledIsPoisoned,
                BusyIsOwned, Poisons, Poisoning, Cancelling
<1>2. ASSUME NEW c \in Callers, Call(c) PROVE IInv'
  <2>1. ASSUME NEW t \in Tasks, ReadStart(c, t) \/ Cancel(c, t) \/ Take(c, t)
        PROVE  IInv'
    BY <2>1, ReadStartInv, CancelInv, TakeInv
  <2>2. ASSUME NEW t \in Tasks, NEW o \in OpenOps, NEW r \in Handles,
               OpenStart(c, t, o, r)
        PROVE  IInv'
    BY <2>2, OpenStartInv
  <2>3. ASSUME NEW t \in Tasks, NEW o \in HandleOps, NEW r \in Handles,
               HandleStart(c, t, o, r)
        PROVE  IInv'
    BY <2>3, OwningStartInv, AnswerStartInv DEF HandleStart
  <2>4. ASSUME NEW r \in Streams, Close(c, r) PROVE IInv'
    BY <2>4, CloseInv
  <2>5. ASSUME NEW r \in Writers, FreeWriter(c, r) PROVE IInv'
    BY <2>5, FreeWriterInv
  <2>6. QED
    BY <1>2, <2>1, <2>2, <2>3, <2>4, <2>5 DEF Call
<1>3. ASSUME NEW c \in Callers, CallerStep(c) PROVE IInv'
    BY <1>3, InstallAbortInv, CancelPoisonInv, CancelNotifyInv DEF CallerStep
<1>4. ASSUME NEW t \in Tasks, WorkerStep(t) PROVE IInv'
    BY <1>4, WorkerReturnInv, WorkerPanicInv, WorkerAbortInv DEF WorkerStep
<1>5. ASSUME NEW t \in Tasks, SuperStep(t) PROVE IInv'
    BY <1>5, SuperviseInv, PublishInv, PublishNotifyInv DEF SuperStep
<1>6. QED
    BY <1>1, <1>2, <1>3, <1>4, <1>5 DEF Next

\* IInv is an invariant of the native async ABI.
THEOREM Invariance == Spec => []IInv
    BY InitInv, NextInv, PTL DEF Spec

\* Every variable of the native async model keeps its type.
THEOREM TypeCorrect == Spec => []TypeOK
<1>1. IInv => TypeOK
    OBVIOUS
<1>2. QED
    BY Invariance, <1>1, PTL

\* The completion descriptor of a task is never lost between publish and
\* cancel, and its byte is never visible before the task is decided.
THEOREM WakeIsOwned == Spec => []WakeOwnership
<1>1. IInv => WakeOwnership
    OBVIOUS
<1>2. QED
    BY Invariance, <1>1, PTL

\* A stream or writer whose operation was cancelled is terminal for good.
THEOREM CancelPoisons == Spec => []CancelledIsPoisoned
<1>1. IInv => CancelledIsPoisoned
    OBVIOUS
<1>2. QED
    BY Invariance, <1>1, PTL

\* Whoever can see an operation fail finds its stream or writer terminal.
THEOREM FailurePoisons == Spec => []FailureIsTerminal
<1>1. IInv => FailureIsTerminal
    BY DEF FailureIsTerminal, FailInv, LifeInv, TypeOK, Poisons
<1>2. QED
    BY Invariance, <1>1, PTL

\* An operation that was cancelled or went wrong leaves its handle terminal.
THEOREM WrongIsPoisoned == Spec => []Poisoned
<1>1. CancelledIsPoisoned /\ FailureIsTerminal => Poisoned
    BY DEF Poisoned
<1>2. QED
    BY <1>1, CancelPoisons, FailurePoisons, PTL

\* Two futures never hold the cursor or Writer of one handle.
THEOREM OneUpstreamOperation == Spec => []OneUpstream
<1>1. IInv => OneUpstream
    BY DEF OneUpstream, OwnInv
<1>2. QED
    BY Invariance, <1>1, PTL

\* A Busy handle always has somebody left who will move it on.
THEOREM BusyHasOwner == Spec => []BusyIsOwned
<1>1. IInv => BusyIsOwned
    OBVIOUS
<1>2. QED
    BY Invariance, <1>1, PTL

\* A cursor or Writer has at most one operation, a Busy handle at least one.
THEOREM HandlesAreExclusive == Spec => []Exclusive
<1>1. OneUpstream /\ BusyIsOwned => Exclusive
    BY DEF Exclusive
<1>2. QED
    BY <1>1, OneUpstreamOperation, BusyHasOwner, PTL

----------------------------------------------------------------------------
(* Steps *)

Sticks == \A r \in Handles : handle[r] \in Terminal => handle'[r] \in Terminal

\* No step takes a core out of a terminal state: starts need Open, workers
\* store into Busy, and a take opens a core that was Absent.
LEMMA StickyStep == IInv /\ [Next]_vars => [Sticks]_vars
<1> SUFFICES ASSUME IInv, Next PROVE Sticks
    BY DEF vars
<1>1. ASSUME handle' = handle PROVE Sticks
    BY <1>1 DEF Sticks
<1>2. ASSUME NEW H, NEW s \in Terminal, Store(H, s) PROVE Sticks
    BY <1>2 DEF Sticks, Store, Terminal
<1>3. ASSUME NEW c \in Callers, NEW t \in Tasks, Take(c, t) PROVE Sticks
    BY <1>3 DEF Sticks, Take, OpenInv, TypeOK, Terminal
<1>4. ASSUME NEW c \in Callers, NEW t \in Tasks, NEW o, NEW r \in Handles,
             OwningStart(c, t, o, r)
      PROVE  Sticks
    BY <1>4 DEF Sticks, OwningStart, TypeOK, Terminal
<1>5. ASSUME NEW t \in Tasks, NEW out \in Outcomes, WorkerReturn(t, out)
      PROVE  Sticks
    BY <1>5 DEF Sticks, WorkerReturn, Stores, TypeOK, Terminal
<1>6. ASSUME NEW c \in Callers, Call(c) PROVE Sticks
    BY <1>1, <1>2, <1>3, <1>4, <1>6
       DEF Call, ReadStart, Cancel, OpenStart, HandleStart, AnswerStart, Close,
           FreeWriter, Fail, Terminal
<1>7. ASSUME NEW c \in Callers, CallerStep(c) PROVE Sticks
    BY <1>1, <1>2, <1>7
       DEF CallerStep, InstallAbort, CancelPoison, CancelNotify, Fail, Terminal
<1>8. ASSUME NEW t \in Tasks, WorkerStep(t) PROVE Sticks
    BY <1>1, <1>5, <1>8 DEF WorkerStep, WorkerPanic, WorkerAbort
<1>9. ASSUME NEW t \in Tasks, SuperStep(t) PROVE Sticks
    BY <1>1, <1>2, <1>9
       DEF SuperStep, Supervise, Joined, Publish, PublishNotify, Fail, Terminal
<1>10. QED
    BY <1>6, <1>7, <1>8, <1>9 DEF Next

\* End, Failed, Closed, Finished and Aborted are never left for Open or Busy.
THEOREM TerminalIsSticky == Spec => TerminalSticks
    BY Invariance, StickyStep, PTL DEF Spec, TerminalSticks, Sticks

----------------------------------------------------------------------------
(* Refinement *)

PipeShown == [t \in Tasks |-> signal[t] \in {"Byte", "Eof"}]

\* The wake of one task is the protocol's Wake, or nothing new when the pipe
\* has shown it before.
LEMMA WakeStep ==
    ASSUME NEW t \in Tasks, IInv, Notify(t), task' = task,
           task[t] \in {"Completed", "Taken", "Cancelled"}
    PROVE  [Protocol!Next]_(Protocol!vars)
<1>1. PICK w \in {"Byte", "Eof"} : signal' = [signal EXCEPT ![t] = w]
    BY DEF Notify
<1>2. PipeShown' = [PipeShown EXCEPT ![t] = TRUE]
    BY <1>1 DEF PipeShown, TypeOK
<1>3. CASE PipeShown[t]
  <2>1. PipeShown' = PipeShown
    BY <1>2, <1>3 DEF PipeShown
  <2>2. QED
    BY <2>1 DEF Protocol!vars, PipeShown
<1>4. CASE ~PipeShown[t]
    BY <1>2, <1>4 DEF Protocol!Next, Protocol!Wake, Protocol!Decided, PipeShown
<1>5. QED
    BY <1>3, <1>4

\* A step that leaves every pipe as it is and moves the task t along one edge of
\* the protocol is a step of the protocol.
LEMMA DecisionStep ==
    ASSUME NEW t \in Tasks, IInv, PipeShown' = PipeShown,
           \/ /\ task[t] = "Unused"
              /\ task' = [task EXCEPT ![t] = "Running"]
           \/ /\ task[t] = "Running"
              /\ task' = [task EXCEPT ![t] = "Completed"]
           \/ /\ task[t] = "Completed"
              /\ task' = [task EXCEPT ![t] = "Taken"]
           \/ /\ task[t] \in {"Running", "Completed"}
              /\ task' = [task EXCEPT ![t] = "Cancelled"]
    PROVE  Protocol!Next
    BY DEF Protocol!Next, Protocol!Start, Protocol!Complete, Protocol!Take,
           Protocol!Cancel, PipeShown

\* A step that touches neither the tasks nor the pipes is a stutter.
LEMMA StutterStep ==
    ASSUME task' = task, signal' = signal
    PROVE  UNCHANGED Protocol!vars
    BY DEF Protocol!vars

\* Every step of the native side is a step of the task protocol or a stutter.
LEMMA ProtocolStep == IInv /\ [Next]_vars => [Protocol!Next]_(Protocol!vars)
<1> SUFFICES ASSUME IInv, [Next]_vars PROVE [Protocol!Next]_(Protocol!vars)
    OBVIOUS
<1>1. CASE UNCHANGED vars
    BY <1>1, StutterStep DEF vars
<1>2. ASSUME NEW t \in Tasks, NEW o, NEW r, NEW owning, Spawn(t, o, r, owning)
      PROVE  Protocol!Next
  <2>1. PipeShown' = PipeShown
    BY <1>2 DEF Spawn, PipeShown, TypeOK, UnusedInv
  <2>2. QED
    BY <1>2, <2>1, DecisionStep DEF Spawn
<1>3. ASSUME NEW c \in Callers, Call(c) PROVE [Protocol!Next]_(Protocol!vars)
  <2>1. ASSUME NEW t \in Tasks, Cancel(c, t) PROVE Protocol!Next
    <3>1. PipeShown' = PipeShown
      BY <2>1 DEF Cancel, PipeShown, TypeOK
    <3>2. QED
      BY <2>1, <3>1, DecisionStep DEF Cancel
  <2>2. ASSUME NEW t \in Tasks, Take(c, t) PROVE Protocol!Next
    <3>1. PipeShown' = PipeShown
      BY <2>2 DEF Take, PipeShown
    <3>2. QED
      BY <2>2, <3>1, DecisionStep DEF Take
  <2>3. QED
    BY <1>2, <1>3, <2>1, <2>2, StutterStep
       DEF Call, ReadStart, OpenStart, HandleStart, OwningStart, AnswerStart,
           Close, FreeWriter
<1>4. ASSUME NEW c \in Callers, CallerStep(c)
      PROVE  [Protocol!Next]_(Protocol!vars)
    BY <1>4, WakeStep, StutterStep
       DEF CallerStep, InstallAbort, CancelPoison, CancelNotify, CallInv
<1>5. ASSUME NEW t \in Tasks, WorkerStep(t)
      PROVE  [Protocol!Next]_(Protocol!vars)
    BY <1>5, StutterStep DEF WorkerStep, WorkerReturn, WorkerPanic, WorkerAbort
<1>6. ASSUME NEW t \in Tasks, Publish(t) PROVE [Protocol!Next]_(Protocol!vars)
  <2>1. CASE task[t] = "Running"
    <3>1. PipeShown' = PipeShown
      BY <1>6, <2>1 DEF Publish, PublishWins, PipeShown, TypeOK, WakeOwnership
    <3>2. QED
      BY <1>6, <2>1, <3>1, DecisionStep DEF Publish, PublishWins
  <2>2. CASE task[t] # "Running"
    BY <1>6, <2>2, StutterStep DEF Publish, PublishWins
  <2>3. QED
    BY <2>1, <2>2
<1>7. ASSUME NEW t \in Tasks, SuperStep(t)
      PROVE  [Protocol!Next]_(Protocol!vars)
    BY <1>6, <1>7, WakeStep, StutterStep
       DEF SuperStep, Supervise, Joined, PublishNotify, LifeInv
<1>8. QED
    BY <1>1, <1>3, <1>4, <1>5, <1>7 DEF Next

\* The tasks of the native ABI implement TaskProtocol: one decision, one take,
\* one wake, and no wake before the decision.
THEOREM RefinesProtocol == Spec => Protocol!SafeSpec
<1>1. ASSUME Init PROVE Protocol!Init
  <2>1. \A t \in Tasks : (signal[t] \in {"Byte", "Eof"}) = FALSE
    BY <1>1 DEF Init
  <2>2. [t \in Tasks |-> signal[t] \in {"Byte", "Eof"}] = [t \in Tasks |-> FALSE]
    BY <2>1, Zenon
  <2>3. QED
    BY <1>1, <2>2, Zenon DEF Init, Protocol!Init
<1>2. QED
    BY <1>1, ProtocolStep, Invariance, PTL DEF Spec, Protocol!SafeSpec

----------------------------------------------------------------------------
(* Fibers on top of the native side *)

HIDE DEF IInv

\* What the native side alone keeps, when one thread calls it.
NativeInv == IInv /\ SubjectInv /\ ReachInv /\ CommitInv

\* The scheduler is the caller, the only one.
LEMMA OneCaller ==
    /\ Scheduler \in Callers
    /\ \A c \in Callers : c = Scheduler
    BY SchedulerAssumption

\* A task is being poisoned when the scheduler poisons it.
LEMMA PoisoningByScheduler ==
    \A t : Poisoning(t) <=> pc[Scheduler] = "Poison" /\ job[Scheduler] = t
    BY SchedulerAssumption DEF Poisoning

----------------------------------------------------------------------------
(* Every action of the native side keeps NativeInv *)

\* A task that starts without a cursor gets a handle of the right kind.
LEMMA PlainStartFacts ==
    ASSUME NativeInv, NEW t \in Tasks, NEW o \in Ops, NEW r,
           Spawn(t, o, r, FALSE), UNCHANGED <<handleVars, callerVars>>,
           o \in {"Next", "OpenStream"} => r \in Streams,
           o \in WriterOps \cup {"OpenWriter"} => r \in Writers,
           o = "Read" => r = NoHandle
    PROVE  SubjectInv' /\ ReachInv' /\ CommitInv'
<1>1. SubjectInv'
    BY DEF NativeInv, IInv, TypeOK, SubjectInv, Spawn, Ops
<1>2. ReachInv'
    BY DEF NativeInv, IInv, TypeOK, UnusedInv, ReachInv, Installing, Spawn
<1>3. CommitInv'
    BY DEF NativeInv, IInv, TypeOK, UnusedInv, CommitInv, Poisoning, Spawn
<1>4. QED
    BY <1>1, <1>2, <1>3

\* A call that takes the cursor is about to install its abort handle.
LEMMA OwningStartFacts ==
    ASSUME NativeInv, NEW t \in Tasks, NEW o \in HandleOps, NEW r \in Handles,
           IF o = "Next" THEN r \in Streams ELSE r \in Writers,
           OwningStart(Scheduler, t, o, r)
    PROVE  SubjectInv' /\ ReachInv' /\ CommitInv'
<1>1. SubjectInv'
    BY DEF NativeInv, IInv, TypeOK, SubjectInv, OwningStart, Spawn
<1>2. ReachInv'
    BY SchedulerAssumption
       DEF NativeInv, IInv, TypeOK, UnusedInv, OwnInv, ReachInv, Installing,
           OwningStart, Spawn
<1>3. CommitInv'
    BY PoisoningByScheduler
       DEF NativeInv, IInv, TypeOK, UnusedInv, CommitInv, Poisoning,
           OwningStart, Spawn
<1>4. QED
    BY <1>1, <1>2, <1>3

\* The scheduler installs the abort handle of the call it has started.
LEMMA InstallAbortFacts ==
    ASSUME NativeInv, InstallAbort(Scheduler)
    PROVE  SubjectInv' /\ ReachInv' /\ CommitInv'
<1>1. SubjectInv'
    BY DEF NativeInv, SubjectInv, InstallAbort
<1>2. ReachInv'
  <2> DEFINE j == job[Scheduler]
  <2>1. j \in Tasks /\ subject[j] \in Handles
    BY OneCaller DEF NativeInv, IInv, CallInv, LifeInv, InstallAbort
  <2>2. /\ Installing(j)
        /\ \A t : Installing(t) => t = j
        /\ \A t : ~Installing(t)'
    BY OneCaller DEF NativeInv, IInv, TypeOK, InstallAbort, Installing
  <2>3. \A r \in Handles : slot'[r] =
           IF r = subject[j] /\ handle[r] = "Busy" /\ slot[r] = NoTask THEN j ELSE slot[r]
    BY <2>1 DEF NativeInv, IInv, TypeOK, InstallAbort, Installed
  <2>4. \A t \in Tasks : abort[t] => abort'[t]
    BY <2>1 DEF NativeInv, IInv, TypeOK, InstallAbort
  <2>5. handle[subject[j]] = "Failed" => abort'[j]
    BY <2>1, ZenonT(60) DEF NativeInv, IInv, TypeOK, InstallAbort, Lost
  <2>6. \A t \in Tasks : owns[t] => subject[t] \in Handles
    BY DEF NativeInv, IInv, OwnInv, LifeInv
  <2>7. /\ handle' = handle /\ owns' = owns /\ subject' = subject /\ task' = task
    BY DEF InstallAbort
  <2> HIDE DEF j
  <2>8. QED
    BY <2>1, <2>2, <2>3, <2>4, <2>5, <2>6, <2>7, TaskAssumption
       DEF NativeInv, ReachInv
<1>3. CommitInv'
    BY PoisoningByScheduler DEF NativeInv, CommitInv, InstallAbort, Poisoning
<1>4. QED
    BY <1>1, <1>2, <1>3

\* The storage call ends.
LEMMA WorkerReturnFacts ==
    ASSUME NativeInv, NEW t \in Tasks, NEW out \in Outcomes, WorkerReturn(t, out)
    PROVE  SubjectInv' /\ ReachInv' /\ CommitInv'
<1>1. SubjectInv'
    BY DEF NativeInv, SubjectInv, WorkerReturn
<1>2. ReachInv'
    BY DEF NativeInv, IInv, TypeOK, LifeInv, OwnInv, ReachInv, Installing,
           WorkerReturn, Stores, After, Results
<1>3. CommitInv'
  <2>1. \A u : Poisoning(u)' <=> Poisoning(u)
    BY DEF WorkerReturn, Poisoning
  <2>2. \A u \in Tasks : outcome[u] = "Ok" => outcome'[u] = outcome[u]
    BY DEF NativeInv, IInv, TypeOK, LifeInv, WorkerReturn
  <2>3. CASE handle' = handle
    BY <1>1, <2>1, <2>2, <2>3 DEF NativeInv, CommitInv, WorkerReturn
  <2>4. CASE Stores(t)
    <3>1. handle[subject[t]] = "Busy" /\ op[t] \in HandleOps /\ subject[t] \in Handles
      BY <2>4 DEF Stores, NativeInv, IInv, OwnInv, LifeInv
    <3>2. task[t] = "Cancelled" => Poisoning(t)
      BY <3>1 DEF NativeInv, IInv, CancelledIsPoisoned, Poisons, Terminal
    <3>3. /\ handle' = [handle EXCEPT ![subject[t]] = After(op[t], out)]
          /\ outcome' = [outcome EXCEPT ![t] = out]
          /\ op' = op /\ subject' = subject /\ task' = task
      BY <2>4 DEF WorkerReturn
    <3>4. After(op[t], out) = "Finished" => op[t] = "Finish" /\ out = "Ok"
      BY <2>4, <3>1 DEF After, WorkerReturn, Results, Stores
    <3>5. ASSUME NEW r \in Handles, handle'[r] = "Finished"
          PROVE  \E u \in Tasks :
                    /\ op'[u] = "Finish" /\ subject'[u] = r /\ outcome'[u] = "Ok"
                    /\ task'[u] = "Cancelled" => Poisoning(u)'
      <4>1. CASE r = subject[t]
        BY <2>1, <3>1, <3>2, <3>3, <3>4, <3>5, <4>1 DEF NativeInv, IInv, TypeOK
      <4>2. CASE r # subject[t]
        BY <2>1, <2>2, <3>3, <3>5, <4>2 DEF NativeInv, IInv, TypeOK, CommitInv
      <4>3. QED
        BY <4>1, <4>2
    <3>6. QED
      BY <3>5 DEF CommitInv
  <2>5. QED
    BY <2>3, <2>4 DEF WorkerReturn
<1>4. QED
    BY <1>1, <1>2, <1>3

\* The future unwinds or is dropped.
LEMMA WorkerDropFacts ==
    ASSUME NativeInv, NEW t \in Tasks, WorkerPanic(t) \/ WorkerAbort(t)
    PROVE  SubjectInv' /\ ReachInv' /\ CommitInv'
<1>1. SubjectInv'
    BY DEF NativeInv, SubjectInv, WorkerPanic, WorkerAbort
<1>2. ReachInv'
    BY DEF NativeInv, IInv, TypeOK, ReachInv, Installing, WorkerPanic, WorkerAbort
<1>3. CommitInv'
    BY DEF NativeInv, IInv, TypeOK, LifeInv, CommitInv, Poisoning, WorkerPanic,
           WorkerAbort
<1>4. QED
    BY <1>1, <1>2, <1>3

\* A core that fails or is closed uses the abort handle in its slot.
LEMMA StoreFacts ==
    ASSUME NativeInv, NEW H, NEW s \in {"Failed", "Closed"}, Store(H, s),
           UNCHANGED <<op, subject, owns, task>>,
           \A t : Installing(t)' <=> Installing(t),
           s = "Closed" => \A t : ~Installing(t)
    PROVE  SubjectInv' /\ ReachInv'
<1>1. SubjectInv'
    BY DEF NativeInv, SubjectInv
<1>2. /\ \A r \in Handles : /\ handle'[r] = IF r \in H THEN s ELSE handle[r]
                            /\ slot'[r] = IF r \in H THEN NoTask ELSE slot[r]
      /\ \A t \in Tasks : /\ abort[t] => abort'[t]
                          /\ \A r \in H : slot[r] = t => abort'[t]
    BY DEF Store
<1>3. \A t \in Tasks : owns[t] => subject[t] \in Handles
    BY DEF NativeInv, IInv, OwnInv, LifeInv
<1>4. ReachInv'
    BY <1>2, <1>3 DEF NativeInv, ReachInv
<1>5. QED
    BY <1>1, <1>4

\* The supervisor goes on, and fails the core of a call that unwound.
LEMMA SuperviseFacts ==
    ASSUME NativeInv, NEW t \in Tasks, Supervise(t)
    PROVE  SubjectInv' /\ ReachInv' /\ CommitInv'
<1>1. /\ UNCHANGED <<op, subject, owns, task, outcome, pc, job>>
      /\ \A u : (Installing(u)' <=> Installing(u)) /\ (Poisoning(u)' <=> Poisoning(u))
    BY DEF Supervise, Installing, Poisoning
<1>2. CASE UNCHANGED <<handleVars, abort>>
    BY <1>1, <1>2 DEF NativeInv, SubjectInv, ReachInv, CommitInv
<1>3. CASE Fail(Poisons(t))
  <2>1. SubjectInv' /\ ReachInv'
    BY <1>1, <1>3, StoreFacts DEF Fail
  <2>2. CommitInv'
    BY <1>1, <1>3 DEF NativeInv, CommitInv, Fail, Store
  <2>3. QED
    BY <2>1, <2>2
<1>4. QED
    BY <1>2, <1>3 DEF Supervise

\* The supervisor publishes and writes the byte.
LEMMA PublishFacts ==
    ASSUME NativeInv, NEW t \in Tasks, Publish(t) \/ PublishNotify(t)
    PROVE  SubjectInv' /\ ReachInv' /\ CommitInv'
<1>1. /\ UNCHANGED <<op, subject, owns, outcome, abort, handle, slot, pc, job>>
      /\ \A u : (Installing(u)' <=> Installing(u)) /\ (Poisoning(u)' <=> Poisoning(u))
    BY DEF Publish, PublishNotify, Installing, Poisoning
<1>2. \A u \in Tasks : task'[u] = "Cancelled" => task[u] = "Cancelled"
    BY DEF NativeInv, IInv, TypeOK, Publish, PublishNotify
<1>3. QED
    BY <1>1, <1>2 DEF NativeInv, SubjectInv, ReachInv, CommitInv

\* The scheduler cancels a task.
LEMMA CancelFacts ==
    ASSUME NativeInv, NEW t \in Tasks, Cancel(Scheduler, t)
    PROVE  SubjectInv' /\ ReachInv' /\ CommitInv'
<1>1. /\ UNCHANGED <<op, subject, owns, outcome, handle, slot>>
      /\ \A u : ~Installing(u) /\ ~Installing(u)' /\ ~Poisoning(u)
      /\ Poisoning(t)'
    BY OneCaller, PoisoningByScheduler
       DEF NativeInv, IInv, TypeOK, Cancel, Installing, Poisoning
<1>2. \A u \in Tasks : /\ u # t => task'[u] = task[u]
                       /\ abort[u] => abort'[u]
    BY DEF NativeInv, IInv, TypeOK, Cancel
<1>3. owns[t] => abort'[t]
    BY DEF NativeInv, IInv, TypeOK, LifeInv, Cancel
<1>4. ReachInv'
    BY <1>1, <1>2, <1>3 DEF NativeInv, ReachInv
<1>5. SubjectInv' /\ CommitInv'
    BY <1>1, <1>2 DEF NativeInv, SubjectInv, CommitInv
<1>6. QED
    BY <1>4, <1>5

\* The cancel fails the core, the commit of a cancelled finish included.
LEMMA CancelPoisonFacts ==
    ASSUME NativeInv, CancelPoison(Scheduler)
    PROVE  SubjectInv' /\ ReachInv' /\ CommitInv'
<1>1. /\ UNCHANGED <<op, subject, owns, task, outcome>>
      /\ \A u : ~Installing(u) /\ ~Installing(u)'
      /\ Fail(Poisons(job[Scheduler]))
    BY OneCaller DEF NativeInv, IInv, TypeOK, CancelPoison, Installing
<1>2. SubjectInv' /\ ReachInv'
    BY <1>1, StoreFacts DEF Fail
<1>3. CommitInv'
  <2>1. ASSUME NEW r \in Handles, handle'[r] = "Finished"
        PROVE  r \notin Poisons(job[Scheduler]) /\ handle[r] = "Finished"
    BY <1>1, <2>1 DEF Fail, Store
  <2>2. \A u : Poisoning(u) => u = job[Scheduler]
    BY PoisoningByScheduler
  <2>3. \A u \in Tasks : op[u] = "Finish" => subject[u] \in Poisons(u)
    BY DEF Poisons
  <2>4. QED
    BY <1>1, <2>1, <2>2, <2>3 DEF NativeInv, CommitInv
<1>4. QED
    BY <1>2, <1>3

\* The cancel writes the byte and returns.
LEMMA CancelNotifyFacts ==
    ASSUME NativeInv, CancelNotify(Scheduler)
    PROVE  SubjectInv' /\ ReachInv' /\ CommitInv'
<1>1. /\ UNCHANGED <<op, subject, owns, task, outcome, abort, handle, slot>>
      /\ \A u : ~Installing(u) /\ ~Installing(u)' /\ ~Poisoning(u)
    BY OneCaller, PoisoningByScheduler
       DEF NativeInv, IInv, TypeOK, CancelNotify, Installing
<1>2. QED
    BY <1>1 DEF NativeInv, SubjectInv, ReachInv, CommitInv

\* The result is taken; an open hands over its core, which nobody has used.
LEMMA TakeFacts ==
    ASSUME NativeInv, NEW t \in Tasks, Take(Scheduler, t)
    PROVE  SubjectInv' /\ ReachInv' /\ CommitInv'
<1>1. /\ UNCHANGED <<op, subject, owns, outcome, abort, slot, pc, job>>
      /\ \A u : (Installing(u)' <=> Installing(u)) /\ (Poisoning(u)' <=> Poisoning(u))
    BY DEF Take, Installing, Poisoning
<1>2. \A u \in Tasks : task'[u] = "Cancelled" => task[u] = "Cancelled"
    BY DEF NativeInv, IInv, TypeOK, Take
<1>3. CASE handle' = handle
    BY <1>1, <1>2, <1>3 DEF NativeInv, SubjectInv, ReachInv, CommitInv
<1>4. CASE op[t] \in OpenOps /\ handle' = [handle EXCEPT ![subject[t]] = "Open"]
  <2>1. subject[t] \in Handles /\ handle[subject[t]] = "Absent"
    BY <1>4 DEF NativeInv, IInv, LifeInv, OpenInv, Take
  <2>2. /\ \A r \in Handles : handle'[r] = IF r = subject[t] THEN "Open" ELSE handle[r]
        /\ \A u \in Tasks : owns[u] => subject[u] # subject[t]
    BY <1>4, <2>1 DEF NativeInv, IInv, TypeOK, OpenInv, OwnInv
  <2>3. \A u \in Tasks : owns[u] => subject[u] \in Handles
    BY DEF NativeInv, IInv, OwnInv, LifeInv
  <2>4. ReachInv'
    BY <1>1, <1>2, <2>1, <2>2, <2>3 DEF NativeInv, ReachInv
  <2>5. SubjectInv' /\ CommitInv'
    BY <1>1, <1>2, <2>2 DEF NativeInv, SubjectInv, CommitInv
  <2>6. QED
    BY <2>4, <2>5
<1>5. QED
    BY <1>3, <1>4 DEF Take

\* A stream is closed, or a writer is freed.
LEMMA CloseFacts ==
    ASSUME NativeInv, NEW r \in Handles, Close(Scheduler, r) \/ FreeWriter(Scheduler, r)
    PROVE  SubjectInv' /\ ReachInv' /\ CommitInv'
<1>1. /\ UNCHANGED <<op, subject, owns, task, outcome, pc, job>>
      /\ \A u : ~Installing(u) /\ ~Installing(u)' /\ (Poisoning(u)' <=> Poisoning(u))
    BY DEF Close, FreeWriter, Installing, Poisoning
<1>2. PICK s \in {"Failed", "Closed"} : Store({r}, s)
    BY DEF Close, FreeWriter, Fail
<1>3. SubjectInv' /\ ReachInv'
    BY <1>1, <1>2, StoreFacts
<1>4. CommitInv'
    BY <1>1, <1>2 DEF NativeInv, CommitInv, Store
<1>5. QED
    BY <1>3, <1>4

\* NativeInv is an invariant of the native side with one caller.
LEMMA NativeStep == NativeInv /\ [Next]_vars => NativeInv'
<1> SUFFICES ASSUME NativeInv, [Next]_vars PROVE NativeInv'
    OBVIOUS
<1>1. IInv'
    BY NextInv DEF NativeInv
<1>2. CASE UNCHANGED vars
    BY <1>1, <1>2
       DEF vars, NativeInv, SubjectInv, ReachInv, CommitInv, Installing, Poisoning
<1>3. ASSUME Call(Scheduler) PROVE SubjectInv' /\ ReachInv' /\ CommitInv'
  <2>1. ASSUME NEW t \in Tasks, ReadStart(Scheduler, t)
        PROVE  SubjectInv' /\ ReachInv' /\ CommitInv'
    BY <2>1, PlainStartFacts DEF ReadStart, Ops
  <2>2. ASSUME NEW t \in Tasks, NEW o \in OpenOps, NEW r \in Handles,
               OpenStart(Scheduler, t, o, r)
        PROVE  SubjectInv' /\ ReachInv' /\ CommitInv'
    BY <2>2, PlainStartFacts DEF OpenStart, Ops
  <2>3. ASSUME NEW t \in Tasks, NEW o \in HandleOps, NEW r \in Handles,
               HandleStart(Scheduler, t, o, r)
        PROVE  SubjectInv' /\ ReachInv' /\ CommitInv'
    BY <2>3, PlainStartFacts, OwningStartFacts DEF HandleStart, AnswerStart, Ops
  <2>4. QED
    BY <1>3, <2>1, <2>2, <2>3, CancelFacts, TakeFacts, CloseFacts DEF Call, Handles
<1>4. ASSUME CallerStep(Scheduler) PROVE SubjectInv' /\ ReachInv' /\ CommitInv'
    BY <1>4, InstallAbortFacts, CancelPoisonFacts, CancelNotifyFacts DEF CallerStep
<1>5. ASSUME NEW t \in Tasks, WorkerStep(t) \/ SuperStep(t)
      PROVE  SubjectInv' /\ ReachInv' /\ CommitInv'
    BY <1>5, WorkerReturnFacts, WorkerDropFacts, SuperviseFacts, PublishFacts
       DEF WorkerStep, SuperStep
<1>6. CASE Next
  <2>1. SubjectInv' /\ ReachInv' /\ CommitInv'
    BY <1>3, <1>4, <1>5, <1>6, OneCaller DEF Next
  <2>2. QED
    BY <1>1, <2>1 DEF NativeInv
<1>7. QED
    BY <1>2, <1>6

----------------------------------------------------------------------------
(* Every step of a fiber is a step of the native side, or none *)

\* The calls of a whole write by their stage.
LEMMA NextCallFacts ==
    /\ DOMAIN NextCall = {"Open", "Write", "Finish", "Abort"}
    /\ NextCall["Open"] = "OpenWriter" /\ NextCall["Write"] = "Write"
    /\ NextCall["Finish"] = "Finish" /\ NextCall["Abort"] = "Abort"
    BY DEF NextCall

\* What await_native_result does is one ABI call of the scheduler.
LEMMA AwaitIsCall ==
    ASSUME AwaitIInv, NEW f \in AllFibers, Await(f)
    PROVE  Call(Scheduler)
<1>1. CASE Woken(f)
    BY <1>1 DEF Woken, AwaitIInv, WaitInv, Call
<1>2. CASE GivesUp(f)
    BY <1>2 DEF GivesUp, AwaitIInv, WaitInv, Call
<1>3. CASE CloseFailed(f)
  <2>1. subject[awaits[f]] \in Streams /\ Close(Scheduler, subject[awaits[f]])
    BY <1>3 DEF CloseFailed, AwaitIInv, WaitInv, SubjectInv
  <2>2. QED
    BY <2>1 DEF Call
<1>4. QED
    BY <1>1, <1>2, <1>3 DEF Await, Resumed, PipeEnds, FiberCancelled

\* A step of AwaitNative is a step of NativeAsync or leaves it alone.
LEMMA StepIsNative == AwaitIInv /\ [AwaitNext]_allVars => [Next]_vars
<1> SUFFICES ASSUME AwaitIInv, [AwaitNext]_allVars PROVE [Next]_vars
    OBVIOUS
<1>1. CASE UNCHANGED allVars
    BY <1>1 DEF allVars
<1>2. CASE Native
    BY <1>2, OneCaller DEF Native, Next
<1>3. ASSUME NEW f \in Fibers, FiberStep(f) PROVE Call(Scheduler)
  <2>1. CASE Operation(f)
    BY <2>1 DEF Operation, Call
  <2>2. CASE CloseStream(f)
    BY <2>2 DEF CloseStream, Call
  <2>3. QED
    BY <1>3, <2>1, <2>2, AwaitIsCall DEF FiberStep, AllFibers
<1>4. ASSUME NEW f \in Uploads, UploadStep(f) PROVE Call(Scheduler) \/ UNCHANGED vars
  <2>1. CASE UploadCalls(f)
    <3>1. PICK t \in Tasks :
             \/ \E r \in Writers : OpenStart(Scheduler, t, "OpenWriter", r)
             \/ /\ stage[f] \in DOMAIN NextCall \ {"Open"}
                /\ HandleStart(Scheduler, t, NextCall[stage[f]], writer[f])
      BY <2>1 DEF UploadCalls
    <3>2. CASE \E r \in Writers : OpenStart(Scheduler, t, "OpenWriter", r)
      BY <3>2 DEF Call, Handles
    <3>3. CASE /\ stage[f] \in DOMAIN NextCall \ {"Open"}
               /\ HandleStart(Scheduler, t, NextCall[stage[f]], writer[f])
      <4>1. NextCall[stage[f]] \in HandleOps
        BY <3>3, NextCallFacts
      <4>2. writer[f] \in Handles
        BY <3>3 DEF HandleStart, Handles
      <4>3. QED
        BY <3>3, <4>1, <4>2 DEF Call
    <3>4. QED
      BY <3>1, <3>2, <3>3
  <2>2. CASE UploadRejected(f) \/ UploadStartFails(f) \/ UploadAdvances(f)
    BY <2>2 DEF UploadRejected, UploadStartFails, UploadAdvances
  <2>3. QED
    BY <1>4, <2>1, <2>2, AwaitIsCall DEF UploadStep, UploadGoesOn, AllFibers
<1>5. CASE DropWriter
    BY <1>5, OneCaller DEF DropWriter, Next, Call
<1>6. QED
    BY <1>1, <1>2, <1>3, <1>4, <1>5, OneCaller DEF AwaitNext, Next

----------------------------------------------------------------------------
(* What fibers know of their tasks *)

FiberInv == FiberTypeOK /\ WaitInv /\ NoOrphan /\ StageInv /\ PrivateInv /\ VerdictInv

\* A step that at most publishes results, and withdraws nothing, leaves the
\* fibers' knowledge as it is.
LEMMA FibersKeep ==
    ASSUME AwaitIInv, UNCHANGED <<op, subject, fiberVars>>,
           \A t \in Tasks : \/ task'[t] = task[t]
                            \/ task[t] = "Running" /\ task'[t] = "Completed",
           \A t \in Tasks : task[t] = "Taken" => outcome'[t] = outcome[t],
           \A t : Poisoning(t)' => Poisoning(t)
    PROVE  FiberInv'
<1>1. UNCHANGED <<fiber, awaits, stage, result, writer>>
    BY DEF fiberVars, uploadVars
<1>2. FiberTypeOK' /\ StageInv'
    BY <1>1 DEF AwaitIInv, FiberTypeOK, StageInv
<1>3. WaitInv' /\ NoOrphan' /\ PrivateInv'
    BY <1>1 DEF AwaitIInv, IInv, TypeOK, WaitInv, NoOrphan, PrivateInv
<1>4. \A f \in Uploads, t \in Tasks : HasCommit(f, t)' <=> HasCommit(f, t)
    BY <1>1 DEF HasCommit
<1>5. \A f : Committed(f)' <=> Committed(f)
    BY <1>1 DEF Committed
<1>6. VerdictInv'
    BY <1>1, <1>4, <1>5 DEF AwaitIInv, VerdictInv
<1>7. QED
    BY <1>2, <1>3, <1>6 DEF FiberInv

\* Workers, supervisors and the scheduler's unfinished calls.
LEMMA BackgroundKeeps ==
    ASSUME AwaitIInv, Native
    PROVE  FiberInv'
<1>1. UNCHANGED fiberVars
    BY DEF Native
<1>2. ASSUME CallerStep(Scheduler)
      PROVE  /\ UNCHANGED <<op, subject, task, outcome>>
             /\ \A u : Poisoning(u)' => Poisoning(u)
    BY <1>2, OneCaller, PoisoningByScheduler
       DEF CallerStep, InstallAbort, CancelPoison, CancelNotify, AwaitIInv, IInv,
           TypeOK, Poisoning
<1>3. ASSUME NEW t \in Tasks, WorkerStep(t) \/ SuperStep(t)
      PROVE  /\ UNCHANGED <<op, subject>>
             /\ \A u \in Tasks : \/ task'[u] = task[u]
                                 \/ task[u] = "Running" /\ task'[u] = "Completed"
             /\ \A u \in Tasks : task[u] = "Taken" => outcome'[u] = outcome[u]
             /\ \A u : Poisoning(u)' => Poisoning(u)
  <2>1. CASE WorkerStep(t)
    BY <2>1 DEF WorkerStep, WorkerReturn, WorkerPanic, WorkerAbort, AwaitIInv, IInv,
       TypeOK, LifeInv, Poisoning
  <2>2. CASE SuperStep(t)
    BY <2>2 DEF SuperStep, Supervise, Publish, PublishWins, PublishNotify, AwaitIInv,
       IInv, TypeOK, Poisoning
  <2>3. QED
    BY <1>3, <2>1, <2>2
<1>4. QED
    BY <1>1, <1>2, <1>3, FibersKeep DEF Native

\* What a start call leaves behind.
Started(t, o, r) ==
    /\ task[t] = "Unused"
    /\ task' = [task EXCEPT ![t] = "Running"]
    /\ op' = [op EXCEPT ![t] = o]
    /\ subject' = [subject EXCEPT ![t] = r]
    /\ outcome' = outcome
    /\ \A u : ~Poisoning(u)'

\* Every start call does.
LEMMA StartsLeave ==
    ASSUME AwaitIInv, NEW t \in Tasks
    PROVE  /\ ReadStart(Scheduler, t) => Started(t, "Read", NoHandle)
           /\ \A o, r : OpenStart(Scheduler, t, o, r) => Started(t, o, r)
           /\ \A o, r : HandleStart(Scheduler, t, o, r) => Started(t, o, r)
    BY OneCaller, PoisoningByScheduler
       DEF ReadStart, OpenStart, HandleStart, OwningStart, AnswerStart, Spawn,
           Started, AwaitIInv, IInv, TypeOK, Poisoning

\* The fiber that starts a task is the one that waits for it.
LEMMA BeginKeeps ==
    ASSUME AwaitIInv, NEW f \in AllFibers, NEW t \in Tasks, NEW o, NEW r,
           Begin(f, t), Started(t, o, r)
    PROVE  WaitInv' /\ NoOrphan'
<1>1. /\ \A g \in AllFibers : /\ fiber'[g] = IF g = f THEN "Waiting" ELSE fiber[g]
                              /\ awaits'[g] = IF g = f THEN t ELSE awaits[g]
      /\ \A u \in Tasks : /\ task'[u] = IF u = t THEN "Running" ELSE task[u]
                          /\ op'[u] = IF u = t THEN o ELSE op[u]
      /\ task[t] = "Unused" /\ op[t] = "None" /\ fiber[f] = "Ready"
    BY DEF Begin, Started, AwaitIInv, FiberTypeOK, IInv, TypeOK, UnusedInv
<1>2. WaitInv'
    BY <1>1 DEF AwaitIInv, WaitInv
<1>3. NoOrphan'
    BY <1>1 DEF AwaitIInv, WaitInv, NoOrphan
<1>4. QED
    BY <1>2, <1>3

\* A start on another handle does not concern a whole write.
LEMMA OthersKeep ==
    ASSUME AwaitIInv, NEW f \in AllFibers, NEW t \in Tasks, NEW o, NEW r,
           Begin(f, t), Started(t, o, r), NEW g \in Uploads, g # f,
           writer[g] # NoHandle => r # writer[g],
           UNCHANGED <<stage, result>>, writer'[g] = writer[g]
    PROVE  /\ fiber'[g] = "Waiting" =>
                /\ result'[g] = "None" /\ stage'[g] \in DOMAIN NextCall
                /\ op'[awaits'[g]] = NextCall[stage'[g]]
                /\ subject'[awaits'[g]] = writer'[g]
           /\ writer'[g] # NoHandle => \A u \in Tasks :
                subject'[u] = writer'[g] /\ task'[u] \in {"Running", "Completed"}
                    => fiber'[g] = "Waiting" /\ awaits'[g] = u
           /\ Committed(g)' <=> Committed(g)
           /\ \A u \in Tasks : HasCommit(g, u)' <=> HasCommit(g, u)
<1>1. /\ fiber'[g] = fiber[g] /\ awaits'[g] = awaits[g]
      /\ \A u \in Tasks : /\ task'[u] = IF u = t THEN "Running" ELSE task[u]
                          /\ op'[u] = IF u = t THEN o ELSE op[u]
                          /\ subject'[u] = IF u = t THEN r ELSE subject[u]
      /\ task[t] = "Unused"
    BY DEF Begin, Started, AwaitIInv, FiberTypeOK, IInv, TypeOK, AllFibers
<1>2. g \in AllFibers
    BY DEF AllFibers
<1>3. fiber[g] = "Waiting" => awaits[g] \in Tasks /\ awaits[g] # t
    BY <1>1, <1>2 DEF AwaitIInv, WaitInv
<1>4. fiber'[g] = "Waiting" =>
          /\ result'[g] = "None" /\ stage'[g] \in DOMAIN NextCall
          /\ op'[awaits'[g]] = NextCall[stage'[g]]
          /\ subject'[awaits'[g]] = writer'[g]
    BY <1>1, <1>3, ZenonT(60) DEF AwaitIInv, StageInv
<1>5. writer'[g] # NoHandle => \A u \in Tasks :
          subject'[u] = writer'[g] /\ task'[u] \in {"Running", "Completed"}
              => fiber'[g] = "Waiting" /\ awaits'[g] = u
    BY <1>1 DEF AwaitIInv, PrivateInv
<1>6. Committed(g)' <=> Committed(g)
    BY DEF Committed
<1>7. \A u \in Tasks : HasCommit(g, u)' <=> HasCommit(g, u)
    BY <1>1 DEF HasCommit, Started
<1>8. QED
    BY <1>4, <1>5, <1>6, <1>7

\* A fiber starts an operation on a shared handle.
LEMMA OperationKeeps ==
    ASSUME AwaitIInv, NEW f \in Fibers, Operation(f), UNCHANGED <<stage, writer, chunks>>
    PROVE  FiberInv'
<1>1. PICK t \in Tasks :
         /\ Begin(f, t)
         /\ \E o, r : /\ Started(t, o, r)
                      /\ r = NoHandle \/ Shared(r)
    BY StartsLeave DEF Operation
<1>2. PICK o, r : Started(t, o, r) /\ (r = NoHandle \/ Shared(r))
    BY <1>1
<1>3. f \in AllFibers /\ result' = result
    BY DEF AllFibers, Operation
<1>4. \A g \in Uploads : /\ g # f
                         /\ writer[g] # NoHandle => r # writer[g]
    BY <1>2, FiberAssumption DEF Shared
<1>5. WaitInv' /\ NoOrphan'
    BY <1>1, <1>2, <1>3, BeginKeeps
<1>6. FiberTypeOK'
    BY <1>1, <1>3 DEF Begin, AwaitIInv, FiberTypeOK
<1>7. StageInv'
    BY <1>1, <1>2, <1>3, <1>4, OthersKeep DEF StageInv
<1>8. PrivateInv'
  <2>1. ASSUME NEW g \in Uploads, writer'[g] # NoHandle
        PROVE  /\ \A h \in Uploads : writer'[h] = writer'[g] => h = g
               /\ \A u \in Tasks :
                    subject'[u] = writer'[g] /\ task'[u] \in {"Running", "Completed"}
                        => fiber'[g] = "Waiting" /\ awaits'[g] = u
    <3>1. \A h \in Uploads : writer'[h] = writer'[g] => h = g
      BY <2>1 DEF AwaitIInv, PrivateInv
    <3>2. QED
      BY <1>1, <1>2, <1>3, <1>4, <2>1, <3>1, OthersKeep
  <2>2. QED
    BY <2>1 DEF PrivateInv
<1>9. VerdictInv'
  <2>1. \A g \in Uploads : /\ Committed(g)' <=> Committed(g)
                           /\ \A u \in Tasks : HasCommit(g, u)' <=> HasCommit(g, u)
    BY <1>1, <1>2, <1>3, <1>4, OthersKeep
  <2>2. \A u : ~Poisoning(u)'
    BY <1>2 DEF Started
  <2>3. QED
    BY <2>1, <2>2 DEF AwaitIInv, VerdictInv
<1>10. QED
    BY <1>5, <1>6, <1>7, <1>8, <1>9 DEF FiberInv

\* A whole write makes the call of its stage; an open reserves a writer that
\* nobody knows.
LEMMA UploadCallsKeeps ==
    ASSUME AwaitIInv, NEW f \in Uploads, UploadCalls(f)
    PROVE  FiberInv'
<1> DEFINE o == NextCall[stage[f]]
           w == writer'[f]
<1>1. PICK t \in Tasks :
         /\ Begin(f, t)
         /\ IF stage[f] = "Open"
            THEN \E r \in Writers : /\ Shared(r)
                                    /\ OpenStart(Scheduler, t, "OpenWriter", r)
                                    /\ writer' = [writer EXCEPT ![f] = r]
            ELSE /\ HandleStart(Scheduler, t, NextCall[stage[f]], writer[f])
                 /\ UNCHANGED writer
    BY DEF UploadCalls
<1>2. /\ f \in AllFibers /\ UNCHANGED <<stage, result, chunks>>
      /\ result[f] = "None" /\ stage[f] \in {"Open", "Write", "Finish", "Abort"}
    BY NextCallFacts DEF AllFibers, UploadCalls
<1>3. writer' = [writer EXCEPT ![f] = w] /\ w \in Writers /\ Started(t, o, w)
  <2>1. CASE stage[f] = "Open"
    <3>1. PICK r \in Writers : /\ Shared(r)
                               /\ OpenStart(Scheduler, t, "OpenWriter", r)
                               /\ writer' = [writer EXCEPT ![f] = r]
      BY <1>1, <2>1
    <3>2. w = r
      BY <3>1 DEF AwaitIInv, FiberTypeOK
    <3>3. Started(t, "OpenWriter", r)
      BY <3>1, StartsLeave
    <3>4. QED
      BY <2>1, <3>1, <3>2, <3>3, NextCallFacts
  <2>2. CASE stage[f] # "Open"
    <3>1. HandleStart(Scheduler, t, NextCall[stage[f]], writer[f]) /\ writer' = writer
      BY <1>1, <2>2
    <3>2. NextCall[stage[f]] # "Next"
      BY <1>2, NextCallFacts
    <3>3. w = writer[f] /\ writer[f] \in Writers
      BY <3>1, <3>2 DEF HandleStart
    <3>4. Started(t, o, w)
      BY <3>1, <3>3, StartsLeave
    <3>5. writer' = [writer EXCEPT ![f] = w]
      BY <3>1, <3>3 DEF AwaitIInv, FiberTypeOK
    <3>6. QED
      BY <3>3, <3>4, <3>5
  <2>3. QED
    BY <2>1, <2>2
<1> HIDE DEF o, w
<1>4. \A g \in Uploads : writer'[g] = IF g = f THEN w ELSE writer[g]
    BY <1>3 DEF AwaitIInv, FiberTypeOK
<1>5. w # NoHandle
    BY <1>3, HandleAssumption DEF Handles
<1>6. \A g \in Uploads : g # f => writer[g] # w
  <2>1. CASE stage[f] = "Open"
    <3>1. PICK r \in Writers : Shared(r) /\ writer' = [writer EXCEPT ![f] = r]
      BY <1>1, <2>1
    <3>2. w = r
      BY <3>1 DEF AwaitIInv, FiberTypeOK, w
    <3>3. QED
      BY <3>1, <3>2 DEF Shared
  <2>2. CASE stage[f] # "Open"
    <3>1. writer[f] = w
      BY <1>1, <2>2 DEF w
    <3>2. QED
      BY <1>5, <3>1 DEF AwaitIInv, PrivateInv
  <2>3. QED
    BY <2>1, <2>2
<1>7. \A u \in Tasks : subject[u] = w => task[u] \notin {"Running", "Completed"}
  <2>1. CASE stage[f] = "Open"
    <3>1. PICK r \in Writers : /\ OpenStart(Scheduler, t, "OpenWriter", r)
                               /\ writer' = [writer EXCEPT ![f] = r]
      BY <1>1, <2>1
    <3>2. w = r
      BY <3>1 DEF AwaitIInv, FiberTypeOK, w
    <3>3. /\ handle[w] = "Absent"
          /\ \A u \in Tasks : op[u] \in OpenOps /\ subject[u] = w
                                 => task[u] \in {"Taken", "Cancelled"}
      BY <3>1, <3>2 DEF OpenStart
    <3>4. QED
      BY <1>3, <1>5, <3>3
         DEF AwaitIInv, IInv, TypeOK, Ops, OpenInv, SubjectInv
  <2>2. CASE stage[f] # "Open"
    <3>1. writer[f] = w /\ fiber[f] = "Ready"
      BY <1>1, <2>2 DEF w, Begin
    <3>2. QED
      BY <1>5, <3>1 DEF AwaitIInv, PrivateInv
  <2>3. QED
    BY <2>1, <2>2
<1>8. \A u \in Tasks : ~(HasCommit(f, u)') /\ ~Committed(f) /\ ~(Committed(f)')
  <2>1. ~Committed(f) /\ ~(Committed(f)')
    BY <1>2 DEF Committed
  <2>2. ASSUME NEW u \in Tasks, HasCommit(f, u)' PROVE FALSE
    <3>1. u # t /\ op[u] = "Finish" /\ subject[u] = w /\ task[u] = "Taken" /\ outcome[u] = "Ok"
      BY <1>3, <1>4, <2>2 DEF HasCommit, Started, AwaitIInv, IInv, TypeOK
    <3>2. CASE stage[f] = "Open"
      <4>1. handle[w] = "Absent"
        <5>1. PICK r \in Writers : /\ OpenStart(Scheduler, t, "OpenWriter", r)
                                   /\ writer' = [writer EXCEPT ![f] = r]
          BY <1>1, <3>2
        <5>2. w = r
          BY <5>1 DEF AwaitIInv, FiberTypeOK, w
        <5>3. QED
          BY <5>1, <5>2 DEF OpenStart
      <4>2. QED
        BY <3>1, <4>1 DEF AwaitIInv, IInv, OpenInv
    <3>3. CASE stage[f] # "Open"
      <4>1. writer[f] = w
        BY <1>1, <3>3 DEF w
      <4>2. HasCommit(f, u)
        BY <3>1, <4>1 DEF HasCommit
      <4>3. QED
        BY <1>5, <2>1, <4>1, <4>2 DEF AwaitIInv, VerdictInv
    <3>4. QED
      BY <3>2, <3>3
  <2>3. QED
    BY <2>1, <2>2
<1>9. WaitInv' /\ NoOrphan'
    BY <1>1, <1>2, <1>3, BeginKeeps
<1>10. FiberTypeOK'
    BY <1>1, <1>2, <1>3 DEF Begin, AwaitIInv, FiberTypeOK
<1>11. /\ fiber'[f] = "Waiting" /\ awaits'[f] = t
       /\ \A u \in Tasks : /\ task'[u] = IF u = t THEN "Running" ELSE task[u]
                           /\ op'[u] = IF u = t THEN o ELSE op[u]
                           /\ subject'[u] = IF u = t THEN w ELSE subject[u]
    BY <1>1, <1>2, <1>3 DEF Begin, Started, AwaitIInv, FiberTypeOK, IInv, TypeOK
<1>12. StageInv'
  <2>1. /\ result'[f] = "None" /\ stage'[f] \in DOMAIN NextCall
        /\ op'[awaits'[f]] = NextCall[stage'[f]]
        /\ subject'[awaits'[f]] = writer'[f]
    BY <1>2, <1>4, <1>11, NextCallFacts DEF o
  <2>2. QED
    BY <1>1, <1>2, <1>3, <1>4, <1>6, <2>1, OthersKeep DEF StageInv
<1>13. PrivateInv'
  <2>1. ASSUME NEW g \in Uploads, writer'[g] # NoHandle
        PROVE  \A h \in Uploads : writer'[h] = writer'[g] => h = g
    BY <1>4, <1>6, <2>1 DEF AwaitIInv, PrivateInv
  <2>2. ASSUME NEW u \in Tasks, subject'[u] = w, task'[u] \in {"Running", "Completed"}
        PROVE  fiber'[f] = "Waiting" /\ awaits'[f] = u
    BY <1>7, <1>11, <2>2
  <2>3. ASSUME NEW g \in Uploads, g # f, writer'[g] # NoHandle
        PROVE  \A u \in Tasks :
                    subject'[u] = writer'[g] /\ task'[u] \in {"Running", "Completed"}
                        => fiber'[g] = "Waiting" /\ awaits'[g] = u
    BY <1>1, <1>2, <1>3, <1>4, <1>6, <2>3, OthersKeep
  <2>4. QED
    BY <1>4, <2>1, <2>2, <2>3 DEF PrivateInv
<1>14. VerdictInv'
  <2>1. \A g \in Uploads : g # f =>
           /\ Committed(g)' <=> Committed(g)
           /\ \A u \in Tasks : HasCommit(g, u)' <=> HasCommit(g, u)
           /\ writer'[g] = writer[g]
    BY <1>1, <1>2, <1>3, <1>4, <1>6, OthersKeep
  <2>2. \A u : ~Poisoning(u)'
    BY <1>3 DEF Started
  <2>3. QED
    BY <1>8, <2>1, <2>2 DEF AwaitIInv, VerdictInv
<1>15. QED
    BY <1>9, <1>10, <1>12, <1>13, <1>14 DEF FiberInv

\* What a fiber does when it claims or gives up the task it waited for.
Decides(f, s) ==
    /\ fiber[f] = "Waiting"
    /\ task' = [task EXCEPT ![awaits[f]] = s]
    /\ \E n \in {"Ready", "Closing"} : fiber' = [fiber EXCEPT ![f] = n]
    /\ UNCHANGED <<op, subject, outcome, stage, writer>>

\* A task that is decided by its fiber is no longer awaited, and the others are
\* awaited as before.
LEMMA DecidesKeeps ==
    ASSUME AwaitIInv, NEW f \in AllFibers, NEW s \in {"Taken", "Cancelled"}, Decides(f, s),
           \/ fiber'[f] = "Ready" /\ awaits' = [awaits EXCEPT ![f] = NoTask]
           \/ /\ fiber'[f] = "Closing" /\ awaits' = awaits
              /\ op[awaits[f]] = "Next",
           \E what \in {"Ok", "Raised"} : Gives(f, what)
    PROVE  FiberTypeOK' /\ WaitInv' /\ NoOrphan' /\ StageInv' /\ PrivateInv'
<1> DEFINE t == awaits[f]
<1>1. t \in Tasks /\ task[t] \in {"Running", "Completed"} /\ fiber[f] = "Waiting"
    BY DEF Decides, AwaitIInv, WaitInv
<1>2. /\ \A g \in AllFibers : g # f => fiber'[g] = fiber[g] /\ awaits'[g] = awaits[g]
      /\ fiber'[f] # "Waiting"
      /\ \A u \in Tasks : task'[u] = IF u = t THEN s ELSE task[u]
      /\ UNCHANGED <<op, subject, outcome, stage, writer>>
    BY <1>1 DEF Decides, AwaitIInv, FiberTypeOK, IInv, TypeOK
<1>3. \A g \in AllFibers : g # f /\ fiber[g] = "Waiting" => awaits[g] # t
    BY <1>1 DEF AwaitIInv, WaitInv
<1>4. \A g \in Uploads : g \in AllFibers /\ (g # f => result'[g] = result[g])
    BY DEF Gives, AllFibers, AwaitIInv, FiberTypeOK
<1>5. f \in Uploads => op[t] \in {"OpenWriter", "Write", "Finish", "Abort"}
    BY <1>1, NextCallFacts DEF AwaitIInv, StageInv
<1>6. FiberTypeOK'
    BY <1>2 DEF Decides, Gives, AwaitIInv, FiberTypeOK
<1>7. fiber'[f] = "Closing" => f \in Fibers /\ awaits'[f] \in Tasks /\ op[awaits'[f]] = "Next"
    BY <1>1, <1>5 DEF AllFibers
<1> HIDE DEF t
<1>8. WaitInv'
    BY <1>1, <1>2, <1>3, <1>7 DEF AwaitIInv, WaitInv
<1>9. NoOrphan'
    BY <1>1, <1>2, <1>3 DEF AwaitIInv, NoOrphan, t
<1>10. StageInv'
    BY <1>2, <1>4 DEF AwaitIInv, StageInv
<1>11. PrivateInv'
    BY <1>1, <1>2, <1>4 DEF AwaitIInv, PrivateInv, t
<1>12. QED
    BY <1>6, <1>8, <1>9, <1>10, <1>11

\* The task a fiber has settled is about the writer of a whole write only if it
\* is that write's own, in the stage of the call.
LEMMA OwnSettled ==
    ASSUME AwaitIInv, NEW f \in AllFibers, fiber[f] = "Waiting",
           NEW g \in Uploads, writer[g] # NoHandle, subject[awaits[f]] = writer[g],
           op[awaits[f]] = "Finish"
    PROVE  g = f /\ stage[g] = "Finish"
<1>1. g \in AllFibers /\ awaits[f] \in Tasks /\ task[awaits[f]] \in {"Running", "Completed"}
    BY DEF AllFibers, AwaitIInv, WaitInv
<1>2. fiber[g] = "Waiting" /\ awaits[g] = awaits[f]
    BY <1>1 DEF AwaitIInv, PrivateInv
<1>3. g = f
    BY <1>1, <1>2 DEF AwaitIInv, WaitInv
<1>4. stage[g] = "Finish"
    BY <1>2, NextCallFacts DEF AwaitIInv, StageInv
<1>5. QED
    BY <1>3, <1>4

\* The byte arrives and the result is taken.
LEMMA WokenKeeps ==
    ASSUME AwaitIInv, NEW f \in AllFibers, Woken(f), UNCHANGED <<stage, writer, chunks>>
    PROVE  FiberInv'
<1>0. PICK t \in Tasks : t = awaits[f]
    BY DEF Woken, AwaitIInv, WaitInv
<1>1. t = awaits[f] /\ fiber[f] = "Waiting" /\ task[t] \in {"Running", "Completed"}
    BY <1>0 DEF Woken, AwaitIInv, WaitInv
<1>2. Decides(f, "Taken") /\ (\A u : Poisoning(u)' <=> Poisoning(u))
    BY DEF Woken, Take, Decides, Ends, Poisoning
<1>3. FiberTypeOK' /\ WaitInv' /\ NoOrphan' /\ StageInv' /\ PrivateInv'
  <2>1. \E what \in {"Ok", "Raised"} : Gives(f, what)
    BY DEF Woken
  <2>2. \/ fiber'[f] = "Ready" /\ awaits' = [awaits EXCEPT ![f] = NoTask]
        \/ /\ fiber'[f] = "Closing" /\ awaits' = awaits
           /\ op[awaits[f]] = "Next"
    BY DEF Woken, Ends, AwaitIInv, FiberTypeOK
  <2>3. QED
    BY <1>2, <2>1, <2>2, DecidesKeeps
<1>4. \A u \in Tasks : /\ task'[u] = IF u = t THEN "Taken" ELSE task[u]
                       /\ op'[u] = op[u] /\ subject'[u] = subject[u] /\ outcome'[u] = outcome[u]
    BY <1>1, <1>2 DEF Decides, AwaitIInv, IInv, TypeOK
<1>5. \A g \in Uploads : /\ g # f => (Committed(g)' <=> Committed(g))
                         /\ g = f => result'[g] = IF outcome[t] = "Ok" THEN "Ok" ELSE "Raised"
    BY <1>1 DEF Woken, Gives, Committed, AwaitIInv, FiberTypeOK
<1>6. ASSUME NEW g \in Uploads, g # f, writer[g] # NoHandle
      PROVE  \A u \in Tasks : HasCommit(g, u)' <=> HasCommit(g, u)
    BY <1>1, <1>4, <1>6, OwnSettled DEF HasCommit
<1>7. ASSUME f \in Uploads
      PROVE  /\ ~Committed(f) /\ stage[f] \in DOMAIN NextCall
             /\ subject[t] = writer[f] /\ op[t] = NextCall[stage[f]]
    BY <1>1, <1>7, NextCallFacts DEF AwaitIInv, StageInv, Committed
<1>8. ASSUME f \in Uploads
      PROVE  /\ HasCommit(f, t)' <=> Committed(f)'
             /\ writer[f] # NoHandle =>
                   \A u \in Tasks : u # t => ~(HasCommit(f, u)')
  <2>1. op[t] = "Finish" <=> stage[f] = "Finish"
    BY <1>7, <1>8, NextCallFacts
  <2>2. stage[f] # "Returned"
    BY <1>7, <1>8, NextCallFacts
  <2>3. HasCommit(f, t)' <=> Committed(f)'
    BY <1>1, <1>4, <1>5, <1>7, <1>8, <2>1, <2>2 DEF HasCommit, Committed
  <2>4. ASSUME writer[f] # NoHandle, NEW u \in Tasks, u # t, HasCommit(f, u)'
        PROVE  FALSE
    <3>1. HasCommit(f, u)
      BY <1>4, <2>4 DEF HasCommit
    <3>2. QED
      BY <1>7, <1>8, <2>4, <3>1 DEF AwaitIInv, VerdictInv
  <2>5. QED
    BY <2>3, <2>4
<1>9. \A g \in Uploads, u \in Tasks : g # f /\ HasCommit(g, u) => HasCommit(g, u)'
    BY <1>1, <1>4 DEF HasCommit
<1>10. VerdictInv'
  <2>1. ASSUME NEW g \in Uploads, Committed(g)'
        PROVE  \E u \in Tasks : HasCommit(g, u)'
    BY <1>1, <1>5, <1>8, <1>9, <2>1 DEF AwaitIInv, VerdictInv
  <2>2. ASSUME NEW g \in Uploads, writer'[g] # NoHandle, NEW u \in Tasks, HasCommit(g, u)'
        PROVE  Committed(g)'
    BY <1>5, <1>6, <1>8, <2>2 DEF AwaitIInv, VerdictInv
  <2>3. ASSUME NEW g \in Uploads, writer'[g] # NoHandle, NEW u \in Tasks,
               op'[u] = "Finish", subject'[u] = writer'[g], Poisoning(u)'
        PROVE  stage'[g] = "Finish"
    BY <1>2, <1>4, <2>3 DEF AwaitIInv, VerdictInv
  <2>4. QED
    BY <2>1, <2>2, <2>3 DEF VerdictInv
<1>11. QED
    BY <1>3, <1>10 DEF FiberInv

\* The deferred cancel runs: a commit it meets is undone before the whole write
\* goes on.
LEMMA GivesUpKeeps ==
    ASSUME AwaitIInv, NEW f \in AllFibers, GivesUp(f), UNCHANGED <<stage, writer, chunks>>
    PROVE  FiberInv'
<1> DEFINE t == awaits[f]
<1>1. t \in Tasks /\ fiber[f] = "Waiting" /\ task[t] \in {"Running", "Completed"}
    BY DEF GivesUp, AwaitIInv, WaitInv
<1>2. Decides(f, "Cancelled") /\ (\A u : Poisoning(u)' => u = t)
    BY OneCaller, PoisoningByScheduler
       DEF GivesUp, Cancel, Decides, Ends, Poisoning, AwaitIInv, IInv, TypeOK
<1>3. FiberTypeOK' /\ WaitInv' /\ NoOrphan' /\ StageInv' /\ PrivateInv'
  <2>1. \E what \in {"Ok", "Raised"} : Gives(f, what)
    BY DEF GivesUp
  <2>2. fiber'[f] = "Ready" /\ awaits' = [awaits EXCEPT ![f] = NoTask]
    BY DEF GivesUp, Ends, AwaitIInv, FiberTypeOK
  <2>3. QED
    BY <1>2, <2>1, <2>2, DecidesKeeps
<1>4. \A g \in Uploads, u \in Tasks : HasCommit(g, u)' <=> HasCommit(g, u)
    BY <1>1, <1>2 DEF HasCommit, Decides, AwaitIInv, IInv, TypeOK
<1>5. \A g \in Uploads : Committed(g)' <=> Committed(g)
  <2>1. ASSUME NEW g \in Uploads, g # f PROVE Committed(g)' <=> Committed(g)
    BY <2>1 DEF GivesUp, Gives, Committed, AwaitIInv, FiberTypeOK
  <2>2. ASSUME f \in Uploads PROVE ~Committed(f) /\ ~(Committed(f)')
    BY <1>1, <2>2, NextCallFacts
       DEF GivesUp, Gives, Committed, AwaitIInv, FiberTypeOK, StageInv
  <2>3. QED
    BY <2>1, <2>2
<1>6. ASSUME NEW g \in Uploads, writer'[g] # NoHandle, NEW u \in Tasks,
             op'[u] = "Finish", subject'[u] = writer'[g], Poisoning(u)'
      PROVE  stage'[g] = "Finish"
    BY <1>1, <1>2, <1>6, OwnSettled DEF Decides
<1>7. VerdictInv'
    BY <1>2, <1>4, <1>5, <1>6 DEF AwaitIInv, VerdictInv, Decides
<1>8. QED
    BY <1>3, <1>7 DEF FiberInv

\* A close or a free leaves the tasks alone.
LEMMA CloseLeaves ==
    ASSUME NEW r, Close(Scheduler, r) \/ FreeWriter(Scheduler, r)
    PROVE  /\ UNCHANGED <<op, subject, task, outcome>>
           /\ \A t : Poisoning(t)' <=> Poisoning(t)
    BY DEF Close, FreeWriter, Poisoning

\* A fiber closes a stream, or the finalizer frees a writer.
LEMMA ClosesKeep ==
    ASSUME AwaitIInv,
           \/ \E f \in Fibers : CloseStream(f) /\ UNCHANGED <<stage, writer, chunks>>
           \/ DropWriter
    PROVE  FiberInv'
<1>1. /\ UNCHANGED <<op, subject, task, outcome, fiberVars>>
      /\ \A t : Poisoning(t)' <=> Poisoning(t)
    BY CloseLeaves DEF CloseStream, DropWriter, fiberVars, uploadVars
<1>2. QED
    BY <1>1, FibersKeep

\* A fiber whose next has failed closes the stream and goes on.
LEMMA CloseFailedKeeps ==
    ASSUME AwaitIInv, NEW f \in AllFibers, CloseFailed(f), UNCHANGED <<stage, writer, chunks>>
    PROVE  FiberInv'
<1>1. /\ UNCHANGED <<op, subject, task, outcome, stage, writer, result>>
      /\ \A t : Poisoning(t)' <=> Poisoning(t)
    BY CloseLeaves DEF CloseFailed
<1>2. /\ \A g \in AllFibers : /\ fiber'[g] = IF g = f THEN "Ready" ELSE fiber[g]
                              /\ awaits'[g] = IF g = f THEN NoTask ELSE awaits[g]
      /\ fiber[f] = "Closing" /\ f \notin Uploads
    BY FiberAssumption DEF CloseFailed, Ends, AwaitIInv, FiberTypeOK, WaitInv
<1>3. FiberTypeOK'
    BY <1>1 DEF CloseFailed, Ends, AwaitIInv, FiberTypeOK
<1>4. WaitInv' /\ NoOrphan'
    BY <1>1, <1>2 DEF AwaitIInv, WaitInv, NoOrphan
<1>5. \A g \in Uploads : fiber'[g] = fiber[g] /\ awaits'[g] = awaits[g]
    BY <1>2 DEF AllFibers
<1>6. StageInv' /\ PrivateInv'
    BY <1>1, <1>5 DEF AwaitIInv, StageInv, PrivateInv
<1>7. VerdictInv'
    BY <1>1 DEF AwaitIInv, VerdictInv, HasCommit, Committed
<1>8. QED
    BY <1>3, <1>4, <1>6, <1>7 DEF FiberInv

\* What await_native_result does keeps the fibers' knowledge.
LEMMA AwaitKeeps ==
    ASSUME AwaitIInv, NEW f \in AllFibers, Await(f), UNCHANGED <<stage, writer, chunks>>
    PROVE  FiberInv'
    BY WokenKeeps, GivesUpKeeps, CloseFailedKeeps
       DEF Await, Resumed, PipeEnds, FiberCancelled

\* A whole write whose call was not made hears of an error.
LEMMA UploadRaisesKeeps ==
    ASSUME AwaitIInv, NEW f \in Uploads, UploadRejected(f) \/ UploadStartFails(f)
    PROVE  FiberInv'
<1>1. /\ UNCHANGED <<op, subject, task, outcome, pc, job, fiber, awaits, stage, writer>>
      /\ result' = [result EXCEPT ![f] = "Raised"]
      /\ fiber[f] = "Ready" /\ result[f] = "None"
      /\ stage[f] \in DOMAIN NextCall
    BY NextCallFacts DEF UploadRejected, UploadStartFails, Gives, vars
<1>2. FiberTypeOK'
    BY <1>1 DEF AwaitIInv, FiberTypeOK
<1>3. \A g \in Uploads : g # f => result'[g] = result[g]
    BY <1>1 DEF AwaitIInv, FiberTypeOK
<1>4. WaitInv' /\ NoOrphan' /\ PrivateInv'
    BY <1>1 DEF AwaitIInv, WaitInv, NoOrphan, PrivateInv
<1>5. StageInv'
    BY <1>1, <1>3 DEF AwaitIInv, StageInv
<1>6. \A g \in Uploads : Committed(g)' <=> Committed(g)
    BY <1>1, <1>3, NextCallFacts DEF Committed, AwaitIInv, FiberTypeOK
<1>7. VerdictInv'
    BY <1>1, <1>6 DEF AwaitIInv, VerdictInv, HasCommit, Poisoning
<1>8. QED
    BY <1>2, <1>4, <1>5, <1>7 DEF FiberInv

\* A whole write goes on to its next stage: it returns exactly when its commit
\* has succeeded, and not before the cancel of a call it gave up is through.
LEMMA UploadAdvancesKeeps ==
    ASSUME AwaitIInv, NEW f \in Uploads, UploadAdvances(f)
    PROVE  FiberInv'
<1>1. /\ UNCHANGED <<op, subject, task, outcome, pc, job, fiber, awaits, writer>>
      /\ result' = [result EXCEPT ![f] = "None"]
      /\ fiber[f] = "Ready" /\ result[f] # "None"
      /\ stage[f] \in {"Open", "Write", "Finish", "Abort"}
      /\ pc[Scheduler] = "Idle"
    BY NextCallFacts DEF UploadAdvances, Gives, vars, Quiet
<1>2. PICK left : stage' = [stage EXCEPT ![f] = AfterCall(f, left)]
    BY DEF UploadAdvances
<1>3. /\ AfterCall(f, left) \in {"Write", "Finish", "Abort", "Returned", "Raised"}
      /\ AfterCall(f, left) = "Returned" <=> (stage[f] = "Finish" /\ result[f] = "Ok")
    BY <1>1 DEF AfterCall
<1>4. FiberTypeOK'
    BY <1>1, <1>2, <1>3, NextCallFacts DEF AwaitIInv, FiberTypeOK
<1>5. /\ \A g \in Uploads : g # f => result'[g] = result[g] /\ stage'[g] = stage[g]
      /\ stage'[f] = AfterCall(f, left) /\ result'[f] = "None"
    BY <1>1, <1>2 DEF AwaitIInv, FiberTypeOK
<1>6. WaitInv' /\ NoOrphan' /\ PrivateInv'
    BY <1>1 DEF AwaitIInv, WaitInv, NoOrphan, PrivateInv
<1>7. StageInv'
    BY <1>1, <1>5 DEF AwaitIInv, StageInv
<1>8. \A g \in Uploads : Committed(g)' <=> Committed(g)
    BY <1>1, <1>3, <1>5 DEF Committed
<1>9. \A t : ~Poisoning(t)'
    BY <1>1, OneCaller DEF Poisoning
<1>10. VerdictInv'
    BY <1>1, <1>8, <1>9 DEF AwaitIInv, VerdictInv, HasCommit
<1>11. QED
    BY <1>4, <1>6, <1>7, <1>10 DEF FiberInv

----------------------------------------------------------------------------
(* The invariant and what follows from it *)

\* The initial states satisfy the invariant.
LEMMA AwaitInitInv == AwaitInit => AwaitIInv
<1> SUFFICES ASSUME AwaitInit PROVE AwaitIInv
    OBVIOUS
<1>1. Init /\ IInv
    BY InitInv DEF AwaitInit
<1>2. SubjectInv /\ ReachInv /\ CommitInv
    BY <1>1 DEF Init, SubjectInv, ReachInv, CommitInv
<1>3. FiberTypeOK
    BY NextCallFacts DEF AwaitInit, FiberTypeOK
<1>4. WaitInv /\ NoOrphan /\ StageInv
    BY <1>1 DEF AwaitInit, Init, WaitInv, NoOrphan, StageInv, AllFibers
<1>5. PrivateInv /\ VerdictInv
    BY <1>1 DEF AwaitInit, Init, PrivateInv, VerdictInv, Committed
<1>6. QED
    BY <1>1, <1>2, <1>3, <1>4, <1>5 DEF AwaitIInv

\* Every step preserves the invariant.
LEMMA AwaitStepInv == AwaitIInv /\ [AwaitNext]_allVars => AwaitIInv'
<1> SUFFICES ASSUME AwaitIInv, [AwaitNext]_allVars PROVE AwaitIInv'
    OBVIOUS
<1>1. NativeInv'
    BY StepIsNative, NativeStep DEF AwaitIInv, NativeInv
<1>2. CASE UNCHANGED allVars
    BY <1>2, FibersKeep, <1>1
       DEF allVars, vars, FiberInv, NativeInv, AwaitIInv, Poisoning
<1>3. ASSUME NEW f \in Fibers, FiberStep(f) PROVE FiberInv'
    BY <1>3, OperationKeeps, ClosesKeep, AwaitKeeps DEF FiberStep, AllFibers
<1>4. ASSUME NEW f \in Uploads, UploadStep(f) PROVE FiberInv'
    BY <1>4, UploadCallsKeeps, UploadRaisesKeeps, UploadAdvancesKeeps, AwaitKeeps
       DEF UploadStep, UploadGoesOn, AllFibers
<1>5. CASE AwaitNext
  <2>1. FiberInv'
    BY <1>3, <1>4, <1>5, BackgroundKeeps, ClosesKeep DEF AwaitNext
  <2>2. QED
    BY <1>1, <2>1 DEF AwaitIInv, NativeInv, FiberInv
<1>6. QED
    BY <1>2, <1>5

\* AwaitIInv is an invariant of the fibers and the native side together.
THEOREM AwaitInvariance == AwaitSpec => []AwaitIInv
    BY AwaitInitInv, AwaitStepInv, PTL DEF AwaitSpec

\* Fibers are callers of the native ABI like any other: what MoonBit programs
\* do is a behaviour of NativeAsync, so all its theorems hold of them.
THEOREM FibersImplementCallers == AwaitSpec => Spec
<1>1. AwaitInit => Init
    BY DEF AwaitInit
<1>2. QED
    BY <1>1, StepIsNative, AwaitInvariance, PTL DEF AwaitSpec, Spec

\* A fiber that reads the byte finds its result ready, unclaimed and not
\* cancelled: the take of await_native_result never fails for that reason.
THEOREM ByteFindsResult == AwaitSpec => []ByteMeansResult
<1>1. AwaitIInv => ByteMeansResult
    BY DEF AwaitIInv, IInv, WakeOwnership, WaitInv, ByteMeansResult
<1>2. QED
    BY <1>1, AwaitInvariance, PTL

\* Every running or unclaimed task has exactly one fiber that will take it or
\* cancel it, whatever fibers are cancelled and whichever pipes end early.
THEOREM NoTaskIsOrphaned == AwaitSpec => []NoOrphan
<1>1. AwaitIInv => NoOrphan
    BY DEF AwaitIInv
<1>2. QED
    BY <1>1, AwaitInvariance, PTL

\* With one scheduler thread a close reaches every operation in flight: no
\* abort handle can be installed for the wrong one.
THEOREM CloseReachesOperation == AwaitSpec => []CloseCancels
<1>1. AwaitIInv => CloseCancels
    BY OneCaller DEF AwaitIInv, ReachInv, CloseCancels, Installing
<1>2. QED
    BY <1>1, AwaitInvariance, PTL

\* A whole write returns only with its commit, raises only when its writer is
\* not finished, and leaves nothing running that was not told to stop.
THEOREM UploadsTellTheTruth == AwaitSpec => []UploadVerdict
<1>1. ASSUME AwaitIInv PROVE UploadVerdict
  <2>1. ASSUME NEW f \in Uploads, stage[f] \in {"Returned", "Raised"},
               NEW t \in Tasks, owns[t], subject[t] = writer[f]
        PROVE  abort[t]
    <3>1. writer[f] # NoHandle
      BY <1>1, <2>1, HandleAssumption DEF AwaitIInv, IInv, OwnInv, LifeInv
    <3>2. fiber[f] # "Waiting"
      BY <1>1, <2>1, NextCallFacts DEF AwaitIInv, StageInv
    <3>3. task[t] \notin {"Running", "Completed"}
      BY <1>1, <2>1, <3>1, <3>2 DEF AwaitIInv, PrivateInv
    <3>4. task[t] = "Cancelled"
      BY <1>1, <2>1, <3>3 DEF AwaitIInv, IInv, TypeOK, TaskStates, UnusedInv, LifeInv
    <3>5. QED
      BY <1>1, <2>1, <3>4 DEF AwaitIInv, ReachInv
  <2>2. ASSUME NEW f \in Uploads, stage[f] = "Returned"
        PROVE  \E t \in Tasks : /\ op[t] = "Finish" /\ subject[t] = writer[f]
                               /\ task[t] = "Taken" /\ outcome[t] = "Ok"
    BY <1>1, <2>2 DEF AwaitIInv, VerdictInv, Committed, HasCommit
  <2>3. ASSUME NEW f \in Uploads, stage[f] = "Raised", writer[f] # NoHandle,
               handle[writer[f]] = "Finished"
        PROVE  FALSE
    <3>1. writer[f] \in Handles
      BY <1>1, <2>3 DEF AwaitIInv, FiberTypeOK, Handles
    <3>2. PICK t \in Tasks : /\ op[t] = "Finish" /\ subject[t] = writer[f]
                             /\ outcome[t] = "Ok"
                             /\ task[t] = "Cancelled" => Poisoning(t)
      BY <1>1, <2>3, <3>1 DEF AwaitIInv, CommitInv
    <3>3. fiber[f] # "Waiting"
      BY <1>1, <2>3, NextCallFacts DEF AwaitIInv, StageInv
    <3>4. task[t] \notin {"Running", "Completed"}
      BY <1>1, <2>3, <3>2, <3>3 DEF AwaitIInv, PrivateInv
    <3>5. ~Poisoning(t)
      BY <1>1, <2>3, <3>2 DEF AwaitIInv, VerdictInv
    <3>6. task[t] = "Taken"
      BY <1>1, <3>2, <3>4, <3>5 DEF AwaitIInv, IInv, TypeOK, TaskStates, UnusedInv
    <3>7. QED
      BY <1>1, <2>3, <3>2, <3>6 DEF AwaitIInv, VerdictInv, HasCommit, Committed
  <2>4. QED
    BY <2>1, <2>2, <2>3 DEF UploadVerdict
<1>2. QED
    BY <1>1, AwaitInvariance, PTL
=============================================================================
