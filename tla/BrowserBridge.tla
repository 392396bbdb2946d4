--------------------------- MODULE BrowserBridge ---------------------------
(***************************************************************************)
(* The WebAssembly bridge (wasm/browser-bridge/src/lib.rs): the generation  *)
(* arena behind its scalar handles, its logical tasks, and the leases that  *)
(* tie a task to the stream, writer or lister it works on.                  *)
(*                                                                         *)
(* There is one thread.  An export runs to its end before anything else, so *)
(* it is one action; a spawned future publishes its result between exports, *)
(* at any later time, even after its task was cancelled or released or the  *)
(* bridge torn down.  An export that is rejected changes nothing but the    *)
(* recorded last error, which is not modelled, and has no action, except    *)
(* when it has used up an operation token.                                  *)
(***************************************************************************)
EXTENDS Naturals, Sequences, FiniteSets

CONSTANTS
    MaxSlots,        \* MAX_SLOTS
    MaxGeneration,   \* MAX_GENERATION
    MaxOperation,    \* u64::MAX, where checked_add stops
    CallsInUse       \* the calls the host makes

ASSUME ArenaAssumption ==
    /\ MaxSlots \in Nat \ {0} /\ MaxSlots <= 65535
    /\ MaxGeneration \in Nat \ {0} /\ MaxGeneration <= 32767
    /\ MaxOperation \in Nat

VARIABLES
    slots,       \* Arena.slots
    live,        \* Arena.live
    next_resource_operation,
    torn_down,
    futures,     \* spawned futures that have not published yet
    retired      \* handles whose resource is gone (not part of the program)

vars == <<slots, live, next_resource_operation, torn_down, futures, retired>>

----------------------------------------------------------------------------
(* Resources *)

\* "Value" stands for the operations that give a value (read, stat, write,
\* list, copy), "Unit" for those that give none (create_dir, delete, rename).
TaskCalls == {"Value", "Unit", "OpenReadStream", "OpenWriter", "OpenLister"}
NextCalls == {"ReadStreamNext", "ListerNext"}
WriterCalls == {"WriterWrite", "WriterFinish", "WriterAbort"}
LeasedCalls == NextCalls \cup WriterCalls
Calls == TaskCalls \cup LeasedCalls

ASSUME CallsAssumption == CallsInUse \subseteq Calls

KindOf(call) ==
    CASE call = "ReadStreamNext" -> "ReadStream"
      [] call = "ListerNext" -> "Lister"
      [] OTHER -> "Writer"

NoLease == [handle |-> 0, kind |-> "None", operation |-> 0]
NoDone  == [call |-> "None", out |-> "None"]
Empty   == [kind |-> "None", st |-> "None", op |-> 0, lease |-> NoLease,
            done |-> NoDone]

\* A buffer, builder, operator, metadata or entry list.
Value == [Empty EXCEPT !.kind = "Value"]
Error == [Empty EXCEPT !.kind = "Error"]
Stateful(kind, st, op) ==
    [kind |-> kind, st |-> st, op |-> op, lease |-> NoLease, done |-> NoDone]
Task(st, lease, done) ==
    [kind |-> "Task", st |-> st, op |-> 0, lease |-> lease, done |-> done]
Completion(done) ==
    [kind |-> "Completion", st |-> "None", op |-> 0, lease |-> NoLease, done |-> done]

\* What a call's future can end with.
Outs(call) == IF call \in NextCalls THEN {"Ok", "End", "Err"} ELSE {"Ok", "Err"}

\* The resource after the update a leased future publishes.
After(lease, call, out) ==
    LET st == CASE out = "Err" -> "Failed"
                [] out = "End" -> "End"
                [] call = "WriterFinish" -> "Finished"
                [] call = "WriterAbort" -> "Aborted"
                [] OTHER -> "Open"
    IN  Stateful(lease.kind, st, IF st = "Open" THEN lease.operation ELSE 0)

----------------------------------------------------------------------------
(* The arena, as operators on a vector of slots.  A handle holds the        *)
(* generation in its upper and the one-based slot in its lower half.        *)

encode_handle(i, generation) == generation * 65536 + i
SlotOf(h) == h % 65536
GenerationOf(h) == h \div 65536

\* Mutant of next_generation: it wraps.
next_generation_wraps(g) == IF g = MaxGeneration THEN 1 ELSE g + 1

next_generation(g) == IF g = MaxGeneration THEN 0 ELSE g + 1

Vacant(s, i) == s[i].resource = Empty /\ s[i].generation # 0

can_insert(s) == (\E i \in DOMAIN s : Vacant(s, i)) \/ Len(s) < MaxSlots

\* The first vacant slot, or a new one at the end.
insert_index(s) ==
    IF \E i \in DOMAIN s : Vacant(s, i)
    THEN CHOOSE i \in DOMAIN s :
            Vacant(s, i) /\ \A j \in DOMAIN s : Vacant(s, j) => i <= j
    ELSE Len(s) + 1

insert(s, r) ==
    LET i == insert_index(s)
    IN  IF i \in DOMAIN s THEN [s EXCEPT ![i].resource = r]
        ELSE Append(s, [generation |-> 1, resource |-> r])

\* The handle insert returns.
inserted(s) ==
    LET i == insert_index(s)
    IN  encode_handle(i, IF i \in DOMAIN s THEN s[i].generation ELSE 1)

Resolves(s, h) ==
    /\ SlotOf(h) \in DOMAIN s
    /\ GenerationOf(h) # 0
    /\ s[SlotOf(h)].generation = GenerationOf(h)
    /\ s[SlotOf(h)].resource # Empty

At(s, h) == s[SlotOf(h)].resource

Put(s, h, r) == [s EXCEPT ![SlotOf(h)].resource = r]

take(s, h) ==
    [s EXCEPT ![SlotOf(h)] =
        [generation |-> next_generation(@.generation), resource |-> Empty]]

\* Mutant of ensure_insert_capacity_after_take: the freed slot is relied on.
ensure_nothing(s, h) == TRUE

ensure_insert_capacity_after_take(s, h) ==
    GenerationOf(h) = MaxGeneration => can_insert(s)

\* Mutant of Holds: the operation token is not compared.
HoldsAnyOperation(s, lease, S) ==
    /\ Resolves(s, lease.handle)
    /\ At(s, lease.handle).kind = lease.kind
    /\ At(s, lease.handle).st \in S

\* The resource a lease names, in one of the states S and still under the
\* lease's own operation.
Holds(s, lease, S) ==
    /\ Resolves(s, lease.handle)
    /\ At(s, lease.handle).kind = lease.kind
    /\ At(s, lease.handle).st \in S
    /\ At(s, lease.handle).op = lease.operation

\* Mutants of terminalize_lease: it does nothing, or looks at neither state nor
\* token.
terminalize_nothing(s, lease) == s
terminalize_any(s, lease) ==
    IF lease # NoLease /\ Resolves(s, lease.handle)
    THEN Put(s, lease.handle, Stateful(lease.kind, "Failed", 0))
    ELSE s

terminalize_lease(s, lease) ==
    IF lease # NoLease /\ Holds(s, lease, {"Open", "Busy"})
    THEN Put(s, lease.handle, Stateful(lease.kind, "Failed", 0))
    ELSE s

Handles == {encode_handle(i, g) : i \in 1 .. MaxSlots, g \in 1 .. MaxGeneration}

IsTask(h, S) ==
    Resolves(slots, h) /\ At(slots, h).kind = "Task" /\ At(slots, h).st \in S

----------------------------------------------------------------------------
(* Exports *)

\* insert_resource for buffers, builders, operators and snapshots, and
\* last_error_take.
InsertValue(r) ==
    /\ ~torn_down
    /\ can_insert(slots)
    /\ slots' = insert(slots, r)
    /\ live' = live + 1
    /\ UNCHANGED <<next_resource_operation, torn_down, futures, retired>>

\* release_resource, for every kind but tasks.
Release(h) ==
    /\ Resolves(slots, h)
    /\ At(slots, h).kind # "Task"
    /\ slots' = take(slots, h)
    /\ live' = live - 1
    /\ retired' = retired \cup {h}
    /\ UNCHANGED <<next_resource_operation, torn_down, futures>>

\* A task with its future: the task is the last resource put into s.
Spawn(s, lease, call) ==
    /\ slots' = insert(s, Task("Pending", lease, NoDone))
    /\ live' = live + 1
    /\ futures' = futures \cup
            {[task |-> inserted(s), lease |-> lease, call |-> call]}

start_task(call) ==
    /\ ~torn_down
    /\ can_insert(slots)
    /\ Spawn(slots, NoLease, call)
    /\ UNCHANGED <<next_resource_operation, torn_down, retired>>

\* A finish of a Finished writer or an abort of an Aborted one answers again.
AnswerStart(h) ==
    /\ Resolves(slots, h)
    /\ \/ At(slots, h).st = "Finished" /\ start_task("WriterFinish")
       \/ At(slots, h).st = "Aborted" /\ start_task("WriterAbort")

\* reserve_read_stream_next, reserve_writer_call, reserve_lister_next and the
\* spawn of the future.
Reserve(h, call) ==
    LET operation == next_resource_operation + 1
        lease == [handle |-> h, kind |-> KindOf(call), operation |-> operation]
        busy == Put(slots, h, Stateful(KindOf(call), "Busy", operation))
    IN  /\ ~torn_down
        /\ can_insert(slots)
        /\ next_resource_operation < MaxOperation
        /\ Resolves(slots, h)
        /\ At(slots, h).kind = KindOf(call)
        /\ At(slots, h).st = "Open"
        /\ next_resource_operation' = operation
        /\ Spawn(busy, lease, call)
        /\ UNCHANGED <<torn_down, retired>>

\* A reserve that is refused after the token was allocated: the handle is
\* stale, of another kind, busy or terminal.
ReserveRefused(h, call) ==
    /\ ~torn_down
    /\ can_insert(slots)
    /\ next_resource_operation < MaxOperation
    /\ call \notin {"WriterFinish", "WriterAbort"}
    /\ ~(/\ Resolves(slots, h)
         /\ At(slots, h).kind = KindOf(call)
         /\ At(slots, h).st = "Open")
    /\ next_resource_operation' = next_resource_operation + 1
    /\ UNCHANGED <<slots, live, torn_down, futures, retired>>

\* task_take: the completion leaves the task for a handle of its own.
TaskTake(h) ==
    /\ can_insert(slots)
    /\ IsTask(h, {"Ready"})
    /\ slots' = insert(Put(slots, h, Task("Consumed", NoLease, NoDone)),
                       Completion(At(slots, h).done))
    /\ live' = live + 1
    /\ UNCHANGED <<next_resource_operation, torn_down, futures, retired>>

TaskCancel(h) ==
    /\ IsTask(h, {"Pending", "Ready"})
    /\ slots' = Put(terminalize_lease(slots, At(slots, h).lease), h,
                    Task("Cancelled", NoLease, NoDone))
    /\ UNCHANGED <<live, next_resource_operation, torn_down, futures, retired>>

TaskRelease(h) ==
    /\ IsTask(h, {"Pending", "Ready", "Cancelled", "Consumed"})
    /\ slots' = take(terminalize_lease(slots, At(slots, h).lease), h)
    /\ live' = live - 1
    /\ retired' = retired \cup {h}
    /\ UNCHANGED <<next_resource_operation, torn_down, futures>>

\* The resource a completion is exchanged for, Empty when there is none.
Yields(done) ==
    CASE done.out = "Err" -> Error
      [] done.out = "End" -> Empty
      [] done.call = "OpenReadStream" -> Stateful("ReadStream", "Open", 0)
      [] done.call = "OpenWriter" -> Stateful("Writer", "Open", 0)
      [] done.call = "OpenLister" -> Stateful("Lister", "Open", 0)
      [] OTHER -> Value

\* The handle gives way to resource r: the old one is taken out first, so an
\* insert that then fails loses both.
Exchange(h, r) ==
    LET rest == take(slots, h)
    IN  /\ r # Empty => ensure_insert_capacity_after_take(slots, h)
        /\ IF r # Empty /\ ~torn_down /\ can_insert(rest)
           THEN slots' = insert(rest, r) /\ live' = live
           ELSE slots' = rest /\ live' = live - 1
        /\ retired' = retired \cup {h}
        /\ UNCHANGED <<next_resource_operation, torn_down, futures>>

\* completion_take_*.  A successful unit completion can only be released.
CompletionTake(h) ==
    /\ Resolves(slots, h)
    /\ At(slots, h).kind = "Completion"
    /\ At(slots, h).done.out = "Ok" =>
           At(slots, h).done.call \notin {"Unit", "WriterWrite", "WriterAbort"}
    /\ Exchange(h, Yields(At(slots, h).done))

\* error_snapshot_take.
ErrorSnapshotTake(h) ==
    /\ Resolves(slots, h)
    /\ At(slots, h).kind = "Error"
    /\ Exchange(h, Value)

Teardown ==
    /\ torn_down' = TRUE
    /\ slots' = <<>>
    /\ live' = 0
    /\ retired' = retired \cup {h \in Handles : Resolves(slots, h)}
    /\ UNCHANGED <<next_resource_operation, futures>>

----------------------------------------------------------------------------
(* publish_task and publish_resource_task *)

\* Is the future's task still waiting for it?
Awaited(f) ==
    IsTask(f.task, {"Pending"}) /\ At(slots, f.task).lease = f.lease

\* The slots with the resource update of a leased future applied.
Updated(f, out) ==
    IF f.lease # NoLease /\ Holds(slots, f.lease, {"Busy"})
    THEN Put(slots, f.lease.handle, After(f.lease, f.call, out))
    ELSE slots

Publish(f, out) ==
    /\ out \in Outs(f.call)
    /\ futures' = futures \ {f}
    /\ slots' = IF Awaited(f)
                THEN Put(Updated(f, out), f.task,
                         Task("Ready", f.lease, [call |-> f.call, out |-> out]))
                ELSE slots
    /\ UNCHANGED <<live, next_resource_operation, torn_down, retired>>

----------------------------------------------------------------------------

Init ==
    /\ slots = <<>>
    /\ live = 0
    /\ next_resource_operation = 0
    /\ torn_down = FALSE
    /\ futures = {}
    /\ retired = {}

Export ==
    \/ \E r \in {Value, Error} : InsertValue(r)
    \/ \E call \in CallsInUse \cap TaskCalls : start_task(call)
    \/ \E h \in Handles, call \in CallsInUse \cap LeasedCalls :
          Reserve(h, call) \/ ReserveRefused(h, call)
    \/ \E h \in Handles :
          \/ Release(h) \/ AnswerStart(h)
          \/ TaskTake(h) \/ TaskCancel(h) \/ TaskRelease(h)
          \/ CompletionTake(h) \/ ErrorSnapshotTake(h)
    \/ Teardown

Completes(h) ==
    \E f \in futures, out \in {"Ok", "End", "Err"} : f.task = h /\ Publish(f, out)

Next == Export \/ \E h \in Handles : Completes(h)

Spec == Init /\ [][Next]_vars

\* The event loop runs every spawned future to its end.
FairSpec == Spec /\ \A h \in Handles : WF_vars(Completes(h))

----------------------------------------------------------------------------
(* Properties *)

StatefulKinds == {"ReadStream", "Writer", "Lister"}
Leases == [handle : Nat, kind : StatefulKinds \cup {"None"}, operation : Nat]
Dones == [call : Calls \cup {"None"}, out : {"None", "Ok", "End", "Err"}]
States == {"None", "Pending", "Ready", "Cancelled", "Consumed", "Open", "Busy",
           "End", "Failed", "Finished", "Aborted"}
Resources ==
    [kind : StatefulKinds \cup {"None", "Value", "Error", "Task", "Completion"},
     st : States, op : Nat, lease : Leases, done : Dones]

TypeOK ==
    /\ slots \in Seq([generation : 0 .. MaxGeneration, resource : Resources])
    /\ Len(slots) <= MaxSlots
    /\ live \in Nat
    /\ next_resource_operation \in 0 .. MaxOperation
    /\ torn_down \in BOOLEAN
    /\ futures \subseteq [task : Handles, lease : Leases, call : Calls]
    /\ retired \subseteq Handles

\* live_handle_count counts the occupied slots through every exchange, late
\* publication and teardown.
LiveCount == live = Cardinality({i \in DOMAIN slots : slots[i].resource # Empty})

\* "An older ready task must not be able to terminalize a newer in-flight
\* operation on the same handle": the resource of a pending task is Busy under
\* that task's token until the task ends, or it has been released.
PendingHoldsResource ==
    \A h \in Handles :
        LET lease == At(slots, h).lease
        IN  IsTask(h, {"Pending"}) /\ lease # NoLease
                /\ Resolves(slots, lease.handle)
            => Holds(slots, lease, {"Busy"})

\* Cancellation is only logical: the future keeps the cursor.  No handle offers
\* a cursor that a future still holds, and no two futures hold the same one.
OneUpstream ==
    \A f \in futures : f.lease # NoLease =>
        /\ ~(Resolves(slots, f.lease.handle) /\ At(slots, f.lease.handle).st = "Open")
        /\ \A g \in futures : g.lease.handle = f.lease.handle => g = f

\* The arena and the leases together: every lease is between a task that will
\* publish and a resource that waits for it, and live_handle_count is right.
LeasesHold == TypeOK /\ LiveCount /\ PendingHoldsResource /\ OneUpstream

\* "Any ... replacement failure leaves the completion valid": exchanging a
\* completion or an error for its value never loses both.
ExchangeIsWhole ==
    [][\A h \in Handles :
          \/ CompletionTake(h) /\ At(slots, h).done.out # "End"
          \/ ErrorSnapshotTake(h)
          => live' = live]_vars

\* A terminal stream, writer or lister stays as it is for as long as its handle
\* resolves: neither a late future nor a cancel changes Finished, End or Failed.
TerminalSticks ==
    [][\A h \in Handles :
          /\ Resolves(slots, h) /\ Resolves(slots', h)
          /\ At(slots, h).st \in {"End", "Failed", "Finished", "Aborted"}
          => At(slots', h) = At(slots, h)]_vars

\* A Busy resource is released, fails or becomes usable again.
BusyEnds ==
    \A h \in Handles :
        Resolves(slots, h) /\ At(slots, h).st = "Busy"
            ~> ~(Resolves(slots, h) /\ At(slots, h).st = "Busy")

\* Slots, generations and exchanges implement one-time handles.
Table == INSTANCE HandleTable WITH
            live <- {h \in Handles : Resolves(slots, h)},
            dead <- retired,
            closed <- torn_down

ImplementsHandleTable == Table!Spec

----------------------------------------------------------------------------
(* The inductive invariant *)

\* The slot of the handle has moved on to a later generation, or to none.
Past(s, h) ==
    /\ SlotOf(h) \in DOMAIN s
    /\ s[SlotOf(h)].generation = 0 \/ GenerationOf(h) < s[SlotOf(h)].generation

\* The handle was issued: insert cannot issue it again.
Known(s, h) == Resolves(s, h) \/ Past(s, h)

\* Occupied slots have a generation, a torn down bridge has no slots, and what
\* was retired is past.
ArenaInv ==
    /\ \A i \in DOMAIN slots : slots[i].resource # Empty => slots[i].generation # 0
    /\ torn_down => slots = <<>>
    /\ torn_down \/ \A h \in retired : Past(slots, h)

\* A task that can still give up its lease.
HasLease(h) ==
    Resolves(slots, h) /\ At(slots, h).kind = "Task" /\ At(slots, h).lease # NoLease

\* A lease names a resource that was issued, under a token of its own: no two
\* tasks share one, which is why an older Ready task cannot terminalize a newer
\* operation.  Every pending task has a future that will publish to it.
TaskInv ==
    /\ \A h \in Handles : HasLease(h) =>
          LET lease == At(slots, h).lease
          IN  /\ lease.handle \in Handles /\ lease.kind \in StatefulKinds
              /\ lease.operation \in 1 .. next_resource_operation
              /\ Known(slots, lease.handle)
    /\ \A h, k \in Handles :
          /\ HasLease(h) /\ HasLease(k)
          /\ At(slots, h).lease.operation = At(slots, k).lease.operation
          => h = k
    /\ \A h \in Handles : IsTask(h, {"Pending"}) =>
          \E f \in futures : f.task = h /\ f.lease = At(slots, h).lease

\* What a future will work on was issued too, even if it has been released.
FutureInv ==
    \A f \in futures : f.lease # NoLease =>
        f.lease.handle \in Handles /\ (torn_down \/ Known(slots, f.lease.handle))

IInv == LeasesHold /\ ArenaInv /\ TaskInv /\ FutureInv
=============================================================================
