# TLA+ specifications of opendal-mbt

opendal-mbt gives MoonBit programs the OpenDAL storage library: on native
targets through a Rust library behind a C ABI, in browsers through a WebAssembly
bridge and a Promise runtime.  This directory models the parts of it whose
correctness depends on the order in which things happen, model-checks them with
TLC, and proves the most important results with TLAPS.

## 1. The system

| Component | Source | State it keeps | Operations |
|---|---|---|---|
| Native async tasks | `native/rust/src/lib.rs` 274-911 | per task: Running, Completed, Taken, Cancelled and the completion descriptor | start, publish, cancel, take, free |
| Native async read stream, writer | `lib.rs` 463-680, 5098-5696 | Open, Busy with an abort slot, End, Failed, Closed, Finished, Aborted | next, write, finish, abort, close, free |
| MoonBit async facade | `src/async.mbt`, `src/opendal_stub.c` | a fiber waiting on a pipe for a task | read, open, next, write, finish, abort, whole write |
| Native sync resources | `lib.rs` 2030-2324, 3772-5040 | Lister, Reader, ReadStream, Writer, Copier behind a mutex (and a condition variable) | next, read, write, close, abort, free |
| Bounded reads | `lib.rs` 1131-1150, 2326-2513, 3942-4208 | output Vec, stream cursor with a remainder | plan, split, append within a limit, copy out |
| C ABI | `abi.rs`, `lib.rs` 913-2017, 2515-4942 | the caller's output slots and view structs | one entry point per operation, option parsing, views |
| API table | `abi.rs` 794-926, `lib.rs` 5704-5951, `src/opendal_stub.c` 113-330 | the caller's function table | get_api, loaders |
| C stub | `src/opendal_stub.c` | result objects, wrappers with finalizers | call, take, release, close, finalize |
| Browser bridge | `wasm/browser-bridge/src/lib.rs` | arena of generation slots, tasks, leases, operation counter, torn_down | exports, late publication |
| Promise runtime | `wasm/browser-runtime/index.mjs` | operators, child resources, pending tasks | settle, abort, close |
| MoonBit browser package | `src/browser/*.mbt` | wrappers | calls into the runtime |
| Layers, S3, presign | `src/layers.mbt`, `src/s3.mbt`, `src/presign.mbt`, `lib.rs` 1484-1783, 2941-3402 | layer bits of an operator | parse, configure, rebuild |
| Package resolver | `build.js` | none | select a prebuilt library |

How they interact.  A MoonBit fiber calls the stub, which calls the C ABI; an
async start call spawns a Tokio worker and a supervisor and returns a task.  The
worker never calls back: it publishes an outcome and writes one byte into a pipe
the fiber is reading.  In the browser there is one thread; exports run to their
end and spawned futures publish between them, through handles that may have died
in the meantime.

What is hard here: completion racing cancellation over one descriptor; an abort
handle installed after the work has begun; results that were completed but never
taken; panics between taking a cursor and returning it; logical cancellation,
where the future lives on; slots whose generations run out; teardown with work in
flight; limits that are met from below, buffer by buffer; structs whose two sides
were compiled apart; pointers that change owners while a garbage collector runs;
errors that need a slot of a full arena to be told.  `PROJECT.json` lists each such hazard at its line.

What makes each part correct:

- tasks: one linearization point between completion and cancellation, a result
  taken at most once, exactly one wake, never early and never lost;
- handles: one upstream operation at a time, terminal states are final, a handle
  whose operation failed or was cancelled is never offered again, no handle is
  Busy for ever;
- facade: no task without a fiber that will take or cancel it; the verdict of a
  whole write agrees with the writer's;
- bridge: a handle names one resource ever; a lease protects the operation it was
  made for and no other; exchanging a result never loses it; the live count is
  exact;
- sync resources: calls are serialized, a waiter is woken, a failed call leaves a
  terminal state, all threads hear of the same end;
- Promise runtime: every bridge handle has one owner that releases it, a close
  reaches everything in flight, what a user was told stays true, every Promise
  settles; a facade method leaves nothing behind and reports its own error;
- bounded reads: a result is the range, byte for byte, and never more than the
  limit; a stream loses, repeats and reorders nothing;
- C ABI: outputs are never stale, no option is dropped silently, credentials stay
  where the caller put them, nothing is written outside the caller's structs;
- stub: every native handle has exactly one owner; no entry point is called that
  the table does not hold; layers are in their order.

## 2. Modules

| Module | Models |
|---|---|
| `TaskProtocol` | abstract: what the ABI promises of a task and its pipe |
| `NativeAsync` | tasks, workers, supervisors, pipes, async stream and writer cores, any number of calling threads |
| `AwaitNative` | `NativeAsync` driven by MoonBit fibers on one scheduler thread, and `AsyncOperator::write` |
| `AwaitNativeProofs` | theorems about `NativeAsync`, refinement of `TaskProtocol`; `AwaitNative` implements `NativeAsync`; theorems about fibers and whole writes |
| `SerialResource` | abstract: resources whose calls happen one at a time |
| `SyncResources` | the synchronous Writer, Copier, Lister, ReadStream and Reader, shared by threads |
| `SyncResourcesProofs` | theorems about `SyncResources`, refinement of `SerialResource` |
| `HandleTable` | abstract: one-time handles |
| `BrowserBridge` | arena, handles, tasks, leases, completions, teardown |
| `BrowserBridgeProofs` | theorems about `BrowserBridge`, refinement of `HandleTable` |
| `BrowserRuntime` | Promises, child resources, operators and the runtime, over the event loop |
| `BrowserRuntimeProofs` | theorems about `BrowserRuntime` |
| `BridgeFacade` | the synchronous half of the runtime over the bridge's values: buffers, builders, lists, the last error |
| `BridgeFacadeProofs` | theorems about `BridgeFacade` |
| `BoundedRead` | ranges, whole and positioned reads within a limit, stream chunking, copy to MoonBit |
| `BoundedReadProofs` | theorems about `BoundedRead` |
| `AbiCall` | one call through the C ABI: outputs, raw inputs, options, S3 options, limits, views |
| `AbiCallProofs` | theorems about `AbiCall` |
| `ApiTable` | the function table: staging, installation, loaders (operators only) |
| `NativeHandles` | `ApiTable` plus result objects, wrappers, finalizers and layers |
| `NativeHandlesProofs` | theorems about `NativeHandles` |
| `MC*` | instances for TLC (symmetry sets, configurations and listings) |

Operators whose comment begins with "Mutant of" are wrong on purpose.  No
specification uses them; they are substituted for the definition they follow the
name of, to show that the properties notice the mistake.

### NativeAsync

`task` is `AsyncTaskInner.state`; `signal` follows the one duplicated descriptor
from the task to whoever takes it (`Publisher`, `Canceller`) and then to what a
reader of the pipe sees: `Byte`, or `Eof` when `notify` could not write and only
dropped it.  `worker`, `outcome`, `abort` and `super` are the two futures
`AsyncLaunch::spawn` creates; `owns` says that a future holds the cursor or the
Writer.  `handle` and `slot` are the state of a core and the `Option<AbortHandle>`
inside `Busy`.  `pc` and `job` are the foreign threads that are between two lock
sections of one call.

One action is one lock section.  `OwningStart` and `InstallAbort` are the two
sections of a start; `Cancel`, `CancelPoison` and `CancelNotify` are the three
parts of `cancel`; `Publish` and `PublishNotify` the two of `publish`.  Calls that
are rejected change nothing and are stuttering steps.  A task identity is used
once, so the number of tasks bounds the number of starts.

A stream or writer exists from the success of its open worker, but no caller can
reach it before the take, so `OpenStart` reserves its identity and `Take` opens
it.  A free never races another call on the same handle (the ABI's contract); a
free of a task is a cancel.

### AwaitNative

There is one caller, `Scheduler`.  A fiber runs to its next suspension point; the
only one inside `await_native_result` is the read of the pipe.  `Woken` is the
byte and the take, `PipeEnds` the end of file, `FiberCancelled` the scheduler's
cancellation; the last two run the deferred cancel.  `AsyncOperator::write` is a
little program of stages (Open, Write, Finish, Abort) over the same calls, each of
which may also fail to start.  The writer a whole write opens is known to nobody
else (`Shared`).  The chunk loop is a count of calls; its 256 KiB and
64 MiB limits do not matter for the order of calls.

### SyncResources

`state` is what the lock of a resource protects: the variants of `WriterStateV1`,
`CopierStateV1`, `ListerStateV1`, `ReadStreamStateV1` and `ReaderStateV1`, plus
Absent and Freed for a handle that does not exist.  `at`, `on`, `op` and `answer`
are the threads: where a call stands, which resource and which call it is, and what
it returned.  `took` is the value a call has moved out of the lock with
`mem::replace`.

A call enters, gets the lock, and then either answers at once (`Answer`, `Close`),
sleeps on the condition variable (`Wait`; `SpuriousWake` is allowed, as for any
condition variable) or goes to the storage (`Take`, `Share`).  `Return` is the end
of the storage call and the lock section that stores the next state and signals.
A Writer or Copier says Busy in between and its lock is free; a Lister or
ReadStream keeps its lock (`Excluded`) over a stand-in, Exhausted or Failed, that
nobody can see; a Reader is shared by reads and closed exclusively, so a panicked
read gives its shared lock back (`Unwound`) before it closes the reader.  Two steps
of the code are merged into one where no other thread can observe the difference:
the drop of the inner object, which only the holder can reach, and the swap of Busy
into a state that is then put back, which happens under one lock (`PutBack`).

`SerialResource` is the thread contract of `docs/design/c-abi.md`: each call takes
effect at one instant and is answered as the lifecycle allows.  The mapping shows a
resource in use with the value its user took (`Visible`) and hides the waiting.

### BrowserBridge

`slots` is the vector of the arena and a handle is the encoded pair of generation
and slot, as in the code.  The arena functions are operators on a vector, so that
an export that takes one resource out and inserts another composes them in the
code's order.  `futures` are spawned futures that have not published; they
survive cancellation, release and teardown.  `retired` is a history variable: the
handles whose resource is gone.  Buffers, builders, operators, metadata and entry
lists are one kind, `Value`, because they only occupy slots.  The check of the
operator and path handles before a start is left out: a start that fails it
changes nothing, and a start that passes it is what `start_task` models.  The
branch of `reserve_*` that restores the resource when the insert fails is dead,
because the same call has checked `can_insert`.

### BrowserRuntime

The variables of the first group are fields of the JavaScript objects; `live`,
`task` and `ended` are what the runtime can observe of the bridge; `queue`,
`timers` and `running` are the event loop.  User code runs in turns: an event, or
the continuation of a Promise.  Microtasks run first in, first out, and a timer or
an event only when there is none left.

A call goes through the places of its Promise: `Polling` (settleTask has not
settled), `Settled` (runTask is about to resume), `Unwrapping` (`next` or `open*`
is about to look at what runTask returned), `Told` (the user is about to hear of
it), `Done`.  Each is one microtask, and a continuation of another call may run
user code between any two of them.  `ResumeChild` and `UnwrapOpen` look at the
state again, as the code does.

`UnwrapNext` does not: `next` records the end of the data without asking whether
the cursor was closed in the meantime, so a `close` that falls between the two
microtasks is overwritten by End.  Nothing leaks and nothing is reopened
(`NothingLeaks`, `VerdictHolds`); a further `next` of the JavaScript object then
answers undefined instead of `ResourceClosed`.  The MoonBit wrapper keeps its own
`closed` flag and does not show this.  `WriterSticks` is therefore stated for
Writers, whose final states are set where the state has just been checked.

The same gap admits a second `next` after `active` was cleared.  It is harmless
because the bridge refuses to start on a cursor at its end (`ended`); with a bridge
that let it start, TLC shows a call that outlives the close of its operator.

Left out: the check that a chunk is not larger than was asked for, which the bridge
guarantees by splitting; values of options and their validation (a start may fail)
and the last-error slot, both of which `BridgeFacade` models; the failure of a release,
which `NothingLeaks` shows cannot happen.
When one close cancels several calls, the model lets their continuations run in any
order.

A behaviour begins in any quiet state: some operators and children exist and are
open, no call is in flight.  Every such state is reached by calls that have been
told, which is why two Promises at a time are enough for a long history.

### BridgeFacade

A facade method is a sequence of steps, built when it begins from the arguments
(`OperatorSteps`, `ReadSteps`, ...); a step is one export together with the
`clearLastError` before it and the `expectHandle` or `expectStatus` after it.
`job.regs` are the local variables that hold handles, `job.owned` those that a
finally block will release; `Enter` and `Leave` are the edges of an inner try.  A
step that fails goes to `TakeLastError`, which needs a slot, and `TakeError`, which
needs memory.  The resources of the arena have their sizes here and no generations,
which `BrowserBridge` has.  Between methods `Occupy` and `Vacate` let the rest of
the program fill and empty the arena.

### BoundedRead

One session: a whole read (`operator_read`, `async_operator_read_start`), a
positioned read (`reader_read`) or a stream.  A byte is its position in the object,
so `output` shows lost, repeated and reordered bytes.  `capacity` is that of the
Vec, and the arithmetic wraps at `WordMax` where the code's would.  OpenDAL delivers
the range in buffers of any length, empty ones included, or fails or unwinds.

### AbiCall

Every entry point has the shape of `Begin` (clear all outputs, then look at the
verdicts), the inputs in their order, the work, and `Succeed` or `finish_failure`.
An entry point is a record of its outputs, inputs and result.  An option struct is
modelled by its bits and by views keyed by field; `Asked` is what the caller set in
any way and `Applied` what OpenDAL gets.  The raw inputs contain, for each field,
the absent view and views that break each rule of `borrowed_bytes`; one field at a
time varies against a background of all or none, because the checks of different
fields are independent.

### ApiTable and NativeHandles

Sizes are in half pointers so that a table may end inside a field; a field stands
for the entry points of a group, which are adjacent in `ApiV1`.  `Init` of
`NativeHandles` is any pair of sizes, any build profile and a right or wrong major
version; afterwards the loaders' answers are fixed.  `held` are the non-null pointers
of a result or wrapper, `live` the boxes of the library.  Collection may come at any
time, because the program may drop an object at any time.

## 3. Runs

| Run | What it shows | Instance |
|---|---|---|
| `native_live` | wake ownership, poisoning, exclusive use, terminal states final, no handle stays Busy, `TaskProtocol` with its fairness | 2 callers, 2 tasks, 1 stream, 1 writer |
| `native_close_race` | *violation*: with two threads close may miss the running operation | 2 callers, 3 tasks, 1 stream |
| `await_fibers` | a byte means a result, no orphaned task, close reaches the operation | 2 fibers, 3 tasks, 1 stream |
| `await_upload` | verdict and leftovers of a whole write, and that it ends | 1 upload, up to 2 chunks, 5 tasks |
| `sync` | exclusion, no lost wake-up, one end for all, calls on a finished resource return, `SerialResource` | 2 threads, 1 Copier, 1 ReadStream, 1 Reader |
| `bridge` | leases, exchanges, live count, terminal states, `HandleTable`, no writer stays Busy | 3 slots, 2 generations, 2 operations, a writer |
| `runtime` | ownership of bridge handles, closes reach everything, verdicts, final states of a writer, every Promise settles | 2 Promises at a time, 1 operator, 1 read stream, 1 writer |
| `bridge_facade` | a method leaves at most a key buffer, reports its own error, and answers exactly within its limits | 4 slots, limits of 2 to 4 |
| `facade_config` | *violation*: the key buffer stays | the same |
| `bounded_read` | capacity within the limit, true verdicts, lossless chunks | object up to 5 bytes, limit 3, word 0..7 |
| `abi_call` | honest outputs, no silent option, contained credentials, exact limits, whole views | one call or view; word 0..15, lengths to 7, limit 4 |
| `native_handles` | one owner per handle, layers in order, no torn or missing entry point | 3 objects, 4 boxes, every table size and profile |

Why the bounds are enough.  The races of the native side involve one handle, an
operation that is ending and one that is beginning; with two tasks one of them opened
the handle, and `native_close_race` and `await_fibers` have three.  Two callers suffice
to put any two lock sections between each other; the theorems cover any number.  On a
sync resource they are one inside and one asleep, and the second becomes the one that
arrives; the Copier has all the states of the Writer.  The bridge needs a resource, an
older ready task and a newer pending task at once (three slots), a reused and a retired
generation (two), and two tokens; it is checked with the writer, whose lease code the
read stream and the lister share, because two kinds at once are out of TLC's reach.  The microtask gaps
need a call in the gap and one whose continuation runs there, from any quiet state.  A
whole write of two chunks visits the first, the following and the last call of the loop.
A bounded read of a limit of three sees the capacity doubled, doubled past the limit,
and met exactly, and an object of five is longer than limit and chunk together with a
remainder.  In `abi_call` and `bridge_facade` each limit is passed, met and missed by
one.  Two objects of `native_handles` are a result and a wrapper, the third collects or
layers beside them.

The systems may stop when no caller makes another call or all identities are
used, so deadlock is not checked, except in `native_handles` and `bridge_facade`, where
something can always be done next.

**Fairness.** `NativeAsync` assumes that a thread inside a call continues, that a
storage call returns, fails or is dropped once aborted, and that Tokio polls
every ready future; nobody is obliged to make a call.  `AwaitNative` adds that the
scheduler resumes a fiber whose pipe is readable and that a whole write, once
begun, goes on.  Cancellation of a fiber and failure of a start are never
assumed.  `SyncResources` assumes that a thread inside a call
continues and that a storage call ends; it does not assume that locks or condition
variables are fair among waiters, so a caller may be overtaken for ever and no
property says otherwise.  `BrowserBridge` assumes that the event loop runs every
spawned future.  `BrowserRuntime` assumes that user code returns, that microtasks
run and that a due timer is not passed over for ever (strong fairness, because
events may come in between); storage need not answer and nobody need make a call.

**The violations.** `install_abort` fills a `Busy` slot that is still empty without
asking whose `Busy` it is.  If thread A is delayed between spawning its worker and
installing the abort handle, the worker may finish and thread B may start the next
operation; A's handle then occupies B's slot, B's own is dropped, and `close`
aborts a finished worker.  The documentation of close
(`src/async_native_ffi.mbt` 63-64) says that it cancels any in-flight operation.
MoonBit programs have one scheduler thread and are not affected
(`await_fibers`).

`OpenDalBrowserRuntime.operator` (`wasm/browser-runtime/index.mjs` 1865-1881) makes the
buffer of a configuration key and that of its value before it enters the block whose
finally releases them.  If the second cannot be made, the first stays in the arena until
teardown.  `docs/design/browser-runtime.md` 108 says that the wrappers release temporary
input buffers in finally blocks.  `bridge_facade` shows that nothing else stays behind.

## 4. Proofs

The first part of `AwaitNativeProofs` proves of `NativeAsync`, for all sets of callers, tasks, streams and writers
with `HandleAssumption` (streams and writers are different objects, none of them
is the placeholder) and `TaskAssumption` (the placeholder is no task):

- `WakeIsOwned`, `WrongIsPoisoned`, `HandlesAreExclusive`: the invariants of
  `native_live`, with their parts `TypeCorrect`, `CancelPoisons`, `FailurePoisons`,
  `OneUpstreamOperation` and `BusyHasOwner`;
- `TerminalIsSticky`: the action property;
- `RefinesProtocol`: the safety part of `TaskProtocol`.

None of the invariants is inductive alone.  `IInv` adds: an unused identity
carries nothing (`UnusedInv`); worker, supervisor and task advance in step
(`LifeInv`); what an unfinished call may assume of its task (`CallInv`); the
identity an unclaimed open has reserved is unreachable and reserved once
(`OpenInv`), without which a take could reopen a terminal handle; ownership is
unique and excludes Open (`OwnInv`); an abort handle sits only in the slot of its
own task's handle, and an aborted owner of a Busy handle is being cancelled
(`SlotInv`), without which `BusyIsOwned` fails when the worker is dropped; and
where failures come from (`FailInv`).  There is one lemma per action, then the
three facts for Init, Next and the consequences.  The refinement maps `woken` to
"the pipe shows a byte or its end".

`SyncResourcesProofs` proves, for all sets of threads and resources with
`KindAssumption` (a resource has one kind, the placeholder is none):

- `CallsExclude`, `WakeupsAreKept`, `OneVerdict`: the invariants of `sync`, with the
  parts `TypeCorrect`, `Serialized` and `CloseLinearizes`;
- `FinalIsSticky`: no final state is ever left;
- `RefinesSerial`: every step is a step of `SerialResource` or changes nothing there.

Its `IInv` adds the states each kind can be in (`KindInv`), that a call in progress
is one its resource has and that its handle is live (`CallInv`, from which a free
cannot pass it), and what the lock protects while a caller stands somewhere
(`PlaceInv`): the stand-in while someone is inside, so that nobody else can take,
and the value taken, so that the mapping can restore it.

The second part of `AwaitNativeProofs` proves, for any fibers, whole writes, tasks, streams and writers,
with the assumptions of `NativeAsync`, `SchedulerAssumption` (one thread makes the
calls) and `FiberAssumption` (a fiber is of one kind):

- `FibersImplementCallers`: a behaviour of the fibers is a behaviour of `NativeAsync`,
  so that everything proved of it holds here;
- `ByteFindsResult`, `NoTaskIsOrphaned`, `UploadsTellTheTruth`: the invariants of the
  two `await` runs;
- `CloseReachesOperation`: `CloseCancels`, which two threads violate, holds of one.

`AwaitIInv` is `IInv` and three facts of the native side with one caller: the kind of
handle each operation works on (`SubjectInv`); the abort handle of a future that holds
a cursor is about to be installed, in the slot, or used (`ReachInv`), which is what
fails with two threads; a Finished writer has a commit that is not cancelled, or whose
cancel has yet to fail the writer (`CommitInv`).  Of the fibers it adds: each waits for
a task of its own that nobody has decided (`WaitInv`); a whole write waits for the call
of its stage on its writer (`StageInv`), which nobody else's call concerns
(`PrivateInv`); it has heard of its commit exactly when there is one, and is still in
that stage while the cancel of a commit is under way (`VerdictInv`).  That every fiber
step is one ABI call or none (`StepIsNative`) leaves only the fibers' part to each
action's lemma.

`BoundedReadProofs` proves `AllocationBounded`, `ReadsAreTrue` and
`StreamsAreLossless`, the three invariants of `bounded_read`, for every word size,
limit, object and sequence of buffers with `WordAssumption` (twice the limit and the
largest object fit in a word).  `IInv` adds `Collected`: while a whole read goes on, its
output is exactly what has been delivered.  The content of the proof is arithmetic
(the capacity that grows stays within the limit, a resolved range stays within the
object) and that the bytes of two adjacent ranges, concatenated or cut, are those of
one.

`NativeHandlesProofs` proves `EveryHandleIsOwned`, `LayersStayInOrder` and
`LoadedGroupsAreWhole`, the invariants of `native_handles`, for any objects, handles
and tables with `CallAssumption` (the calls in use are calls of the stub).  `IInv` adds
`Kept`: what an object holds can be freed by it, because the group that made it is
loaded and it is of a kind (`HeldKinds`) whose free function the finalizer asks for.

`BrowserBridgeProofs` proves, for any number of slots, generations and operations that
fit the encoding (`ArenaAssumption`) and any of the calls (`CallsAssumption`):

- `LeasesAreExclusive`: the invariant `LeasesHold`;
- `TerminalStays` and `ExchangesAreWhole`: the action properties;
- `HandlesAreOneTime`: the refinement of `HandleTable`.

`IInv` adds what makes a handle new (`ArenaInv`: a retired handle is of an earlier
generation than its slot, `Past`), that leases carry tokens of their own and that a
pending task has its future (`TaskInv`), and that what a future works on was issued
even if it is gone (`FutureInv`).  The lemmas about the arena functions (insert, put,
take, release: which handles resolve afterwards) carry the proof; the actions compose
them as the code does.

`BrowserRuntimeProofs` proves `EveryHandleHasAnOwner`, `ClosesReachEverything`,
`VerdictsHold` and `WritersStick`, the safety properties of `runtime`, for any calls,
operators and children whose names are different (`NamesAssumption`).  They are proved
of `Spec`, hence hold of the fair specification too.  `IInv` adds: what a call knows of
itself (`CallInv`); the resource of an open has no wrapper and no second open
(`OpenInv`); the operation of a child is its active one until it resumes, and the child
is open while it polls (`ChildInv`); the end of a cursor is published once and nothing
begins after it (`EndInv`), which is why the gap of `UnwrapNext` is harmless; a cursor
whose next was cancelled is not open (`CancelInv`); timers belong to polling calls
(`PollInv`).  Two lemmas serve many actions: one for whatever closes a set of children
and cancels their calls (an abort signal, the close of a child, an operator or the
runtime), one for whatever only answers a call.

`AbiCallProofs` proves `Honest`, `NothingDropped`, `Contained`, `Exact` and `Whole`, the
five invariants of `abi_call`, for every word size, longest allocation and output limit
with `LengthAssumption` (a limit of at least one below the longest allocation, which is
below the word).  The properties are conjuncts of `IInv`, which adds: before a call ends
nothing was boxed or done and every option read so far was accepted (`NothingYet`);
inputs are read only when all outputs are usable and empty (`OutputsReady`); an S3
operator takes all its settings from its one option struct (`OneSource`), without which
`CredentialsContained` says nothing of the order the options came in; a view call follows
no entry point (`ViewFirst`).  The content of the proof is in the parsers.  Each is the
first failure of a list of checks, so that Ok means that every check passed (`FirstOf`),
and there is one lemma per parser (`ReadKept` to `S3Kept`): what it accepts is handed on
whole.  That holds of what this library knows: `Applied` keeps a bit that no version
defines out of what OpenDAL gets, and the lemmas show that a struct with such a bit is
refused.  `PathsExact` is the limit of `read_text_array` for any number of paths.

`BridgeFacadeProofs` proves `KeysAtMost`, `ErrorHonest` and `AnswersExact`, the three
invariants of `bridge_facade`, for arenas, buffers, chunks, configurations and listings of
any size and any limits, with `FacadeAssumption` (sizes are natural numbers; there is a
slot, a chunk is not empty, and a list may have an entry and a byte).  `IInv` says:

- between methods nothing is left to do or to release (`Idle`);
- whatever is in the arena is a stray that may stay there, or in the care of a block,
  or about to be (`Kept`); the last case is the window between `putText` and `try`, and
  a key's buffer is a stray because its window is open to a failure;
- an error that has been recorded is in the last error, in the error handle, or told
  (`Faithful`), and nothing else can record one in between;
- a method in which nothing has failed is at one of its places (`Placed`), each of which
  says which steps are left, which handles are owned and what has been achieved: the
  builder has the first `m` entries and their keys differ (`Built`), the first `m`
  entries of a listing were taken once each (`Taken`), every buffer made so far holds its
  bytes (`Copied`);
- a method that ended has achieved what it is for (`Answered`), and a listing is refused
  only if it does not fit (`Refused`).

The effect of each step is stated once for whichever method takes it (`PutEffect` to
`SnapshotEffect`), and so is what a failure and an advance keep (`FailedKeeps`,
`AdvanceKeeps`); then every method has a lemma that leads from place to place.
`AllCovered` (the windows of a copy are the whole buffer) and `CollectsWhole`
(`collect_list` takes a listing exactly if it fits) are about loops over data.

**Induction over data.**  A loop of the code is a recursive function here (`Running`,
`ConfigLeft`, `EntriesLeft`, `collect_list`, `Sums`).  The library's induction theorems
take a predicate, which the installed provers cannot instantiate; the proofs take a set
instead.  A set of natural numbers that is not empty has a least member (`LeastMember`,
from the well-foundedness of the order of the naturals), so a set that contains 0 and
the successor of each of its members up to `n` contains everything up to `n` (`UpTo`).
With it a recursive function is shown to exist (`Repeated`) and to unfold
(`RunningUnfolds`, `ConfigUnfolds`, `EntriesUnfold`, `CollectUnfolds`), and what a loop
has achieved after `i` rounds is shown for every `i`.  Folds of the community modules
take an operator and stay out of reach: `Bytes`, the total of a configuration, is used
only as the number both sides compare.

Only model-checked: liveness and everything under fairness (`EventuallyFree`,
`FinalDrains`, `BusyEnds`, `UploadEnds`, `Settles`, the fairness part of
`TaskProtocol`), which is out of this prover's reach.  The two violations are
counterexamples and need no proof.

## 5. Plan

The components that carry state are modelled, and every safety property that a passing
run checks is also a theorem.  No module holds a RECURSIVE operator.  What would be next,
in this order:

1. `BridgeFacade` below `BrowserRuntime`: a facade method is one step in the runtime's
   model, which `KeysAtMost` and `ErrorHonest` justify by leaving nothing behind and
   hiding no error, but which no refinement states.
2. `BridgeFacade` above `BrowserBridge`: the arena of the one has sizes and no
   generations, that of the other generations and no sizes; one arena with both would
   join their theorems.
3. The total of the builder's entries in `push_operator_config` against the total that
   `normalizeConfig` checked first: the builder's own check can refuse nothing the runtime
   let through, which nothing states yet.

## 6. Not modelled

The texts of paths, metadata and errors; the UTF-16 to UTF-8 transcoding of the stub
and the byte layout of the bridge's snapshots; OpenDAL services themselves
(a storage call ends with Ok, End or Err); lock poisoning, which the code clears; ABI
misuse the contract excludes (use after free, a free that races a call); the MoonBit
browser package, which wraps the runtime one call at a time; `build.js`, which is one
sequential pass; the generated copy of the browser runtime.
