---------------------------- MODULE BridgeFacade ----------------------------
(***************************************************************************)
(* The synchronous half of the browser runtime: the BridgeFacade and the    *)
(* callers of it (wasm/browser-runtime/index.mjs), which move values into   *)
(* and out of the WebAssembly bridge (wasm/browser-bridge/src/lib.rs) one   *)
(* scalar export at a time, and the exports that hold values: buffers,      *)
(* operator builders, entry lists and the sticky last error.                *)
(*                                                                         *)
(* Nothing else runs while a facade method runs.  What makes it hard is     *)
(* that every export may fail, above all because the arena is full, and     *)
(* that the error of a failed export needs a free slot to be fetched with.  *)
(* A method is a sequence of steps, each one export with what the facade    *)
(* does around it; owned are the handles a finally block will release.      *)
(*                                                                         *)
(* Generations, tasks and leases are the business of BrowserBridge, and the *)
(* asynchronous half of the runtime is that of BrowserRuntime.              *)
(***************************************************************************)
EXTENDS Naturals, Sequences, FiniteSets, SequencesExt

CONSTANTS
    Slots,              \* MAX_SLOTS
    MaxBuffer,          \* MAX_BUFFER_LENGTH
    MaxChunk,           \* MAX_TRANSFER_CHUNK
    MaxConfigEntries,   \* MAX_CONFIG_ENTRIES
    MaxConfigBytes,     \* MAX_CONFIG_BYTES
    MaxListEntries,     \* MAX_LIST_ENTRIES
    MaxListBytes,       \* MAX_LIST_OUTPUT_BYTES
    HalfMax,            \* u32::MAX
    WordMax,            \* u64::MAX
    Lengths,            \* lengths of texts and bytes a caller passes
    Configs,            \* configurations a caller passes
    Listings,           \* what a listing finds: the size of each entry
    Words               \* range bounds and list limits a caller passes

ASSUME FacadeAssumption ==
    /\ {Slots, MaxChunk, MaxListEntries, MaxListBytes} \subseteq Nat \ {0}
    /\ {MaxBuffer, MaxConfigEntries, MaxConfigBytes, HalfMax, WordMax} \subseteq Nat
    /\ Lengths \subseteq Nat /\ Words \subseteq 0 .. WordMax
    /\ Configs \subseteq Seq([key : STRING, case : STRING, bytes : Nat])
    /\ Listings \subseteq Seq(Nat)

VARIABLES
    arena,       \* what each slot holds
    last_error,  \* State.last_error
    job          \* the facade method that runs, or the last one that ran

vars == <<arena, last_error, job>>

-----------------------------------------------------------------------------
(* Errors *)

\* BridgeError.kind: what the runtime tells its user.
kind(e) ==
    CASE e \in {"InvalidArgument", "IndexOutOfBounds", "InvalidUtf8"} -> "InvalidArgument"
      [] e \in {"BufferTooLarge", "LengthOverflow", "ListTooLarge"} -> "BufferTooLarge"
      [] e \in {"HandleLimit", "AllocationFailed", "AsyncPending"} -> "Unexpected"
      [] OTHER -> e   \* OpenDal

\* The first error of a sequence of checks, each an error or None.
FirstError(checks) ==
    IF \A i \in DOMAIN checks : checks[i] = "None" THEN "None"
    ELSE checks[CHOOSE i \in DOMAIN checks :
                  checks[i] # "None" /\ \A j \in 1 .. i - 1 : checks[j] = "None"]

Unless(ok, e) == IF ok THEN "None" ELSE e

-----------------------------------------------------------------------------
(* The arena, as far as values go *)

Nil              == [kind |-> "None"]
Buffer(name, n, bytes) == [kind |-> "Buffer", name |-> name, len |-> n, filled |-> bytes]
Builder(c, n)    == [kind |-> "Builder", config |-> c, config_bytes |-> n]
Operator(c)      == [kind |-> "Operator", config |-> c]
Error(e)         == [kind |-> "Error", error |-> e]
EntryList(es)    == [kind |-> "EntryList", entries |-> es]
Task(call)       == [kind |-> "Task", call |-> call]
\* A resource that other parts of the program hold.
Other            == [kind |-> "Other"]

Free       == {s \in 1 .. Slots : arena[s] = Nil}
can_insert == Unless(Free # {}, "HandleLimit")
\* The first vacant slot.
Slot       == CHOOSE s \in Free : \A t \in Free : s <= t
Inserted(r) == [arena EXCEPT ![Slot] = r]

Without(a, hs) == [s \in 1 .. Slots |-> IF s \in hs THEN Nil ELSE a[s]]

-----------------------------------------------------------------------------
(* What the exports check *)

checked_buffer_window(n, offset, length) ==
    FirstError(<<Unless(length > 0 /\ length <= MaxChunk, "InvalidArgument"),
                 Unless(offset + length <= n, "IndexOutOfBounds")>>)

zeroed_buffer(n, lucky) ==
    FirstError(<<Unless(n <= MaxBuffer, "BufferTooLarge"), Unless(lucky, "AllocationFailed"),
                 can_insert>>)

\* The windows in which the facade copies n bytes, and the bytes they cover.
Windows(n) ==
    {<<o, IF n - o < MaxChunk THEN n - o ELSE MaxChunk>> :
        o \in {x \in 0 .. n : x < n /\ \E i \in 0 .. x : x = i * MaxChunk}}
Covered(n) == UNION {w[1] .. w[1] + w[2] - 1 : w \in Windows(n)}
WindowError(n) ==
    IF \A w \in Windows(n) : checked_buffer_window(n, w[1], w[2]) = "None" THEN "None"
    ELSE "IndexOutOfBounds"

\* A configuration is a sequence of [key, case, bytes]: keys that differ only
\* in case are the same to the bridge, and different ones to JavaScript.
Bytes(c) == FoldLeft(LAMBDA n, e : n + e.bytes, 0, c)

push_operator_config(b, e, lucky) ==
    FirstError(<<Unless(\A i \in DOMAIN b.config : b.config[i].key # e.key, "InvalidArgument"),
                 Unless(Len(b.config) < MaxConfigEntries, "InvalidArgument"),
                 Unless(b.config_bytes + e.bytes <= MaxConfigBytes, "InvalidArgument"),
                 Unless(lucky, "AllocationFailed")>>)

normalizeConfig(c) ==
    FirstError(<<Unless(Len(c) <= MaxConfigEntries, "InvalidArgument"),
                 Unless(Bytes(c) <= MaxConfigBytes, "InvalidArgument")>>)

\* normalizeRange, which the bridge repeats in byte_range, and the limit of a
\* listing.
RangeKinds == {"Full", "From", "Range", "Suffix"}
normalizeRange(r) ==
    Unless(r.kind # "Range" \/ r.offset + r.length <= WordMax, "InvalidArgument")
byte_range(r) ==
    Unless(\/ r.kind = "Full" /\ r.offset = 0 /\ r.length = 0
           \/ r.kind = "From" /\ r.length = 0
           \/ r.kind = "Range" /\ r.offset + r.length <= WordMax
           \/ r.kind = "Suffix" /\ r.offset = 0, "InvalidArgument")
ensure_suffix_is_native(r, native) == Unless(r.kind # "Suffix" \/ native, "Unsupported")
optional_list_limit(limit) == Unless(limit <= HalfMax, "LengthOverflow")

\* Mutant of push_entry_snapshot: one entry more than the limit.
push_entry_snapshot_inclusive(entries, total, size) ==
    Unless(Len(entries) <= MaxListEntries /\ total + size <= MaxListBytes, "ListTooLarge")

push_entry_snapshot(entries, total, size) ==
    Unless(Len(entries) < MaxListEntries /\ total + size <= MaxListBytes, "ListTooLarge")

\* collect_list: the entries pushed so far, their bytes, and the error that
\* ended the collection.
Collected(got, size) ==
    LET e == FirstError(<<got.error, Unless(size <= MaxListBytes, "ListTooLarge"),
                          push_entry_snapshot(got.entries, got.total, size)>>)
    IN IF e = "None" THEN [entries |-> Append(got.entries, size),
                           total |-> got.total + size, error |-> "None"]
       ELSE [got EXCEPT !.error = e]
collect_list(found) ==
    LET got[i \in 0 .. Len(found)] ==
          IF i = 0 THEN [entries |-> <<>>, total |-> 0, error |-> "None"]
          ELSE Collected(got[i - 1], found[i])
    IN got

-----------------------------------------------------------------------------
(* Facade methods, as the steps they take *)

Step(op, arg) == [op |-> op, arg |-> arg]
Put(name, n)  == Step("Put", [name |-> name, len |-> n])

\* Mutant of TwoInputs: the buffers are released only once both are there.
TwoInputsEnteredLate(a, b, n, start) ==
    <<Put(a, n), Put(b, n), Step("Enter", {a, b}), start>>

\* Two buffers that are released, each from the moment it is made.
TwoInputs(a, b, n, start) ==
    <<Put(a, n), Step("Enter", {a}), Put(b, n), Step("Enter", {b}), start>>

\* OpenDalBrowserRuntime.operator: the scheme, then each entry of the
\* configuration, then the operator.  Both buffers of an entry (the bytes of
\* both are counted with the key) are made before the block that releases them
\* is entered.
SchemeSteps(scheme, c) ==
    <<Step("Check", normalizeConfig(c)), Put("scheme", scheme), Step("Enter", {"scheme"}),
      Step("BuilderNew", scheme), Step("Leave", {"scheme"})>>
ConfigSteps(e) ==
    <<Put("key", e.bytes), Put("value", 0), Step("Enter", {"key", "value"}),
      Step("BuilderSet", e), Step("Leave", {"key", "value"})>>
BuildSteps ==
    <<Step("Build", 0), Step("Info", FALSE), Step("Info", FALSE), Step("Info", FALSE),
      Step("Query", 0), Step("Query", 1), Step("Keep", {"operator"})>>
\* What is left to do with k entries to go.
ConfigLeft(c) ==
    LET left[k \in 0 .. Len(c)] ==
          IF k = 0 THEN BuildSteps ELSE ConfigSteps(c[Len(c) - k + 1]) \o left[k - 1]
    IN left
OperatorSteps(scheme, c) == SchemeSteps(scheme, c) \o ConfigLeft(c)[Len(c)]

\* The methods of BrowserOperator up to the task they start.
ReadSteps(n, r, native) ==
    <<Put("path", n), Step("Enter", {"path"}), Step("Check", normalizeRange(r)),
      Put("version", n), Step("Enter", {"version"}),
      Step("Start", [call |-> "Read", error |-> FirstError(<<byte_range(r),
                          ensure_suffix_is_native(r, native)>>)])>>
ListSteps(n, limit) ==
    TwoInputs("path", "start_after", n,
              Step("Start", [call |-> "List", error |-> optional_list_limit(limit)]))
CopySteps(n) ==
    TwoInputs("source", "destination", n, Step("Start", [call |-> "Copy", error |-> "None"]))
PollSteps(n) == <<Put("path", n), Step("Enter", {"path"}), Step("Poll", 0)>>

\* listEntries, with k of n entries to go.
EntrySteps(i) == <<Step("Info", TRUE), Step("Info", TRUE), Step("Snapshot", i)>>
EntriesLeft(n) ==
    LET left[k \in 0 .. n] ==
          IF k = 0 THEN <<>> ELSE EntrySteps(n - k + 1) \o left[k - 1]
    IN left

Job(what, asked, steps, regs, owned) ==
    [what |-> what, asked |-> asked, steps |-> steps, regs |-> regs, owned |-> owned,
     cause |-> "None", reported |-> "None", blocked |-> FALSE, got |-> <<>>, running |-> TRUE]
NoRegs == [n \in {} |-> 0]

Init ==
    /\ arena = [s \in 1 .. Slots |-> Nil]
    /\ last_error = "None"
    /\ job = [Job("None", <<>>, <<>>, NoRegs, {}) EXCEPT !.running = FALSE]

Begin(what, asked, steps) ==
    /\ ~job.running
    /\ job' = Job(what, asked, steps, NoRegs, {})
    /\ UNCHANGED <<arena, last_error>>

BeginOperator == \E n \in Lengths, c \in Configs : Begin("Operator", c, OperatorSteps(n, c))
BeginSchemes  == Begin("Schemes", <<>>, <<Step("Info", FALSE)>>)
BeginRead ==
    \E n \in Lengths, k \in RangeKinds, a, b \in Words, native \in BOOLEAN :
        LET r == [kind   |-> k, offset |-> IF k \in {"From", "Range"} THEN a ELSE 0,
                  length |-> IF k \in {"Range", "Suffix"} THEN b ELSE 0]
        IN Begin("Read", r, ReadSteps(n, r, native))
BeginList == \E n \in Lengths, limit \in Words : Begin("ListStart", limit, ListSteps(n, limit))
BeginCopy == \E n \in Lengths : Begin("Copy", n, CopySteps(n))
BeginPoll == \E n \in Lengths : Begin("Poll", n, PollSteps(n))

-----------------------------------------------------------------------------
(* Steps *)

At(op) == job.running /\ job.steps # <<>> /\ Head(job.steps).op = op
Arg    == Head(job.steps).arg

\* Mutant of clearLastError: it is not called.
keepLastError == last_error

\* Every export is called with the last error cleared.
clearLastError == "None"

Register(name) ==
    [n \in (DOMAIN job.regs) \cup {name} |-> IF n = name THEN Slot ELSE job.regs[n]]
Done(j) == [j EXCEPT !.steps = Tail(job.steps)]

\* A step that calls an export: its effect, or the error it records, which the
\* facade goes on to fetch.
Export(e, a, j) ==
    IF e = "None"
    THEN arena' = a /\ job' = Done(j) /\ last_error' = clearLastError
    ELSE /\ last_error' = e
         /\ job' = [job EXCEPT !.cause = e, !.steps = <<Step("TakeLastError", 0)>>]
         /\ UNCHANGED arena

\* putBytes.
PutBytes ==
    /\ At("Put")
    /\ \E lucky \in BOOLEAN :
         Export(FirstError(<<zeroed_buffer(Arg.len, lucky), WindowError(Arg.len)>>),
                Inserted(Buffer(Arg.name, Arg.len, Covered(Arg.len))),
                [job EXCEPT !.regs = Register(Arg.name)])

\* try and finally blocks.
Enter ==
    /\ At("Enter")
    /\ job' = Done([job EXCEPT !.owned = @ \cup Arg])
    /\ UNCHANGED <<arena, last_error>>

Leave ==
    /\ At("Leave")
    /\ arena' = Without(arena, {job.regs[n] : n \in Arg})
    /\ job' = Done([job EXCEPT !.owned = @ \ Arg])
    /\ UNCHANGED last_error

\* What the runtime checks by itself.
Check ==
    /\ At("Check")
    /\ job' = IF Arg = "None" THEN Done(job)
              ELSE [job EXCEPT !.cause = Arg, !.reported = kind(Arg), !.steps = <<>>]
    /\ UNCHANGED <<arena, last_error>>

operator_builder_new ==
    /\ At("BuilderNew")
    /\ \E lucky \in BOOLEAN :
         Export(FirstError(<<Unless(lucky, "AllocationFailed"),
                             Unless(Arg > 0, "InvalidArgument"), can_insert>>),
                Inserted(Builder(<<>>, 0)),
                [job EXCEPT !.regs = Register("builder"), !.owned = @ \cup {"builder"}])

operator_builder_set ==
    /\ At("BuilderSet")
    /\ \E lucky \in BOOLEAN :
         LET h == job.regs["builder"]
         IN Export(push_operator_config(arena[h], Arg, lucky),
                   [arena EXCEPT ![h] = Builder(Append(@.config, Arg), @.config_bytes + Arg.bytes)],
                   job)

\* The builder is cloned, and the registry of services asked.
operator_builder_build ==
    /\ At("Build")
    /\ \E lucky \in BOOLEAN, e \in {"None", "ConfigInvalid"} :
         LET c == arena[job.regs["builder"]].config
         IN Export(FirstError(<<Unless(lucky, "AllocationFailed"), e, can_insert>>),
                   Inserted(Operator(c)),
                   [job EXCEPT !.regs = Register("operator"), !.owned = @ \cup {"operator"},
                               !.got = c])

\* A text that is copied into a buffer, taken out of it and released; Arg says
\* whether the copy is one that may fail.
Info ==
    /\ At("Info")
    /\ \E lucky \in BOOLEAN, n \in Lengths :
         Export(FirstError(<<Unless(lucky \/ ~Arg, "AllocationFailed"),
                             Unless(n <= MaxBuffer, "BufferTooLarge"), can_insert,
                             WindowError(n)>>), arena, job)

\* A scalar that says nothing of failure: the facade looks at the last error.
Query ==
    /\ At("Query")
    /\ IF clearLastError = "None" \/ Free = {} THEN Export("None", arena, job)
       ELSE /\ arena' = Inserted(Error(clearLastError))
            /\ last_error' = "None"
            /\ job' = [job EXCEPT !.regs = Register("error"), !.owned = @ \cup {"error"},
                                  !.steps = <<Step("TakeError", 0)>>]

\* The new operator is handed to the user.
Keep ==
    /\ At("Keep")
    /\ arena' = [arena EXCEPT ![job.regs["operator"]] = Other]
    /\ job' = Done([job EXCEPT !.owned = @ \ Arg])
    /\ UNCHANGED last_error

\* The *_start exports: the options are decoded, the inputs copied, and the
\* task takes a slot.
Start ==
    /\ At("Start")
    /\ \E lucky \in BOOLEAN :
         Export(FirstError(<<Arg.error, Unless(lucky, "AllocationFailed"), can_insert>>),
                Inserted(Task(Arg.call)),
                [job EXCEPT !.got = <<\A n \in DOMAIN job.regs :
                            LET b == arena[job.regs[n]] IN b.filled = 0 .. b.len - 1>>])

\* operator_write, operator_read and operator_stat, which poll a future once:
\* the last two insert a value, which the caller keeps.
PollOnce ==
    /\ At("Poll")
    /\ \E e \in {"None", "AsyncPending", "NotFound"} :
         \/ Export(e, arena, job)
         \/ Export(FirstError(<<e, can_insert>>), Inserted(Other), job)

-----------------------------------------------------------------------------
(* Settling a completion *)

\* settleCompletion of a task that is ready: the completion has its slot.
Settle(t, what, asked, r, steps) ==
    /\ ~job.running /\ arena[t].kind = "Task"
    /\ arena' = [arena EXCEPT ![t] = r]
    /\ last_error' = clearLastError
    /\ job' = Job(what, asked, <<Step("Query", 0)>> \o steps,
                [n \in {"completion"} |-> t], {"completion"})

\* completion_take_error, which needs no further slot.
SettleFailed(t, what, asked, e) ==
    /\ ~job.running /\ arena[t].kind = "Task"
    /\ arena' = [arena EXCEPT ![t] = Error(e)]
    /\ last_error' = clearLastError
    /\ job' = [Job(what, asked, <<Step("TakeError", 0)>>, [n \in {"error"} |-> t], {"error"})
                 EXCEPT !.cause = e]

SettleList(t, found) ==
    LET list == collect_list(found)[Len(found)]
    IN /\ arena[t] = Task("List")
       /\ IF list.error # "None" THEN SettleFailed(t, "List", found, list.error)
          ELSE Settle(t, "List", found, EntryList(list.entries),
                      EntriesLeft(Len(list.entries))[Len(list.entries)])

\* try_owned_opendal_buffer, completion_take_buffer.
SettleRead(t, n) ==
    /\ arena[t] = Task("Read")
    /\ IF n > MaxBuffer THEN SettleFailed(t, "Settle", n, "BufferTooLarge")
       ELSE Settle(t, "Settle", n, Buffer("completion", n, Covered(n)), <<>>)

SettleMetadata(t) ==
    arena[t] = Task("Copy") /\ Settle(t, "Settle", 0, Other, <<Step("Metadata", 0)>>)

SettleError(t) == SettleFailed(t, "Settle", 0, "NotFound")

\* completion_take_metadata_snapshot: in the slot of its completion.
TakeMetadata ==
    /\ At("Metadata")
    /\ \E lucky \in BOOLEAN : Export(Unless(lucky, "AllocationFailed"), arena, job)

\* entry_list_metadata_snapshot: each may be taken once.
TakeSnapshot ==
    /\ At("Snapshot")
    /\ LET h == job.regs["completion"]
           size == arena[h].entries[Arg]
       IN Export(FirstError(<<Unless(size # 0, "InvalidArgument"), can_insert>>),
                 [arena EXCEPT ![h].entries[Arg] = 0],
                 [job EXCEPT !.got = Append(@, size)])

-----------------------------------------------------------------------------
(* Errors on their way to the user *)

\* takeLastError: with no slot for the error a fallback is reported, and the
\* last error is now that there is no slot.
TakeLastError ==
    /\ At("TakeLastError")
    /\ IF Free = {}
       THEN /\ last_error' = "HandleLimit"
            /\ job' = [job EXCEPT !.reported = "Unexpected", !.blocked = TRUE, !.steps = <<>>]
            /\ UNCHANGED arena
       ELSE /\ arena' = Inserted(Error(last_error))
            /\ last_error' = "None"
            /\ job' = [job EXCEPT !.regs = Register("error"), !.owned = @ \cup {"error"},
                                  !.steps = <<Step("TakeError", 0)>>]

\* takeError: the error is replaced by its snapshot, or the runtime gives up,
\* discarding the error that says why if there is a slot to fetch it with.
TakeError ==
    /\ At("TakeError")
    /\ \E lucky \in BOOLEAN :
         /\ job' = [job EXCEPT !.steps = <<>>,
                      !.reported = IF lucky THEN kind(arena[job.regs["error"]].error)
                                   ELSE "ContractError"]
         /\ last_error' = IF lucky \/ Free # {} THEN clearLastError ELSE "HandleLimit"
    /\ UNCHANGED arena

\* The finally blocks.
Finish ==
    /\ job.running /\ job.steps = <<>>
    /\ arena' = Without(arena, {job.regs[n] : n \in job.owned})
    /\ job' = [job EXCEPT !.running = FALSE, !.owned = {}, !.regs = NoRegs]
    /\ UNCHANGED last_error

-----------------------------------------------------------------------------
(* Between methods: other parts of the program take and release handles. *)

Occupy ==
    /\ ~job.running /\ Free # {}
    /\ arena' = Inserted(Other)
    /\ UNCHANGED <<last_error, job>>

Vacate ==
    /\ ~job.running
    /\ \E s \in 1 .. Slots : arena[s].kind \in {"Other", "Task"} /\ arena' = Without(arena, {s})
    /\ UNCHANGED <<last_error, job>>

Next ==
    \/ BeginOperator \/ BeginSchemes \/ BeginRead \/ BeginList \/ BeginCopy \/ BeginPoll
    \/ PutBytes \/ Enter \/ Leave \/ Check \/ Info \/ Query \/ Keep \/ Start \/ PollOnce
    \/ operator_builder_new \/ operator_builder_set \/ operator_builder_build
    \/ \E t \in 1 .. Slots :
         \/ SettleMetadata(t) \/ SettleError(t)
         \/ \E found \in Listings : SettleList(t, found)
         \/ \E n \in Lengths : SettleRead(t, n)
    \/ TakeMetadata \/ TakeSnapshot \/ TakeLastError \/ TakeError \/ Finish
    \/ Occupy \/ Vacate

Spec == Init /\ [][Next]_vars

-----------------------------------------------------------------------------
(* Properties *)

Resources == {arena[s] : s \in 1 .. Slots} \ {Nil}

\* The runtime's wrappers release every temporary buffer, and everything else
\* they made and did not hand out, however a method ends.
InputsReleased == ~job.running => \A r \in Resources : r.kind \in {"Other", "Task"}

\* The only thing a method can leave behind in the arena, whichever of its
\* exports failed, is the buffer of a configuration key.
OnlyKeysStay ==
    ~job.running => \A r \in Resources :
        r.kind \in {"Other", "Task"} \/ (r.kind = "Buffer" /\ r.name = "key")

\* The error a user sees is that of the export that failed: not one that an
\* earlier method left in the last error, not none, and another one only when
\* no slot was free for the error itself, or no memory for its snapshot.
ErrorIsTrue ==
    ~job.running =>
        /\ job.cause = "None" <=> job.reported = "None"
        /\ job.reported \in {kind(job.cause), "ContractError", "None"}
             \cup (IF job.blocked THEN {"Unexpected"} ELSE {})

\* Configurations and listings are accepted exactly within their limits, and
\* arrive whole: the operator has the configuration that was asked for, the
\* listing every entry that was found, each with its metadata; a task has seen
\* every byte of its inputs, and only ranges and limits that fit.
ConfigFits(c) ==
    /\ Len(c) <= MaxConfigEntries /\ Bytes(c) <= MaxConfigBytes
    /\ \A i, j \in DOMAIN c : i # j => c[i].key # c[j].key
Sums(found) ==
    LET sum[i \in 0 .. Len(found)] == IF i = 0 THEN 0 ELSE sum[i - 1] + found[i]
    IN sum
ListFits(found) ==
    Len(found) <= MaxListEntries /\ Sums(found)[Len(found)] <= MaxListBytes
AnswerIsExact ==
    ~job.running =>
        /\ job.what = "Operator" /\ job.cause = "None" => ConfigFits(job.asked) /\ job.got = job.asked
        /\ job.what = "List" /\ job.cause = "None" => ListFits(job.asked) /\ job.got = job.asked
        /\ job.what = "List" /\ job.cause = "ListTooLarge" => ~ListFits(job.asked)
        /\ job.what \in {"Read", "ListStart", "Copy"} /\ job.cause = "None" => job.got = <<TRUE>>
        /\ job.what = "Read" /\ job.cause = "None" => job.asked.offset + job.asked.length <= WordMax
        /\ job.what = "ListStart" /\ job.cause = "None" => job.asked <= HalfMax

-----------------------------------------------------------------------------
(* The inductive invariant *)

\* What a job is made of, and what the registers are.
JobFields == {"what", "asked", "steps", "regs", "owned", "cause", "reported", "blocked",
              "got", "running"}
Shape ==
    /\ DOMAIN arena = 1 .. Slots
    /\ DOMAIN job = JobFields
    /\ job.running \in BOOLEAN /\ job.blocked \in BOOLEAN
    /\ job.owned \subseteq DOMAIN job.regs
    /\ \A n \in DOMAIN job.regs : job.regs[n] \in 1 .. Slots

\* Between methods nothing is left to do or to release.
Idle == ~job.running => job.steps = <<>> /\ job.owned = {} /\ DOMAIN job.regs = {}

\* The buffers that the next step puts into the care of a block.
Pending == IF job.steps # <<>> /\ Head(job.steps).op = "Enter" THEN Head(job.steps).arg ELSE {}

\* Whatever a method made is in the care of a block or about to be, but for the
\* buffer of a configuration key.
Stray(r) == r = Nil \/ r.kind \in {"Other", "Task"} \/ (r.kind = "Buffer" /\ r.name = "key")
Kept ==
    \A s \in 1 .. Slots :
        Stray(arena[s]) \/ \E n \in job.owned \cup (Pending \cap DOMAIN job.regs) : job.regs[n] = s

\* The error of the export that failed, on its way through the last error and
\* the error handle to the user.
OnItsWay ==
    \/ /\ job.steps = <<Step("TakeLastError", 0)>>
       /\ job.running /\ job.reported = "None" /\ "error" \notin job.owned
       /\ last_error = job.cause
    \/ /\ job.steps = <<Step("TakeError", 0)>>
       /\ job.running /\ job.reported = "None" /\ "error" \in DOMAIN job.regs
       /\ arena[job.regs["error"]] = Error(job.cause)
    \/ /\ job.steps = <<>>
       /\ job.reported \in {kind(job.cause), "ContractError"}
                              \cup (IF job.blocked THEN {"Unexpected"} ELSE {})
Faithful == IF job.cause = "None" THEN job.reported = "None" ELSE OnItsWay

Holds(n, k) == n \in DOMAIN job.regs /\ arena[job.regs[n]].kind = k

\* Where a method is while nothing has failed: what is left of its steps, what
\* it owns, and what it has achieved.
Left(p, i) == SubSeq(p, i, Len(p))

\* The builder has the first m entries, of different keys.
Built(m) ==
    /\ normalizeConfig(job.asked) = "None"
    /\ Holds("builder", "Builder")
    /\ arena[job.regs["builder"]].config = SubSeq(job.asked, 1, m)
    /\ \A i, j \in 1 .. m : i # j => job.asked[i].key # job.asked[j].key
AtScheme(n, i) ==
    /\ job.steps = Left(SchemeSteps(n, job.asked), i) \o ConfigLeft(job.asked)[Len(job.asked)]
    /\ job.owned = (IF i > 3 THEN {"scheme"} ELSE {}) \cup (IF i > 4 THEN {"builder"} ELSE {})
    /\ i > 1 => normalizeConfig(job.asked) = "None"
    /\ i > 2 => Holds("scheme", "Buffer")
    /\ i > 4 => Built(0)
AtConfig(k, i) ==
    LET m == Len(job.asked) - k
    IN /\ job.steps = Left(ConfigSteps(job.asked[m + 1]), i) \o ConfigLeft(job.asked)[k - 1]
       /\ job.owned = {"builder"} \cup (IF i > 3 THEN {"key", "value"} ELSE {})
       /\ i > 1 => Holds("key", "Buffer")
       /\ i > 2 => Holds("value", "Buffer")
       /\ Built(IF i > 4 THEN m + 1 ELSE m)
AtBuild(i) ==
    /\ job.steps = Left(BuildSteps, i)
    /\ job.owned = {"builder"} \cup (IF i > 1 THEN {"operator"} ELSE {})
    /\ Built(Len(job.asked))
    /\ i > 1 => job.got = job.asked /\ Holds("operator", "Operator")
InOperator ==
    \/ \E n \in Lengths, i \in 1 .. 5 : AtScheme(n, i)
    \/ \E k \in 1 .. Len(job.asked), i \in 1 .. 5 : AtConfig(k, i)
    \/ \E i \in 1 .. 7 : AtBuild(i)

\* Every buffer a method made holds the bytes it was given.
Copied ==
    \A n \in DOMAIN job.regs :
        LET b == arena[job.regs[n]] IN b.kind = "Buffer" /\ b.filled = 0 .. b.len - 1
AtRead(n, native, i) ==
    /\ job.steps = Left(ReadSteps(n, job.asked, native), i)
    /\ job.owned = (IF i > 2 THEN {"path"} ELSE {}) \cup (IF i > 5 THEN {"version"} ELSE {})
    /\ i > 1 => "path" \in DOMAIN job.regs
    /\ i > 4 => "version" \in DOMAIN job.regs
    /\ (i > 3 \/ job.asked.kind # "Range") => job.asked.offset + job.asked.length <= WordMax
AtInputs(a, b, n, start, i) ==
    /\ job.steps = Left(TwoInputs(a, b, n, start), i)
    /\ job.owned = (IF i > 2 THEN {a} ELSE {}) \cup (IF i > 4 THEN {b} ELSE {})
    /\ i > 1 => a \in DOMAIN job.regs
    /\ i > 3 => b \in DOMAIN job.regs
AtPoll(n, i) ==
    /\ job.steps = Left(PollSteps(n), i)
    /\ job.owned = IF i > 2 THEN {"path"} ELSE {}
    /\ i > 1 => "path" \in DOMAIN job.regs
InRead == \E n \in Lengths, native \in BOOLEAN, i \in 1 .. 6 : AtRead(n, native, i)
InListStart ==
    \E n \in Lengths, i \in 1 .. 5 :
        AtInputs("path", "start_after", n,
            Step("Start", [call |-> "List", error |-> optional_list_limit(job.asked)]), i)
InCopy ==
    \E n \in Lengths, i \in 1 .. 5 :
        AtInputs("source", "destination", n,
            Step("Start", [call |-> "Copy", error |-> "None"]), i)
InPoll == \E n \in Lengths, i \in 1 .. 3 : AtPoll(n, i)
InSchemes == job.steps = <<Step("Info", FALSE)>> /\ job.owned = {}
InSettle ==
    /\ job.steps \in {<<Step("Query", 0)>>, <<Step("Query", 0), Step("Metadata", 0)>>,
                      <<Step("Metadata", 0)>>}
    /\ job.owned = {"completion"}

\* The first m entries of a listing have been taken, each once.
Taken(m) ==
    /\ ListFits(job.asked)
    /\ job.owned = {"completion"}
    /\ arena[job.regs["completion"]] =
           EntryList([j \in 1 .. Len(job.asked) |-> IF j <= m THEN 0 ELSE job.asked[j]])
    /\ job.got = SubSeq(job.asked, 1, m)
AtEntry(k, i) ==
    LET n == Len(job.asked)
    IN job.steps = Left(EntrySteps(n - k + 1), i) \o EntriesLeft(n)[k - 1] /\ Taken(n - k)
InList ==
    \/ /\ job.steps = <<Step("Query", 0)>> \o EntriesLeft(Len(job.asked))[Len(job.asked)]
       /\ Taken(0)
    \/ \E k \in 1 .. Len(job.asked), i \in 1 .. 3 : AtEntry(k, i)

InMethod ==
    \/ /\ job.what = "Operator" /\ job.asked \in Configs
       /\ InOperator
    \/ /\ job.what \in {"Read", "ListStart", "Copy", "Poll"} /\ Copied
       /\ \/ job.what = "Read" /\ InRead
          \/ job.what = "ListStart" /\ InListStart
          \/ job.what = "Copy" /\ InCopy
          \/ job.what = "Poll" /\ InPoll
    \/ job.what = "Schemes" /\ InSchemes
    \/ job.what = "Settle" /\ InSettle
    \/ job.what = "List" /\ job.asked \in Listings /\ InList
Placed == job.cause = "None" /\ job.steps # <<>> => job.running /\ InMethod

\* What a method that has come to its end without an error has achieved, and
\* why a listing was refused.
Answer ==
    /\ job.what = "Operator" => ConfigFits(job.asked) /\ job.got = job.asked
    /\ job.what = "List" => ListFits(job.asked) /\ job.got = job.asked
    /\ job.what \in {"Read", "ListStart", "Copy"} => job.got = <<TRUE>>
    /\ job.what = "Read" => job.asked.offset + job.asked.length <= WordMax
    /\ job.what = "ListStart" => job.asked <= HalfMax
Answered == job.cause = "None" /\ job.steps = <<>> => Answer
Refused == job.what = "List" /\ job.cause = "ListTooLarge" => ~ListFits(job.asked)

IInv ==
    /\ Shape /\ Idle /\ Kept /\ Faithful
    /\ Placed /\ Answered /\ Refused
=============================================================================
