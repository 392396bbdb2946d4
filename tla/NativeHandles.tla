--------------------------- MODULE NativeHandles ---------------------------
(***************************************************************************)
(* Who owns the native handles the MoonBit API works with.                  *)
(*                                                                         *)
(* A call through the stub (src/opendal_stub.c) makes a result object; the  *)
(* library (native/rust/src/lib.rs) boxes its handles into it; MoonBit      *)
(* takes them out into wrapper objects, releases the result, and leaves     *)
(* objects to the garbage collector, which finalizes them at any time.      *)
(* The module also follows the layers of an operator, since every layer     *)
(* makes a new operator handle from an old one.                             *)
(*                                                                         *)
(* Asynchronous handles are the business of NativeAsync and AwaitNative.    *)
(***************************************************************************)
EXTENDS ApiTable, FiniteSets

CONSTANTS
    Objects,     \* MoonBit external objects: results and wrappers
    Handles,     \* boxes of the native library
    CallsInUse   \* the calls an instance makes

VARIABLES
    loaded,   \* the groups whose loader succeeds with the library at hand
    table,    \* what the negotiated table holds in each field
    live,     \* the kind of each native box, or None
    object,   \* what each MoonBit object is, or None
    status,   \* the status of each result object
    held,     \* the handles each object holds
    stack,    \* the layers of each operator handle, innermost first
    bits      \* OperatorV1.layer_bits

vars == <<loaded, table, live, object, status, held, stack, bits>>
api  == <<loaded, table>>

BaseKinds == {"Error", "Operator", "Info", "Buffer", "Metadata", "Entry"}
Kinds     == BaseKinds \cup {"Lister", "Reader", "ReadStream", "Writer", "Copier", "Request"}
Wrappers  == Kinds \ {"Error", "Info", "Buffer"}

\* The statuses of a result; Other is a panic, or the end of a sequence.
Statuses  == {"None", "Ok", "Error", "AbiMismatch", "Other"}

\* The field that frees a handle of a kind, and the group whose loader the
\* finalizer of its wrapper asks.
FreeField(k) ==
    CASE k = "Lister" -> "lister_free" [] k = "Reader" -> "reader_free"
      [] k = "ReadStream" -> "read_stream_free" [] k = "Writer" -> "writer_free"
      [] k = "Copier" -> "copier_free" [] k = "Request" -> "presign_free" [] OTHER -> "base"
GroupOf(k) ==
    CASE k = "Lister" -> "Listing" [] k = "Reader" -> "Reader" [] k = "ReadStream" -> "ReadStream"
      [] k = "Writer" -> "Writer" [] k = "Copier" -> "Copier" [] k = "Request" -> "Presign"
      [] OTHER -> "Base"

\* The calls of the stub: the group they load, the wrapper they work on, and
\* the handles they make.  The ones not listed make no handle, as operator_check,
\* or metadata, as operator_stat, through their own group.
Entry(group, needs, makes) == [group |-> group, needs |-> needs, makes |-> makes]
CallTable ==
    [operator_new     |-> Entry("Base", "None", {"Operator", "Info"}),
     operator_s3      |-> Entry("S3", "None", {"Operator", "Info"}),
     operator_check   |-> Entry("WholeObject", "Operator", {}),
     operator_stat    |-> Entry("WholeObject", "Operator", {"Metadata"}),
     operator_read    |-> Entry("WholeObject", "Operator", {"Buffer"}),
     operator_lister  |-> Entry("Listing", "Operator", {"Lister"}),
     lister_next      |-> Entry("Listing", "Lister", {"Entry"}),
     operator_reader  |-> Entry("Reader", "Operator", {"Reader"}),
     reader_read      |-> Entry("Reader", "Reader", {"Buffer"}),
     operator_read_stream |-> Entry("ReadStream", "Operator", {"ReadStream"}),
     read_stream_next |-> Entry("ReadStream", "ReadStream", {"Buffer"}),
     operator_writer  |-> Entry("Writer", "Operator", {"Writer"}),
     writer_close     |-> Entry("Writer", "Writer", {"Metadata"}),
     operator_copier  |-> Entry("Copier", "Operator", {"Copier"}),
     copier_finish    |-> Entry("Copier", "Copier", {"Metadata"}),
     operator_presign |-> Entry("Presign", "Operator", {"Request"})]

ASSUME CallAssumption == CallsInUse \subseteq DOMAIN CallTable

WrappersInUse == Wrappers \cap UNION {CallTable[c].makes : c \in CallsInUse}

LayerKinds  == {"Timeout", "Retry", "Limit"}
LayerGroup  == [Timeout |-> "Layers", Retry |-> "Layers", Limit |-> "Limit"]
GroupsInUse == {"Base", "Layers", "Limit"} \cup {CallTable[c].group : c \in CallsInUse}

\* A library the stub meets, at either size, of any build; nothing exists yet.
Init ==
    /\ \E caller \in 0..TableSize, size \in PrefixSize..TableSize, major \in 1..2,
          profile \in Profiles :
         LET answer == get_api(caller, major, size, profile)
         IN /\ loaded = {g \in GroupsInUse :
                           /\ answer.status = "Ok"
                           /\ Loads(g, caller, size, profile, answer.table)}
            /\ table = [f \in UNION {GroupFields[g] : g \in GroupsInUse} |-> answer.table[f]]
    /\ live = [h \in Handles |-> "None"]
    /\ object = [o \in Objects |-> "None"]
    /\ status = [o \in Objects |-> "None"]
    /\ held = [o \in Objects |-> {}]
    /\ stack = [h \in Handles |-> <<>>]
    /\ bits = [h \in Handles |-> {}]

-----------------------------------------------------------------------------
(* Calls *)

\* An unused native box for each of the kinds.
Boxes(kinds) ==
    {box \in [kinds -> {h \in Handles : live[h] = "None"}] :
        \A k, j \in kinds : box[k] = box[j] => k = j}

\* A result object, with the boxes the library put into it.
Result(r, s, box) ==
    LET new == {box[k] : k \in DOMAIN box}
    IN /\ object' = [object EXCEPT ![r] = "Result"]
       /\ status' = [status EXCEPT ![r] = s]
       /\ held' = [held EXCEPT ![r] = new]
       /\ live' = [h \in Handles |-> IF h \in new THEN CHOOSE k \in DOMAIN box : box[k] = h
                                     ELSE live[h]]

\* A new operator carries layers ls; the layers of older ones stay.
Layered(box, ls, bs) ==
    /\ stack' = [h \in Handles |-> IF "Operator" \in DOMAIN box /\ h = box["Operator"] THEN ls
                                   ELSE stack[h]]
    /\ bits' = [h \in Handles |-> IF "Operator" \in DOMAIN box /\ h = box["Operator"] THEN bs
                                  ELSE bits[h]]

\* A result with no handle: a refusal of the stub, an ABI mismatch, a panic,
\* the end of a listing or a stream.
Empty(r, s) ==
    /\ object' = [object EXCEPT ![r] = "Result"]
    /\ status' = [status EXCEPT ![r] = s]
    /\ UNCHANGED <<live, held, stack, bits>>

\* The library did not do what it was asked for.
Fails(r) ==
    \/ \E box \in Boxes({"Error"}) : Result(r, "Error", box) /\ UNCHANGED <<stack, bits>>
    \/ \E s \in {"AbiMismatch", "Other"} : Empty(r, s)

\* What the library answers a call that reached it, checked by the stub: the
\* handles, which the stub may find inconsistent, an error, or nothing.
Answers(r, kinds, ls, bs) ==
    \/ \E box \in Boxes(kinds), s \in {"Ok", "AbiMismatch"} :
         Result(r, s, box) /\ Layered(box, ls, bs)
    \/ Fails(r)

\* The native handle of a wrapper, if it still has it.
Native(w, k) == {h \in held[w] : live[h] = k}

Call(c, r, w) ==
    LET e == CallTable[c]
    IN /\ object[r] = "None" /\ (e.needs # "None" => object[w] = e.needs)
       /\ \/ e.group \notin loaded /\ Empty(r, "AbiMismatch")
          \/ /\ e.group \in loaded /\ e.needs # "None" /\ Native(w, e.needs) = {}
             /\ Empty(r, "Error")
          \/ /\ e.group \in loaded /\ (e.needs # "None" => Native(w, e.needs) # {})
             /\ Answers(r, e.makes, <<>>, {})
       /\ UNCHANGED api

-----------------------------------------------------------------------------
(* Layers *)

positive(n) == n > 0

\* Mutant of operator_with_timeout: only the timeout layer itself is refused.
operator_with_timeout_anywhere(bs, operation, io) ==
    positive(operation) /\ positive(io) /\ "Timeout" \notin bs

\* Whether each layer is accepted on an operator that has layers bs.
operator_with_timeout(bs, operation, io) ==
    positive(operation) /\ positive(io) /\ bs \cap {"Timeout", "Limit", "Retry"} = {}

operator_with_retry(bs, retries, min, max) ==
    /\ positive(retries) /\ positive(min) /\ positive(max) /\ min <= max
    /\ bs \cap {"Retry", "Limit"} = {}

operator_with_concurrency_limit(bs, operations, hasHttp, http) ==
    /\ ~hasHttp => http = 0
    /\ "Limit" \notin bs
    /\ positive(operations) /\ (hasHttp => positive(http))

\* The verdicts on a layer, over arguments that are small numbers or zero.
Accepted(l, bs, a, b, c, flag) ==
    CASE l = "Timeout" -> operator_with_timeout(bs, a, b)
      [] l = "Retry"   -> operator_with_retry(bs, a, b, c)
      [] OTHER         -> operator_with_concurrency_limit(bs, a, flag, b)
Verdicts(l, bs) == {Accepted(l, bs, a, b, c, flag) : a, b, c \in 0..2, flag \in BOOLEAN}

\* moonbit_opendal_operator_with_*: a new operator, or none.  The operator it
\* is made from is cloned, so it keeps its layers and may be closed.
WithLayer(l, r, w) ==
    /\ object[r] = "None" /\ object[w] = "Operator"
    /\ \/ LayerGroup[l] \notin loaded /\ Empty(r, "AbiMismatch")
       \/ /\ LayerGroup[l] \in loaded /\ Native(w, "Operator") = {}
          /\ Empty(r, "Error")
       \/ /\ LayerGroup[l] \in loaded
          /\ \E h \in Native(w, "Operator") : \E accepted \in Verdicts(l, bits[h]) :
               \/ ~accepted /\ Fails(r)
               \/ accepted /\ Answers(r, {"Operator", "Info"},
                                      Append(stack[h], l), bits[h] \cup {l})
    /\ UNCHANGED api

-----------------------------------------------------------------------------
(* Taking, releasing, finalizing *)

Wanted(k) == IF k = "Operator" THEN {"Operator", "Info"} ELSE {k}

\* Mutant of Moved: the result keeps what it gave away.
MovedNothing(r, hs) == held[r]

\* The pointers of a result are cleared as they are taken.
Moved(r, hs) == held[r] \ hs

\* moonbit_opendal_result_take_*: what is not there, or does not look right,
\* spoils the result and gives an empty wrapper.
Take(r, k, o, valid) ==
    LET hs == {h \in held[r] : live[h] \in Wanted(k)}
        ok == /\ status[r] = "Ok" /\ valid
              /\ \A x \in Wanted(k) : \E h \in held[r] : live[h] = x
    IN /\ object[r] = "Result" /\ object[o] = "None"
       /\ ~valid => k \in {"Entry", "Metadata", "Request"}
       /\ object' = [object EXCEPT ![o] = k]
       /\ IF ok THEN /\ held' = [held EXCEPT ![r] = Moved(r, hs), ![o] = hs]
                     /\ UNCHANGED status
          ELSE status' = [status EXCEPT ![r] = "AbiMismatch"] /\ UNCHANGED held
       /\ UNCHANGED <<loaded, table, live, stack, bits>>

\* What was in a freed box is forgotten.
Freed(hs) ==
    /\ live' = [h \in Handles |-> IF h \in hs THEN "None" ELSE live[h]]
    /\ stack' = [h \in Handles |-> IF h \in hs THEN <<>> ELSE stack[h]]
    /\ bits' = [h \in Handles |-> IF h \in hs THEN {} ELSE bits[h]]

\* What release_result_payload frees of a result, a finalizer of a wrapper.
\* (The feature bits the former asks for are set in every library that has the
\* entry point, so the pointer alone decides.)
Releasable(o) ==
    IF object[o] = "Result"
    THEN {h \in held[o] : "Base" \in loaded /\ table[FreeField(live[h])] # "Null"}
    ELSE IF GroupOf(object[o]) \in loaded THEN held[o] ELSE {}

Release(r) ==
    /\ object[r] = "Result" /\ Freed(Releasable(r))
    /\ held' = [held EXCEPT ![r] = @ \ Releasable(r)]
    /\ UNCHANGED <<loaded, table, object, status>>

\* The garbage collector runs the finalizer and reuses the memory.
Finalize(o) ==
    /\ object[o] # "None" /\ Freed(Releasable(o))
    /\ held' = [held EXCEPT ![o] = {}]
    /\ object' = [object EXCEPT ![o] = "None"]
    /\ status' = [status EXCEPT ![o] = "None"]
    /\ UNCHANGED api

\* moonbit_opendal_operator_close keeps the info; a presigned request is
\* released the same way.
Close(o) ==
    LET hs == {h \in held[o] : live[h] \in {"Operator", "Request"}}
    IN /\ object[o] \in {"Operator", "Request"} /\ GroupOf(object[o]) \in loaded
       /\ Freed(hs)
       /\ held' = [held EXCEPT ![o] = @ \ hs]
       /\ UNCHANGED <<loaded, table, object, status>>

\* moonbit_opendal_entry_take_metadata: the entry moves into its metadata.
EntryTakeMetadata(o, m) ==
    /\ object[o] = "Entry" /\ object[m] = "None"
    /\ object' = [object EXCEPT ![m] = "Metadata"]
    /\ held' = [held EXCEPT ![o] = {}, ![m] = held[o]]
    /\ UNCHANGED <<loaded, table, live, status, stack, bits>>

-----------------------------------------------------------------------------
Next ==
    \/ \E c \in CallsInUse, r, w \in Objects : Call(c, r, w)
    \/ \E l \in LayerKinds, r, w \in Objects : WithLayer(l, r, w)
    \/ \E r, o \in Objects, k \in WrappersInUse, valid \in BOOLEAN : Take(r, k, o, valid)
    \/ \E o \in Objects : Release(o) \/ Finalize(o) \/ Close(o)
    \/ \E o, m \in Objects : EntryTakeMetadata(o, m)

Spec == Init /\ [][Next]_vars

-----------------------------------------------------------------------------
(* Properties *)

\* Every variable has its type.
TypeOK ==
    /\ loaded \subseteq Groups
    /\ live \in [Handles -> Kinds \cup {"None"}]
    /\ object \in [Objects -> Wrappers \cup {"Result", "None"}]
    /\ status \in [Objects -> Statuses]
    /\ held \in [Objects -> SUBSET Handles]
    /\ stack \in [Handles -> Seq(LayerKinds)]
    /\ bits \in [Handles -> SUBSET LayerKinds]

\* Every native handle has exactly one owner, for whatever library the stub
\* was linked with and whenever objects are taken from, released or collected:
\* what an object holds has not been freed, no two objects hold the same
\* handle, and a handle nobody holds is not leaked.  Every variable keeps its
\* type.
Owned ==
    /\ TypeOK
    /\ \A o \in Objects : \A h \in held[o] : live[h] # "None"
    /\ \A o, p \in Objects : o # p => held[o] \cap held[p] = {}
    /\ \A h \in Handles : live[h] # "None" => \E o \in Objects : h \in held[o]

\* A timeout is the innermost layer, a concurrency limit the outermost, and
\* none is there twice; layer_bits are the layers that are really there.
Rank == [Timeout |-> 1, Retry |-> 2, Limit |-> 3]
LayersInOrder ==
    \A h \in Handles : live[h] = "Operator" =>
        /\ \A i, j \in DOMAIN stack[h] : i < j => Rank[stack[h][i]] < Rank[stack[h][j]]
        /\ bits[h] = {stack[h][i] : i \in DOMAIN stack[h]}

\* A loader never lets the stub through to an entry point that the table does
\* not hold as a whole: not one the library is too old for, not one its build
\* left out, not half a pointer at the end of a short table; and the library
\* writes no part of a pointer, which would run past the caller's struct.
TableIsWhole ==
    /\ \A f \in DOMAIN table : table[f] # "Torn"
    /\ \A g \in loaded : "Base" \in loaded /\ \A f \in GroupFields[g] : table[f] = "Entry"

-----------------------------------------------------------------------------
(* The inductive invariant *)

\* The kinds of handles a wrapper may hold: an operator keeps its info, and
\* metadata may be an entry that moved into it.
HeldKinds(k) == Wanted(k) \cup (IF k = "Metadata" THEN {"Entry"} ELSE {})

\* Whatever is held can be freed: the loader of the group that made a handle
\* succeeded, memory that is no object holds nothing, and a wrapper holds
\* handles of the group its finalizer asks for.  Without it a finalizer could
\* find its group unloaded, free nothing, and Owned would not be inductive.
Kept ==
    \A o \in Objects : \A h \in held[o] :
        /\ object[o] # "None" /\ GroupOf(live[h]) \in loaded
        /\ object[o] # "Result" => live[h] \in HeldKinds(object[o])

IInv == Owned /\ Kept /\ LayersInOrder /\ TableIsWhole
=============================================================================
