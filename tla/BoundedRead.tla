---------------------------- MODULE BoundedRead ----------------------------
(***************************************************************************)
(* How the native library turns the buffers OpenDAL delivers into the bytes *)
(* MoonBit receives (native/rust/src/lib.rs): the ranges of a read, the     *)
(* limit on a result, the growth of the output, and the chunks of a stream. *)
(*                                                                         *)
(* A behaviour is one session: one whole read or one read stream.  Its data *)
(* is private to it (the locks around a reader or a stream are the business *)
(* of SyncResources), so one session says what any number would.  A byte of *)
(* the object is modelled by its position, so a lost, repeated or reordered *)
(* byte is visible.                                                         *)
(*                                                                         *)
(* OpenDAL is external: it delivers the bytes of the range in order, in     *)
(* buffers of any length, empty ones included, or fails at any point.       *)
(***************************************************************************)
EXTENDS Integers, Sequences

CONSTANTS
    WordMax,    \* u64::MAX, which is usize::MAX on the supported targets
    MaxOutput,  \* MAX_OUTPUT_BYTES, the longest MoonBit Bytes
    MaxObject   \* the bound on the length of the stored object

ASSUME WordAssumption ==
    /\ WordMax \in Nat /\ MaxOutput \in Nat \ {0} /\ MaxObject \in Nat
    /\ 2 * MaxOutput <= WordMax
    /\ MaxObject <= WordMax

VARIABLES
    kind,      \* what the session is: "Whole" or "Stream"
    phase,     \* Reading, then how it ended
    object,    \* the length of the object being read
    lo, hi,    \* the range of the object that was asked for, resolved
    at,        \* how far OpenDAL has delivered
    asked,     \* the length an explicit range asked for, else 0
    limit,     \* output_limit of a whole read, chunk_size of a stream
    output,    \* the bytes collected, or handed to the caller of a stream
    capacity,  \* Vec::capacity of the output of a whole read
    pending,   \* ReadStreamCursorV1.pending
    last,      \* the length of the last chunk and what it had to fit in
    status     \* the status of the last call, with its error kind

vars == <<kind, phase, object, lo, hi, at, asked, limit, output, capacity, pending,
          last, status>>
range == <<object, lo, hi, asked>>

Kinds    == {"None", "Whole", "Stream"}
Phases   == {"Idle", "Reading", "Done", "Taken", "End", "Failed", "Closed"}
Statuses == {"None", "Ok", "End", "AbiMismatch", "TooLarge", "Unsupported",
             "InvalidArgument", "Upstream", "Panic", "ResourceClosed"}

Least(a, b)    == IF a <= b THEN a ELSE b
Greatest(a, b) == IF a >= b THEN a ELSE b

\* The bytes of the object from position a up to, not including, b.
Bytes(a, b) == [i \in 1..(IF a < b THEN b - a ELSE 0) |-> a + i - 1]

-----------------------------------------------------------------------------
(* Ranges *)

\* ByteRangeV1 as a caller may fill it in.
RangeKinds == {"Full", "From", "OffsetLength", "Suffix", "Unknown"}
RawRanges  == [kind : RangeKinds, offset : 0..WordMax, length : 0..WordMax]

\* The BytesRange of a raw range; none when the range is refused.
ParseRange(r) ==
    IF \/ r.kind = "Full" /\ (r.offset # 0 \/ r.length # 0)
       \/ r.kind = "From" /\ r.length # 0
       \/ r.kind = "OffsetLength" /\ r.offset + r.length > WordMax
       \/ r.kind = "Suffix" /\ r.offset # 0
       \/ r.kind = "Unknown"
    THEN {}
    ELSE {[suffix |-> r.kind = "Suffix", bounded |-> r.kind \in {"OffsetLength", "Suffix"},
           offset |-> r.offset, size |-> r.length]}

\* What OpenDAL makes of a range of an object of n bytes.  A word wraps.
First(b, n) == IF b.suffix THEN n - Least(b.size, n) ELSE Least(b.offset, n)
Last(b, n)  == IF b.suffix \/ ~b.bounded THEN n
               ELSE Least((b.offset + b.size) % (WordMax + 1), n)

\* The length an explicit range asks for; an open-ended one asks for none.
Size(b) == IF b.bounded THEN b.size ELSE 0

-----------------------------------------------------------------------------
Init ==
    /\ kind = "None" /\ phase = "Idle" /\ status = "None"
    /\ object = 0 /\ lo = 0 /\ hi = 0 /\ at = 0 /\ asked = 0 /\ limit = 0
    /\ output = <<>> /\ capacity = 0 /\ pending = <<>> /\ last = [len |-> 0, of |-> 0]

\* A new session over range b of an object of n bytes, not yet delivered.
Begin(k, b, n, bound) ==
    /\ kind' = k /\ object' = n
    /\ lo' = First(b, n) /\ hi' = Greatest(First(b, n), Last(b, n))
    /\ at' = First(b, n) /\ asked' = Size(b) /\ limit' = bound
    /\ output' = <<>> /\ capacity' = 0 /\ pending' = <<>>
    /\ last' = [len |-> 0, of |-> bound]

\* A call refused before OpenDAL is asked: nothing is read.
Refused(k, s, size, bound) ==
    /\ kind' = k /\ phase' = "Done" /\ status' = s
    /\ object' = 0 /\ lo' = 0 /\ hi' = 0 /\ at' = 0 /\ asked' = size /\ limit' = bound
    /\ output' = <<>> /\ capacity' = 0 /\ pending' = <<>>
    /\ last' = [len |-> 0, of |-> bound]

\* The refusals of whole_read_plan and of ensure_suffix_is_native.
Exceeds(b, bound)    == b.bounded /\ b.size > bound
NotNative(b, native) == b.suffix /\ ~native

\* operator_read and async_operator_read_start: the size is looked at first.
WholeReadStart(r, n, max, native) ==
    LET bound == Least(max, MaxOutput)
    IN \/ ParseRange(r) = {} /\ Refused("Whole", "AbiMismatch", 0, 0)
       \/ \E b \in ParseRange(r) :
          \/ Exceeds(b, bound) /\ Refused("Whole", "TooLarge", b.size, bound)
          \/ /\ ~Exceeds(b, bound) /\ NotNative(b, native)
             /\ Refused("Whole", "Unsupported", b.size, bound)
          \/ /\ ~Exceeds(b, bound) /\ ~NotNative(b, native)
             /\ Begin("Whole", b, n, bound)
             /\ phase' = "Reading" /\ status' = "None"

\* checked_read_buffer.
Fits(length, bound) == length <= MaxOutput /\ length <= bound

\* Reader::read answers with the whole range in one buffer, which is checked.
ReadAtOnce(b, n, bound) ==
    LET first == First(b, n)
        end   == Greatest(first, Last(b, n))
        fits  == Fits(end - first, bound)
    IN /\ kind' = "Whole" /\ phase' = "Done" /\ object' = n
       /\ lo' = first /\ hi' = end /\ at' = end /\ asked' = b.size /\ limit' = bound
       /\ pending' = <<>> /\ last' = [len |-> 0, of |-> bound]
       /\ status' = IF fits THEN "Ok" ELSE "TooLarge"
       /\ output' = IF fits THEN Bytes(first, end) ELSE <<>>
       /\ capacity' = IF fits THEN end - first ELSE 0

\* reader_read: the suffix is looked at first; an explicit range is read by
\* one call of OpenDAL, which may fail or unwind, an open-ended one buffer by buffer.
ReaderRead(r, n, max, native) ==
    LET bound == Least(max, MaxOutput)
    IN \/ ParseRange(r) = {} /\ Refused("Whole", "AbiMismatch", 0, 0)
       \/ \E b \in ParseRange(r) :
          \/ NotNative(b, native) /\ Refused("Whole", "Unsupported", b.size, bound)
          \/ /\ ~NotNative(b, native) /\ Exceeds(b, bound)
             /\ Refused("Whole", "TooLarge", b.size, bound)
          \/ /\ ~NotNative(b, native) /\ ~Exceeds(b, bound) /\ b.bounded
             /\ \/ \E s \in {"Upstream", "Panic"} : Refused("Whole", s, b.size, bound)
                \/ ReadAtOnce(b, n, bound)
          \/ /\ ~NotNative(b, native) /\ ~b.bounded
             /\ Begin("Whole", b, n, bound)
             /\ phase' = "Reading" /\ status' = "None"

-----------------------------------------------------------------------------
(* append_bounded_read_chunk *)

\* Mutant of Target: the limit does not cap the doubling.
TargetUncapped(cap, required, bound) ==
    Greatest(Least(2 * Greatest(cap, 1), WordMax), required)

Target(cap, required, bound) ==
    Least(Greatest(Least(2 * Greatest(cap, 1), WordMax), required), bound)

\* Vec::reserve_exact asks for additional bytes, a word that would wrap.
Reserve(cap, length, additional) ==
    Greatest(cap, length + (additional % (WordMax + 1)))

\* Mutant of TooLong: a result that just fits is refused.
TooLongAtLimit(length, more, bound) == length + more > WordMax \/ length + more >= bound

\* checked_add and the comparison with the limit.
TooLong(length, more, bound) == length + more > WordMax \/ length + more > bound

AppendChunk(n) ==
    LET required == Len(output) + n
    IN /\ kind = "Whole" /\ phase = "Reading"
       /\ n \in 0..(hi - at)
       /\ at' = at + n
       /\ \/ /\ TooLong(Len(output), n, limit)
             /\ phase' = "Done" /\ status' = "TooLarge"
             /\ output' = <<>> /\ capacity' = 0
          \/ /\ ~TooLong(Len(output), n, limit)
             /\ output' = output \o Bytes(at, at + n)
             /\ capacity' = IF required > capacity
                            THEN Reserve(capacity, Len(output),
                                     Target(capacity, required, limit) - Len(output))
                            ELSE capacity
             /\ UNCHANGED <<phase, status>>
       /\ UNCHANGED <<kind, range, limit, pending, last>>

\* The iterator is exhausted: BufferV1 owns the collected bytes.
ReadEnds ==
    /\ kind = "Whole" /\ phase = "Reading" /\ at = hi
    /\ phase' = "Done" /\ status' = "Ok"
    /\ UNCHANGED <<kind, range, at, limit, output, capacity, pending, last>>

\* OpenDAL fails or unwinds; the bytes collected so far are dropped.
ReadFails(s) ==
    /\ kind = "Whole" /\ phase = "Reading" /\ s \in {"Upstream", "Panic"}
    /\ phase' = "Done" /\ status' = s
    /\ output' = <<>> /\ capacity' = 0
    /\ UNCHANGED <<kind, range, at, limit, pending, last>>

-----------------------------------------------------------------------------
(* buffer_len and buffer_copy, as moonbit_opendal_result_take_bytes uses them *)

\* What buffer_copy leaves in a destination of the given capacity.
BufferCopy(bytes, room) ==
    IF room < Len(bytes) THEN [status |-> "TooSmall", required |-> Len(bytes), copied |-> <<>>]
    ELSE [status |-> "Ok", required |-> Len(bytes), copied |-> bytes]

TakeBytes ==
    LET length == Len(output)
        copy   == BufferCopy(output, length)
    IN /\ kind = "Whole" /\ phase = "Done" /\ status = "Ok"
       /\ \/ /\ length > MaxOutput
             /\ status' = "AbiMismatch" /\ UNCHANGED <<phase, output, capacity>>
          \/ /\ length <= MaxOutput /\ (copy.status # "Ok" \/ copy.required # length)
             /\ status' = "AbiMismatch" /\ UNCHANGED <<phase, output, capacity>>
          \/ /\ length <= MaxOutput /\ copy.status = "Ok" /\ copy.required = length
             /\ phase' = "Taken" /\ status' = "Ok"
             /\ output' = copy.copied /\ capacity' = length
       /\ UNCHANGED <<kind, range, at, limit, pending, last>>

-----------------------------------------------------------------------------
(* Read streams *)

\* parse_read_stream_options, then operator_read_stream.
OpenStream(r, n, chunk, native) ==
    LET usable == chunk # 0 /\ chunk <= MaxOutput
    IN \/ ~usable /\ Refused("Stream", "InvalidArgument", 0, 0)
       \/ usable /\ ParseRange(r) = {} /\ Refused("Stream", "AbiMismatch", 0, chunk)
       \/ \E b \in ParseRange(r) :
          \/ usable /\ NotNative(b, native) /\ Refused("Stream", "Unsupported", b.size, chunk)
          \/ /\ usable /\ ~NotNative(b, native)
             /\ Begin("Stream", b, n, chunk)
             /\ phase' = "Reading" /\ status' = "Ok"

\* Mutant of Split: the remainder of a buffer is dropped.
SplitDropsRest(bytes, chunk) ==
    [chunk |-> SubSeq(bytes, 1, Least(Len(bytes), chunk)), rest |-> <<>>]

\* split_read_stream_buffer.
Split(bytes, chunk) ==
    [chunk |-> SubSeq(bytes, 1, Least(Len(bytes), chunk)),
     rest  |-> SubSeq(bytes, Least(Len(bytes), chunk) + 1, Len(bytes))]

\* The first part of a buffer goes to the caller if it fits, else the stream
\* fails and the buffer is gone.
Hand(bytes, max) ==
    LET part  == Split(bytes, limit)
        bound == Least(max, limit)
    IN \/ /\ Fits(Len(part.chunk), bound)
          /\ output' = output \o part.chunk /\ pending' = part.rest
          /\ last' = [len |-> Len(part.chunk), of |-> bound]
          /\ status' = "Ok" /\ UNCHANGED phase
       \/ /\ ~Fits(Len(part.chunk), bound)
          /\ phase' = "Failed" /\ status' = "TooLarge"
          /\ pending' = <<>> /\ UNCHANGED <<output, last>>

\* The remainder of the last buffer comes before the next one.
FromPending == pending # <<>>

\* read_stream_next on an open stream: the remainder, or the next buffer.
StreamNext(n, max) ==
    /\ kind = "Stream" /\ phase = "Reading"
    /\ \/ FromPending /\ n = 0 /\ Hand(pending, max) /\ UNCHANGED at
       \/ /\ ~FromPending /\ n \in 0..(hi - at)
          /\ at' = at + n /\ Hand(Bytes(at, at + n), max)
    /\ UNCHANGED <<kind, range, limit, capacity>>

StreamEnds ==
    /\ kind = "Stream" /\ phase = "Reading" /\ ~FromPending /\ at = hi
    /\ phase' = "End" /\ status' = "End" /\ pending' = <<>>
    /\ UNCHANGED <<kind, range, at, limit, output, capacity, last>>

\* The placeholder Failed stays in the state when the step does not succeed.
StreamFails(s) ==
    /\ kind = "Stream" /\ phase = "Reading" /\ ~FromPending
    /\ s \in {"Upstream", "Panic"}
    /\ phase' = "Failed" /\ status' = s /\ pending' = <<>>
    /\ UNCHANGED <<kind, range, at, limit, output, capacity, last>>

\* A stream that has ended or failed answers without OpenDAL.
StreamAnswers ==
    /\ kind = "Stream" /\ phase \in {"End", "Failed", "Closed"}
    /\ status' = IF phase = "End" THEN "End" ELSE "ResourceClosed"
    /\ UNCHANGED <<kind, phase, range, at, limit, output, capacity, pending, last>>

\* read_stream_close drops the cursor with its remainder.
StreamClose ==
    /\ kind = "Stream" /\ phase \in {"Reading", "End", "Failed"}
    /\ phase' = "Closed" /\ pending' = <<>>
    /\ UNCHANGED <<kind, range, at, limit, output, capacity, last, status>>

-----------------------------------------------------------------------------
\* The calls that begin a session, over every range a caller can fill in.
Open ==
    /\ phase = "Idle"
    /\ \E r \in RawRanges, n \in 0..MaxObject, max \in 0..WordMax, native \in BOOLEAN :
        \/ WholeReadStart(r, n, max, native)
        \/ ReaderRead(r, n, max, native)
        \/ OpenStream(r, n, max, native)

Deliver ==
    \/ \E n \in 0..MaxObject : AppendChunk(n)
    \/ \E n \in 0..MaxObject, max \in 0..WordMax : StreamNext(n, max)
    \/ \E s \in {"Upstream", "Panic"} : ReadFails(s) \/ StreamFails(s)
    \/ ReadEnds
    \/ StreamEnds

Next == Open \/ Deliver \/ TakeBytes \/ StreamAnswers \/ StreamClose

Spec == Init /\ [][Next]_vars

-----------------------------------------------------------------------------
(* Properties *)

\* Every variable stays in its type, and no count leaves the object or the
\* word: what the struct fields and the Vec of a read can hold.
TypeOK ==
    /\ kind \in Kinds /\ phase \in Phases /\ status \in Statuses
    /\ object \in 0..MaxObject /\ lo \in 0..MaxObject /\ hi \in lo..MaxObject /\ at \in lo..hi
    /\ asked \in 0..WordMax /\ limit \in 0..MaxOutput
    /\ output \in Seq(0..MaxObject) /\ pending \in Seq(0..MaxObject)
    /\ capacity \in Nat
    /\ last \in [len : Nat, of : 0..MaxOutput]

\* append_bounded_read_chunk never allocates past the negotiated limit, and
\* never reserves less than it then copies: after each buffer the output lies
\* in its capacity and the capacity in the limit, whatever the lengths of the
\* buffers and however the doubling meets the limit.  No other count leaves its
\* type either.
Bounded == TypeOK /\ (kind = "Whole" => Len(output) <= capacity /\ capacity <= limit)

\* A whole read tells the truth.  An OK result is the range, byte for byte,
\* from its first to its last, and reaches MoonBit so; BufferTooLarge is only
\* answered for a range that asked for, or held, more than the limit.  The range
\* itself is what was asked for, or all there is of it: what parse_range lets
\* through never wraps past the word.
ReadVerdict ==
    /\ asked # 0 => hi - lo = Least(asked, object - lo)
    /\ kind = "Whole" /\ phase \in {"Done", "Taken"} =>
        /\ status = "Ok" => output = Bytes(lo, hi) /\ hi - lo <= limit
        /\ status # "Ok" => output = <<>>
        /\ status = "TooLarge" => asked > limit \/ hi - lo > limit

\* Chunking loses, repeats and reorders nothing: while a stream is open the
\* caller's bytes and the remainder are exactly what OpenDAL has delivered,
\* a stream that has ended has handed over the range, and one that failed or
\* was closed has handed over a beginning of it.  No chunk is longer than
\* chunk_size, nor than its caller allowed.
StreamLossless ==
    kind = "Stream" =>
        /\ phase = "Reading" => output \o pending = Bytes(lo, at)
        /\ phase = "End" => output = Bytes(lo, hi)
        /\ output = Bytes(lo, lo + Len(output))
        /\ last.len <= last.of /\ last.of <= limit

-----------------------------------------------------------------------------
(* The inductive invariant *)

\* A session is idle until it has a kind, and the output of a whole read is,
\* buffer after buffer, exactly what OpenDAL has delivered: it is this that
\* makes the last buffer complete the range, or the first one too many exceed it.
Collected ==
    /\ kind = "None" <=> phase = "Idle"
    /\ kind = "Whole" /\ phase = "Reading" => output = Bytes(lo, at)

IInv == Bounded /\ ReadVerdict /\ StreamLossless /\ Collected
=============================================================================
