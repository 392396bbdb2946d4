------------------------------ MODULE AbiCall ------------------------------
(***************************************************************************)
(* One call through the native C ABI (native/rust/src/lib.rs): what the     *)
(* library does with raw pointers, option structs and arrays before it asks *)
(* OpenDAL for anything, and what it leaves in the caller's output slots    *)
(* and view structs, whichever way the call ends.                           *)
(*                                                                         *)
(* Every entry point has one shape, which the actions below follow: clear   *)
(* every output slot, validate the inputs one by one, do the work, then     *)
(* either write the outputs or record the failure.  An entry point differs  *)
(* from the others by its outputs, by its inputs and their order, and by    *)
(* what is checked of its result: that is its definition under "Calls".     *)
(*                                                                         *)
(* Pointers and lengths are words.  A raw input is chosen when the code     *)
(* reads it; the states keep only what the caller asked for with it.        *)
(***************************************************************************)
EXTENDS Integers, Sequences, FiniteSets, SequencesExt

CONSTANTS
    WordMax,    \* usize::MAX
    MaxLen,     \* isize::MAX
    MaxOutput   \* MAX_OUTPUT_BYTES

ASSUME LengthAssumption ==
    /\ WordMax \in Nat /\ MaxLen \in Nat /\ MaxOutput \in Nat \ {0}
    /\ MaxLen < WordMax /\ MaxOutput < MaxLen

VARIABLES
    call,      \* the entry point that was called
    phase,     \* Idle, Inputs, Work, then Done
    todo,      \* the inputs still to be read, in the code's order
    given,     \* the output slots whose pointer is usable
    slot,      \* what each output slot holds: Stale, Null or Fresh
    boxes,     \* how many values the library has boxed and given away
    asked,     \* the options the caller set in any way
    applied,   \* the options handed to OpenDAL
    worked,    \* whether OpenDAL was asked to act
    measured,  \* the size the last limit was compared with
    operator,  \* the operator that was built, and what its info says of it
    status,    \* the status returned
    error,     \* the error recorded, if any
    view       \* the caller's memory around the view struct of a view call

vars == <<call, phase, todo, given, slot, boxes, asked, applied, worked, measured,
          operator, status, error, view>>

Pointers == {"Null", "Odd", "Good"}
Failures == {"AbiMismatch", "InvalidArgument", "BufferTooLarge"}

\* The first failure of a sequence of checks that `?` ends at.
FirstFailure(checks) ==
    IF \A i \in DOMAIN checks : checks[i] = "Ok" THEN "Ok"
    ELSE checks[CHOOSE i \in DOMAIN checks :
                  checks[i] # "Ok" /\ \A j \in 1..(i - 1) : checks[j] = "Ok"]

Check(good, failure) == IF good THEN "Ok" ELSE failure

-----------------------------------------------------------------------------
(* Raw memory *)

\* BytesViewV1, and the views a caller is modelled to pass.  In order: the
\* absent view, a null one with a length, an empty one, two short texts, one
\* that is not UTF-8, one that wraps the address space, one that is too long.
View(data, len, utf8) == [data |-> data, len |-> len, utf8 |-> utf8]
Absent   == View(0, 0, TRUE)
Text     == View(1, 2, TRUE)
RawViews == {Absent, View(0, 1, TRUE), View(1, 0, TRUE), View(1, 1, TRUE), Text,
             View(1, 2, FALSE), View(WordMax, 1, TRUE), View(1, MaxLen + 1, TRUE)}

checked_len(n)       == Check(n <= MaxLen, "AbiMismatch")
checked_region(p, n) == Check(n = 0 \/ (p # 0 /\ p + n <= WordMax), "AbiMismatch")
borrowed_bytes(v)    == FirstFailure(<<checked_len(v.len), checked_region(v.data, v.len)>>)
read_required(p)     == Check(p = "Good", "AbiMismatch")
read_text_value(v)   == FirstFailure(<<borrowed_bytes(v), Check(v.utf8, "InvalidArgument")>>)
read_text(p, v)      == FirstFailure(<<read_required(p), read_text_value(v)>>)
read_binary(p, v)    == FirstFailure(<<read_required(p), borrowed_bytes(v)>>)

\* A slice of n elements of the given size: its own address range.
read_slice(p, n, size) ==
    FirstFailure(<<checked_len(n), Check(n * size <= MaxLen, "AbiMismatch"),
                   Check(n = 0 \/ p = "Good", "AbiMismatch")>>)

-----------------------------------------------------------------------------
(* Option structs.  Bits and views are keyed by the option they belong to;  *)
(* "unknown" is a bit this version does not define.                         *)

Canonical(v) == v.data = 0 /\ v.len = 0

\* Mutant of optional_text: a view without its present bit is ignored.
optional_text_lenient(o, f) ==
    IF f \in o.present THEN read_text_value(o.views[f]) ELSE "Ok"

optional_text(o, f) ==
    IF f \in o.present THEN read_text_value(o.views[f])
    ELSE Check(Canonical(o.views[f]), "AbiMismatch")

read_input_struct(o) == FirstFailure(<<read_required(o.pointer), Check(o.header, "AbiMismatch")>>)

\* The known bits, then the fields in order.
Struct(o, bits, flags, checks) ==
    FirstFailure(<<read_input_struct(o),
                   Check(o.present \subseteq bits /\ o.flags \subseteq flags, "AbiMismatch")>>
                 \o checks)

\* A null pointer means the defaults, where the options are optional.
Defaulted(o, verdict) == IF o.pointer = "Null" THEN "Ok" ELSE verdict

Conditions == <<"version", "if_match", "if_none_match">>
Headers    == <<"content_type", "content_disposition", "content_encoding",
                "cache_control", "if_match", "if_none_match">>

Texts(o, fields) == [i \in DOMAIN fields |-> optional_text(o, fields[i])]

\* o.range is the verdict of parse_range, which BoundedRead models.
parse_read_options(o) ==
    Defaulted(o, Struct(o, Range(Conditions), {}, <<o.range>> \o Texts(o, Conditions)))

parse_reader_options(o) ==
    Defaulted(o, Struct(o, Range(Conditions), {}, Texts(o, Conditions)))

parse_read_stream_options(o) ==
    Struct(o, Range(Conditions), {},
           <<Check(o.counts["chunk_size"] \in 1..MaxOutput, "InvalidArgument"), o.range>> \o Texts(o, Conditions))

parse_stat_options(o) ==
    Defaulted(o, Struct(o, Range(Conditions), {}, Texts(o, Conditions)))

parse_write_options(o) ==
    Defaulted(o, Struct(o, Range(Headers), {"append"}, Texts(o, Headers)))

parse_list_options(o) ==
    Defaulted(o, Struct(o, {"limit", "start_after"}, {"recursive"},
        <<IF "limit" \in o.present THEN checked_len(o.counts["limit"])
          ELSE Check(o.counts["limit"] = 0, "AbiMismatch"),
          optional_text(o, "start_after")>>))

parse_delete_options(o) ==
    Defaulted(o, Struct(o, {"version"}, {"recursive"}, <<optional_text(o, "version")>>))

\* What the caller set, be it by a bit, by a view or by a number.  Nothing can
\* be read of a struct that is not there.
Asked(o) ==
    IF o.pointer = "Null" THEN {}
    ELSE o.present \cup o.flags \cup {f \in DOMAIN o.views : ~Canonical(o.views[f])}
                   \cup {n \in DOMAIN o.counts : o.counts[n] # 0}

\* What goes to OpenDAL of options that were accepted: nothing for a bit that
\* has no field in this version.
Applied(o) ==
    IF o.pointer = "Null" THEN {}
    ELSE ((o.present \cup o.flags) \ {"unknown"}) \cup (DOMAIN o.counts \cap {"chunk_size"})

\* Option structs as callers fill them in: one field varies, the others are
\* all absent or all given.
RawOptions(fields, bits, flags, counts, ranges) ==
    UNION {{[pointer |-> p, header |-> h,
             present |-> (IF all THEN fields \ {f} ELSE {}) \cup b,
             flags |-> w,
             views |-> [g \in fields |-> IF g = f THEN v ELSE IF all THEN Text ELSE Absent],
             counts |-> c, range |-> r] :
               p \in Pointers, h \in BOOLEAN, b \in SUBSET ({f, "unknown"} \cup bits),
               all \in BOOLEAN, w \in SUBSET (flags \cup {"unknown"}), v \in RawViews,
               c \in counts, r \in ranges} : f \in fields}

Ranges == {"Ok", "AbiMismatch"}
RawRead   == RawOptions(Range(Conditions), {}, {}, {<<>>}, Ranges)
RawReader == RawOptions(Range(Conditions), {}, {}, {<<>>}, {"Ok"})
RawStream == RawOptions(Range(Conditions), {}, {},
                        [{"chunk_size"} -> {0, 1, MaxOutput, MaxOutput + 1}], Ranges)
RawWrite  == RawOptions(Range(Headers), {}, {"append"}, {<<>>}, {"Ok"})
RawList   == RawOptions({"start_after"}, {"limit"}, {"recursive"},
                        [{"limit"} -> {0, 1, MaxLen + 1}], {"Ok"})
RawDelete == RawOptions({"version"}, {}, {"recursive"}, {<<>>}, {"Ok"})

-----------------------------------------------------------------------------
(* S3 options *)

S3Keys   == {"access_key_id", "secret_access_key", "session_token"}
S3Role   == {"role_arn", "external_id", "role_session_name"}
S3Fields == {"bucket", "region", "root", "endpoint"} \cup S3Keys \cup S3Role
S3Bits   == {"root", "endpoint", "session_token", "external_id", "role_session_name",
             "duration"}

required_nonempty_text(o, f) ==
    FirstFailure(<<read_text_value(o.views[f]), Check(o.views[f].len # 0, "InvalidArgument")>>)

optional_nonempty_text(o, f) ==
    FirstFailure(<<optional_text(o, f),
                   Check(f \in o.present => o.views[f].len # 0, "InvalidArgument")>>)

require_absent_view(o, f)  == Check(Canonical(o.views[f]), "AbiMismatch")
reject_present_field(o, f) == Check(f \notin o.present, "InvalidArgument")

reject_role_fields(o) ==
    <<reject_present_field(o, "external_id"), reject_present_field(o, "role_session_name"),
      reject_present_field(o, "duration"), require_absent_view(o, "role_arn"),
      require_absent_view(o, "external_id"), require_absent_view(o, "role_session_name"),
      Check(o.counts["duration"] = 0, "AbiMismatch")>>

reject_static_credentials(o) ==
    <<reject_present_field(o, "session_token"), require_absent_view(o, "access_key_id"),
      require_absent_view(o, "secret_access_key"), require_absent_view(o, "session_token")>>

parse_static_credentials(o) ==
    <<required_nonempty_text(o, "access_key_id"), required_nonempty_text(o, "secret_access_key"),
      optional_nonempty_text(o, "session_token")>>

parse_duration(o) ==
    IF "duration" \in o.present THEN Check(o.counts["duration"] # 0, "InvalidArgument")
    ELSE Check(o.counts["duration"] = 0, "AbiMismatch")

SourceIs(o, kind) == Check(o.source = kind, "InvalidArgument")
SignsByKey(o)     == Check("disable_ec2_metadata" \notin o.flags, "InvalidArgument")

\* The checks of each authentication mode.
parse_s3_auth(o) ==
    CASE o.auth = "DefaultChain" ->
           <<SourceIs(o, "DefaultChain")>> \o reject_static_credentials(o) \o reject_role_fields(o)
      [] o.auth = "Static" ->
           <<SourceIs(o, "Static"), SignsByKey(o)>>
           \o reject_role_fields(o) \o parse_static_credentials(o)
      [] o.auth = "Unsigned" ->
           <<SourceIs(o, "DefaultChain"), SignsByKey(o)>>
           \o reject_static_credentials(o) \o reject_role_fields(o)
      [] o.auth = "AssumeRole" ->
           <<required_nonempty_text(o, "role_arn"), optional_nonempty_text(o, "external_id"),
             optional_nonempty_text(o, "role_session_name"), parse_duration(o)>>
           \o (CASE o.source = "DefaultChain" -> reject_static_credentials(o)
                 [] o.source = "Static" -> <<SignsByKey(o)>> \o parse_static_credentials(o)
                 [] OTHER -> <<"InvalidArgument">>)
      [] OTHER -> <<"InvalidArgument">>

parse_s3_options(o) ==
    Struct(o, S3Bits, {"virtual_host_style", "disable_ec2_metadata"},
        <<required_nonempty_text(o, "bucket"), required_nonempty_text(o, "region"),
          optional_nonempty_text(o, "root"), optional_nonempty_text(o, "endpoint")>>
        \o parse_s3_auth(o))

Given(o, fields) == o.present \cap fields

\* Mutant of configure_s3_source: static keys leave the default chain on.
configure_s3_source_open(o) ==
    IF o.source = "DefaultChain" THEN o.flags \cap {"disable_ec2_metadata"}
    ELSE {"access_key_id", "secret_access_key"} \cup Given(o, {"session_token"})

\* The settings of the builder that come from the credential source.
configure_s3_source(o) ==
    IF o.source = "DefaultChain" THEN o.flags \cap {"disable_ec2_metadata"}
    ELSE {"access_key_id", "secret_access_key", "disable_config_load", "disable_ec2_metadata"}
         \cup Given(o, {"session_token"})

build_s3_operator(o) ==
    {"bucket", "region"} \cup Given(o, {"root", "endpoint"}) \cup (o.flags \cap {"virtual_host_style"})
    \cup (CASE o.auth = "Unsigned" ->
                 {"skip_signature", "disable_config_load", "disable_ec2_metadata"}
            [] o.auth = "AssumeRole" ->
                 configure_s3_source(o) \cup {"role_arn"}
                 \cup Given(o, {"external_id", "role_session_name", "duration"})
            [] OTHER -> configure_s3_source(o))

\* An S3OptionsV1 as callers fill it in: the fields of a valid mode, and one
\* field f that varies.
AuthKinds == {"DefaultChain", "Static", "Unsigned", "AssumeRole", "Unknown"}
S3Views   == {Absent, View(0, 1, TRUE), View(1, 0, TRUE), Text, View(1, 2, FALSE)}
S3Bases   == {{}, {"access_key_id", "secret_access_key"}, {"role_arn"},
              {"access_key_id", "secret_access_key", "role_arn"}}
RawS3(auth, source, base, f, v, bits, flags, seconds) ==
    [pointer |-> "Good", header |-> TRUE, auth |-> auth, source |-> source,
     present |-> bits, flags |-> flags, counts |-> [duration |-> seconds],
     views |-> [g \in S3Fields |-> IF g = f THEN v
                                   ELSE IF g \in {"bucket", "region"} \cup base THEN Text
                                   ELSE Absent]]

-----------------------------------------------------------------------------
(* Arrays *)

\* Keys are compared in lower case, one entry at a time.
Lower(name) == IF name = "A" THEN "a" ELSE name
read_config(entries) ==
    FirstFailure([i \in DOMAIN entries |-> FirstFailure(
        <<read_text_value(entries[i].key),
          Check(\A j \in 1..(i - 1) : Lower(entries[j].name) # Lower(entries[i].name),
                "InvalidArgument"),
          read_text_value(entries[i].value)>>)])

RawConfig == SeqOf([name : {"a", "A", "b"}, key : {Text, View(1, 2, FALSE)},
                    value : {Absent, Text, View(0, 1, TRUE)}], 2)

\* A total that grows by one length after the other.
Running(start, lengths) ==
    LET total[i \in 0..Len(lengths)] ==
          IF i = 0 THEN start ELSE total[i - 1] + lengths[i]
    IN total

\* The running total of read_text_array: carriers first, then each text.
CarrierSize == 1
Totals(values) == Running(Len(values) * CarrierSize, [i \in DOMAIN values |-> values[i].len])
Total(values)  == Totals(values)[Len(values)]

\* Mutant of read_text_array: the paths are counted, their carriers are not.
read_text_array_texts_only(values) ==
    FirstFailure(<<Check(Len(values) * CarrierSize <= MaxOutput, "BufferTooLarge")>>
        \o [i \in DOMAIN values |-> FirstFailure(
             <<read_text_value(values[i]),
               Check(Totals(values)[i] - Totals(values)[0] <= MaxOutput, "BufferTooLarge")>>)])

read_text_array(values) ==
    FirstFailure(<<Check(Totals(values)[0] <= MaxOutput, "BufferTooLarge")>>
        \o [i \in DOMAIN values |-> FirstFailure(
             <<read_text_value(values[i]),
               Check(Totals(values)[i] <= MaxOutput, "BufferTooLarge")>>)])

RawPaths == SeqOf(RawViews, 2) \cup {[i \in 1..n |-> View(1, 0, TRUE)] : n \in MaxOutput..(MaxOutput + 1)}

-----------------------------------------------------------------------------
(* Calls: the required outputs, the inputs in the order they are validated,  *)
(* and the kind of the result.                                               *)

Entry(outs, ins, result) == [outs |-> outs, ins |-> ins, result |-> result]

operator_new           == Entry(<<"Operator", "Info">>, <<"Text", "Config">>, "Operator")
operator_s3            == Entry(<<"Operator", "Info">>, <<"S3">>, "Operator")
operator_check         == Entry(<<>>, <<"Handle">>, "Unit")
operator_exists        == Entry(<<"Scalar">>, <<"Handle", "Text">>, "Scalar")
operator_stat          == Entry(<<"Metadata">>, <<"Handle", "Text", "Stat">>, "Metadata")
operator_write         == Entry(<<"Metadata">>, <<"Handle", "Text", "Binary", "Write">>, "Metadata")
operator_create_dir    == Entry(<<>>, <<"Handle", "Text">>, "Unit")
operator_delete        == Entry(<<>>, <<"Handle", "Text", "Delete">>, "Unit")
operator_delete_many   == Entry(<<>>, <<"Handle", "Paths">>, "Unit")
operator_copy          == Entry(<<"Metadata">>, <<"Handle", "Text", "Text">>, "Metadata")
operator_rename        == Entry(<<>>, <<"Handle", "Text", "Text">>, "Unit")
operator_lister        == Entry(<<"Lister">>, <<"Handle", "Text", "List">>, "Resource")
lister_next            == Entry(<<"Entry">>, <<"Handle">>, "Entry")
operator_reader        == Entry(<<"Reader">>, <<"Handle", "Text", "Reader">>, "Resource")
operator_read_stream   == Entry(<<"Stream">>, <<"Handle", "Text", "Stream", "Suffix">>, "Resource")
operator_writer        == Entry(<<"Writer">>, <<"Handle", "Text", "Write">>, "Resource")
operator_copier        == Entry(<<"Copier">>, <<"Handle", "Text", "Text">>, "Resource")
operator_presign_read  == Entry(<<"Request">>, <<"Handle", "Text", "Read", "Expiry">>, "Request")
operator_presign_write == Entry(<<"Request">>, <<"Handle", "Text", "Write", "Expiry">>, "Request")
operator_presign_stat  == Entry(<<"Request">>, <<"Handle", "Text", "Stat", "Expiry">>, "Request")

Calls == {operator_new, operator_s3, operator_check, operator_exists, operator_stat,
          operator_write, operator_create_dir, operator_delete, operator_delete_many,
          operator_copy, operator_rename, operator_lister, lister_next, operator_reader,
          operator_read_stream, operator_writer, operator_copier, operator_presign_read,
          operator_presign_write, operator_presign_stat}

NoCall   == Entry(<<>>, <<>>, "None")
NoError  == [kind |-> "None", text |-> "None"]
NoHandle == [native |-> FALSE, advertised |-> {}]
Slots(c) == Range(c.outs) \cup {"Error"}

\* The memory a view struct lies in: header, payload, and what follows.
ViewSize   == 3
ViewMemory == 5
Untouched  == [i \in 1..ViewMemory |-> IF i = 1 THEN "Header" ELSE "Old"]

Init ==
    /\ call = NoCall /\ phase = "Idle" /\ todo = <<>>
    /\ given = {} /\ slot = [s \in {"Error"} |-> "Stale"] /\ boxes = 0
    /\ asked = {} /\ applied = {} /\ worked = FALSE /\ measured = 0
    /\ operator = NoHandle /\ status = "None" /\ error = NoError /\ view = Untouched

-----------------------------------------------------------------------------
(* Outputs *)

\* Whether a slot can be written; out_error may be null.
Usable(s, p)              == p[s] = "Good"
clear_required_output(p)  == Check(p = "Good", "AbiMismatch")
clear_error_output(p)     == Check(p # "Odd", "AbiMismatch")

\* Mutant of Cleared: clearing stops at the first slot that is not usable.
ClearedInTurn(c, p) ==
    [s \in Slots(c) |->
        IF Usable(s, p) /\ \A i \in DOMAIN c.outs : Usable(c.outs[i], p) THEN "Null" ELSE "Stale"]

\* Every slot gets its attempt before combine_output_validation looks at any.
Cleared(c, p) == [s \in Slots(c) |-> IF Usable(s, p) THEN "Null" ELSE "Stale"]

combine_output_validation(c, p) ==
    FirstFailure([i \in DOMAIN c.outs |-> clear_required_output(p[c.outs[i]])]
                 \o <<clear_error_output(p["Error"])>>)

Begin(c, p) ==
    /\ phase = "Idle"
    /\ call' = c /\ slot' = Cleared(c, p)
    /\ given' = {s \in Slots(c) : Usable(s, p)}
    /\ \/ /\ combine_output_validation(c, p) = "Ok"
          /\ phase' = "Inputs" /\ todo' = c.ins /\ UNCHANGED status
       \/ /\ combine_output_validation(c, p) # "Ok"
          /\ phase' = "Done" /\ todo' = <<>> /\ status' = "AbiMismatch"
    /\ UNCHANGED <<boxes, asked, applied, worked, measured, operator, error, view>>

finish_failure(kind, text) ==
    /\ phase' = "Done"
    /\ IF kind = "AbiMismatch"
       THEN status' = "AbiMismatch" /\ UNCHANGED <<slot, boxes, error>>
       ELSE /\ status' = "Error" /\ error' = [kind |-> kind, text |-> text]
            /\ IF "Error" \in given
               THEN boxes' = boxes + 1 /\ slot' = [slot EXCEPT !["Error"] = "Fresh"]
               ELSE UNCHANGED <<boxes, slot>>

-----------------------------------------------------------------------------
(* Inputs *)

presign_expiry(seconds) == Check(seconds # 0, "InvalidArgument")

\* The next input is read: the options it carries, and what it weighs.
Reads(input, verdict, wants, uses, weight) ==
    /\ phase = "Inputs" /\ todo # <<>> /\ Head(todo) = input
    /\ asked' = asked \cup wants
    /\ IF verdict = "Ok"
       THEN /\ todo' = Tail(todo) /\ applied' = applied \cup uses
            /\ UNCHANGED <<phase, slot, boxes, status, error>>
       ELSE /\ finish_failure(verdict, "Binding")
            /\ UNCHANGED <<todo, applied>>
    /\ measured' = weight
    /\ UNCHANGED <<call, given, worked, operator, view>>

Expects(input) == phase = "Inputs" /\ todo # <<>> /\ Head(todo) = input

ReadsOptions(input, o, verdict) == Reads(input, verdict, Asked(o), Applied(o), measured)

ReadHandle == \E p \in Pointers : Reads("Handle", read_required(p), {}, {}, measured)
ReadText ==
    /\ Expects("Text")
    /\ \E p \in Pointers, v \in RawViews : Reads("Text", read_text(p, v), {}, {}, measured)
ReadBinary ==
    /\ Expects("Binary")
    /\ \E p \in Pointers, v \in RawViews : Reads("Binary", read_binary(p, v), {}, {}, measured)
ReadExpiry == \E s \in 0..1 : Reads("Expiry", presign_expiry(s), {}, {}, measured)

\* ensure_suffix_is_native, whose range BoundedRead follows.
ReadSuffix == \E v \in {"Ok", "Unsupported"} : Reads("Suffix", v, {}, {}, measured)

ReadOptions ==
    \/ Expects("Read")   /\ \E o \in RawRead   : ReadsOptions("Read", o, parse_read_options(o))
    \/ Expects("Reader") /\ \E o \in RawReader : ReadsOptions("Reader", o, parse_reader_options(o))
    \/ Expects("Stream") /\ \E o \in RawStream : ReadsOptions("Stream", o, parse_read_stream_options(o))
    \/ Expects("Stat")   /\ \E o \in RawReader : ReadsOptions("Stat", o, parse_stat_options(o))
    \/ Expects("Write")  /\ \E o \in RawWrite  : ReadsOptions("Write", o, parse_write_options(o))
    \/ Expects("List")   /\ \E o \in RawList   : ReadsOptions("List", o, parse_list_options(o))
    \/ Expects("Delete") /\ \E o \in RawDelete : ReadsOptions("Delete", o, parse_delete_options(o))

ReadS3 ==
    /\ Expects("S3")
    /\ \E auth \in AuthKinds, source \in {"DefaultChain", "Static", "Unknown"}, base \in S3Bases,
          f \in S3Fields, v \in S3Views, seconds \in 0..1,
          flags \in SUBSET {"virtual_host_style", "disable_ec2_metadata", "unknown"} :
       \E bits \in SUBSET ((S3Bits \cap {f, "duration"}) \cup {"unknown"}) :
         LET o == RawS3(auth, source, base, f, v, bits, flags, seconds)
         IN Reads("S3", parse_s3_options(o), Asked(o), build_s3_operator(o), measured)

\* A configuration entry is asked for under its key, whatever its case.
ReadConfig ==
    /\ Expects("Config")
    /\ \E p \in Pointers, entries \in RawConfig, size \in {1, MaxLen} :
         Reads("Config",
               FirstFailure(<<read_slice(p, Len(entries), size), read_config(entries)>>),
               IF Cardinality({Lower(entries[i].name) : i \in DOMAIN entries}) = Len(entries)
               THEN {} ELSE {"twice"},
               {}, measured)

ReadPaths ==
    /\ Expects("Paths")
    /\ \E p \in Pointers, values \in RawPaths :
         Reads("Paths",
               FirstFailure(<<read_slice(p, Len(values), CarrierSize), read_text_array(values)>>),
               {}, {}, Total(values))

-----------------------------------------------------------------------------
(* Work and its result *)

\* OpenDAL's error kinds keep their names; one this binding does not know is
\* Unexpected.
ErrorKinds == {"Unexpected", "Unsupported", "ConfigInvalid", "NotFound", "PermissionDenied",
               "IsADirectory", "NotADirectory", "AlreadyExists", "RateLimited", "IsSameFile",
               "ConditionNotMatch", "RangeNotSatisfied"}

opendal_error_snapshot(kind, length) ==
    [kind |-> IF kind \in ErrorKinds THEN kind ELSE "Unexpected",
     text |-> IF length > MaxOutput THEN "Replaced" ELSE "Upstream"]

\* What a constructor reports may quote the configuration, secrets included.
construction_error(kind, length) ==
    [opendal_error_snapshot(kind, length) EXCEPT !.text = "Generic"]

Builds(c) == c.result = "Operator"

opendal_error(c, kind, length) ==
    IF Builds(c) THEN construction_error(kind, length) ELSE opendal_error_snapshot(kind, length)

\* The sizes of what the work returned: strings, or the parts of a request.
Sizes == {0, 1, MaxOutput, MaxOutput + 1}
Longest(sizes) == LET n == CHOOSE n \in Range(sizes) : \A m \in Range(sizes) : m <= n IN n
Sum(sizes)     == Running(0, sizes)[Len(sizes)]

check_output_string(n)           == Check(n <= MaxOutput, "BufferTooLarge")
checked_metadata(sizes)          == FirstFailure([i \in DOMAIN sizes |-> check_output_string(sizes[i])])
checked_entry(sizes)             == FirstFailure(<<check_output_string(sizes[1]),
                                        check_output_string(sizes[2]),
                                        checked_metadata(SubSeq(sizes, 3, Len(sizes)))>>)

\* The method and the URI, then the name and the value of each header.
checked_presigned_request(sizes) ==
    Check(Sum(sizes) <= MaxOutput /\ (Len(sizes) - 2) \div 2 <= MaxOutput, "BufferTooLarge")

\* The results that have a limit: whether they fit, and what is compared.
Limited == {"Operator", "Metadata", "Entry", "Request"}
Fits(result, sizes) ==
    CASE result = "Entry"   -> checked_entry(sizes)
      [] result = "Request" -> checked_presigned_request(sizes)
      [] OTHER              -> checked_metadata(sizes)
Weighs(result, sizes) == IF result = "Request" THEN Sum(sizes) ELSE Longest(sizes)

\* The capabilities the ABI has a bit for, as OpenDAL reports them after its
\* own layers, which may emulate a suffix read.
Capabilities == {"read", "read_with_suffix", "other"}
capability_view(effective) == effective \cap {"read", "read_with_suffix"}

operator_handles_with_layers(native, effective) ==
    [native |-> native,
     advertised |-> IF native THEN capability_view(effective)
                    ELSE capability_view(effective) \ {"read_with_suffix"}]

Ready == phase = "Inputs" /\ todo = <<>>

\* The runtime could not be built: nothing is asked of OpenDAL.
NeedsRuntime(c) == c \in {operator_new, operator_s3, operator_writer, operator_copier}
RuntimeFails ==
    /\ Ready /\ NeedsRuntime(call)
    /\ finish_failure("Unexpected", "Binding")
    /\ UNCHANGED <<call, todo, given, asked, applied, worked, measured, operator, view>>

WorkFails(kind, length) ==
    LET e == opendal_error(call, kind, length)
    IN /\ Ready
       /\ worked' = TRUE
       /\ finish_failure(e.kind, e.text)
       /\ UNCHANGED <<call, todo, given, asked, applied, measured, operator, view>>

\* catch_status: an unwinding call leaves its outputs as they were cleared.
WorkPanics ==
    /\ Ready
    /\ worked' = TRUE /\ phase' = "Done" /\ status' = "Panic"
    /\ UNCHANGED <<call, todo, given, slot, boxes, asked, applied, measured, operator, error, view>>

\* The outputs are written together, once nothing can fail any more.
Succeed(built) ==
    /\ phase' = "Done" /\ status' = "Ok"
    /\ slot' = [s \in DOMAIN slot |-> IF s = "Error" THEN slot[s] ELSE "Fresh"]
    /\ boxes' = boxes + Len(call.outs)
    /\ operator' = built
    /\ UNCHANGED error

\* A result that does not fit is dropped: the work has been done all the same.
WorkReturns(sizes, native, effective) ==
    /\ Ready /\ worked' = TRUE
    /\ IF call.result \in Limited
       THEN /\ measured' = Weighs(call.result, sizes)
            /\ IF Fits(call.result, sizes) = "Ok"
               THEN Succeed(IF Builds(call) THEN operator_handles_with_layers(native, effective)
                            ELSE NoHandle)
               ELSE finish_failure("BufferTooLarge", "Binding") /\ UNCHANGED operator
       ELSE Succeed(NoHandle) /\ UNCHANGED measured
    /\ UNCHANGED <<call, todo, given, asked, applied, view>>

\* lister_next at the end of a listing.
WorkEnds ==
    /\ Ready /\ call = lister_next
    /\ worked' = TRUE /\ phase' = "Done" /\ status' = "End"
    /\ UNCHANGED <<call, todo, given, slot, boxes, asked, applied, measured, operator, error, view>>

Work ==
    \/ RuntimeFails
    \/ \E kind \in ErrorKinds \cup {"Other"}, length \in {1, MaxOutput + 1} : WorkFails(kind, length)
    \/ WorkPanics
    \/ /\ Ready
       /\ \E sizes \in [1..4 -> Sizes], native \in BOOLEAN, effective \in SUBSET Capabilities :
            WorkReturns(sizes, native, effective)
    \/ WorkEnds

-----------------------------------------------------------------------------
(* Views *)

\* Mutant of prepare_view: the declared size is not compared.
prepare_view_any(p, version, declared, memory) ==
    IF p # "Good" \/ ~version THEN [ok |-> FALSE, memory |-> memory]
    ELSE [ok |-> TRUE,
          memory |-> [i \in DOMAIN memory |-> IF i \in 2..ViewSize THEN "Zero" ELSE memory[i]]]

\* The struct is zeroed up to its size in this version, its header put back.
prepare_view(p, version, declared, memory) ==
    IF p # "Good" \/ ~version \/ declared < ViewSize THEN [ok |-> FALSE, memory |-> memory]
    ELSE [ok |-> TRUE,
          memory |-> [i \in DOMAIN memory |-> IF i \in 2..ViewSize THEN "Zero" ELSE memory[i]]]

Filled(memory) == [i \in DOMAIN memory |-> IF i \in 2..ViewSize THEN "New" ELSE memory[i]]

\* A timestamp whose sub-second part is negative has no TimestampV1.
metadata_output_view(nanoseconds) == Check(nanoseconds >= 0, "AbiMismatch")

\* The view entry points: whether they take a handle, and what they make of
\* the value behind it.
library_info           == [handle |-> FALSE, values |-> {"Ok"}]
error_view             == [handle |-> TRUE, values |-> {"Ok"}]
metadata_view          == [handle |-> TRUE, values |-> {metadata_output_view(n) : n \in -1..1}]
entry_view             == [handle |-> TRUE, values |-> {"Ok"}]
entry_metadata_view    == [handle |-> TRUE, values |-> {metadata_output_view(n) : n \in -1..1}]
operator_info_view     == [handle |-> TRUE, values |-> {"Ok"}]
presigned_request_view == [handle |-> TRUE, values |-> {"Ok"}]

\* The header at an index counted from zero.
presigned_request_header_view ==
    [handle |-> TRUE, values |-> {IF index < count THEN "Ok" ELSE "End" :
                                    index \in 0..WordMax, count \in 0..2}]
Views == {library_info, error_view, metadata_view, entry_view, entry_metadata_view,
          operator_info_view, presigned_request_view, presigned_request_header_view}

ViewCall(v, p, version, declared, handle, value) ==
    LET prepared == prepare_view(p, version, declared, view)
        borrowed == v.handle => read_required(handle) = "Ok"
    IN /\ phase = "Idle" /\ phase' = "View"
       /\ \/ /\ ~prepared.ok
             /\ status' = "AbiMismatch" /\ UNCHANGED view
          \/ /\ prepared.ok /\ ~borrowed
             /\ status' = "AbiMismatch" /\ view' = prepared.memory
          \/ /\ prepared.ok /\ borrowed
             /\ status' = value
             /\ view' = IF value = "Ok" THEN Filled(prepared.memory) ELSE prepared.memory
       /\ measured' = declared
       /\ UNCHANGED <<call, todo, given, slot, boxes, asked, applied, worked, operator, error>>

-----------------------------------------------------------------------------
ReadInput ==
    \/ ReadHandle \/ ReadText \/ ReadBinary \/ ReadExpiry \/ ReadSuffix
    \/ ReadOptions \/ ReadS3 \/ ReadConfig \/ ReadPaths

Next ==
    \/ \E c \in Calls : \E p \in [Slots(c) -> Pointers] : Begin(c, p)
    \/ ReadInput
    \/ Work
    \/ \E v \in Views, p \in Pointers, version \in BOOLEAN, declared \in 1..ViewMemory,
          handle \in Pointers : \E value \in v.values :
            ViewCall(v, p, version, declared, handle, value)

Spec == Init /\ [][Next]_vars

-----------------------------------------------------------------------------
(* Properties *)

\* However a call ends, its outputs tell one story.  A slot the library could
\* write holds nothing from before the call, even when another slot was bad or
\* the work unwound; the results are all there exactly after STATUS_OK, the
\* error exactly after STATUS_ERROR if it was asked for; and nothing was boxed
\* that no slot holds.  The info handle beside an operator does not promise what
\* the operator refuses: a suffix read is advertised only when the backend itself
\* reads suffixes.
OutputsHonest ==
    /\ "read_with_suffix" \in operator.advertised => operator.native
    /\ phase = "Done" =>
        /\ \A s \in given : slot[s] # "Stale"
        /\ \A s \in Range(call.outs) : slot[s] = "Fresh" <=> status = "Ok"
        /\ slot["Error"] = "Fresh" <=> (status = "Error" /\ "Error" \in given)
        /\ boxes = Cardinality({s \in DOMAIN slot : slot[s] = "Fresh"})

\* OpenDAL is never asked to act with an option dropped: whatever the caller
\* set, by a present bit, a flag, a view or a number, known to this version or
\* not, fitting the S3 authentication mode or not, given once or twice, was
\* either applied or the call was refused before any work.
NoSilentOption == worked => asked \subseteq applied

\* Credentials stay where the caller put them.  An S3 operator built with keys
\* or without a signature does not look for others in its environment, the two
\* never mix, and the error of a constructor carries no backend text.
CredentialsContained ==
    /\ worked /\ call = operator_s3 /\ applied \cap {"access_key_id", "skip_signature"} # {} =>
           /\ {"disable_config_load", "disable_ec2_metadata"} \subseteq applied
           /\ ~({"access_key_id", "skip_signature"} \subseteq applied)
    /\ Builds(call) => error.text # "Upstream"

\* The output limit is exact for what is bounded one string at a time and for
\* what is bounded as a whole (a presigned request, the paths of a batch): no
\* more passes, and BufferTooLarge is only answered for more.
LimitsExact ==
    /\ phase = "Done" /\ status = "Ok" => measured <= MaxOutput
    /\ phase = "Done" /\ error.kind = "BufferTooLarge" => measured > MaxOutput

\* A view call writes nothing outside the struct its caller declared, keeps
\* the caller's header, and leaves a payload that is entirely old, cleared or
\* new, new exactly when it returned STATUS_OK.
ViewIsWhole ==
    phase = "View" =>
        /\ view[1] = "Header"
        /\ \A i \in 2..ViewMemory : i > measured \/ i > ViewSize => view[i] = "Old"
        /\ \A i \in 2..ViewSize : view[i] = view[2] /\ (view[i] = "New" <=> status = "Ok")

-----------------------------------------------------------------------------
(* The inductive invariant *)

\* What the states of a call range over.
Shape ==
    /\ phase \in {"Idle", "Inputs", "Done", "View"}
    /\ call \in Calls \cup {NoCall}
    /\ given \subseteq Slots(call)
    /\ slot \in [Slots(call) -> {"Stale", "Null", "Fresh"}]
    /\ measured \in Nat

\* Until the call ends nothing has been done and nothing given away, and every
\* option read so far has been accepted.
NothingYet ==
    phase \in {"Idle", "Inputs"} =>
        /\ \A s \in DOMAIN slot : slot[s] # "Fresh"
        /\ boxes = 0 /\ ~worked /\ error = NoError
        /\ asked \subseteq applied /\ measured <= MaxOutput

\* Inputs are only read once every output slot is known to be usable and empty.
OutputsReady ==
    phase = "Inputs" =>
        /\ call \in Calls
        /\ Range(call.outs) \subseteq given
        /\ \A s \in given : slot[s] = "Null"

\* The settings of one builder: keys and no signature exclude the environment
\* and each other.
KeysAlone(settings) ==
    settings \cap {"access_key_id", "skip_signature"} # {} =>
        /\ {"disable_config_load", "disable_ec2_metadata"} \subseteq settings
        /\ ~({"access_key_id", "skip_signature"} \subseteq settings)

\* An S3 operator has one input, and all that is applied comes from it.
OneSource ==
    /\ phase = "Idle" => applied = {}
    /\ call = operator_s3 =>
         /\ todo \in {<<>>, <<"S3">>}
         /\ todo # <<>> => applied = {}
         /\ KeysAlone(applied)

\* A view call ends where it began: no entry point has run before it.
ViewFirst ==
    /\ phase # "View" => view = Untouched
    /\ phase = "View" => ~worked

IInv ==
    /\ Shape /\ NothingYet /\ OutputsReady /\ OneSource /\ ViewFirst
    /\ OutputsHonest /\ NoSilentOption /\ CredentialsContained /\ LimitsExact /\ ViewIsWhole
=============================================================================
