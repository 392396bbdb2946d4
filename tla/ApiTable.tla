------------------------------ MODULE ApiTable ------------------------------
(***************************************************************************)
(* The negotiation of the native function table: opendal_mbt_get_api        *)
(* (native/rust/src/lib.rs) fills in as much of the caller's struct as both *)
(* sides know, and the loaders of the MoonBit stub (src/opendal_stub.c)     *)
(* decide which groups of entry points may be called through it.            *)
(*                                                                         *)
(* Library and stub are compiled apart: each has its own idea of how long   *)
(* the table is.  Sizes are in half pointers, so that a declared size may   *)
(* end inside a field.  One field stands for the entry points of a group,   *)
(* and one for the entry point that frees its handle.                       *)
(***************************************************************************)
EXTENDS Integers, Sequences

\* ApiV1, in its order.
TableFields ==
    <<"base", "whole_object", "lister", "lister_free", "reader", "reader_free", "writer",
      "writer_free", "read_stream", "read_stream_free", "writer_abort", "s3", "presign",
      "presign_free", "timeout", "retry", "limit", "delete_many", "copier", "copier_free",
      "async", "async_free">>

InputSize  == 1   \* API_INPUT_SIZE: struct_size and requested_major
PrefixSize == 3   \* API_PREFIX_SIZE: up to max_output_bytes
FieldSize  == 2

Fields    == {TableFields[i] : i \in DOMAIN TableFields}
Index     == [f \in Fields |-> CHOOSE i \in DOMAIN TableFields : TableFields[i] = f]
Offset(f) == PrefixSize + FieldSize * (Index[f] - 1)
End(f)    == Offset(f) + FieldSize
TableSize == PrefixSize + FieldSize * Len(TableFields)

\* The parts of a library that its build leaves out.
Profiles == SUBSET {"s3", "layers", "limit"}
OmittedBy(profile) ==
    UNION {IF "s3" \in profile THEN {} ELSE {"s3"},
           IF "layers" \in profile THEN {} ELSE {"timeout", "retry"},
           IF "limit" \in profile THEN {} ELSE {"limit"}}

\* stage_api of a library whose table ends at size: a function pointer, or the
\* null of an entry point that was left out, for each field it knows.
stage_api(size, profile) ==
    [f \in Fields |->
        IF End(f) <= size /\ f \notin OmittedBy(profile) THEN "Entry" ELSE "Null"]

\* Mutant of Copied: a field that only begins inside the caller's table is
\* copied as far as it goes.
CopiedInPart(f, limit) == Offset(f) < limit

\* install_field: only what lies inside both tables as a whole.
Copied(f, limit) == End(f) <= limit

\* install_api: what the caller finds in each field.
install_api(caller, size, staged) ==
    LET limit == IF caller <= size THEN caller ELSE size
    IN [f \in DOMAIN staged |->
          IF ~Copied(f, limit) THEN "Null"
          ELSE IF End(f) > limit THEN "Torn" ELSE staged[f]]

\* opendal_mbt_get_api: nothing is written unless the request can be met.
get_api(caller, major, size, profile) ==
    IF caller < PrefixSize \/ major # 1
    THEN [status |-> "AbiMismatch", table |-> [f \in DOMAIN stage_api(size, profile) |-> "Null"]]
    ELSE [status |-> "Ok", table |-> install_api(caller, size, stage_api(size, profile))]

-----------------------------------------------------------------------------
(* The stub *)

\* The groups of entry points, by the fields a loader asks for.
GroupFields ==
    [Base |-> {"base"}, WholeObject |-> {"whole_object"}, Listing |-> {"lister", "lister_free"},
     Reader |-> {"reader", "reader_free"}, Writer |-> {"writer", "writer_free"},
     ReadStream |-> {"read_stream", "read_stream_free"},
     WriterAbort |-> {"writer", "writer_free", "writer_abort"}, S3 |-> {"s3"},
     Presign |-> {"presign", "presign_free"}, Layers |-> {"timeout", "retry"},
     Limit |-> {"limit"}, BatchDelete |-> {"delete_many"}, Copier |-> {"copier", "copier_free"},
     Async |-> {"async", "async_free"}]
Groups == DOMAIN GroupFields

\* The feature bit of a group, which every library sets that has the group.
FeatureBit(g, size, profile) ==
    \A f \in GroupFields[g] : End(f) <= size /\ f \notin OmittedBy(profile)

\* API_HAS: inside the stub's table, inside the library's, and not null.
Has(f, caller, size, table) == caller >= End(f) /\ size >= End(f) /\ table[f] # "Null"

\* load_api and the loaders of the groups.
Loads(g, caller, size, profile, table) ==
    /\ \A f \in GroupFields["Base"] \cup GroupFields[g] : Has(f, caller, size, table)
    /\ FeatureBit("Base", size, profile) /\ FeatureBit(g, size, profile)
=============================================================================
