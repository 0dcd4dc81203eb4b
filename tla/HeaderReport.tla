---------------------------- MODULE HeaderReport ----------------------------
(***************************************************************************)
(* What decode_header promises, without an order of reading: an error that *)
(* the header really has if it has one, and otherwise the tensors,         *)
(* metadata and notices it declares.                                       *)
(***************************************************************************)
EXTENDS HeaderRecords

VARIABLES
    header,     \* the header bytes
    answer      \* what the call has returned or raised

vars == <<header, tree, answer>>

Error(code, holds) == IF holds THEN {code} ELSE {}

\* Every integer of a list has to fit.
SequenceErrors(p) ==
    IF Kind(p) # "list" THEN {"invalid_tensor_field"}
    ELSE Error("invalid_tensor_field", \E q \in ToSet(Children(p)) : Kind(q) # "int")
         \cup Error("integer_out_of_range",
                    \E q \in ToSet(Children(p)) : Kind(q) = "int" /\ ~IsU64(q))

FieldErrors(i, f) ==
    IF f = "dtype"
    THEN Error("invalid_tensor_field", Kind(FieldAt(i, f)) # "str")
         \cup Error("invalid_unicode_scalar",
                    Kind(FieldAt(i, f)) = "str" /\ tree[FieldAt(i, f)].text \in Surrogate)
    ELSE SequenceErrors(FieldAt(i, f))
         \cup Error("tensor_rank_exceeds_policy_limit",
                    f = "shape" /\ Kind(FieldAt(i, f)) = "list"
                                /\ Width(tree[FieldAt(i, f)]) > MaxRank)
         \cup Error("invalid_tensor_field",
                    f = "data_offsets" /\ Width(tree[FieldAt(i, f)]) # 2)

TensorErrors(i) ==
    Error("invalid_unicode_scalar",
          ({NameAt(i)} \cup ToSet(Keys(RecordAt(i)))) \cap Surrogate # {})
    \cup Error("tensor_name_exceeds_policy_limit", Bytes[NameAt(i)] > MaxName)
    \cup (IF Kind(RecordAt(i)) # "dict" THEN {"invalid_tensor_record"}
          ELSE Error("missing_tensor_field", Missing(i) # {})
               \cup UNION {FieldErrors(i, f) : f \in Required \ Missing(i)})

MetadataTexts ==
    ToSet(Keys(Metadata))
    \cup {tree[p].text : p \in {q \in ToSet(Children(Metadata)) : Kind(q) = "str"}}

MetadataErrors ==
    IF MetadataForm # "object" THEN {}
    ELSE IF Kind(Metadata) # "dict" THEN {"invalid_metadata"}
    ELSE Error("metadata_count_exceeds_policy_limit", Len(Keys(Metadata)) > MaxMetadata)
         \cup Error("invalid_metadata", \E p \in ToSet(Children(Metadata)) : Kind(p) # "str")
         \cup Error("invalid_unicode_scalar", MetadataTexts \cap Surrogate # {})

Errors ==
    IF ~header.utf8 THEN {"header_utf8"}
    ELSE IF header.json # "value" THEN {JsonFailures[header.json]}
    ELSE IF Kind(<<>>) # "dict" THEN {"header_not_object"}
    ELSE MetadataErrors
         \cup Error("tensor_count_exceeds_policy_limit", Len(TensorMembers) > MaxTensors)
         \cup UNION {TensorErrors(i) : i \in ToSet(TensorMembers)}

-----------------------------------------------------------------------------
Refused(error) == [error |-> error]

Pending == Refused("none")

Decoded(tensors, metadata, form, notices) ==
    [tensors |-> tensors, metadata |-> metadata, form |-> form, notices |-> notices]

DeclaredTensors == {TensorAt(i) : i \in ToSet(TensorMembers)}

DeclaredNotices ==
    Error("metadata_null", MetadataForm = "null")
    \cup Error("unknown_tensor_fields", \E t \in DeclaredTensors : t.unknown_fields # {})

Answer ==
    /\ answer = Pending
    /\ IF Errors # {}
       THEN \E error \in Errors : answer' = Refused(error)
       ELSE answer' = Decoded(DeclaredTensors, MetadataEntries, MetadataForm, DeclaredNotices)
    /\ UNCHANGED <<header, tree>>

Init ==
    /\ header \in Header
    /\ IsTree(tree)
    /\ answer = Pending

Spec == Init /\ [][Answer]_vars /\ WF_vars(Answer)
=============================================================================
