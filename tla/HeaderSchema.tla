---------------------------- MODULE HeaderSchema ----------------------------
(***************************************************************************)
(* decode_header (safetensors.py): the text, the metadata, the tensor      *)
(* count, then the tensors one after the other in document order, and the  *)
(* constructor of DecodedSafetensorsHeader.                                *)
(***************************************************************************)
EXTENDS HeaderRecords

VARIABLES
    header,     \* the header bytes
    phase,      \* where the call is
    code,       \* the error raised, "none" so far
    metadata,   \* metadata entries
    tensors,    \* the tensors read so far, in document order
    notices     \* the notices so far

fields == <<metadata, tensors, notices>>

vars == <<header, tree, phase, code, fields>>

R == INSTANCE HeaderReport WITH answer <- "none"

Init ==
    /\ tree \in Trees
    /\ header \in Header
    \* Bytes that cannot be read have no tree; null stands for it.
    /\ ~Readable(header) => Kind(<<>>) = "null"
    /\ phase = "bytes"
    /\ code = "none"
    /\ metadata = {}
    /\ tensors = <<>>
    /\ notices = {}

\* The call raises.
Refuse(error) ==
    /\ code' = error
    /\ phase' = "refused"
    /\ UNCHANGED <<header, tree, fields>>

Proceed(next) ==
    /\ phase' = next
    /\ UNCHANGED <<header, tree, code>>

-----------------------------------------------------------------------------
(***************************************************************************)
(* The bytes.  A header has no more characters than its bytes, which the   *)
(* plan has bounded, and decode_json is given no number limit: neither of  *)
(* those two limits can be reported.                                       *)
(***************************************************************************)
RefuseUtf8 ==
    /\ phase = "bytes"
    /\ ~header.utf8
    /\ Refuse("header_utf8")

RefuseJson ==
    /\ phase = "bytes"
    /\ header.utf8 /\ header.json # "value"
    /\ Refuse(JsonFailures[header.json])

RefuseRoot ==
    /\ phase = "bytes"
    /\ Readable(header)
    /\ Kind(<<>>) # "dict"
    /\ Refuse("header_not_object")

BeginObject ==
    /\ phase = "bytes"
    /\ Readable(header)
    /\ Kind(<<>>) = "dict"
    /\ Proceed("metadata")
    /\ UNCHANGED fields

-----------------------------------------------------------------------------
(***************************************************************************)
(* _decode_metadata.                                                       *)
(***************************************************************************)
EntryMistyped(k) == Kind(Append(Metadata, k)) # "str"

\* Mutant: the values are not looked at.
KeyUnencodable(k) == Keys(Metadata)[k] \in Surrogate

EntryUnencodable(k) ==
    \/ Keys(Metadata)[k] \in Surrogate
    \/ Kind(Append(Metadata, k)) = "str" /\ tree[Append(Metadata, k)].text \in Surrogate

BadEntryAt ==
    SelectInSeq([k \in DOMAIN Keys(Metadata) |-> k],
                LAMBDA k : EntryMistyped(k) \/ EntryUnencodable(k))

EntryCode(k) == IF EntryMistyped(k) THEN "invalid_metadata" ELSE "invalid_unicode_scalar"

ReadingMetadata == phase = "metadata"

RefuseMetadata ==
    /\ ReadingMetadata
    /\ MetadataForm = "object"
    /\ Kind(Metadata) # "dict"
    /\ Refuse("invalid_metadata")

RefuseMetadataCount ==
    /\ ReadingMetadata
    /\ MetadataForm = "object"
    /\ Kind(Metadata) = "dict"
    /\ Len(Keys(Metadata)) > MaxMetadata
    /\ Refuse("metadata_count_exceeds_policy_limit")

RefuseMetadataEntry ==
    /\ ReadingMetadata
    /\ MetadataForm = "object"
    /\ Kind(Metadata) = "dict"
    /\ Len(Keys(Metadata)) <= MaxMetadata
    /\ BadEntryAt # 0
    /\ Refuse(EntryCode(BadEntryAt))

ReadMetadata ==
    /\ ReadingMetadata
    /\ MetadataForm = "object" =>
         /\ Kind(Metadata) = "dict"
         /\ Len(Keys(Metadata)) <= MaxMetadata
         /\ BadEntryAt = 0
    /\ metadata' = MetadataEntries
    /\ notices' = {"metadata_null" : f \in {MetadataForm} \cap {"null"}}
    /\ Proceed("count")
    /\ UNCHANGED tensors

-----------------------------------------------------------------------------
RefuseTensorCount ==
    /\ phase = "count"
    /\ Len(TensorMembers) > MaxTensors
    /\ Refuse("tensor_count_exceeds_policy_limit")

BeginTensors ==
    /\ phase = "count"
    /\ Len(TensorMembers) <= MaxTensors
    /\ Proceed("tensors")
    /\ UNCHANGED fields

(***************************************************************************)
(* _decode_u64.  An integer stays the text of its lexeme: without a sign   *)
(* it is its decimal digits, and is compared with those of the largest     *)
(* value, first by length, then from the left.                             *)
(***************************************************************************)
Digits(n) ==
    LET text[k \in 0 .. n] ==
          IF k < 10 THEN <<k>> ELSE Append(text[k \div 10], k % 10)
    IN  text[n]

TextGreater(digits, maximum) ==
    \E i \in DOMAIN maximum :
      /\ digits[i] > maximum[i]
      /\ \A j \in 1 .. i - 1 : digits[j] = maximum[j]

\* Mutant: the text compared whatever its length.
FitsU64AnyLength(digits) ==
    Len(digits) = Len(Digits(U64Max)) => ~TextGreater(digits, Digits(U64Max))

FitsU64(digits) ==
    /\ Len(digits) <= Len(Digits(U64Max))
    /\ Len(digits) = Len(Digits(U64Max)) => ~TextGreater(digits, Digits(U64Max))

DecodesU64(q) == ~tree[q].minus /\ FitsU64(Digits(tree[q].int))

(***************************************************************************)
(* _decode_unsigned_sequence: the first item that is not an integer in     *)
(* range decides.                                                          *)
(***************************************************************************)
BadItemAt(p) == SelectInSeq(Children(p), LAMBDA q : Kind(q) # "int" \/ ~DecodesU64(q))

SequenceCode(p) ==
    IF Kind(p) # "list" THEN "invalid_tensor_field"
    ELSE IF BadItemAt(p) = 0 THEN "none"
    ELSE IF Kind(Append(p, BadItemAt(p))) # "int" THEN "invalid_tensor_field"
    ELSE "integer_out_of_range"

DtypeCode(p) ==
    IF Kind(p) # "str" THEN "invalid_tensor_field"
    ELSE IF tree[p].text \in Surrogate THEN "invalid_unicode_scalar"
    ELSE "none"

ShapeCode(p) ==
    IF SequenceCode(p) # "none" THEN SequenceCode(p)
    ELSE IF Width(tree[p]) > MaxRank THEN "tensor_rank_exceeds_policy_limit"
    ELSE "none"

OffsetsCode(p) ==
    IF SequenceCode(p) # "none" THEN SequenceCode(p)
    ELSE IF Width(tree[p]) # 2 THEN "invalid_tensor_field"
    ELSE "none"

\* The name is encoded, which one with a lone surrogate cannot be.
NameCode(i) ==
    IF NameAt(i) \in Surrogate THEN "invalid_unicode_scalar"
    ELSE IF Bytes[NameAt(i)] > MaxName THEN "tensor_name_exceeds_policy_limit"
    ELSE "none"

RecordCode(i) ==
    IF Kind(RecordAt(i)) # "dict" THEN "invalid_tensor_record"
    ELSE IF ToSet(Keys(RecordAt(i))) \cap Surrogate # {} THEN "invalid_unicode_scalar"
    ELSE IF Missing(i) # {} THEN "missing_tensor_field"
    ELSE "none"

\* Mutant: the offsets taken for a shape.
FieldCodesUncounted(i) ==
    <<DtypeCode(FieldAt(i, "dtype")), ShapeCode(FieldAt(i, "shape")),
      SequenceCode(FieldAt(i, "data_offsets"))>>

\* The checks of the fields, in order.
FieldCodes(i) ==
    <<DtypeCode(FieldAt(i, "dtype")), ShapeCode(FieldAt(i, "shape")),
      OffsetsCode(FieldAt(i, "data_offsets"))>>

FirstOf(codes) ==
    LET k == SelectInSeq(codes, LAMBDA c : c # "none")
    IN  IF k = 0 THEN "none" ELSE codes[k]

TensorCode(i) ==
    IF NameCode(i) # "none" THEN NameCode(i)
    ELSE IF RecordCode(i) # "none" THEN RecordCode(i)
    ELSE FirstOf(FieldCodes(i))

\* The member to read next, if there is one.
Following ==
    {TensorMembers[k] : k \in {Len(tensors) + 1} \cap DOMAIN TensorMembers}

RefuseTensor ==
    /\ phase = "tensors"
    /\ \E i \in Following : \E c \in {TensorCode(i)} \ {"none"} : Refuse(c)

ReadTensor ==
    /\ phase = "tensors"
    /\ \E i \in Following :
         /\ TensorCode(i) = "none"
         /\ tensors' = Append(tensors, TensorAt(i))
         /\ notices' = notices
                \cup {"unknown_tensor_fields" : f \in ToSet(Keys(RecordAt(i))) \ Required}
    /\ UNCHANGED <<header, tree, phase, code, metadata>>

-----------------------------------------------------------------------------
(***************************************************************************)
(* The constructors: _validate_tensor_components for every tensor, and     *)
(* DecodedSafetensorsHeader.__post_init__.                                 *)
(***************************************************************************)
ComponentsFit(t) ==
    /\ ({t.name, t.dtype} \cup t.unknown_fields) \cap Surrogate = {}
    /\ t.name # MetadataKey
    /\ \A k \in DOMAIN t.shape : t.shape[k] \in 0 .. U64Max
    /\ Len(t.data_offsets) = 2
    /\ \A k \in 1 .. 2 : t.data_offsets[k] \in 0 .. U64Max
    /\ t.unknown_fields \cap Required = {}

HeaderFits ==
    /\ \A k \in DOMAIN tensors :
         /\ ComponentsFit(tensors[k])
         /\ Bytes[tensors[k].name] <= MaxName
         /\ Len(tensors[k].shape) <= MaxRank
    /\ \A j, k \in DOMAIN tensors : tensors[j].name = tensors[k].name => j = k
    /\ Len(tensors) <= MaxTensors
    /\ \A e, f \in metadata : e[1] = f[1] => e = f
    /\ \A e \in metadata : {e[1], e[2]} \cap Surrogate = {}
    /\ Cardinality(metadata) <= MaxMetadata
    /\ MetadataForm # "object" => metadata = {}
    /\ "metadata_null" \in notices <=> MetadataForm = "null"
    /\ "unknown_tensor_fields" \in notices <=>
         \E k \in DOMAIN tensors : tensors[k].unknown_fields # {}

BuildHeader ==
    /\ phase = "tensors"
    /\ Len(tensors) = Len(TensorMembers)
    /\ code' = IF HeaderFits THEN code ELSE "ValueError"
    /\ phase' = IF HeaderFits THEN "done" ELSE "refused"
    /\ UNCHANGED <<header, tree, fields>>

ReadBytes == RefuseUtf8 \/ RefuseJson \/ RefuseRoot \/ BeginObject

DecodeMetadata ==
    RefuseMetadata \/ RefuseMetadataCount \/ RefuseMetadataEntry \/ ReadMetadata

DecodeTensors ==
    RefuseTensorCount \/ BeginTensors \/ RefuseTensor \/ ReadTensor

Next == ReadBytes \/ DecodeMetadata \/ DecodeTensors \/ BuildHeader

\* One call in one thread, which always goes on.
Spec == Init /\ [][Next]_vars /\ WF_vars(Next)

-----------------------------------------------------------------------------
(***************************************************************************)
(* The constructors repeat the decoder's checks and never refuse what it   *)
(* gives them; every failure is one of the documented codes.               *)
(***************************************************************************)
DecoderNeverEscapes == code # "ValueError"

(***************************************************************************)
(* The error reported is the first in reading order: nothing wrong with    *)
(* the metadata when the tensors are counted, and nothing wrong with any   *)
(* tensor before the one that is refused.                                  *)
(***************************************************************************)
ReportsFirst ==
    /\ phase \in {"count", "tensors", "done"} => R!MetadataErrors = {}
    /\ phase \in {"tensors", "done"} => Len(TensorMembers) <= MaxTensors
    /\ \A i \in {TensorMembers[k] : k \in DOMAIN tensors} : R!TensorErrors(i) = {}
    /\ code \in {"tensor_name_exceeds_policy_limit", "invalid_tensor_record",
                 "missing_tensor_field", "integer_out_of_range",
                 "tensor_rank_exceeds_policy_limit"} =>
         \E i \in Following : code \in R!TensorErrors(i)

(***************************************************************************)
(* Whatever order the members come in, the answer is the one the header    *)
(* deserves: a true error if it has one, and otherwise exactly the         *)
(* tensors, metadata and notices it declares.  The call always answers.    *)
(***************************************************************************)
Outcome ==
    IF code # "none" THEN R!Refused(code)
    ELSE IF phase # "done" THEN R!Pending
    ELSE R!Decoded(ToSet(tensors), metadata, MetadataForm, notices)

Reported == INSTANCE HeaderReport WITH answer <- Outcome

ImplementsHeaderReport == Reported!Spec
=============================================================================
