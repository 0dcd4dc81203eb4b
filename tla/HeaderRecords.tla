--------------------------- MODULE HeaderRecords ---------------------------
(***************************************************************************)
(* The members of a safetensors header (safetensors.py): the metadata      *)
(* object and one record per tensor, read from the decoded JSON tree.  A   *)
(* sorted tuple without repeats is a set.                                  *)
(***************************************************************************)
EXTENDS JsonTree

CONSTANTS
    U64Max,         \* _U64_MAX
    MaxMetadata, MaxTensors, MaxRank, MaxName       \* of SafetensorsLimits

ASSUME HeaderLimitsAssumption ==
    /\ U64Max \in Nat \ {0}
    /\ MaxMetadata \in Nat /\ MaxTensors \in Nat /\ MaxRank \in Nat /\ MaxName \in Nat

MetadataKey == "__metadata__"

Metadata == Get(<<>>, MetadataKey)

MetadataForm ==
    IF ~Has(<<>>, MetadataKey) THEN "absent"
    ELSE IF Kind(Metadata) = "null" THEN "null"
    ELSE "object"

\* Positions of the tensor members, in document order.  Keys are distinct: the
\* members behind the metadata, if there are any, are one place further on.
TensorMembers ==
    [k \in 1 .. Len(Keys(<<>>)) - (IF Has(<<>>, MetadataKey) THEN 1 ELSE 0) |->
       IF \E j \in 1 .. k : Keys(<<>>)[j] = MetadataKey THEN k + 1 ELSE k]

NameAt(i) == Keys(<<>>)[i]

RecordAt(i) == Append(<<>>, i)

Required == {"dtype", "shape", "data_offsets"}

Missing(i) == Required \ ToSet(Keys(RecordAt(i)))

FieldAt(i, f) == Get(RecordAt(i), f)

\* The lexeme "-0" has a sign and is refused although it is zero.
IsU64(p) == ~tree[p].minus /\ tree[p].int \in 0 .. U64Max

IntegersAt(p) == [k \in 1 .. Width(tree[p]) |-> tree[Append(p, k)].int]

\* TensorHeader, for a record without a fault.
TensorAt(i) ==
    [ name |-> NameAt(i),
      dtype |-> tree[FieldAt(i, "dtype")].text,
      shape |-> IntegersAt(FieldAt(i, "shape")),
      data_offsets |-> IntegersAt(FieldAt(i, "data_offsets")),
      unknown_fields |-> ToSet(Keys(RecordAt(i))) \ Required ]

\* For a metadata object without a fault.
MetadataEntries ==
    IF MetadataForm = "object"
    THEN {<<Keys(Metadata)[k], tree[Append(Metadata, k)].text>> : k \in DOMAIN Keys(Metadata)}
    ELSE {}

JsonFailures ==
    [ syntax |-> "header_json",
      duplicate_key |-> "duplicate_json_key",
      depth_limit |-> "json_depth_exceeds_policy_limit",
      string_limit |-> "json_string_exceeds_policy_limit",
      token_limit |-> "json_token_exceeds_policy_limit" ]

\* The header bytes: whether they are UTF-8, and what decode_json says.
Header == [utf8 : BOOLEAN, json : {"value"} \cup DOMAIN JsonFailures]

Readable(header) == header = [utf8 |-> TRUE, json |-> "value"]
=============================================================================
