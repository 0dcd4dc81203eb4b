--------------------------- MODULE DecodedHeader ---------------------------
(***************************************************************************)
(* The input of storage validation: a schema-decoded safetensors header    *)
(* (TensorHeader, DecodedSafetensorsHeader) and the size of the data       *)
(* region of its plan, with the declarative meaning of "the tensors tile   *)
(* the payload".  Both variables are fixed by the initial state.           *)
(*                                                                         *)
(* A name is represented by its rank in code-point order, the order in     *)
(* which Python compares strings.  Metadata, notices and unknown fields    *)
(* play no part in storage validation and are left out.                    *)
(***************************************************************************)
EXTENDS TensorSize

CONSTANTS
    Name,           \* tensor names, as ranks in code-point order
    Dtype,          \* declared dtype strings, registered or not
    Shape,          \* declared shapes
    Offset,         \* declared byte offsets
    PayloadSize     \* sizes of the data region of a planned file

ASSUME NameAssumption == Name \subseteq Nat
ASSUME ShapeAssumption == Shape \subseteq Seq(Nat)
ASSUME OffsetAssumption == Offset \subseteq Nat
ASSUME PayloadSizeAssumption == PayloadSize \subseteq Nat

VARIABLES
    header,     \* tensor name -> declared record, one entry per tensor
    dataSize    \* bytes of the file that follow the header

TensorHeader == [dtype : Dtype, shape : Shape, begin : Offset, end : Offset]

\* One record per name: decode_json refuses a repeated key.
Headers == UNION {[S -> TensorHeader] : S \in SUBSET Name}

Registered(t) == header[t].dtype \in DOMAIN Bits

(***************************************************************************)
(* Every tensor is a span inside the payload, of exactly its own size ...  *)
(***************************************************************************)
SpanExact(t) ==
    /\ header[t].begin <= header[t].end
    /\ header[t].end <= dataSize
    /\ header[t].end - header[t].begin
         = CheckedSize(header[t].shape, header[t].dtype)

(***************************************************************************)
(* ... no two spans interleave: an empty span may sit between two tensors  *)
(* but never inside one ...                                                *)
(***************************************************************************)
Disjoint(t, u) ==
    header[t].end <= header[u].begin \/ header[u].end <= header[t].begin

(***************************************************************************)
(* ... and every payload byte belongs to a tensor.                         *)
(***************************************************************************)
Covered(b) == \E t \in DOMAIN header :
                 header[t].begin <= b /\ b < header[t].end

ValidLayout ==
    /\ \A t \in DOMAIN header : Registered(t) /\ SpanExact(t)
    /\ \A t, u \in DOMAIN header : t # u => Disjoint(t, u)
    /\ \A b \in 0 .. dataSize - 1 : Covered(b)
=============================================================================
