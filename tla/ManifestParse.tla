--------------------------- MODULE ManifestParse ---------------------------
(***************************************************************************)
(* parse_safetensors_manifest (safetensors.py) from the header on:         *)
(* decode_header, then validate_storage on what it returns.  The bytes of  *)
(* the header and the size of the payload are those of an accepted         *)
(* envelope (HeaderRead), here any.                                        *)
(***************************************************************************)
EXTENDS HeaderSchema

CONSTANTS
    Bits,           \* registered dtype -> bits per element
    RankOf,         \* text -> rank in code-point order
    PayloadSize     \* sizes of the payload

ASSUME WidthsAssumption == Bits \in [DOMAIN Bits -> Nat \ {0}]
ASSUME PayloadAssumption == PayloadSize \subseteq Nat
ASSUME RankOfAssumption ==
    /\ RankOf \in [Text -> Nat]
    /\ \A s, t \in Text : RankOf[s] = RankOf[t] => s = t

VARIABLES layout, dataSize, storage, todo, placed, cursor, layoutCode

storing == <<layout, dataSize, storage, todo, placed, cursor, layoutCode>>

Name == {RankOf[t] : t \in Text}
Offset == 0 .. U64Max
Shape == Seq(Offset)

S == INSTANCE StorageLayout WITH
       header <- layout, phase <- storage, code <- layoutCode, Dtype <- Text

\* A tensor as validate_storage reads it.
Stored(t) ==
    [dtype |-> t.dtype, shape |-> t.shape, begin |-> t.data_offsets[1], end |-> t.data_offsets[2]]

TensorNamed(found, rank) == CHOOSE t \in found : RankOf[t.name] = rank

\* Mutant: tensors without bytes need no storage.
LayoutOfNonempty(found) ==
    [r \in {RankOf[t.name] : t \in {u \in found : u.data_offsets[1] # u.data_offsets[2]}} |->
       Stored(TensorNamed(found, r))]

LayoutOf(found) ==
    [r \in {RankOf[t.name] : t \in found} |-> Stored(TensorNamed(found, r))]

-----------------------------------------------------------------------------
ParseInit ==
    /\ Init
    /\ layout = LayoutOf({})
    /\ dataSize \in PayloadSize
    /\ storage = "idle"
    /\ todo = {} /\ placed = <<>> /\ cursor = 0
    /\ layoutCode = "none"

DecodeHeader == Next /\ UNCHANGED storing

BeginStorage ==
    /\ phase = "done"
    /\ storage = "idle"
    /\ layout' = LayoutOf(ToSet(tensors))
    /\ storage' = "dtypes"
    /\ todo' = DOMAIN layout'
    /\ UNCHANGED <<vars, dataSize, placed, cursor, layoutCode>>

ValidateStorage == S!Next /\ UNCHANGED vars

Answered == phase = "refused" \/ storage \in {"accepted", "rejected"}

\* The call is over; any other state without a next step is a deadlock.
Over == Answered /\ UNCHANGED <<vars, storing>>

ParseNext == DecodeHeader \/ BeginStorage \/ ValidateStorage \/ Over

\* One call in one thread, which always goes on.
ParseSpec ==
    /\ ParseInit /\ [][ParseNext]_<<vars, storing>>
    /\ WF_<<vars, storing>>(ParseNext)

-----------------------------------------------------------------------------
(***************************************************************************)
(* What the two stages make of a header is what the header says: a         *)
(* manifest of all its tensors, empty ones too, exactly for one without a  *)
(* schema error whose declared tensors, read from the document, tile the   *)
(* payload; a storage error only for one without a schema error; an error  *)
(* of the schema for every other.                                          *)
(***************************************************************************)
Declared == INSTANCE StorageLayout WITH
              header <- LayoutOf(R!DeclaredTensors), phase <- storage, code <- layoutCode,
              Dtype <- Text

ManifestExact ==
    /\ phase = "refused" => R!Errors # {}
    /\ storage = "accepted" =>
         /\ R!Errors = {} /\ Declared!ValidLayout
         /\ S!Placed = {RankOf[NameAt(i)] : i \in ToSet(TensorMembers)}
         /\ Len(placed) = Len(TensorMembers)
    /\ storage = "rejected" => R!Errors = {} /\ ~Declared!ValidLayout

(***************************************************************************)
(* None of the constructors on the way, of the decoded header, of its      *)
(* validated copy, of a tensor or of the manifest, refuses what the stage  *)
(* before has produced.                                                    *)
(***************************************************************************)
ParseNeverEscapes == DecoderNeverEscapes /\ storage # "ctor_error"
=============================================================================
