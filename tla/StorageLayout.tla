--------------------------- MODULE StorageLayout ---------------------------
(***************************************************************************)
(* validate_storage (safetensors.py): a dtype pass over the tensors in     *)
(* name order, a walk over them in storage order that keeps a cursor, the  *)
(* final comparison with the payload, and the SafetensorsManifest          *)
(* constructor, which re-validates everything the walk produced.           *)
(*                                                                         *)
(* sorted(..., key) is not a step of its own: the walk takes the least     *)
(* remaining tensor by the sort key (begin, end, name), which is the next  *)
(* element of the sorted tuple.  The key is unique because names are.      *)
(*                                                                         *)
(* The TensorManifest constructor called for each placed tensor repeats    *)
(* the reversed, size and mismatch checks on the same record, just after   *)
(* them, so it belongs to PlaceTensor and never refuses.                   *)
(***************************************************************************)
EXTENDS DecodedHeader

VARIABLES
    phase,      \* where the call is: see Phases
    todo,       \* tensors the current pass has not reached
    placed,     \* names appended to `manifests`, in order
    cursor,     \* end of the last placed tensor
    code        \* the error raised, or "none"

vars == <<header, dataSize, phase, todo, placed, cursor, code>>

Phases == {"dtypes", "layout", "accepted", "rejected", "ctor_error"}

Codes == {"none", "invalid_dtype", "layout_gap", "layout_overlap",
          "offsets_reversed", "size_overflow", "byte_misaligned",
          "size_mismatch", "payload_size_mismatch"}

\* Mutant: a sort key without the end offset.
KeyLeqWithoutEnd(t, u) ==
    \/ header[t].begin < header[u].begin
    \/ header[t].begin = header[u].begin /\ t <= u

(***************************************************************************)
(* The key of sorted(): (data_offsets[0], data_offsets[1], name).          *)
(***************************************************************************)
KeyLeq(t, u) ==
    \/ header[t].begin < header[u].begin
    \/ /\ header[t].begin = header[u].begin
       /\ \/ header[t].end < header[u].end
          \/ header[t].end = header[u].end /\ t <= u

SizeOf(t) == CheckedSize(header[t].shape, header[t].dtype)

Init ==
    /\ header \in Headers
    /\ dataSize \in PayloadSize
    /\ phase = "dtypes"
    /\ todo = DOMAIN header
    /\ placed = <<>>
    /\ cursor = 0
    /\ code = "none"

Reject(c) ==
    /\ phase' = "rejected"
    /\ code' = c
    /\ UNCHANGED <<header, dataSize, todo, placed, cursor>>

-----------------------------------------------------------------------------
(***************************************************************************)
(* The dtype pass, in the name order of DecodedSafetensorsHeader.          *)
(***************************************************************************)
NextByName(t) ==
    /\ phase = "dtypes"
    /\ t \in todo
    /\ \A u \in todo : t <= u

RecogniseDtype(t) ==
    /\ NextByName(t)
    /\ Registered(t)
    /\ todo' = todo \ {t}
    /\ UNCHANGED <<header, dataSize, phase, placed, cursor, code>>

InvalidDtype(t) ==
    /\ NextByName(t)
    /\ ~Registered(t)
    /\ Reject("invalid_dtype")

StartLayout ==
    /\ phase = "dtypes"
    /\ todo = {}
    /\ phase' = "layout"
    /\ todo' = DOMAIN header
    /\ UNCHANGED <<header, dataSize, placed, cursor, code>>

-----------------------------------------------------------------------------
(***************************************************************************)
(* The storage-order walk.  The checks are tried in the order of the code; *)
(* Aligned, then InOrder, then Sized say which ones a tensor has passed.   *)
(***************************************************************************)
\* Mutant: a sort key of data_offsets alone.
NextByOffsets(t) ==
    /\ phase = "layout"
    /\ t \in todo
    /\ \A u \in todo :
         \/ header[t].begin < header[u].begin
         \/ header[t].begin = header[u].begin /\ header[t].end <= header[u].end

NextByKey(t) ==
    /\ phase = "layout"
    /\ t \in todo
    /\ \A u \in todo : KeyLeq(t, u)

LayoutGap(t) ==
    /\ NextByKey(t)
    /\ header[t].begin > cursor
    /\ Reject("layout_gap")

LayoutOverlap(t) ==
    /\ NextByKey(t)
    /\ header[t].begin < cursor
    /\ Reject("layout_overlap")

Aligned(t) == NextByKey(t) /\ header[t].begin = cursor

OffsetsReversed(t) ==
    /\ Aligned(t)
    /\ header[t].end < header[t].begin
    /\ Reject("offsets_reversed")

InOrder(t) == Aligned(t) /\ header[t].begin <= header[t].end

SizeOverflow(t) ==
    /\ InOrder(t)
    /\ SizeOf(t) = Overflow
    /\ Reject("size_overflow")

ByteMisaligned(t) ==
    /\ InOrder(t)
    /\ SizeOf(t) = Misaligned
    /\ Reject("byte_misaligned")

Sized(t) == InOrder(t) /\ SizeOf(t) \notin {Overflow, Misaligned}

SizeMismatch(t) ==
    /\ Sized(t)
    /\ header[t].end - header[t].begin # SizeOf(t)
    /\ Reject("size_mismatch")

\* Mutant: `end` read as the offset of the last byte.
PlaceTensorInclusive(t) ==
    /\ Sized(t)
    /\ header[t].end - header[t].begin = SizeOf(t)
    /\ placed' = Append(placed, t)
    /\ cursor' = header[t].end - 1
    /\ todo' = todo \ {t}
    /\ UNCHANGED <<header, dataSize, phase, code>>

PlaceTensor(t) ==
    /\ Sized(t)
    /\ header[t].end - header[t].begin = SizeOf(t)
    /\ placed' = Append(placed, t)
    /\ cursor' = header[t].end
    /\ todo' = todo \ {t}
    /\ UNCHANGED <<header, dataSize, phase, code>>

-----------------------------------------------------------------------------
(***************************************************************************)
(* The end of the walk and the SafetensorsManifest constructor.  Its       *)
(* ValueErrors ("canonical storage order", "hole-free", "cover the         *)
(* payload") are no rule outcome: reaching one is an internal failure,     *)
(* the phase "ctor_error".                                                 *)
(***************************************************************************)
WalkDone == phase = "layout" /\ todo = {}

PayloadSizeMismatch ==
    /\ WalkDone
    /\ cursor # dataSize
    /\ Reject("payload_size_mismatch")

RebuildAccepts(t) ==
    /\ header[t].begin <= header[t].end
    /\ header[t].end - header[t].begin = SizeOf(t)

Canonical == \A i, j \in DOMAIN placed :
                i < j => KeyLeq(placed[i], placed[j])

EndBefore(i) == IF i = 1 THEN 0 ELSE header[placed[i-1]].end

HoleFree == \A i \in DOMAIN placed : header[placed[i]].begin = EndBefore(i)

CoversPayload == EndBefore(Len(placed) + 1) = dataSize

ManifestAccepts ==
    /\ \A i \in DOMAIN placed : RebuildAccepts(placed[i])
    /\ Canonical
    /\ HoleFree
    /\ CoversPayload

BuildManifest ==
    /\ WalkDone
    /\ cursor = dataSize
    /\ phase' = IF ManifestAccepts THEN "accepted" ELSE "ctor_error"
    /\ UNCHANGED <<header, dataSize, todo, placed, cursor, code>>

DtypeStep(t) == RecogniseDtype(t) \/ InvalidDtype(t)

LayoutStep(t) ==
    \/ LayoutGap(t)
    \/ LayoutOverlap(t)
    \/ OffsetsReversed(t)
    \/ SizeOverflow(t)
    \/ ByteMisaligned(t)
    \/ SizeMismatch(t)
    \/ PlaceTensor(t)

Next ==
    \/ \E t \in Name : DtypeStep(t) \/ LayoutStep(t)
    \/ StartLayout
    \/ PayloadSizeMismatch
    \/ BuildManifest

\* The call runs to its end: nothing else can hold it up.
Spec == Init /\ [][Next]_vars /\ WF_vars(Next)

-----------------------------------------------------------------------------
Placed == {placed[i] : i \in DOMAIN placed}

TypeOK ==
    /\ header \in Headers
    /\ dataSize \in PayloadSize
    /\ phase \in Phases
    /\ todo \subseteq DOMAIN header
    /\ placed \in Seq(DOMAIN header)
    /\ cursor \in Nat
    /\ code \in Codes

(***************************************************************************)
(* validate_storage accepts a header exactly when its tensors tile the     *)
(* payload: soundness, and also completeness, since sorting by             *)
(* (begin, end, name) must never make the cursor meet an empty tensor too  *)
(* late and refuse a layout that has no hole and no overlap.               *)
(***************************************************************************)
AcceptsExactlyTilings ==
    /\ phase = "accepted" => ValidLayout
    /\ phase = "rejected" => ~ValidLayout

(***************************************************************************)
(* The error code names a defect the header as a whole really has, though  *)
(* the walk only compared one tensor with a cursor: a gap is a byte no     *)
(* tensor covers; an overlap a tensor that begins inside another one and   *)
(* interleaves with it, unless its own offsets are reversed; a payload     *)
(* mismatch an uncovered byte or a tensor past the end of the file.        *)
(***************************************************************************)
DiagnosisTrue ==
    /\ code = "layout_gap" =>
         \E t \in DOMAIN header : \E b \in 0 .. header[t].begin - 1 : ~Covered(b)
    /\ code = "layout_overlap" =>
         \E t, u \in DOMAIN header :
            /\ t # u
            /\ header[u].begin <= header[t].begin
            /\ header[t].begin < header[u].end
            /\ Disjoint(t, u) => header[t].end < header[t].begin
    /\ code = "payload_size_mismatch" =>
         \/ \E b \in 0 .. dataSize - 1 : ~Covered(b)
         \/ \E t \in DOMAIN header : header[t].end > dataSize

(***************************************************************************)
(* Whatever the walk accepts, the manifest constructor accepts too: its    *)
(* second sort and its second cursor never raise a ValueError on the       *)
(* parser's own output.                                                    *)
(***************************************************************************)
ManifestNeverRefuses == phase # "ctor_error"

(***************************************************************************)
(* The walk's own invariant, which carries the three properties above.     *)
(* The tensors placed so far tile the bytes before the cursor ...          *)
(***************************************************************************)
PlacedTileCursor ==
    /\ HoleFree
    /\ cursor = EndBefore(Len(placed) + 1)
    /\ \A t \in Placed : RebuildAccepts(t) /\ header[t].end <= cursor
    /\ \A t, u \in Placed : t # u => Disjoint(t, u)
    /\ \A b \in 0 .. cursor - 1 :
         \E t \in Placed : header[t].begin <= b /\ b < header[t].end

\* ... they were met in storage order, before every tensor still to come ...
PlacedFirst ==
    /\ Canonical
    /\ \A t \in Placed, u \in todo : t # u /\ KeyLeq(t, u)

\* ... and no tensor is skipped, or reaches the walk without a known dtype.
NoneSkipped ==
    /\ phase = "dtypes" =>
         /\ placed = <<>>
         /\ \A t \in DOMAIN header \ todo : Registered(t)
    /\ phase = "layout" =>
         /\ DOMAIN header = Placed \cup todo
         /\ \A t \in DOMAIN header : Registered(t)

(***************************************************************************)
(* At every step of the walk, the three together.                          *)
(***************************************************************************)
WalkInv == PlacedTileCursor /\ PlacedFirst /\ NoneSkipped

-----------------------------------------------------------------------------
(***************************************************************************)
(* What a tensor takes in exact arithmetic: the products of the prefixes   *)
(* of its shape, unbounded, and the bits of all its elements.              *)
(***************************************************************************)
PrefixProducts(shape) ==
    LET product[i \in 0 .. Len(shape)] ==
          IF i = 0 THEN 1 ELSE product[i-1] * shape[i]
    IN  product

ExactBits(t) ==
    PrefixProducts(header[t].shape)[Len(header[t].shape)] * Bits[header[t].dtype]

\* A product so far, or the bits, beyond what 64 bits hold.
TooLarge(t) ==
    \/ \E i \in DOMAIN header[t].shape : PrefixProducts(header[t].shape)[i] > U64Max
    \/ ExactBits(t) > U64Max

Span(t) == header[t].end - header[t].begin

(***************************************************************************)
(* _checked_tensor_size, in bounded arithmetic, is exact: a tensor is      *)
(* placed only with the bytes its elements take, a size is refused as too  *)
(* large exactly when a product on the way or the bits are, even before a  *)
(* zero dimension, and as misaligned or mismatched only when it is.        *)
(***************************************************************************)
SizeIsExact ==
    /\ \A t \in Placed : ~TooLarge(t) /\ 8 * Span(t) = ExactBits(t)
    /\ code = "size_overflow" => \E t \in todo : TooLarge(t)
    /\ code = "byte_misaligned" => \E t \in todo : ~TooLarge(t) /\ ExactBits(t) % 8 # 0
    /\ code = "size_mismatch" =>
         \E t \in todo : ~TooLarge(t) /\ ExactBits(t) % 8 = 0 /\ 8 * Span(t) # ExactBits(t)

-----------------------------------------------------------------------------
(***************************************************************************)
(* Refinement: the whole call is one decision of the abstract              *)
(* specification, taken when it returns or raises.                         *)
(***************************************************************************)
Verdict == IF phase \in {"accepted", "rejected"} THEN phase ELSE "pending"

Tiling == INSTANCE PayloadTiling WITH verdict <- Verdict

ImplementsTiling == Tiling!Spec
=============================================================================
