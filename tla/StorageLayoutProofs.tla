------------------------ MODULE StorageLayoutProofs ------------------------
(***************************************************************************)
(* Proofs about validate_storage, for every finite or infinite choice of   *)
(* names, dtypes, shapes, offsets and payload sizes.  The walk is proved   *)
(* without expanding CheckedSize, so that its argument holds for any size  *)
(* function; the last part proves that CheckedSize is exact arithmetic for *)
(* a shape of any length.                                                  *)
(***************************************************************************)
EXTENDS StorageLayout, WellFoundedInduction, TLAPS

(***************************************************************************)
(* What membership of a decoded header says about one of its tensors.      *)
(***************************************************************************)
LEMMA HeaderFields ==
  ASSUME header \in Headers, NEW t \in DOMAIN header
  PROVE  /\ t \in Name
         /\ t \in Nat
         /\ header[t].begin \in Nat
         /\ header[t].end \in Nat
<1>1. PICK S \in SUBSET Name : header \in [S -> TensorHeader]
  BY DEF Headers
<1>2. t \in Name /\ header[t] \in TensorHeader
  BY <1>1
<1> QED
  BY <1>2, NameAssumption, OffsetAssumption DEF TensorHeader

(***************************************************************************)
(* The layout step that keeps `placed` growing adds exactly one name.      *)
(***************************************************************************)
LEMMA PlacedGrows ==
  ASSUME NEW t \in DOMAIN header, placed \in Seq(DOMAIN header), PlaceTensor(t)
  PROVE  /\ Len(placed') = Len(placed) + 1
         /\ placed'[Len(placed')] = t
         /\ \A i \in DOMAIN placed : i \in DOMAIN placed' /\ placed'[i] = placed[i]
         /\ Placed' = Placed \cup {t}
<1>1. placed' = Append(placed, t)
  BY DEF PlaceTensor
<1>2. /\ Len(placed') = Len(placed) + 1
      /\ placed'[Len(placed')] = t
      /\ \A i \in 1 .. Len(placed) : placed'[i] = placed[i]
      /\ DOMAIN placed = 1 .. Len(placed)
      /\ DOMAIN placed' = 1 .. Len(placed) + 1
      /\ Len(placed) \in Nat
  BY <1>1
<1>3. Placed' = Placed \cup {t}
  BY <1>2 DEF Placed
<1> QED
  BY <1>2, <1>3

LEMMA TypeStart == Init => TypeOK
BY DEF Init, TypeOK, Phases, Codes

LEMMA TypeStep ==
  ASSUME TypeOK, [Next]_vars
  PROVE  TypeOK'
<1> USE DEF TypeOK
<1>1. ASSUME NEW t \in Name, DtypeStep(t) PROVE TypeOK'
  BY <1>1 DEF DtypeStep, RecogniseDtype, InvalidDtype, NextByName, Reject,
              Phases, Codes
<1>2. ASSUME NEW t \in Name, PlaceTensor(t) PROVE TypeOK'
  <2>1. t \in DOMAIN header
    BY <1>2 DEF PlaceTensor, Sized, InOrder, Aligned, NextByKey
  <2>2. header[t].end \in Nat
    BY <2>1, HeaderFields
  <2> QED
    BY <1>2, <2>1, <2>2 DEF PlaceTensor
<1>3. ASSUME NEW c \in Codes, Reject(c) PROVE TypeOK'
  BY <1>3 DEF Reject, Phases
<1>4. ASSUME NEW t \in Name, LayoutStep(t) PROVE TypeOK'
  BY <1>2, <1>3, <1>4 DEF LayoutStep, LayoutGap, LayoutOverlap,
     OffsetsReversed, SizeOverflow, ByteMisaligned, SizeMismatch, Codes
<1>5. CASE StartLayout
  BY <1>5 DEF StartLayout, Phases
<1>6. CASE PayloadSizeMismatch
  BY <1>3, <1>6 DEF PayloadSizeMismatch, Codes
<1>7. CASE BuildManifest
  BY <1>7 DEF BuildManifest, Phases
<1>8. CASE UNCHANGED vars
  BY <1>8 DEF vars
<1> QED
  BY <1>1, <1>4, <1>5, <1>6, <1>7, <1>8 DEF Next

(***************************************************************************)
(* The type invariant: StorageLayout keeps every variable in its set.      *)
(***************************************************************************)
THEOREM TypeCorrect == Spec => []TypeOK
<1>1. TypeOK /\ [Next]_vars => TypeOK'
  BY TypeStep
<1> QED
  BY TypeStart, <1>1, PTL DEF Spec

-----------------------------------------------------------------------------
(***************************************************************************)
(* The state functions of the walk do not depend on phase and code, so a   *)
(* step that ends the call keeps WalkInv.                                  *)
(***************************************************************************)
LEMMA EndKeepsWalk ==
  ASSUME WalkInv, UNCHANGED <<header, dataSize, todo, placed, cursor>>,
         phase' \notin {"dtypes", "layout"}
  PROVE  WalkInv'
  BY DEF WalkInv, PlacedTileCursor, PlacedFirst, NoneSkipped, HoleFree,
     EndBefore, Placed, RebuildAccepts, SizeOf, Disjoint, Canonical, KeyLeq

(***************************************************************************)
(* Placing the next tensor keeps the tiling: it starts at the cursor,      *)
(* after every tensor placed before it, and its own bytes are the new ones.*)
(***************************************************************************)
LEMMA PlaceKeepsTiling ==
  ASSUME TypeOK, WalkInv, NEW t \in Name, PlaceTensor(t)
  PROVE  PlacedTileCursor'
<1>1. /\ t \in DOMAIN header
      /\ header' = header
      /\ cursor' = header[t].end
      /\ header[t].begin = cursor
      /\ header[t].begin <= header[t].end
      /\ header[t].end - header[t].begin = SizeOf(t)
  BY DEF PlaceTensor, Sized, InOrder, Aligned, NextByKey, TypeOK
<1>2. placed \in Seq(DOMAIN header) /\ cursor \in Nat
  BY DEF TypeOK
<1>3. \A u \in DOMAIN header : header[u].begin \in Nat /\ header[u].end \in Nat
  BY HeaderFields DEF TypeOK
<1>4. /\ Len(placed') = Len(placed) + 1
      /\ placed'[Len(placed')] = t
      /\ \A i \in DOMAIN placed : i \in DOMAIN placed' /\ placed'[i] = placed[i]
      /\ Placed' = Placed \cup {t}
  BY <1>1, <1>2, PlacedGrows
<1>5. placed' \in Seq(DOMAIN header)
  BY <1>1, <1>2 DEF PlaceTensor
<1>6. DOMAIN placed = 1 .. Len(placed) /\ DOMAIN placed' = 1 .. Len(placed) + 1
  BY <1>2, <1>4, <1>5
<1>7. Placed \subseteq DOMAIN header
  BY <1>2 DEF Placed
<1>8. HoleFree'
  <2> SUFFICES ASSUME NEW i \in DOMAIN placed'
               PROVE  header[placed'[i]].begin
                        = IF i = 1 THEN 0 ELSE header[placed'[i-1]].end
    BY <1>1 DEF HoleFree, EndBefore
  <2>1. CASE i \in DOMAIN placed
    <3>1. i = 1 \/ i - 1 \in DOMAIN placed
      BY <1>2, <1>6, <2>1
    <3> QED
      BY <1>4, <2>1, <3>1 DEF WalkInv, PlacedTileCursor, HoleFree, EndBefore
  <2>2. CASE i = Len(placed) + 1
    <3>1. placed'[i] = t
      BY <1>4, <2>2
    <3>2. i = 1 \/ (i - 1 \in DOMAIN placed /\ placed'[i-1] = placed[i-1])
      BY <1>2, <1>4, <1>6, <2>2
    <3> QED
      BY <1>1, <2>2, <3>1, <3>2 DEF WalkInv, PlacedTileCursor, EndBefore
  <2> QED
    BY <1>2, <1>6, <2>1, <2>2
<1>9. cursor' = EndBefore(Len(placed) + 1)'
  <2>1. Len(placed)' + 1 # 1 /\ (Len(placed)' + 1) - 1 = Len(placed')
    BY <1>2, <1>4
  <2> QED
    BY <1>1, <1>4, <2>1 DEF EndBefore
<1>10. \A u \in Placed' : RebuildAccepts(u)' /\ header[u].end <= cursor'
  <2> SUFFICES ASSUME NEW u \in Placed'
               PROVE  RebuildAccepts(u)' /\ header[u].end <= cursor'
    OBVIOUS
  <2>1. CASE u \in Placed
    BY <1>1, <1>2, <1>3, <1>7, <2>1
       DEF WalkInv, PlacedTileCursor, RebuildAccepts, SizeOf
  <2>2. CASE u = t
    BY <1>1, <1>3, <2>2 DEF RebuildAccepts, SizeOf
  <2> QED
    BY <1>4, <2>1, <2>2
<1>11. \A u, v \in Placed' : u # v => Disjoint(u, v)'
  BY <1>1, <1>4 DEF WalkInv, PlacedTileCursor, Disjoint
<1>12. \A b \in 0 .. cursor' - 1 :
         \E u \in Placed' : header[u].begin <= b /\ b < header[u].end
  <2> SUFFICES ASSUME NEW b \in 0 .. cursor' - 1
               PROVE  \E u \in Placed' : header[u].begin <= b /\ b < header[u].end
    OBVIOUS
  <2>1. CASE b < cursor
    <3>1. b \in 0 .. cursor - 1
      BY <1>2, <2>1
    <3> QED
      BY <1>4, <3>1 DEF WalkInv, PlacedTileCursor
  <2>2. CASE b >= cursor
    BY <1>1, <1>3, <1>4, <2>2
  <2> QED
    BY <1>1, <1>2, <1>3, <2>1, <2>2
<1> QED
  BY <1>1, <1>8, <1>9, <1>10, <1>11, <1>12 DEF PlacedTileCursor

(***************************************************************************)
(* Placing the least remaining tensor keeps the storage order, so the      *)
(* constructor's sort finds nothing to move.                               *)
(***************************************************************************)
LEMMA PlaceKeepsOrder ==
  ASSUME TypeOK, WalkInv, NEW t \in Name, PlaceTensor(t)
  PROVE  PlacedFirst' /\ NoneSkipped'
<1>1. /\ t \in DOMAIN header /\ t \in todo
      /\ header' = header
      /\ todo' = todo \ {t}
      /\ phase = "layout" /\ phase' = "layout"
      /\ \A u \in todo : KeyLeq(t, u)
  BY DEF PlaceTensor, Sized, InOrder, Aligned, NextByKey, TypeOK
<1>2. placed \in Seq(DOMAIN header)
  BY DEF TypeOK
<1>3. /\ Len(placed') = Len(placed) + 1
      /\ placed'[Len(placed')] = t
      /\ \A i \in DOMAIN placed : i \in DOMAIN placed' /\ placed'[i] = placed[i]
      /\ Placed' = Placed \cup {t}
  BY <1>1, <1>2, PlacedGrows
<1>4. \A u, v : KeyLeq(u, v)' = KeyLeq(u, v)
  BY <1>1 DEF KeyLeq
<1>5. /\ placed' \in Seq(DOMAIN header)
      /\ DOMAIN placed = 1 .. Len(placed)
      /\ DOMAIN placed' = 1 .. Len(placed) + 1
  BY <1>1, <1>2, <1>3 DEF PlaceTensor
<1>6. Canonical'
  <2> SUFFICES ASSUME NEW i \in DOMAIN placed', NEW j \in DOMAIN placed', i < j
               PROVE  KeyLeq(placed'[i], placed'[j])
    BY <1>4 DEF Canonical
  <2>1. i \in DOMAIN placed /\ placed'[i] = placed[i] /\ placed[i] \in Placed
    BY <1>2, <1>3, <1>5 DEF Placed
  <2>2. CASE j \in DOMAIN placed
    BY <1>3, <2>1, <2>2 DEF WalkInv, PlacedFirst, Canonical
  <2>3. CASE j = Len(placed) + 1
    BY <1>1, <1>3, <2>1, <2>3 DEF WalkInv, PlacedFirst
  <2> QED
    BY <1>2, <1>5, <2>2, <2>3
<1>7. \A u \in Placed', v \in todo' : u # v /\ KeyLeq(u, v)'
  BY <1>1, <1>3, <1>4 DEF WalkInv, PlacedFirst
<1>8. NoneSkipped'
  BY <1>1, <1>3 DEF WalkInv, NoneSkipped, Registered
<1> QED
  BY <1>6, <1>7, <1>8 DEF PlacedFirst

(***************************************************************************)
(* WalkInv is inductive relative to TypeOK.                                *)
(***************************************************************************)
LEMMA WalkInit == Init => WalkInv
<1> SUFFICES ASSUME Init PROVE WalkInv
  OBVIOUS
<1>1. /\ placed = <<>> /\ Len(placed) = 0 /\ DOMAIN placed = {} /\ Placed = {}
      /\ cursor = 0 /\ phase = "dtypes" /\ todo = DOMAIN header
  BY DEF Init, Placed
<1> QED
  BY <1>1 DEF WalkInv, PlacedTileCursor, PlacedFirst, NoneSkipped, HoleFree,
     EndBefore, Canonical

LEMMA WalkStep ==
  ASSUME TypeOK, WalkInv, [Next]_vars
  PROVE  WalkInv'
<1> USE DEF Phases
<1>1. ASSUME NEW c, Reject(c) PROVE WalkInv'
  BY <1>1, EndKeepsWalk DEF Reject
<1>2. ASSUME NEW t \in Name, DtypeStep(t) PROVE WalkInv'
  <2>1. CASE RecogniseDtype(t)
    <3>1. /\ UNCHANGED <<header, dataSize, phase, placed, cursor>>
          /\ phase = "dtypes" /\ todo' = todo \ {t} /\ Registered(t)
      BY <2>1 DEF RecogniseDtype, NextByName
    <3>2. placed = <<>> /\ Placed = {} /\ Placed' = {}
      BY <3>1 DEF WalkInv, NoneSkipped, Placed
    <3>3. PlacedTileCursor'
      BY <3>1, <3>2 DEF WalkInv, PlacedTileCursor, HoleFree, EndBefore
    <3>4. PlacedFirst'
      BY <3>1, <3>2 DEF WalkInv, PlacedFirst, Canonical, KeyLeq
    <3>5. NoneSkipped'
      BY <3>1, <3>2 DEF WalkInv, NoneSkipped, Registered
    <3> QED
      BY <3>3, <3>4, <3>5 DEF WalkInv
  <2>2. CASE InvalidDtype(t)
    BY <1>1, <2>2 DEF InvalidDtype
  <2> QED
    BY <1>2, <2>1, <2>2 DEF DtypeStep
<1>3. ASSUME NEW t \in Name, LayoutStep(t) PROVE WalkInv'
  <2>1. CASE PlaceTensor(t)
    BY <2>1, PlaceKeepsTiling, PlaceKeepsOrder DEF WalkInv
  <2> QED
    BY <1>1, <1>3, <2>1 DEF LayoutStep, LayoutGap, LayoutOverlap,
       OffsetsReversed, SizeOverflow, ByteMisaligned, SizeMismatch
<1>4. CASE StartLayout
  <2>1. /\ UNCHANGED <<header, dataSize, placed, cursor>>
        /\ phase = "dtypes" /\ phase' = "layout"
        /\ todo = {} /\ todo' = DOMAIN header
    BY <1>4 DEF StartLayout
  <2>2. placed = <<>> /\ Placed = {} /\ Placed' = {}
    BY <2>1 DEF WalkInv, NoneSkipped, Placed
  <2>3. PlacedTileCursor'
    BY <2>1, <2>2 DEF WalkInv, PlacedTileCursor, HoleFree, EndBefore
  <2>4. PlacedFirst'
    BY <2>1, <2>2 DEF WalkInv, PlacedFirst, Canonical, KeyLeq
  <2>5. NoneSkipped'
    BY <2>1, <2>2 DEF WalkInv, NoneSkipped, Registered
  <2> QED
    BY <2>3, <2>4, <2>5 DEF WalkInv
<1>5. CASE PayloadSizeMismatch
  BY <1>1, <1>5 DEF PayloadSizeMismatch
<1>6. CASE BuildManifest
  BY <1>6, EndKeepsWalk DEF BuildManifest
<1>7. CASE UNCHANGED vars
  BY <1>7 DEF vars, WalkInv, PlacedTileCursor, PlacedFirst, NoneSkipped,
     HoleFree, EndBefore, Placed, RebuildAccepts, SizeOf, Disjoint, Canonical,
     KeyLeq, Registered
<1> QED
  BY <1>2, <1>3, <1>4, <1>5, <1>6, <1>7 DEF Next

(***************************************************************************)
(* WalkInv holds throughout every call.                                    *)
(***************************************************************************)
THEOREM WalkCorrect == Spec => []WalkInv
<1>1. TypeOK /\ WalkInv /\ [Next]_vars => WalkInv'
  BY WalkStep
<1> QED
  BY TypeCorrect, WalkInit, <1>1, PTL DEF Spec

-----------------------------------------------------------------------------
(***************************************************************************)
(* A tensor that begins after the cursor leaves the byte at the cursor     *)
(* without an owner: placed tensors end before it, and the others, being   *)
(* later in storage order, begin even later.                               *)
(***************************************************************************)
LEMMA GapIsUncovered ==
  ASSUME TypeOK, WalkInv, NEW t \in Name, LayoutGap(t)
  PROVE  /\ \E u \in DOMAIN header : \E b \in 0 .. header[u].begin - 1 : ~Covered(b)
         /\ ~ValidLayout
<1>1. /\ t \in DOMAIN header /\ t \in todo /\ phase = "layout"
      /\ cursor \in Nat /\ cursor < header[t].begin
      /\ \A u \in todo : KeyLeq(t, u)
      /\ dataSize \in Nat
  BY PayloadSizeAssumption DEF LayoutGap, NextByKey, TypeOK
<1>2. \A u \in DOMAIN header : header[u].begin \in Nat /\ header[u].end \in Nat
  BY HeaderFields DEF TypeOK
<1>3. ~Covered(cursor)
  <2> SUFFICES ASSUME NEW u \in DOMAIN header,
                      header[u].begin <= cursor, cursor < header[u].end
               PROVE  FALSE
    BY DEF Covered
  <2>1. CASE u \in Placed
    BY <1>1, <1>2, <2>1 DEF WalkInv, PlacedTileCursor
  <2>2. CASE u \in todo
    BY <1>1, <1>2, <2>2 DEF KeyLeq
  <2> QED
    BY <1>1, <2>1, <2>2 DEF WalkInv, NoneSkipped
<1>4. ASSUME ValidLayout PROVE FALSE
  <2>1. header[t].begin <= header[t].end /\ header[t].end <= dataSize
    BY <1>1, <1>4 DEF ValidLayout, SpanExact
  <2>2. cursor \in 0 .. dataSize - 1
    BY <1>1, <1>2, <2>1
  <2> QED
    BY <1>3, <1>4, <2>2 DEF ValidLayout
<1>5. cursor \in 0 .. header[t].begin - 1
  BY <1>1, <1>2
<1> QED
  BY <1>1, <1>3, <1>4, <1>5

(***************************************************************************)
(* A tensor that begins before the cursor begins inside a placed tensor;   *)
(* were it an empty tensor at the very beginning of that one, the end      *)
(* field of the sort key would have placed it first.                       *)
(***************************************************************************)
LEMMA OverlapIsReal ==
  ASSUME TypeOK, WalkInv, NEW t \in Name, LayoutOverlap(t)
  PROVE  /\ \E v, u \in DOMAIN header :
              /\ v # u
              /\ header[u].begin <= header[v].begin
              /\ header[v].begin < header[u].end
              /\ Disjoint(v, u) => header[v].end < header[v].begin
         /\ ~ValidLayout
<1>1. /\ t \in DOMAIN header /\ t \in todo
      /\ cursor \in Nat /\ header[t].begin < cursor
  BY DEF LayoutOverlap, NextByKey, TypeOK
<1>2. \A u \in DOMAIN header : header[u].begin \in Nat /\ header[u].end \in Nat
  BY HeaderFields DEF TypeOK
<1>3. header[t].begin \in 0 .. cursor - 1
  BY <1>1, <1>2
<1>4. PICK u \in Placed : header[u].begin <= header[t].begin
                          /\ header[t].begin < header[u].end
  BY <1>3 DEF WalkInv, PlacedTileCursor
<1>5. u \in DOMAIN header
  BY DEF Placed, TypeOK
<1>6. u # t /\ KeyLeq(u, t)
  BY <1>1 DEF WalkInv, PlacedFirst
<1>7. Disjoint(t, u) => header[t].end < header[t].begin
  BY <1>1, <1>2, <1>4, <1>5, <1>6 DEF Disjoint, KeyLeq
<1>8. ASSUME ValidLayout PROVE FALSE
  <2>1. Disjoint(t, u) /\ header[t].begin <= header[t].end
    BY <1>1, <1>5, <1>6, <1>8 DEF ValidLayout, SpanExact
  <2> QED
    BY <1>1, <1>2, <1>5, <1>7, <2>1
<1> QED
  BY <1>1, <1>4, <1>5, <1>6, <1>7, <1>8

(***************************************************************************)
(* When every tensor is placed and the cursor is not the payload size, a   *)
(* byte after the cursor has no owner or the last tensor leaves the file.  *)
(***************************************************************************)
LEMMA PayloadMismatchIsReal ==
  ASSUME TypeOK, WalkInv, PayloadSizeMismatch
  PROVE  /\ \/ \E b \in 0 .. dataSize - 1 : ~Covered(b)
            \/ \E t \in DOMAIN header : header[t].end > dataSize
         /\ ~ValidLayout
<1>1. /\ phase = "layout" /\ todo = {}
      /\ cursor \in Nat /\ dataSize \in Nat /\ cursor # dataSize
      /\ DOMAIN header = Placed
  BY PayloadSizeAssumption
     DEF PayloadSizeMismatch, WalkDone, TypeOK, WalkInv, NoneSkipped
<1>2. \A u \in DOMAIN header : header[u].begin \in Nat /\ header[u].end \in Nat
  BY HeaderFields DEF TypeOK
<1>3. CASE cursor < dataSize
  <2>1. ~Covered(cursor)
    BY <1>1, <1>2 DEF Covered, WalkInv, PlacedTileCursor
  <2>2. cursor \in 0 .. dataSize - 1
    BY <1>1, <1>3
  <2> QED
    BY <2>1, <2>2 DEF ValidLayout
<1>4. CASE cursor > dataSize
  <2>1. PICK t \in DOMAIN header : header[t].end = cursor
    <3>1. cursor = EndBefore(Len(placed) + 1)
      BY DEF WalkInv, PlacedTileCursor
    <3>2. placed \in Seq(DOMAIN header) /\ Len(placed) \in Nat
      BY DEF TypeOK
    <3>3. Len(placed) + 1 # 1 /\ cursor = header[placed[Len(placed)]].end
      BY <1>1, <1>4, <3>1, <3>2 DEF EndBefore
    <3> QED
      BY <3>2, <3>3
  <2> QED
    BY <1>1, <1>2, <1>4, <2>1 DEF ValidLayout, SpanExact
<1> QED
  BY <1>1, <1>3, <1>4

(***************************************************************************)
(* When the cursor reaches the payload size the header is a tiling, and    *)
(* the manifest constructor agrees.                                        *)
(***************************************************************************)
LEMMA BuiltIsValid ==
  ASSUME TypeOK, WalkInv, BuildManifest
  PROVE  ValidLayout /\ ManifestAccepts
<1>1. /\ phase = "layout" /\ todo = {} /\ cursor = dataSize
      /\ DOMAIN header = Placed
      /\ \A t \in DOMAIN header : Registered(t)
  BY DEF BuildManifest, WalkDone, WalkInv, NoneSkipped
<1>2. ValidLayout
  BY <1>1 DEF WalkInv, PlacedTileCursor, RebuildAccepts, SizeOf, ValidLayout,
              SpanExact, Covered
<1>3. ManifestAccepts
  <2>1. \A i \in DOMAIN placed : placed[i] \in Placed
    BY DEF Placed
  <2> QED
    BY <1>1, <2>1 DEF ManifestAccepts, CoversPayload, WalkInv, PlacedTileCursor,
                      PlacedFirst
<1> QED
  BY <1>2, <1>3

-----------------------------------------------------------------------------
\* The header is fixed for the whole call.
LEMMA InputFixed ==
  ASSUME [Next]_vars
  PROVE  header' = header /\ dataSize' = dataSize
  BY DEF Next, vars, DtypeStep, RecogniseDtype, InvalidDtype, LayoutStep,
     LayoutGap, LayoutOverlap, OffsetsReversed, SizeOverflow, ByteMisaligned,
     SizeMismatch, PlaceTensor, StartLayout, PayloadSizeMismatch,
     BuildManifest, Reject

(***************************************************************************)
(* Every step that raises an error does so on a header that is no tiling.  *)
(***************************************************************************)
LEMMA RejectsOnlyInvalid ==
  ASSUME TypeOK, WalkInv, Next, phase' = "rejected"
  PROVE  ~ValidLayout
<1>1. \A u \in DOMAIN header : header[u].begin \in Nat /\ header[u].end \in Nat
  BY HeaderFields DEF TypeOK
<1>2. todo \subseteq DOMAIN header
  BY DEF TypeOK
<1>3. ASSUME NEW t \in Name, DtypeStep(t) PROVE ~ValidLayout
  BY <1>2, <1>3 DEF DtypeStep, RecogniseDtype, InvalidDtype, NextByName,
                    ValidLayout
<1>4. ASSUME NEW t \in Name, LayoutStep(t) PROVE ~ValidLayout
  <2>1. CASE LayoutGap(t)
    BY <2>1, GapIsUncovered
  <2>2. CASE LayoutOverlap(t)
    BY <2>2, OverlapIsReal
  <2>3. ASSUME InOrder(t),
               header[t].end < header[t].begin
                 \/ SizeOf(t) \in {Overflow, Misaligned}
                 \/ header[t].end - header[t].begin # SizeOf(t)
        PROVE  ~ValidLayout
    BY <1>1, <1>2, <2>3 DEF InOrder, Aligned, NextByKey, ValidLayout, SpanExact,
                            SizeOf, Overflow, Misaligned
  <2>4. CASE OffsetsReversed(t)
    BY <1>1, <1>2, <2>4 DEF OffsetsReversed, Aligned, NextByKey, ValidLayout,
                            SpanExact
  <2>5. CASE PlaceTensor(t)
    BY <2>5 DEF PlaceTensor, Sized, InOrder, Aligned, NextByKey
  <2> QED
    BY <1>4, <2>1, <2>2, <2>3, <2>4, <2>5
       DEF LayoutStep, SizeOverflow, ByteMisaligned, SizeMismatch, Sized
<1>5. CASE StartLayout
  BY <1>5 DEF StartLayout
<1>6. CASE PayloadSizeMismatch
  BY <1>6, PayloadMismatchIsReal
<1>7. CASE BuildManifest
  BY <1>7 DEF BuildManifest
<1> QED
  BY <1>3, <1>4, <1>5, <1>6, <1>7 DEF Next

(***************************************************************************)
(* A call accepts only through BuildManifest, which never falls into the   *)
(* constructor's own refusals.                                             *)
(***************************************************************************)
LEMMA AcceptsOnlyValid ==
  ASSUME TypeOK, WalkInv, Next, phase' \in {"accepted", "ctor_error"}
  PROVE  phase' = "accepted" /\ ValidLayout
<1>1. CASE BuildManifest
  BY <1>1, BuiltIsValid DEF BuildManifest
<1>2. CASE ~BuildManifest
  BY <1>2 DEF Next, DtypeStep, RecogniseDtype, InvalidDtype, NextByName,
     LayoutStep, LayoutGap, LayoutOverlap, OffsetsReversed, SizeOverflow,
     ByteMisaligned, SizeMismatch, PlaceTensor, Sized, InOrder, Aligned,
     NextByKey, StartLayout, PayloadSizeMismatch, Reject
<1> QED
  BY <1>1, <1>2

(***************************************************************************)
(* A code that a step does not keep is the code of the error it raises.    *)
(***************************************************************************)
LEMMA CodeTrue ==
  ASSUME TypeOK, WalkInv, DiagnosisTrue, Next
  PROVE  DiagnosisTrue'
<1>1. header' = header /\ dataSize' = dataSize
  BY InputFixed
<1>2. ASSUME code' \notin {"layout_gap", "layout_overlap", "payload_size_mismatch"}
      PROVE  DiagnosisTrue'
  BY <1>2 DEF DiagnosisTrue
<1>3. CASE code' = code
  BY <1>1, <1>3 DEF DiagnosisTrue, Covered, Disjoint
<1>4. ASSUME NEW t \in Name, LayoutGap(t) PROVE DiagnosisTrue'
  BY <1>1, <1>4, GapIsUncovered DEF LayoutGap, Reject, DiagnosisTrue, Covered
<1>5. ASSUME NEW t \in Name, LayoutOverlap(t) PROVE DiagnosisTrue'
  BY <1>1, <1>5, OverlapIsReal
     DEF LayoutOverlap, Reject, DiagnosisTrue, Disjoint
<1>6. CASE PayloadSizeMismatch
  BY <1>1, <1>6, PayloadMismatchIsReal
     DEF PayloadSizeMismatch, Reject, DiagnosisTrue, Covered
<1> QED
  BY <1>2, <1>3, <1>4, <1>5, <1>6
     DEF Next, DtypeStep, RecogniseDtype, InvalidDtype, LayoutStep,
     OffsetsReversed, SizeOverflow, ByteMisaligned, SizeMismatch, PlaceTensor,
     StartLayout, BuildManifest, Reject

LEMMA AcceptsStep ==
  ASSUME TypeOK, WalkInv, AcceptsExactlyTilings, [Next]_vars
  PROVE  AcceptsExactlyTilings'
<1>1. ValidLayout' = ValidLayout
  BY InputFixed DEF ValidLayout, Registered, SpanExact, Disjoint, Covered
<1>2. CASE Next
  BY <1>1, <1>2, RejectsOnlyInvalid, AcceptsOnlyValid DEF AcceptsExactlyTilings
<1>3. CASE UNCHANGED vars
  BY <1>1, <1>3 DEF vars, AcceptsExactlyTilings
<1> QED
  BY <1>2, <1>3

(***************************************************************************)
(* validate_storage accepts exactly the headers whose tensors tile the     *)
(* payload.                                                                *)
(***************************************************************************)
THEOREM AcceptsTilings == Spec => []AcceptsExactlyTilings
<1>1. Init => AcceptsExactlyTilings
  BY DEF Init, AcceptsExactlyTilings
<1>2. TypeOK /\ WalkInv /\ AcceptsExactlyTilings /\ [Next]_vars
        => AcceptsExactlyTilings'
  BY AcceptsStep
<1> QED
  BY TypeCorrect, WalkCorrect, <1>1, <1>2, PTL DEF Spec

(***************************************************************************)
(* The code of a layout error names a defect of the whole header.          *)
(***************************************************************************)
THEOREM DiagnosesTruly == Spec => []DiagnosisTrue
<1>1. Init => DiagnosisTrue
  BY DEF Init, DiagnosisTrue
<1>2. TypeOK /\ WalkInv /\ DiagnosisTrue /\ [Next]_vars => DiagnosisTrue'
  BY CodeTrue DEF vars, DiagnosisTrue, Covered, Disjoint
<1> QED
  BY TypeCorrect, WalkCorrect, <1>1, <1>2, PTL DEF Spec

LEMMA BuildsStep ==
  ASSUME TypeOK, WalkInv, ManifestNeverRefuses, [Next]_vars
  PROVE  ManifestNeverRefuses'
BY AcceptsOnlyValid DEF vars, ManifestNeverRefuses

(***************************************************************************)
(* The manifest constructor never refuses what the walk accepted.          *)
(***************************************************************************)
THEOREM ManifestBuilds == Spec => []ManifestNeverRefuses
<1>1. Init => ManifestNeverRefuses
  BY DEF Init, ManifestNeverRefuses
<1>2. TypeOK /\ WalkInv /\ ManifestNeverRefuses /\ [Next]_vars
        => ManifestNeverRefuses'
  BY BuildsStep
<1> QED
  BY TypeCorrect, WalkCorrect, <1>1, <1>2, PTL DEF Spec

(***************************************************************************)
(* `manifests` never holds a tensor twice, and holds every tensor of the   *)
(* header when the call accepts.                                           *)
(***************************************************************************)
PlacedOnce ==
    /\ \A i, j \in DOMAIN placed : placed[i] = placed[j] => i = j
    /\ phase = "accepted" => Placed = DOMAIN header

LEMMA OnceStart == Init => PlacedOnce
BY DEF Init, PlacedOnce

LEMMA OnceStep ==
  ASSUME TypeOK, WalkInv, PlacedOnce, [Next]_vars
  PROVE  PlacedOnce'
<1>1. header' = header
  BY InputFixed
<1>2. ASSUME NEW t \in Name, PlaceTensor(t) PROVE PlacedOnce'
  <2>1. t \in todo /\ t \in DOMAIN header /\ phase' = "layout"
    BY <1>2 DEF PlaceTensor, Sized, InOrder, Aligned, NextByKey, TypeOK
  <2>2. /\ placed \in Seq(DOMAIN header) /\ placed' = Append(placed, t)
        /\ Len(placed') = Len(placed) + 1
        /\ placed'[Len(placed')] = t
        /\ \A i \in DOMAIN placed : placed'[i] = placed[i]
    BY <1>2, <2>1, PlacedGrows DEF TypeOK, PlaceTensor
  <2>3. /\ DOMAIN placed' = 1 .. Len(placed) + 1 /\ DOMAIN placed = 1 .. Len(placed)
        /\ Len(placed) \in Nat
    BY <2>2
  <2>4. \A i \in DOMAIN placed : placed[i] # t
    BY <2>1 DEF WalkInv, PlacedFirst, Placed
  <2>5. \A i \in DOMAIN placed' : i \in DOMAIN placed \/ i = Len(placed')
    BY <2>2, <2>3
  <2> QED
    BY <2>1, <2>2, <2>4, <2>5 DEF PlacedOnce
<1>3. CASE BuildManifest
  <2>1. UNCHANGED <<header, placed>> /\ Placed = DOMAIN header
    BY <1>3 DEF BuildManifest, WalkDone, WalkInv, NoneSkipped
  <2> QED
    BY <2>1 DEF PlacedOnce, Placed
<1>4. ASSUME UNCHANGED placed, phase' = "accepted" => phase = "accepted"
      PROVE  PlacedOnce'
  BY <1>1, <1>4 DEF PlacedOnce, Placed
<1> QED
  BY <1>2, <1>3, <1>4
     DEF Next, vars, DtypeStep, RecogniseDtype, InvalidDtype, LayoutStep, LayoutGap,
     LayoutOverlap, OffsetsReversed, SizeOverflow, ByteMisaligned, SizeMismatch, StartLayout,
     PayloadSizeMismatch, Reject

(***************************************************************************)
(* For every header and payload, an accepted manifest holds each tensor of *)
(* the header exactly once.                                                *)
(***************************************************************************)
THEOREM PlacesEachOnce == Spec => []PlacedOnce
<1>1. TypeOK /\ WalkInv /\ PlacedOnce /\ [Next]_vars => PlacedOnce'
  BY OnceStep
<1> QED
  BY TypeCorrect, WalkCorrect, OnceStart, <1>1, PTL DEF Spec

(***************************************************************************)
(* Refinement: every step of the walk is a stutter of the abstract         *)
(* specification, except the last, which is its one decision.              *)
(***************************************************************************)
THEOREM RefinesTiling == Spec => Tiling!Init /\ [][Tiling!Decide]_(Tiling!vars)
<1>1. Init => Tiling!Init
  BY DEF Init, Tiling!Init, Verdict, Headers, Tiling!Headers, TensorHeader,
         Tiling!TensorHeader
<1>2. TypeOK /\ WalkInv /\ ManifestNeverRefuses /\ [Next]_vars
        => [Tiling!Decide]_(Tiling!vars)
  <2> SUFFICES ASSUME TypeOK, WalkInv, ManifestNeverRefuses, [Next]_vars
               PROVE  [Tiling!Decide]_(Tiling!vars)
    OBVIOUS
  <2>1. header' = header /\ dataSize' = dataSize
    BY InputFixed
  <2>2. Tiling!ValidLayout <=> ValidLayout
    BY DEF Tiling!ValidLayout, ValidLayout, Tiling!Registered, Registered,
       Tiling!SpanExact, SpanExact, Tiling!Disjoint, Disjoint, Tiling!Covered,
       Covered, Tiling!CheckedSize, CheckedSize, Tiling!ElementCount,
       ElementCount, Tiling!ProductOverflows, ProductOverflows,
       Tiling!Overflow, Overflow, Tiling!Misaligned, Misaligned
  <2>3. CASE Next /\ phase' \in {"accepted", "rejected"}
    <3>1. phase \in {"dtypes", "layout"}
      BY <2>3 DEF Next, DtypeStep, RecogniseDtype, InvalidDtype, NextByName,
         LayoutStep, LayoutGap, LayoutOverlap, OffsetsReversed, SizeOverflow,
         ByteMisaligned, SizeMismatch, PlaceTensor, Sized, InOrder, Aligned,
         NextByKey, StartLayout, PayloadSizeMismatch, BuildManifest, WalkDone
    <3>2. phase' = IF ValidLayout THEN "accepted" ELSE "rejected"
      BY <2>3, RejectsOnlyInvalid, AcceptsOnlyValid
    <3> QED
      BY <2>1, <2>2, <2>3, <3>1, <3>2 DEF Tiling!Decide, Verdict
  <2>4. CASE Next /\ phase' \notin {"accepted", "rejected"}
    <3>1. phase \in {"dtypes", "layout"}
      BY <2>4 DEF Next, DtypeStep, RecogniseDtype, InvalidDtype, NextByName,
         LayoutStep, LayoutGap, LayoutOverlap, OffsetsReversed, SizeOverflow,
         ByteMisaligned, SizeMismatch, PlaceTensor, Sized, InOrder, Aligned,
         NextByKey, StartLayout, PayloadSizeMismatch, BuildManifest, WalkDone
    <3> QED
      BY <2>1, <2>4, <3>1 DEF Tiling!vars, Verdict
  <2>5. CASE UNCHANGED vars
    BY <2>1, <2>5 DEF vars, Tiling!vars, Verdict
  <2> QED
    BY <2>3, <2>4, <2>5
<1> QED
  BY TypeCorrect, WalkCorrect, ManifestBuilds, <1>1, <1>2, PTL DEF Spec

-----------------------------------------------------------------------------
(***************************************************************************)
(* Natural division: q is the quotient exactly when q * d is the largest   *)
(* multiple of d not above n.                                              *)
(***************************************************************************)
LEMMA QuotientBounds ==
  ASSUME NEW n \in Nat, NEW d \in Nat \ {0}
  PROVE  /\ n \div d \in Nat
         /\ (n \div d) * d <= n
         /\ n < (n \div d) * d + d
  OBVIOUS

LEMMA ProductMonotone ==
  ASSUME NEW a \in Nat, NEW b \in Nat, NEW d \in Nat, a <= b
  PROVE  a * d <= b * d
  OBVIOUS

(***************************************************************************)
(* The guard refuses a multiplication exactly when its product would not   *)
(* fit: it lets no oversized product through and refuses none that fits.   *)
(***************************************************************************)
THEOREM GuardExact ==
  ASSUME NEW elements \in Nat, NEW factor \in Nat
  PROVE  ProductOverflows(elements, factor) <=> elements * factor > U64Max
<1> DEFINE q == U64Max \div factor
<1>1. U64Max \in Nat
  BY U64MaxAssumption
<1>2. CASE factor = 0
  BY <1>1, <1>2 DEF ProductOverflows
<1>3. CASE factor # 0
  <2>1. q \in Nat /\ q * factor <= U64Max /\ U64Max < q * factor + factor
    BY <1>1, <1>3, QuotientBounds
  <2>2. CASE elements > q
    <3>1. (q + 1) * factor <= elements * factor
      BY <2>1, <2>2, ProductMonotone
    <3>2. (q + 1) * factor = q * factor + factor
      BY <2>1
    <3>3. elements * factor \in Nat /\ q * factor \in Nat
      BY <2>1
    <3> QED
      BY <1>1, <1>3, <2>1, <2>2, <3>1, <3>2, <3>3 DEF ProductOverflows
  <2>3. CASE elements <= q
    <3>1. elements * factor <= q * factor
      BY <2>1, <2>3, ProductMonotone
    <3>2. elements * factor \in Nat /\ q * factor \in Nat
      BY <2>1
    <3> QED
      BY <1>1, <1>3, <2>1, <2>3, <3>1, <3>2 DEF ProductOverflows
  <2> QED
    BY <2>1, <2>2, <2>3
<1> QED
  BY <1>2, <1>3

(***************************************************************************)
(* Every non-empty set of naturals has a least element: with it, a         *)
(* statement about every prefix of a shape is proved from its first        *)
(* counterexample.                                                         *)
(***************************************************************************)
Below == {pair \in Nat \X Nat : pair[1] < pair[2]}

LEMMA BelowWellFounded == IsWellFoundedOn(Below, Nat)
<1>1. OpToRel(<, Nat) = Below
  BY DEF OpToRel, Below
<1> QED
  BY <1>1, NatLessThanWellFounded

LEMMA LeastExists ==
  ASSUME NEW S \in SUBSET Nat, S # {}
  PROVE  \E m \in S : \A k \in S : m <= k
<1>1. PICK m \in S : \A k \in S : ~(<<k, m>> \in Below)
  BY BelowWellFounded, WFMin
<1>2. \A k \in S : ~(k < m)
  BY <1>1 DEF Below
<1> QED
  BY <1>2

(***************************************************************************)
(* A running computation over n steps exists as a function: this is what   *)
(* gives the prefix functions of TensorSize and StorageLayout a value.     *)
(***************************************************************************)
Runs(f, n, V, first, step) ==
  /\ f \in [0 .. n -> V]
  /\ f[0] = first
  /\ \A i \in 1 .. n : f[i] = step[i][f[i-1]]

LEMMA RunExists ==
  ASSUME NEW n \in Nat, NEW V, NEW first \in V, NEW step \in [1 .. n -> [V -> V]]
  PROVE  \E f : Runs(f, n, V, first, step)
<1> DEFINE Bad == {m \in 0 .. n : \A f : ~Runs(f, m, V, first, step)}
<1> SUFFICES ASSUME \A f : ~Runs(f, n, V, first, step) PROVE FALSE
  OBVIOUS
<1>1. Bad \in SUBSET Nat /\ n \in Bad
  OBVIOUS
<1> HIDE DEF Bad
<1>2. PICK m \in Bad : \A k \in Bad : m <= k
  BY <1>1, LeastExists
<1>3. m \in 0 .. n /\ \A f : ~Runs(f, m, V, first, step)
  BY <1>2 DEF Bad
<1>4. CASE m = 0
  <2> DEFINE g == [i \in 0 .. 0 |-> first]
  <2>1. Runs(g, 0, V, first, step)
    BY DEF Runs
  <2> QED
    BY <1>3, <1>4, <2>1
<1>5. CASE m # 0
  <2>1. m - 1 \in 0 .. n /\ m - 1 \notin Bad /\ m \in 1 .. n
    BY <1>2, <1>3, <1>5
  <2>2. PICK f : Runs(f, m - 1, V, first, step)
    BY <2>1 DEF Bad
  <2> DEFINE g == [i \in 0 .. m |-> IF i = m THEN step[m][f[m-1]] ELSE f[i]]
  <2>3. f[m-1] \in V /\ step[m] \in [V -> V]
    BY <2>1, <2>2 DEF Runs
  <2>4. g \in [0 .. m -> V] /\ g[0] = first
    BY <2>1, <2>2, <2>3 DEF Runs
  <2>5. ASSUME NEW i \in 1 .. m PROVE g[i] = step[i][g[i-1]]
    BY <2>1, <2>2, <2>5 DEF Runs
  <2>6. Runs(g, m, V, first, step)
    BY <2>4, <2>5 DEF Runs
  <2> QED
    BY <1>3, <2>6
<1> QED
  BY <1>4, <1>5

(***************************************************************************)
(* The products of the prefixes of a shape, as equations.                  *)
(***************************************************************************)
LEMMA ProductEquations ==
  ASSUME NEW shape \in Seq(Nat)
  PROVE  /\ PrefixProducts(shape) \in [0 .. Len(shape) -> Nat]
         /\ PrefixProducts(shape)[0] = 1
         /\ \A i \in 1 .. Len(shape) :
              PrefixProducts(shape)[i] = PrefixProducts(shape)[i-1] * shape[i]
<1> DEFINE n == Len(shape)
           step == [i \in 1 .. n |-> [v \in Nat |-> v * shape[i]]]
           products == PrefixProducts(shape)
<1>1. n \in Nat /\ \A i \in 1 .. n : shape[i] \in Nat
  OBVIOUS
<1>2. step \in [1 .. n -> [Nat -> Nat]]
  BY <1>1
<1>3. PICK f : Runs(f, n, Nat, 1, step)
  <2> HIDE DEF step, n
  <2> QED
    BY <1>1, <1>2, RunExists
<1>4. f = [i \in 0 .. n |-> IF i = 0 THEN 1 ELSE f[i-1] * shape[i]]
  <2>1. \A i \in 1 .. n : i - 1 \in 0 .. n /\ f[i-1] \in Nat
    <3>1. \A i \in 1 .. n : i - 1 \in 0 .. n
      BY <1>1
    <3>2. \A i \in 0 .. n : f[i] \in Nat
      BY <1>3 DEF Runs
    <3> QED
      BY <3>1, <3>2
  <2>2. \A i \in 1 .. n : f[i] = f[i-1] * shape[i]
    BY <1>1, <1>3, <2>1 DEF Runs
  <2>3. f \in [0 .. n -> Nat] /\ f[0] = 1
    BY <1>3 DEF Runs
  <2> QED
    BY <1>1, <2>2, <2>3
<1>5. products = [i \in 0 .. n |-> IF i = 0 THEN 1 ELSE products[i-1] * shape[i]]
  BY <1>4 DEF PrefixProducts
<1> HIDE DEF products
<1>6. /\ products[0] = 1
      /\ \A i \in 1 .. n : products[i] = products[i-1] * shape[i]
  BY <1>1, <1>5
<1>7. \A i \in 0 .. n : products[i] \in Nat
  <2> DEFINE Bad == {i \in 0 .. n : products[i] \notin Nat}
  <2> SUFFICES ASSUME Bad # {} PROVE FALSE
    OBVIOUS
  <2>1. PICK m \in Bad : \A k \in Bad : m <= k
    <3>1. Bad \in SUBSET Nat
      OBVIOUS
    <3> QED
      BY <3>1, LeastExists
  <2>2. m # 0 /\ m \in 1 .. n
    BY <1>1, <1>6, <2>1
  <2>3. m - 1 \notin Bad /\ m - 1 \in 0 .. n
    BY <1>1, <2>1, <2>2
  <2>4. products[m - 1] \in Nat /\ products[m] = products[m - 1] * shape[m]
    BY <1>6, <2>2, <2>3
  <2> QED
    BY <1>1, <2>1, <2>2, <2>4
<1>8. products \in [0 .. n -> Nat]
  BY <1>5, <1>7
<1> QED
  BY <1>6, <1>8 DEF products

(***************************************************************************)
(* The element count of a shape, as the prefix computation of the code.    *)
(***************************************************************************)
Counts == Nat \cup {Overflow}

CountStep(count, dimension) ==
  IF count = Overflow \/ ProductOverflows(count, dimension)
  THEN Overflow ELSE count * dimension

LEMMA CountEquations ==
  ASSUME NEW shape \in Seq(Nat)
  PROVE  \E count : /\ count[0] = 1
                    /\ \A i \in 1 .. Len(shape) :
                         count[i] = CountStep(count[i-1], shape[i])
                    /\ ElementCount(shape) = count[Len(shape)]
<1> DEFINE n == Len(shape)
           step == [i \in 1 .. n |-> [v \in Counts |-> CountStep(v, shape[i])]]
           prefix == CHOOSE g : g = [i \in 0 .. n |->
                       IF i = 0 THEN 1
                       ELSE IF g[i-1] = Overflow \/ ProductOverflows(g[i-1], shape[i])
                            THEN Overflow ELSE g[i-1] * shape[i]]
<1>1. n \in Nat /\ \A i \in 1 .. n : shape[i] \in Nat
  OBVIOUS
<1>2. step \in [1 .. n -> [Counts -> Counts]] /\ 1 \in Counts
  <2>1. \A i \in 1 .. n, v \in Counts : CountStep(v, shape[i]) \in Counts
    BY <1>1 DEF CountStep, Counts
  <2> QED
    BY <2>1 DEF Counts
<1>3. PICK f : Runs(f, n, Counts, 1, step)
  <2> HIDE DEF step, n
  <2> QED
    BY <1>1, <1>2, RunExists
<1>4. f = [i \in 0 .. n |->
            IF i = 0 THEN 1
            ELSE IF f[i-1] = Overflow \/ ProductOverflows(f[i-1], shape[i])
                 THEN Overflow ELSE f[i-1] * shape[i]]
  <2>1. \A i \in 1 .. n : i - 1 \in 0 .. n /\ f[i-1] \in Counts
    BY <1>1, <1>3 DEF Runs
  <2>2. \A i \in 1 .. n : f[i] = CountStep(f[i-1], shape[i])
    BY <1>1, <1>3, <2>1 DEF Runs
  <2>3. f \in [0 .. n -> Counts] /\ f[0] = 1
    BY <1>3 DEF Runs
  <2> QED
    BY <1>1, <2>2, <2>3 DEF CountStep
<1>5. prefix = [i \in 0 .. n |->
            IF i = 0 THEN 1
            ELSE IF prefix[i-1] = Overflow \/ ProductOverflows(prefix[i-1], shape[i])
                 THEN Overflow ELSE prefix[i-1] * shape[i]]
  BY <1>4
<1>6. ElementCount(shape) = prefix[n]
  BY DEF ElementCount
<1> HIDE DEF prefix
<1>7. prefix[0] = 1 /\ \A i \in 1 .. n : prefix[i] = CountStep(prefix[i-1], shape[i])
  BY <1>1, <1>5 DEF CountStep
<1> QED
  BY <1>6, <1>7

PrefixTooLarge(shape, n) ==
  \E i \in 1 .. n : PrefixProducts(shape)[i] > U64Max

(***************************************************************************)
(* For every shape, the bounded count is the exact product, or Overflow    *)
(* exactly when some prefix of the shape exceeds the limit.                *)
(***************************************************************************)
THEOREM ElementCountExact ==
  ASSUME NEW shape \in Seq(Nat)
  PROVE  ElementCount(shape) = IF PrefixTooLarge(shape, Len(shape)) THEN Overflow
                               ELSE PrefixProducts(shape)[Len(shape)]
<1> DEFINE n == Len(shape)
           product == PrefixProducts(shape)
<1>1. n \in Nat /\ \A i \in 1 .. n : shape[i] \in Nat
  OBVIOUS
<1>2. PICK count : /\ count[0] = 1
                   /\ \A i \in 1 .. n : count[i] = CountStep(count[i-1], shape[i])
                   /\ ElementCount(shape) = count[n]
  BY CountEquations
<1>3. /\ product \in [0 .. n -> Nat]
      /\ product[0] = 1
      /\ \A i \in 1 .. n : product[i] = product[i-1] * shape[i]
  BY ProductEquations
<1> DEFINE Exact(i) == count[i] = IF PrefixTooLarge(shape, i) THEN Overflow ELSE product[i]
           Bad == {i \in 0 .. n : ~Exact(i)}
<1>4. \A i \in 0 .. n : PrefixTooLarge(shape, i) <=> \E k \in 1 .. i : product[k] > U64Max
  BY DEF PrefixTooLarge
<1> HIDE DEF n, product
<1>5. Bad = {}
  <2> SUFFICES ASSUME Bad # {} PROVE FALSE
    OBVIOUS
  <2>1. PICK m \in Bad : \A k \in Bad : m <= k
    <3>1. Bad \in SUBSET Nat
      OBVIOUS
    <3> QED
      BY <3>1, LeastExists
  <2>2. CASE m = 0
    BY <1>1, <1>2, <1>3, <1>4, <2>1, <2>2
  <2>3. CASE m # 0
    <3>1. m \in 1 .. n /\ m - 1 \in 0 .. n /\ m - 1 \notin Bad
      BY <1>1, <2>1, <2>3
    <3>2. Exact(m - 1)
      BY <3>1
    <3>3. /\ count[m] = CountStep(count[m-1], shape[m])
          /\ product[m] = product[m-1] * shape[m]
          /\ product[m-1] \in Nat /\ shape[m] \in Nat
      BY <1>1, <1>2, <1>3, <3>1
    <3>4. PrefixTooLarge(shape, m) <=> PrefixTooLarge(shape, m-1) \/ product[m] > U64Max
      BY <1>4, <3>1
    <3>5. ProductOverflows(product[m-1], shape[m]) <=> product[m] > U64Max
      BY <3>3, GuardExact
    <3>6. product[m-1] # Overflow
      BY <3>3 DEF Overflow
    <3> HIDE DEF Bad
    <3>7. Exact(m)
      BY <3>2, <3>3, <3>4, <3>5, <3>6 DEF CountStep
    <3> QED
      BY <2>1, <3>7 DEF Bad
  <2> QED
    BY <2>2, <2>3
<1> HIDE DEF Exact
<1>6. Exact(n)
  BY <1>1, <1>5
<1> QED
  BY <1>2, <1>6 DEF Exact, n, product

LEMMA HeaderShape ==
  ASSUME header \in Headers, NEW t \in DOMAIN header
  PROVE  header[t].shape \in Seq(Nat)
<1>1. PICK S \in SUBSET Name : header \in [S -> TensorHeader]
  BY DEF Headers
<1> QED
  BY <1>1, ShapeAssumption DEF TensorHeader

(***************************************************************************)
(* _checked_tensor_size, for every shape and every registered width, is    *)
(* exact integer arithmetic: Overflow exactly when a prefix product or the *)
(* bit count exceeds the limit, Misaligned exactly when the bits are no    *)
(* whole number of bytes, and otherwise that number of bytes.              *)
(***************************************************************************)
THEOREM CheckedSizeExact ==
  ASSUME header \in Headers, NEW t \in DOMAIN header, Registered(t)
  PROVE  /\ ExactBits(t) \in Nat
         /\ SizeOf(t) = IF TooLarge(t) THEN Overflow
                        ELSE IF ExactBits(t) % 8 # 0 THEN Misaligned
                             ELSE ExactBits(t) \div 8
<1> DEFINE shape == header[t].shape
           n == Len(shape)
           product == PrefixProducts(shape)
           width == Bits[header[t].dtype]
<1>1. shape \in Seq(Nat) /\ n \in Nat /\ DOMAIN shape = 1 .. n
  BY HeaderShape
<1>2. width \in Nat \ {0} /\ U64Max \in Nat
  BY BitsAssumption, U64MaxAssumption DEF Registered
<1>3. product[n] \in Nat
  BY <1>1, ProductEquations
<1>4. ElementCount(shape) = IF PrefixTooLarge(shape, n) THEN Overflow ELSE product[n]
  BY <1>1, ElementCountExact
<1>5. ExactBits(t) = product[n] * width
  BY DEF ExactBits
<1>6. TooLarge(t) <=> PrefixTooLarge(shape, n) \/ product[n] * width > U64Max
  BY <1>1, <1>5 DEF TooLarge, PrefixTooLarge
<1>7. SizeOf(t) =
        LET elements == ElementCount(shape)
            bits == elements * width
        IN  IF elements = Overflow \/ (elements # 0 /\ elements > U64Max \div width)
            THEN Overflow
            ELSE IF bits % 8 # 0 THEN Misaligned ELSE bits \div 8
  BY DEF SizeOf, CheckedSize
<1> HIDE DEF shape, n, product, width
<1>8. CASE PrefixTooLarge(shape, n)
  BY <1>2, <1>3, <1>4, <1>5, <1>6, <1>7, <1>8
<1>9. CASE ~PrefixTooLarge(shape, n)
  <2>1. ElementCount(shape) = product[n] /\ product[n] # Overflow
    BY <1>3, <1>4, <1>9 DEF Overflow
  <2>2. ProductOverflows(product[n], width) <=> product[n] * width > U64Max
    BY <1>2, <1>3, GuardExact
  <2>3. product[n] > U64Max \div width <=> product[n] * width > U64Max
    BY <1>2, <2>2 DEF ProductOverflows
  <2>4. product[n] = 0 => product[n] * width = 0
    BY <1>2
  <2>5. product[n] * width \in Nat
    BY <1>2, <1>3
  <2>6. TooLarge(t) <=> product[n] # 0 /\ product[n] > U64Max \div width
    BY <1>2, <1>6, <1>9, <2>3, <2>4
  <2> QED
    BY <1>5, <1>7, <2>1, <2>5, <2>6
<1> QED
  BY <1>8, <1>9

(***************************************************************************)
(* The sizes of validate_storage are exact for every header, and an error  *)
(* about a size has its exact reason.  A code is only set by the step that *)
(* ends the call, so the tensor it is about stays in `todo`.               *)
(***************************************************************************)
CodeEndsCall == phase # "rejected" => code = "none"

LEMMA SizeStep ==
  ASSUME TypeOK, WalkInv, SizeIsExact, CodeEndsCall, [Next]_vars
  PROVE  SizeIsExact' /\ CodeEndsCall'
<1>1. header' = header
  BY InputFixed
<1>2. \A t : /\ TooLarge(t)' = TooLarge(t)
             /\ ExactBits(t)' = ExactBits(t)
             /\ Span(t)' = Span(t)
  BY <1>1 DEF TooLarge, ExactBits, Span
<1>3. ASSUME UNCHANGED <<placed, todo, code>> PROVE SizeIsExact'
  BY <1>2, <1>3 DEF SizeIsExact, Placed
<1>4. ASSUME code = "none", UNCHANGED <<placed, code>> PROVE SizeIsExact'
  BY <1>2, <1>4 DEF SizeIsExact, Placed
<1>5. ASSUME NEW c, Reject(c), c \notin {"size_overflow", "byte_misaligned", "size_mismatch"}
      PROVE  SizeIsExact' /\ CodeEndsCall'
  BY <1>2, <1>5 DEF Reject, SizeIsExact, CodeEndsCall, Placed
<1>6. ASSUME NEW t \in Name, InOrder(t)
      PROVE  /\ t \in todo /\ t \in DOMAIN header
             /\ header[t].begin \in Nat /\ header[t].end \in Nat
             /\ header[t].begin <= header[t].end
             /\ ExactBits(t) \in Nat
             /\ SizeOf(t) = IF TooLarge(t) THEN Overflow
                            ELSE IF ExactBits(t) % 8 # 0 THEN Misaligned
                                 ELSE ExactBits(t) \div 8
  <2>1. t \in todo /\ t \in DOMAIN header /\ header \in Headers /\ phase = "layout"
    BY <1>6 DEF InOrder, Aligned, NextByKey, TypeOK
  <2>2. Registered(t)
    BY <2>1 DEF WalkInv, NoneSkipped
  <2>3. header[t].begin \in Nat /\ header[t].end \in Nat
    BY <2>1, HeaderFields
  <2> QED
    BY <1>6, <2>1, <2>2, <2>3, CheckedSizeExact DEF InOrder
<1>7. ASSUME NEW t \in Name, Sized(t)
      PROVE  /\ ~TooLarge(t) /\ ExactBits(t) % 8 = 0
             /\ (Span(t) = SizeOf(t)) <=> (8 * Span(t) = ExactBits(t))
  <2>1. InOrder(t) /\ SizeOf(t) \notin {Overflow, Misaligned}
    BY <1>7 DEF Sized
  <2>2. ~TooLarge(t) /\ ExactBits(t) % 8 = 0 /\ SizeOf(t) = ExactBits(t) \div 8
    BY <1>6, <2>1
  <2>3. Span(t) \in Nat /\ ExactBits(t) \in Nat
    BY <1>6, <2>1 DEF Span
  <2>4. \A s, b \in Nat : b % 8 = 0 => (s = b \div 8 <=> 8 * s = b)
    OBVIOUS
  <2> QED
    BY <2>2, <2>3, <2>4
<1>8. ASSUME NEW t \in Name, SizeOverflow(t) PROVE SizeIsExact' /\ CodeEndsCall'
  <2>1. t \in todo /\ TooLarge(t)
    BY <1>6, <1>8 DEF SizeOverflow, Overflow, Misaligned
  <2> QED
    BY <1>2, <1>8, <2>1 DEF SizeOverflow, Reject, SizeIsExact, CodeEndsCall, Placed
<1>9. ASSUME NEW t \in Name, ByteMisaligned(t) PROVE SizeIsExact' /\ CodeEndsCall'
  <2>1. t \in todo /\ ~TooLarge(t) /\ ExactBits(t) % 8 # 0
    BY <1>6, <1>9 DEF ByteMisaligned, Overflow, Misaligned
  <2> QED
    BY <1>2, <1>9, <2>1 DEF ByteMisaligned, Reject, SizeIsExact, CodeEndsCall, Placed
<1>10. ASSUME NEW t \in Name, SizeMismatch(t) PROVE SizeIsExact' /\ CodeEndsCall'
  <2>1. t \in todo /\ ~TooLarge(t) /\ ExactBits(t) % 8 = 0 /\ 8 * Span(t) # ExactBits(t)
    BY <1>6, <1>7, <1>10 DEF SizeMismatch, Span, Sized
  <2> QED
    BY <1>2, <1>10, <2>1 DEF SizeMismatch, Reject, SizeIsExact, CodeEndsCall, Placed
<1>11. ASSUME NEW t \in Name, PlaceTensor(t) PROVE SizeIsExact' /\ CodeEndsCall'
  <2>1. ~TooLarge(t) /\ 8 * Span(t) = ExactBits(t)
    BY <1>7, <1>11 DEF PlaceTensor, Span
  <2>2. /\ phase = "layout" /\ phase' = phase /\ code' = code
        /\ t \in DOMAIN header /\ placed \in Seq(DOMAIN header)
    BY <1>11 DEF PlaceTensor, Sized, InOrder, Aligned, NextByKey, TypeOK
  <2>3. Placed' = Placed \cup {t}
    BY <1>11, <2>2, PlacedGrows
  <2> QED
    BY <1>2, <2>1, <2>2, <2>3 DEF SizeIsExact, CodeEndsCall
<1>12. ASSUME NEW t \in Name, DtypeStep(t) PROVE SizeIsExact' /\ CodeEndsCall'
  BY <1>4, <1>5, <1>12 DEF DtypeStep, RecogniseDtype, InvalidDtype, NextByName, CodeEndsCall
<1>13. ASSUME NEW t \in Name, LayoutStep(t) PROVE SizeIsExact' /\ CodeEndsCall'
  BY <1>5, <1>8, <1>9, <1>10, <1>11, <1>13
     DEF LayoutStep, LayoutGap, LayoutOverlap, OffsetsReversed
<1>14. CASE StartLayout
  BY <1>4, <1>14 DEF StartLayout, CodeEndsCall
<1>15. CASE PayloadSizeMismatch
  BY <1>5, <1>15 DEF PayloadSizeMismatch
<1>16. CASE BuildManifest
  BY <1>3, <1>16 DEF BuildManifest, WalkDone, CodeEndsCall
<1>17. CASE UNCHANGED vars
  BY <1>3, <1>17 DEF vars, CodeEndsCall
<1> QED
  BY <1>12, <1>13, <1>14, <1>15, <1>16, <1>17 DEF Next

(***************************************************************************)
(* A tensor validate_storage places has exactly the bytes its elements     *)
(* take, and each size it refuses is refused for what the exact size is.   *)
(***************************************************************************)
THEOREM SizesExact == Spec => []SizeIsExact
<1>1. Init => SizeIsExact /\ CodeEndsCall
  BY DEF Init, SizeIsExact, CodeEndsCall, Placed
<1>2. TypeOK /\ WalkInv /\ (SizeIsExact /\ CodeEndsCall) /\ [Next]_vars
        => (SizeIsExact /\ CodeEndsCall)'
  BY SizeStep
<1> QED
  BY TypeCorrect, WalkCorrect, <1>1, <1>2, PTL DEF Spec
=============================================================================
