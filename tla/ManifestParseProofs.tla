------------------------ MODULE ManifestParseProofs ------------------------
(***************************************************************************)
(* Proofs about parse_safetensors_manifest from the header bytes on, for   *)
(* every document, all limits and every payload size.                      *)
(*                                                                         *)
(* First the decoder (HeaderSchema): which positions the tensor members    *)
(* are, what each of its checks decides of the errors HeaderReport lists,  *)
(* then the invariant of its walk over them, and from it the order of its  *)
(* reports and its refinement of HeaderReport.  Then storage validation:   *)
(* the lemmas of StorageLayoutProofs, taken at the layout the decoder      *)
(* hands over, give the invariant of the two stages together.              *)
(***************************************************************************)
EXTENDS ManifestParse, FiniteSetTheorems, SequenceTheorems, WellFoundedInduction, TLAPS

(***************************************************************************)
(* validate_storage, with what is proved of it.                            *)
(***************************************************************************)
SP == INSTANCE StorageLayoutProofs WITH
        header <- layout, phase <- storage, code <- layoutCode, Dtype <- Text

\* The constants of this module meet the assumptions of storage validation.
LEMMA StorageAssumptions ==
  /\ SP!U64MaxAssumption /\ SP!BitsAssumption /\ SP!NameAssumption
  /\ SP!ShapeAssumption /\ SP!OffsetAssumption /\ SP!PayloadSizeAssumption
<1>1. U64Max \in Nat \ {0}
  BY HeaderLimitsAssumption
<1>2. Name \subseteq Nat
  BY RankOfAssumption DEF Name
<1>3. Shape \subseteq Seq(Nat) /\ Offset \subseteq Nat
  <2>1. Offset \subseteq Nat
    BY <1>1 DEF Offset
  <2>2. ASSUME NEW s \in Seq(Offset) PROVE s \in Seq(Nat)
    <3>1. \A i \in 1 .. Len(s) : s[i] \in Offset
      OBVIOUS
    <3>2. \A i \in 1 .. Len(s) : s[i] \in Nat
      BY <2>1, <3>1
    <3>3. Len(s) \in Nat /\ s = [i \in 1 .. Len(s) |-> s[i]]
      OBVIOUS
    <3> QED
      BY <3>2, <3>3
  <2> QED
    BY <2>1, <2>2 DEF Shape
<1> QED
  BY <1>1, <1>2, <1>3, WidthsAssumption, PayloadAssumption
     DEF SP!U64MaxAssumption, SP!BitsAssumption, SP!NameAssumption, SP!ShapeAssumption,
         SP!OffsetAssumption, SP!PayloadSizeAssumption

\* A nonempty set of naturals has a least element.
LEMMA LeastExists ==
  ASSUME NEW T \in SUBSET Nat, T # {}
  PROVE  \E m \in T : \A k \in T : m <= k
BY SP!LeastExists, StorageAssumptions

-----------------------------------------------------------------------------
(***************************************************************************)
(* Values of a document.                                                   *)
(***************************************************************************)
LEMMA NodeIs ==
  ASSUME IsTree(tree), NEW p \in DOMAIN tree
  PROVE  /\ tree[p] \in Node
         /\ Width(tree[p]) \in Nat
         /\ Keys(p) \in Seq(Text)
         /\ Len(Keys(p)) = IF Kind(p) = "dict" THEN Width(tree[p]) ELSE 0
         /\ IsInjective(Keys(p))
         /\ \A i \in 1 .. Width(tree[p]) : Append(p, i) \in DOMAIN tree
         /\ DOMAIN Children(p) = 1 .. Width(tree[p])
         /\ Len(Children(p)) = Width(tree[p])
         /\ ToSet(Children(p)) = {Append(p, i) : i \in 1 .. Width(tree[p])}
<1>1. /\ tree[p] \in Node /\ \A i \in 1 .. Width(tree[p]) : Append(p, i) \in DOMAIN tree
      /\ tree[p].kind = "dict" => IsInjective(tree[p].keys)
  BY DEF IsTree
<1>2. CASE tree[p].kind = "dict"
  <2>1. tree[p].keys \in Seq(Text)
    BY <1>1, <1>2 DEF Node
  <2>2. Keys(p) = tree[p].keys /\ Width(tree[p]) = Len(tree[p].keys)
    BY <1>2 DEF Keys, Kind, Width
  <2>3. Len(tree[p].keys) \in Nat
    BY <2>1
  <2>4. IsInjective(Keys(p))
    BY <1>1, <1>2, <2>2
  <2>5. DOMAIN Children(p) = 1 .. Width(tree[p]) /\ Len(Children(p)) = Width(tree[p])
    BY <2>2, <2>3 DEF Children
  <2>6. ToSet(Children(p)) = {Append(p, i) : i \in 1 .. Width(tree[p])}
    BY DEF ToSet, Children
  <2> QED
    BY <1>1, <1>2, <2>1, <2>2, <2>3, <2>4, <2>5, <2>6 DEF Kind
<1>3. CASE tree[p].kind # "dict"
  <2>1. Width(tree[p]) \in Nat
    <3>1. CASE tree[p].kind = "list"
      BY <1>1, <1>3, <3>1 DEF Node, Width
    <3>2. CASE tree[p].kind # "list"
      BY <1>3, <3>2 DEF Width
    <3> QED
      BY <3>1, <3>2
  <2>2. Keys(p) = <<>>
    BY <1>3 DEF Keys, Kind
  <2>3. Keys(p) \in Seq(Text) /\ Len(Keys(p)) = 0 /\ DOMAIN Keys(p) = {}
    BY <2>2
  <2>4. IsInjective(Keys(p))
    BY <2>3 DEF IsInjective
  <2> QED
    BY <1>1, <1>3, <2>1, <2>3, <2>4 DEF Kind, ToSet, Children
<1> QED
  BY <1>2, <1>3

\* mapping.get finds a key exactly when the object has it.
LEMMA MemberIs ==
  ASSUME IsTree(tree), NEW p \in DOMAIN tree, NEW key
  PROVE  /\ Has(p, key) <=> \E j \in DOMAIN Keys(p) : Keys(p)[j] = key
         /\ Has(p, key) <=> key \in ToSet(Keys(p))
         /\ Has(p, key) => Get(p, key) \in DOMAIN tree
<1>1. Has(p, key) <=> \E j \in DOMAIN Keys(p) : Keys(p)[j] = key
  BY DEF Has, Member
<1>2. ASSUME Has(p, key) PROVE Get(p, key) \in DOMAIN tree
  <2>1. Get(p, key) \in Member(p, key)
    BY <1>2 DEF Has, Get
  <2>2. PICK i \in DOMAIN Keys(p) : Get(p, key) = Append(p, i)
    BY <2>1 DEF Member
  <2>3. i \in 1 .. Width(tree[p])
    BY NodeIs
  <2> QED
    BY <2>2, <2>3, NodeIs
<1> QED
  BY <1>1, <1>2 DEF ToSet

(***************************************************************************)
(* The first position of a sequence that passes a test, for the three      *)
(* tests of the decoder.                                                   *)
(***************************************************************************)
LEMMA FirstPlace ==
  ASSUME NEW n \in Nat, NEW I \in SUBSET (1 .. n), NEW at, at = IF I # {} THEN Min(I) ELSE 0
  PROVE  /\ at = 0 <=> I = {}
         /\ at # 0 => at \in I /\ \A i \in I : at <= i
<1>1. I \in SUBSET Nat /\ \A k \in I : k # 0
  OBVIOUS
<1>2. ASSUME I # {} PROVE Min(I) \in I /\ \A i \in I : Min(I) <= i
  <2>1. PICK m \in I : \A k \in I : m <= k
    BY <1>1, <1>2, LeastExists
  <2> QED
    BY <2>1 DEF Min
<1> QED
  BY <1>1, <1>2

(***************************************************************************)
(* HeaderReport reads the document as the decoder does.                    *)
(***************************************************************************)
LEMMA ReportReads ==
  /\ \A p : R!Kind(p) = Kind(p) /\ R!Keys(p) = Keys(p) /\ R!Children(p) = Children(p)
  /\ \A node : R!Width(node) = Width(node)
  /\ \A s : R!ToSet(s) = ToSet(s)
  /\ R!Metadata = Metadata /\ R!MetadataForm = MetadataForm
  /\ R!TensorMembers = TensorMembers
  /\ \A i : /\ R!NameAt(i) = NameAt(i) /\ R!RecordAt(i) = RecordAt(i)
            /\ R!Missing(i) = Missing(i) /\ R!TensorAt(i) = TensorAt(i)
  /\ \A i, f : R!FieldAt(i, f) = FieldAt(i, f)
  /\ \A p : R!IsU64(p) <=> IsU64(p)
  /\ R!Required = Required /\ R!MetadataEntries = MetadataEntries
  /\ R!JsonFailures = JsonFailures
<1>1. \A node : R!Width(node) = Width(node)
  BY DEF R!Width, Width
<1>2. \A p : R!Kind(p) = Kind(p) /\ R!Keys(p) = Keys(p) /\ R!Children(p) = Children(p)
  BY DEF R!Kind, Kind, R!Keys, Keys, R!Children, Children, R!Width, Width
<1>3. \A s : R!ToSet(s) = ToSet(s)
  BY DEF R!ToSet, ToSet
<1>4. \A p, k : R!Member(p, k) = Member(p, k)
  BY <1>2 DEF R!Member, Member
<1>5. \A p, k : R!Get(p, k) = Get(p, k) /\ (R!Has(p, k) <=> Has(p, k))
  BY <1>4 DEF R!Get, Get, R!Has, Has
<1>6. R!Metadata = Metadata /\ R!MetadataForm = MetadataForm
  BY <1>2, <1>5 DEF R!Metadata, Metadata, R!MetadataForm, MetadataForm, R!MetadataKey, MetadataKey
<1>7. R!TensorMembers = TensorMembers
  BY <1>2, <1>5 DEF R!TensorMembers, TensorMembers, R!MetadataKey, MetadataKey
<1>8. \A i : R!NameAt(i) = NameAt(i) /\ R!RecordAt(i) = RecordAt(i)
  BY <1>2 DEF R!NameAt, NameAt, R!RecordAt, RecordAt
<1>9. R!Required = Required
  BY DEF R!Required, Required
<1>10. \A i : R!Missing(i) = Missing(i)
  BY <1>2, <1>3, <1>8, <1>9 DEF R!Missing, Missing
<1>11. \A i, f : R!FieldAt(i, f) = FieldAt(i, f)
  BY <1>5, <1>8 DEF R!FieldAt, FieldAt
<1>12. \A p : R!IntegersAt(p) = IntegersAt(p)
  BY <1>1 DEF R!IntegersAt, IntegersAt
<1>13. \A i : R!TensorAt(i) = TensorAt(i)
  BY <1>2, <1>3, <1>8, <1>9, <1>11, <1>12 DEF R!TensorAt, TensorAt
<1>14. \A p : R!IsU64(p) <=> IsU64(p)
  BY DEF R!IsU64, IsU64
<1>15. R!MetadataEntries = MetadataEntries
  BY <1>2, <1>6 DEF R!MetadataEntries, MetadataEntries
<1>16. R!JsonFailures = JsonFailures
  BY DEF R!JsonFailures, JsonFailures
<1> QED
  BY <1>1, <1>2, <1>3, <1>6, <1>7, <1>8, <1>9, <1>10, <1>11, <1>13, <1>14, <1>15, <1>16

\* HeaderReport lists a code exactly when its condition holds.
LEMMA ErrorIs == \A c, holds, e : e \in R!Error(c, holds) <=> holds /\ e = c
BY DEF R!Error

-----------------------------------------------------------------------------
(***************************************************************************)
(* The tensor members are the other members than the metadata, each once   *)
(* and in document order.                                                  *)
(***************************************************************************)
THEOREM MembersAre ==
  ASSUME IsTree(tree)
  PROVE  /\ Len(TensorMembers) \in Nat
         /\ DOMAIN TensorMembers = 1 .. Len(TensorMembers)
         /\ \A k \in DOMAIN TensorMembers :
              /\ TensorMembers[k] \in DOMAIN Keys(<<>>)
              /\ NameAt(TensorMembers[k]) # MetadataKey
         /\ \A j, k \in DOMAIN TensorMembers : j < k => TensorMembers[j] < TensorMembers[k]
         /\ \A j, k \in DOMAIN TensorMembers : TensorMembers[j] = TensorMembers[k] => j = k
         /\ ToSet(TensorMembers) = {i \in DOMAIN Keys(<<>>) : NameAt(i) # MetadataKey}
<1> DEFINE n == Len(Keys(<<>>))
           last == n - (IF Has(<<>>, MetadataKey) THEN 1 ELSE 0)
           behind(k) == \E j \in 1 .. k : Keys(<<>>)[j] = MetadataKey
<1>1. <<>> \in DOMAIN tree
  BY DEF IsTree
<1>2. /\ n \in Nat /\ DOMAIN Keys(<<>>) = 1 .. n
      /\ \A i, j \in 1 .. n : Keys(<<>>)[i] = Keys(<<>>)[j] => i = j
      /\ Has(<<>>, MetadataKey) <=> \E j \in 1 .. n : Keys(<<>>)[j] = MetadataKey
  BY <1>1, NodeIs, MemberIs DEF IsInjective
<1>3. last \in Nat
  BY <1>2
<1>4. TensorMembers = [k \in 1 .. last |-> IF behind(k) THEN k + 1 ELSE k]
  BY DEF TensorMembers
<1>5. Len(TensorMembers) = last /\ DOMAIN TensorMembers = 1 .. last
  BY <1>3, <1>4
<1>6. \A k \in 1 .. last : TensorMembers[k] = IF behind(k) THEN k + 1 ELSE k
  BY <1>4
<1>7. ASSUME NEW k \in 1 .. last
      PROVE  TensorMembers[k] \in 1 .. n /\ Keys(<<>>)[TensorMembers[k]] # MetadataKey
  <2>1. CASE behind(k)
    <3>1. PICK j \in 1 .. k : Keys(<<>>)[j] = MetadataKey
      BY <2>1
    <3>2. j \in 1 .. n /\ k + 1 \in 1 .. n /\ k + 1 # j
      BY <1>2, <3>1
    <3> HIDE DEF n, behind
    <3> QED
      BY <1>2, <1>6, <2>1, <3>1, <3>2
  <2>2. CASE ~behind(k)
    <3>1. k \in 1 .. n
      BY <1>2
    <3> QED
      BY <1>6, <2>2, <3>1
  <2> QED
    BY <2>1, <2>2
<1>8. ASSUME NEW j \in 1 .. last, NEW k \in 1 .. last, j < k
      PROVE  TensorMembers[j] < TensorMembers[k]
  <2>1. behind(j) => behind(k)
    BY <1>3, <1>8
  <2> HIDE DEF behind, last
  <2> QED
    BY <1>3, <1>6, <1>8, <2>1
<1>9. \A j, k \in 1 .. last : TensorMembers[j] = TensorMembers[k] => j = k
  <2>1. \A k \in 1 .. last : TensorMembers[k] \in Nat
    BY <1>2, <1>7
  <2> HIDE DEF last
  <2> QED
    BY <1>3, <1>8, <2>1
<1>10. ASSUME NEW i \in 1 .. n, Keys(<<>>)[i] # MetadataKey
       PROVE  \E k \in 1 .. last : TensorMembers[k] = i
  <2>1. CASE behind(i)
    <3>1. PICK j \in 1 .. i : Keys(<<>>)[j] = MetadataKey
      BY <2>1
    <3>2. j \in 1 .. i - 1 /\ i - 1 \in 1 .. last
      BY <1>2, <1>10, <3>1
    <3>3. behind(i - 1)
      BY <3>1, <3>2
    <3>4. TensorMembers[i - 1] = (i - 1) + 1
      BY <1>6, <3>2, <3>3
    <3> QED
      BY <1>2, <3>2, <3>4
  <2>2. CASE ~behind(i)
    <3>1. i \in 1 .. last
      <4>1. CASE Has(<<>>, MetadataKey)
        <5>1. PICK j \in 1 .. n : Keys(<<>>)[j] = MetadataKey
          BY <1>2, <4>1
        <5>2. i < j
          BY <1>2, <2>2, <5>1
        <5> QED
          BY <1>2, <4>1, <5>1, <5>2
      <4>2. CASE ~Has(<<>>, MetadataKey)
        BY <1>2, <4>2
      <4> QED
        BY <4>1, <4>2
    <3> QED
      BY <1>6, <2>2, <3>1
  <2> QED
    BY <2>1, <2>2
<1>11. ToSet(TensorMembers) = {i \in DOMAIN Keys(<<>>) : NameAt(i) # MetadataKey}
  <2>1. ToSet(TensorMembers) = {TensorMembers[k] : k \in 1 .. last}
    BY <1>5 DEF ToSet
  <2> HIDE DEF last, n
  <2> QED
    BY <1>2, <1>7, <1>10, <2>1 DEF NameAt
<1> QED
  BY <1>2, <1>3, <1>5, <1>7, <1>8, <1>9, <1>11 DEF NameAt

-----------------------------------------------------------------------------
(***************************************************************************)
(* The metadata.  The first entry that is not a text, or has no encoding,  *)
(* is found if there is one ...                                            *)
(***************************************************************************)
EntryBad(k) == EntryMistyped(k) \/ EntryUnencodable(k)

\* A metadata object: its place in the tree, its keys and its children.
LEMMA MetadataIs ==
  ASSUME IsTree(tree), MetadataForm = "object"
  PROVE  /\ Metadata \in DOMAIN tree
         /\ Len(Keys(Metadata)) \in Nat
         /\ DOMAIN Keys(Metadata) = 1 .. Len(Keys(Metadata))
         /\ \A k \in DOMAIN Keys(Metadata) : Append(Metadata, k) \in DOMAIN tree
         /\ Kind(Metadata) = "dict" =>
              ToSet(Children(Metadata)) = {Append(Metadata, k) : k \in DOMAIN Keys(Metadata)}
         /\ \A j, k \in DOMAIN Keys(Metadata) : Keys(Metadata)[j] = Keys(Metadata)[k] => j = k
<1>1. <<>> \in DOMAIN tree /\ Has(<<>>, MetadataKey)
  BY DEF IsTree, MetadataForm
<1>2. Metadata \in DOMAIN tree
  BY <1>1, MemberIs DEF Metadata
<1>3. Keys(Metadata) \in Seq(Text) /\ IsInjective(Keys(Metadata))
  BY <1>2, NodeIs
<1>4. Len(Keys(Metadata)) \in Nat /\ DOMAIN Keys(Metadata) = 1 .. Len(Keys(Metadata))
  BY <1>3
<1>5. CASE Kind(Metadata) = "dict"
  <2>1. Len(Keys(Metadata)) = Width(tree[Metadata])
    BY <1>2, <1>5, NodeIs
  <2> QED
    BY <1>2, <1>3, <1>4, <2>1, NodeIs DEF IsInjective
<1>6. CASE Kind(Metadata) # "dict"
  <2>1. Len(Keys(Metadata)) = 0
    BY <1>2, <1>6, NodeIs
  <2> QED
    BY <1>2, <1>3, <1>4, <1>6, <2>1 DEF IsInjective
<1> QED
  BY <1>5, <1>6

\* The entry refused is the first one with a fault.
LEMMA BadEntryIs ==
  ASSUME IsTree(tree), MetadataForm = "object"
  PROVE  /\ BadEntryAt = 0 <=> \A k \in DOMAIN Keys(Metadata) : ~EntryBad(k)
         /\ BadEntryAt # 0 => BadEntryAt \in DOMAIN Keys(Metadata) /\ EntryBad(BadEntryAt)
<1> DEFINE n == Len(Keys(Metadata))
           I == {k \in 1 .. n : EntryBad(k)}
           places == [k \in DOMAIN Keys(Metadata) |-> k]
<1>1. n \in Nat /\ DOMAIN Keys(Metadata) = 1 .. n
  BY MetadataIs
<1>2. Len(places) = n /\ \A k \in 1 .. n : places[k] = k
  BY <1>1
<1>3. {k \in 1 .. Len(places) : EntryBad(places[k])} = I
  BY <1>2
<1>4. BadEntryAt = IF I # {} THEN Min(I) ELSE 0
  <2>1. BadEntryAt = IF {k \in 1 .. Len(places) : EntryBad(places[k])} # {}
                     THEN Min({k \in 1 .. Len(places) : EntryBad(places[k])}) ELSE 0
    BY DEF BadEntryAt, SelectInSeq, EntryBad
  <2> QED
    BY <1>3, <2>1
<1>5. I \in SUBSET (1 .. n)
  OBVIOUS
<1>6. /\ BadEntryAt = 0 <=> I = {}
      /\ BadEntryAt # 0 => BadEntryAt \in I
  <2> HIDE DEF I, n
  <2> QED
    BY <1>1, <1>4, <1>5, FirstPlace
<1> QED
  BY <1>1, <1>6

(***************************************************************************)
(* ... and the metadata has an error exactly when it is refused.           *)
(***************************************************************************)
MetadataSound ==
    MetadataForm = "object" =>
      /\ Kind(Metadata) = "dict"
      /\ Len(Keys(Metadata)) <= MaxMetadata
      /\ BadEntryAt = 0

\* A fault of one entry is an error of the metadata.
LEMMA EntryErrors ==
  ASSUME IsTree(tree), MetadataForm = "object", Kind(Metadata) = "dict",
         NEW k \in DOMAIN Keys(Metadata)
  PROVE  /\ EntryMistyped(k) => "invalid_metadata" \in R!MetadataErrors
         /\ EntryUnencodable(k) => "invalid_unicode_scalar" \in R!MetadataErrors
<1>1. /\ Append(Metadata, k) \in ToSet(Children(Metadata))
      /\ Keys(Metadata)[k] \in ToSet(Keys(Metadata))
  BY MetadataIs DEF ToSet
<1>2. ASSUME EntryMistyped(k) PROVE "invalid_metadata" \in R!MetadataErrors
  <2>1. \E p \in ToSet(Children(Metadata)) : Kind(p) # "str"
    BY <1>1, <1>2 DEF EntryMistyped
  <2>2. "invalid_metadata"
           \in R!Error("invalid_metadata", \E p \in ToSet(Children(Metadata)) : Kind(p) # "str")
    BY <2>1, ErrorIs
  <2> QED
    BY <2>2, ReportReads DEF R!MetadataErrors
<1>3. ASSUME EntryUnencodable(k) PROVE "invalid_unicode_scalar" \in R!MetadataErrors
  <2>1. R!MetadataTexts \cap Surrogate # {}
    BY <1>1, <1>3, ReportReads DEF EntryUnencodable, R!MetadataTexts
  <2>2. "invalid_unicode_scalar"
           \in R!Error("invalid_unicode_scalar", R!MetadataTexts \cap Surrogate # {})
    BY <2>1, ErrorIs
  <2> QED
    BY <2>2, ReportReads DEF R!MetadataErrors
<1> QED
  BY <1>2, <1>3

\* The checks of the metadata pass exactly when the metadata have no error.
LEMMA MetadataDecided ==
  ASSUME IsTree(tree)
  PROVE  R!MetadataErrors = {} <=> MetadataSound
<1>1. CASE MetadataForm # "object"
  BY <1>1, ReportReads DEF R!MetadataErrors, MetadataSound
<1>2. CASE MetadataForm = "object" /\ Kind(Metadata) # "dict"
  BY <1>2, ReportReads DEF R!MetadataErrors, MetadataSound
<1>3. CASE MetadataForm = "object" /\ Kind(Metadata) = "dict"
  <2>1. R!MetadataErrors =
          R!Error("metadata_count_exceeds_policy_limit", Len(Keys(Metadata)) > MaxMetadata)
          \cup R!Error("invalid_metadata", \E p \in ToSet(Children(Metadata)) : Kind(p) # "str")
          \cup R!Error("invalid_unicode_scalar", R!MetadataTexts \cap Surrogate # {})
    BY <1>3, ReportReads DEF R!MetadataErrors
  <2>2. Len(Keys(Metadata)) \in Nat /\ MaxMetadata \in Nat
    BY <1>3, MetadataIs, HeaderLimitsAssumption
  <2>3. ASSUME MetadataSound PROVE R!MetadataErrors = {}
    <3>1. \A k \in DOMAIN Keys(Metadata) : ~EntryBad(k)
      BY <1>3, <2>3, BadEntryIs DEF MetadataSound
    <3>2. \A p \in ToSet(Children(Metadata)) : Kind(p) = "str"
      BY <1>3, <3>1, MetadataIs DEF EntryBad, EntryMistyped
    <3>3. R!MetadataTexts \cap Surrogate = {}
      <4>1. \A s \in ToSet(Keys(Metadata)) : s \notin Surrogate
        BY <3>1 DEF EntryBad, EntryUnencodable, ToSet
      <4>2. \A p \in ToSet(Children(Metadata)) : Kind(p) = "str" => tree[p].text \notin Surrogate
        BY <1>3, <3>1, MetadataIs DEF EntryBad, EntryUnencodable
      <4> QED
        BY <4>1, <4>2, ReportReads DEF R!MetadataTexts
    <3>4. ~(Len(Keys(Metadata)) > MaxMetadata)
      BY <1>3, <2>2, <2>3 DEF MetadataSound
    <3> QED
      BY <2>1, <3>2, <3>3, <3>4 DEF R!Error
  <2>4. ASSUME R!MetadataErrors = {} PROVE MetadataSound
    <3>1. Len(Keys(Metadata)) <= MaxMetadata
      BY <2>1, <2>2, <2>4 DEF R!Error
    <3>2. \A k \in DOMAIN Keys(Metadata) : ~EntryBad(k)
      BY <1>3, <2>4, EntryErrors DEF EntryBad
    <3> QED
      BY <1>3, <3>1, <3>2, BadEntryIs DEF MetadataSound
  <2> QED
    BY <2>3, <2>4
<1> QED
  BY <1>1, <1>2, <1>3

\* The code of a refused entry is an error the metadata have.
LEMMA EntryRefused ==
  ASSUME IsTree(tree), MetadataForm = "object", Kind(Metadata) = "dict", BadEntryAt # 0
  PROVE  EntryCode(BadEntryAt) \in R!MetadataErrors
<1>1. BadEntryAt \in DOMAIN Keys(Metadata) /\ EntryBad(BadEntryAt)
  BY BadEntryIs
<1> QED
  BY <1>1, EntryErrors DEF EntryCode, EntryBad

-----------------------------------------------------------------------------
(***************************************************************************)
(* An integer as the text of its lexeme.  Its digits are those of its      *)
(* tenth and one more, and Greater orders texts as _decode_u64 does: by    *)
(* length first, then from the left.                                       *)
(***************************************************************************)
IsText(f, n) ==
  f = [k \in 0 .. n |-> IF k < 10 THEN <<k>> ELSE Append(f[k \div 10], k % 10)]

LEMMA TextExists ==
  ASSUME NEW n \in Nat
  PROVE  \E f : IsText(f, n)
<1> DEFINE Bad == {m \in Nat : ~\E f : IsText(f, m)}
<1>1. Bad = {}
  <2> SUFFICES ASSUME Bad # {} PROVE FALSE
    OBVIOUS
  <2>1. PICK m \in Bad : \A k \in Bad : m <= k
    BY LeastExists
  <2>2. m # 0
    <3>1. IsText([k \in 0 .. 0 |-> <<k>>], 0)
      BY DEF IsText
    <3> QED
      BY <2>1, <3>1
  <2>3. m - 1 \in Nat /\ m - 1 \notin Bad
    BY <2>1, <2>2
  <2>4. PICK f : IsText(f, m - 1)
    BY <2>3
  <2> DEFINE g == [k \in 0 .. m |->
                    IF k < 10 THEN <<k>> ELSE Append(f[k \div 10], k % 10)]
  <2>5. \A k \in 0 .. m - 1 : g[k] = f[k]
    <3> SUFFICES ASSUME NEW k \in 0 .. m - 1 PROVE g[k] = f[k]
      OBVIOUS
    <3>1. k \in 0 .. m
      BY <2>3
    <3>2. f[k] = IF k < 10 THEN <<k>> ELSE Append(f[k \div 10], k % 10)
      BY <2>4, Zenon DEF IsText
    <3>3. g[k] = IF k < 10 THEN <<k>> ELSE Append(f[k \div 10], k % 10)
      BY <3>1, Zenon
    <3> QED
      BY <3>2, <3>3, Zenon
  <2>6. \A k \in 0 .. m : k >= 10 => k \div 10 \in 0 .. m - 1
    BY <2>3
  <2>7. \A k \in 0 .. m : k >= 10 => g[k \div 10] = f[k \div 10]
    BY <2>5, <2>6
  <2>8. g = [k \in 0 .. m |-> IF k < 10 THEN <<k>> ELSE Append(g[k \div 10], k % 10)]
    <3>1. \A k \in 0 .. m : (IF k < 10 THEN <<k>> ELSE Append(f[k \div 10], k % 10))
                           = (IF k < 10 THEN <<k>> ELSE Append(g[k \div 10], k % 10))
      <4> HIDE DEF g
      <4> QED
        BY <2>7
    <3> QED
      BY <3>1, Zenon
  <2>9. IsText(g, m)
    <3> HIDE DEF g
    <3> QED
      BY <2>8 DEF IsText
  <2> QED
    BY <2>1, <2>9
<1> QED
  BY <1>1

LEMMA TextsAgree ==
  ASSUME NEW n \in Nat, NEW f, IsText(f, n), NEW m \in 0 .. n, NEW g, IsText(g, m)
  PROVE  f[m] = g[m]
<1> DEFINE Bad == {k \in 0 .. m : f[k] # g[k]}
<1>1. Bad = {}
  <2> SUFFICES ASSUME Bad # {} PROVE FALSE
    OBVIOUS
  <2>1. Bad \in SUBSET Nat
    OBVIOUS
  <2>2. PICK k \in Bad : \A j \in Bad : k <= j
    BY <2>1, LeastExists
  <2>3. /\ f[k] = IF k < 10 THEN <<k>> ELSE Append(f[k \div 10], k % 10)
        /\ g[k] = IF k < 10 THEN <<k>> ELSE Append(g[k \div 10], k % 10)
    <3>1. k \in 0 .. n /\ k \in 0 .. m
      BY <2>2
    <3> QED
      BY <3>1, Zenon DEF IsText
  <2>4. k >= 10 => k \div 10 \in 0 .. m /\ k \div 10 < k
    BY <2>2
  <2>5. k >= 10 => f[k \div 10] = g[k \div 10]
    BY <2>2, <2>4
  <2>6. k \in Nat /\ f[k] # g[k]
    BY <2>2
  <2> QED
    BY <2>3, <2>5, <2>6
<1> QED
  BY <1>1

LEMMA DigitsText ==
  ASSUME NEW n \in Nat
  PROVE  \E f : IsText(f, n) /\ Digits(n) = f[n]
<1>1. Digits(n) = (CHOOSE f : IsText(f, n))[n]
  BY DEF Digits, IsText
<1> QED
  BY <1>1, TextExists

\* The digits of a number follow those of its tenth.
LEMMA DigitsAre ==
  ASSUME NEW n \in Nat
  PROVE  Digits(n) = IF n < 10 THEN <<n>> ELSE Append(Digits(n \div 10), n % 10)
<1>1. PICK f : IsText(f, n) /\ Digits(n) = f[n]
  BY DigitsText
<1>2. f[n] = IF n < 10 THEN <<n>> ELSE Append(f[n \div 10], n % 10)
  <2>1. n \in 0 .. n
    OBVIOUS
  <2> QED
    BY <1>1, <2>1, Zenon DEF IsText
<1>3. n >= 10 => f[n \div 10] = Digits(n \div 10)
  <2> SUFFICES ASSUME n >= 10 PROVE f[n \div 10] = Digits(n \div 10)
    OBVIOUS
  <2>1. n \div 10 \in Nat /\ n \div 10 \in 0 .. n
    OBVIOUS
  <2>2. PICK g : IsText(g, n \div 10) /\ Digits(n \div 10) = g[n \div 10]
    BY <2>1, DigitsText
  <2> QED
    BY <1>1, <2>1, <2>2, TextsAgree
<1> QED
  BY <1>1, <1>2, <1>3

LEMMA DigitsType ==
  ASSUME NEW n \in Nat
  PROVE  Digits(n) \in Seq(Nat) /\ Len(Digits(n)) >= 1
<1> DEFINE Bad == {m \in Nat : ~(Digits(m) \in Seq(Nat) /\ Len(Digits(m)) >= 1)}
<1>1. Bad = {}
  <2> SUFFICES ASSUME Bad # {} PROVE FALSE
    OBVIOUS
  <2>1. PICK m \in Bad : \A k \in Bad : m <= k
    BY LeastExists
  <2>2. m \in Nat
    BY <2>1
  <2>3. ~(Digits(m) \in Seq(Nat) /\ Len(Digits(m)) >= 1)
    BY <2>1
  <2>4. Digits(m) = IF m < 10 THEN <<m>> ELSE Append(Digits(m \div 10), m % 10)
    BY <2>2, DigitsAre
  <2>5. CASE m < 10
    <3>1. Digits(m) = <<m>>
      BY <2>5, <2>4
    <3>2. <<m>> \in Seq(Nat) /\ Len(<<m>>) = 1
      BY <2>2
    <3> QED
      BY <2>3, <3>1, <3>2
  <2>6. CASE m >= 10
    <3>1. m \div 10 \in Nat /\ m \div 10 < m /\ m % 10 \in Nat
      BY <2>1, <2>6
    <3>2. Digits(m \div 10) \in Seq(Nat) /\ Len(Digits(m \div 10)) >= 1
      BY <2>1, <3>1
    <3>3. Digits(m) = Append(Digits(m \div 10), m % 10)
      <4>1. ~(m < 10)
        BY <2>6, <2>2
      <4> QED
        BY <2>4, <4>1
    <3>4. Digits(m) \in Seq(Nat) /\ Len(Digits(m)) = Len(Digits(m \div 10)) + 1
      BY <3>1, <3>2, <3>3, AppendProperties
    <3> QED
      BY <2>3, <3>2, <3>4
  <2> QED
    BY <2>5, <2>6, <2>2
<1> QED
  BY <1>1

Greater(s, t) == Len(s) > Len(t) \/ (Len(s) = Len(t) /\ TextGreater(s, t))

LEMMA LongerGreater ==
  ASSUME NEW s, NEW t, NEW m \in Nat, Len(s) = 1, Len(t) = m, m >= 2
  PROVE  s # t /\ ~Greater(s, t) /\ Greater(t, s)
<1>1. ~(Len(s) = Len(t)) /\ ~(Len(s) > Len(t)) /\ Len(t) > Len(s)
  OBVIOUS
<1>2. s # t
  BY <1>1, Zenon
<1> QED
  BY <1>1, <1>2, Zenon DEF Greater

\* One digit more on each side counts only where the texts before are equal.
LEMMA GreaterAppend ==
  ASSUME NEW s \in Seq(Nat), NEW t \in Seq(Nat), NEW x \in Nat, NEW y \in Nat
  PROVE  /\ Append(s, x) = Append(t, y) <=> s = t /\ x = y
         /\ Greater(Append(s, x), Append(t, y)) <=> Greater(s, t) \/ (s = t /\ x > y)
<1> DEFINE a == Append(s, x)
           b == Append(t, y)
<1>1. /\ Len(s) \in Nat /\ Len(t) \in Nat /\ Len(a) = Len(s) + 1 /\ Len(b) = Len(t) + 1
      /\ a \in Seq(Nat) /\ b \in Seq(Nat)
      /\ a[Len(s) + 1] = x /\ b[Len(t) + 1] = y
      /\ \A i \in 1 .. Len(s) : a[i] = s[i]
      /\ \A i \in 1 .. Len(t) : b[i] = t[i]
  BY AppendProperties
<1> HIDE DEF a, b
<1>2. Len(s) = Len(t) /\ (\A i \in 1 .. Len(s) : s[i] = t[i]) => s = t
  BY SeqEqual
<1>3. a = b => s = t /\ x = y
  <2> SUFFICES ASSUME a = b PROVE s = t /\ x = y
    OBVIOUS
  <2>1. Len(s) = Len(t)
    BY <1>1
  <2> QED
    BY <1>1, <1>2, <2>1
<1>4. s = t /\ x = y => a = b
  BY DEF a, b
<1>5. ASSUME Len(s) = Len(t)
      PROVE  TextGreater(a, b) <=> TextGreater(s, t) \/ (s = t /\ x > y)
  <2>1. DOMAIN b = 1 .. Len(s) + 1 /\ DOMAIN t = 1 .. Len(s)
    BY <1>1, <1>5
  <2>2. ASSUME NEW i \in 1 .. Len(s)
        PROVE  (a[i] > b[i] /\ \A j \in 1 .. i - 1 : a[j] = b[j])
                 <=> (s[i] > t[i] /\ \A j \in 1 .. i - 1 : s[j] = t[j])
    <3>1. i \in 1 .. Len(t) /\ \A j \in 1 .. i - 1 : j \in 1 .. Len(s) /\ j \in 1 .. Len(t)
      BY <1>1, <1>5
    <3>2. a[i] = s[i] /\ b[i] = t[i]
      BY <1>1, <3>1
    <3>3. \A j \in 1 .. i - 1 : a[j] = s[j] /\ b[j] = t[j]
      BY <1>1, <3>1
    <3> QED
      BY <3>2, <3>3
  <2>3. (a[Len(s) + 1] > b[Len(s) + 1] /\ \A j \in 1 .. Len(s) : a[j] = b[j])
          <=> (x > y /\ s = t)
    BY <1>1, <1>2, <1>5
  <2>4. \A i \in 1 .. Len(s) + 1 : i \in 1 .. Len(s) \/ i = Len(s) + 1
    BY <1>1
  <2>5. (Len(s) + 1) - 1 = Len(s) /\ Len(s) + 1 \in 1 .. Len(s) + 1
        /\ 1 .. Len(s) \subseteq 1 .. Len(s) + 1
    BY <1>1
  <2> QED
    BY <2>1, <2>2, <2>3, <2>4, <2>5 DEF TextGreater
<1>6. Greater(a, b) <=> Greater(s, t) \/ (s = t /\ x > y)
  BY <1>1, <1>5 DEF Greater
<1> QED
  BY <1>3, <1>4, <1>6 DEF a, b

(***************************************************************************)
(* Comparing decimal texts by length and then from the left, as            *)
(* _decode_u64 does without converting them, is comparing the numbers.     *)
(***************************************************************************)
THEOREM IntegerTextExact ==
  ASSUME NEW m \in Nat, NEW n \in Nat
  PROVE  /\ Digits(m) = Digits(n) <=> m = n
         /\ Greater(Digits(m), Digits(n)) <=> m > n
<1> DEFINE Orders(a) == \A b \in Nat :
             /\ Digits(a) = Digits(b) <=> a = b
             /\ Greater(Digits(a), Digits(b)) <=> a > b
           Bad == {a \in Nat : ~Orders(a)}
<1>1. Bad = {}
  <2> SUFFICES ASSUME Bad # {} PROVE FALSE
    OBVIOUS
  <2>1. PICK a \in Bad : \A k \in Bad : a <= k
    BY LeastExists
  <2>2. Orders(a)
    <3> SUFFICES ASSUME NEW b \in Nat
                 PROVE  /\ Digits(a) = Digits(b) <=> a = b
                        /\ Greater(Digits(a), Digits(b)) <=> a > b
      OBVIOUS
    <3>1. a \in Nat
      BY <2>1
    <3>2. ASSUME NEW k \in Nat, k < 10 PROVE Digits(k) = <<k>> /\ Len(Digits(k)) = 1
      BY <3>2, DigitsAre
    <3>3. ASSUME NEW k \in Nat, k >= 10
          PROVE  /\ k \div 10 \in Nat /\ k % 10 \in Nat /\ k \div 10 < k
                 /\ Digits(k) = Append(Digits(k \div 10), k % 10)
                 /\ Digits(k \div 10) \in Seq(Nat)
                 /\ Len(Digits(k)) >= 2 /\ Len(Digits(k)) \in Nat
      <4>1. k \div 10 \in Nat /\ k % 10 \in Nat /\ k \div 10 < k
        BY <3>3
      <4>2. Digits(k) = Append(Digits(k \div 10), k % 10)
        BY <3>3, DigitsAre
      <4>3. Digits(k \div 10) \in Seq(Nat) /\ Len(Digits(k \div 10)) >= 1
        BY <4>1, DigitsType
      <4>4. Len(Digits(k)) = Len(Digits(k \div 10)) + 1 /\ Len(Digits(k \div 10)) \in Nat
        BY <4>1, <4>2, <4>3, AppendProperties
      <4> QED
        BY <4>1, <4>2, <4>3, <4>4
    <3>4. CASE a < 10 /\ b < 10
      <4>1. Digits(a) = <<a>> /\ Digits(b) = <<b>>
        BY <3>1, <3>2, <3>4
      <4>2. TextGreater(<<a>>, <<b>>) <=> a > b
        BY <3>1 DEF TextGreater
      <4> QED
        BY <3>1, <4>1, <4>2 DEF Greater
    <3>5. CASE a < 10 /\ b >= 10
      <4>1. Len(Digits(a)) = 1 /\ Len(Digits(b)) >= 2 /\ Len(Digits(b)) \in Nat
        BY <3>1, <3>2, <3>3, <3>5
      <4>2. ~(a = b) /\ ~(a > b)
        BY <3>1, <3>5
      <4>3. Digits(a) # Digits(b) /\ ~Greater(Digits(a), Digits(b))
        BY <4>1, LongerGreater
      <4> QED
        BY <4>2, <4>3
    <3>6. CASE a >= 10 /\ b < 10
      <4>1. Len(Digits(b)) = 1 /\ Len(Digits(a)) >= 2 /\ Len(Digits(a)) \in Nat
        BY <3>1, <3>2, <3>3, <3>6
      <4>2. ~(a = b) /\ a > b
        BY <3>1, <3>6
      <4>3. Digits(a) # Digits(b) /\ Greater(Digits(a), Digits(b))
        BY <4>1, LongerGreater
      <4> QED
        BY <4>2, <4>3
    <3>7. CASE a >= 10 /\ b >= 10
      <4> DEFINE p == a \div 10
                 q == b \div 10
                 x == a % 10
                 y == b % 10
      <4>1. /\ p \in Nat /\ q \in Nat /\ x \in Nat /\ y \in Nat /\ p < a
            /\ Digits(a) = Append(Digits(p), x) /\ Digits(b) = Append(Digits(q), y)
            /\ Digits(p) \in Seq(Nat) /\ Digits(q) \in Seq(Nat)
        BY <3>1, <3>3, <3>7
      <4>2. /\ a = b <=> p = q /\ x = y
            /\ a > b <=> p > q \/ (p = q /\ x > y)
        BY <3>1
      <4> HIDE DEF p, q, x, y
      <4>3. Orders(p)
        <5>1. p \notin Bad
          BY <2>1, <3>1, <4>1
        <5> QED
          BY <4>1, <5>1
      <4>4. /\ Digits(p) = Digits(q) <=> p = q
            /\ Greater(Digits(p), Digits(q)) <=> p > q
        BY <4>1, <4>3
      <4>5. /\ Digits(a) = Digits(b) <=> Digits(p) = Digits(q) /\ x = y
            /\ Greater(Digits(a), Digits(b))
                 <=> Greater(Digits(p), Digits(q)) \/ (Digits(p) = Digits(q) /\ x > y)
        BY <4>1, GreaterAppend
      <4> QED
        BY <4>2, <4>4, <4>5
    <3> QED
      BY <3>1, <3>4, <3>5, <3>6, <3>7
  <2> QED
    BY <2>1, <2>2
<1> QED
  BY <1>1

\* What _decode_u64 accepts of the texts is what is in range.
LEMMA DecodesIs ==
  ASSUME IsTree(tree), NEW p \in DOMAIN tree, Kind(p) = "int"
  PROVE  DecodesU64(p) <=> IsU64(p)
<1>1. tree[p] \in Node /\ tree[p].kind = "int"
  BY DEF IsTree, Kind
<1>2. tree[p].minus \in BOOLEAN /\ tree[p].int \in Int /\ (~tree[p].minus => tree[p].int \in Nat)
  BY <1>1 DEF Node
<1>3. CASE tree[p].minus
  BY <1>3 DEF DecodesU64, IsU64
<1>4. CASE ~tree[p].minus
  <2> DEFINE n == tree[p].int
  <2>1. n \in Nat /\ U64Max \in Nat
    BY <1>2, <1>4, HeaderLimitsAssumption
  <2>2. Len(Digits(n)) \in Nat /\ Len(Digits(U64Max)) \in Nat
    BY <2>1, DigitsType
  <2>3. FitsU64(Digits(n)) <=> ~Greater(Digits(n), Digits(U64Max))
    BY <2>2 DEF FitsU64, Greater
  <2>4. Greater(Digits(n), Digits(U64Max)) <=> n > U64Max
    BY <2>1, IntegerTextExact
  <2> QED
    BY <1>4, <2>1, <2>3, <2>4 DEF DecodesU64, IsU64
<1> QED
  BY <1>2, <1>3, <1>4

-----------------------------------------------------------------------------
(***************************************************************************)
(* Sequences of integers: the first bad item is found, and it is an error. *)
(***************************************************************************)
ItemBad(q) == Kind(q) # "int" \/ ~IsU64(q)

\* The item refused is the first one that is not an integer in range.
LEMMA BadItemIs ==
  ASSUME IsTree(tree), NEW p \in DOMAIN tree
  PROVE  /\ BadItemAt(p) = 0 <=> \A k \in 1 .. Width(tree[p]) : ~ItemBad(Append(p, k))
         /\ BadItemAt(p) # 0 =>
              BadItemAt(p) \in 1 .. Width(tree[p]) /\ ItemBad(Append(p, BadItemAt(p)))
<1> DEFINE n == Width(tree[p])
           I == {k \in 1 .. n : ItemBad(Append(p, k))}
<1>1. n \in Nat /\ Len(Children(p)) = n
  BY NodeIs
<1>2. \A k \in 1 .. n : Children(p)[k] = Append(p, k)
  BY DEF Children
<1>3. {k \in 1 .. Len(Children(p)) :
          Kind(Children(p)[k]) # "int" \/ ~DecodesU64(Children(p)[k])} = I
  <2>1. \A k \in 1 .. n : Append(p, k) \in DOMAIN tree
    BY DEF IsTree
  <2>2. \A k \in 1 .. n : ItemBad(Append(p, k)) <=>
          Kind(Append(p, k)) # "int" \/ ~DecodesU64(Append(p, k))
    BY <2>1, DecodesIs DEF ItemBad
  <2> HIDE DEF n
  <2> QED
    BY <1>1, <1>2, <2>2
<1>4. BadItemAt(p) = IF I # {} THEN Min(I) ELSE 0
  <2> DEFINE J == {k \in 1 .. Len(Children(p)) :
                     Kind(Children(p)[k]) # "int" \/ ~DecodesU64(Children(p)[k])}
  <2>1. BadItemAt(p) = IF J # {} THEN Min(J) ELSE 0
    BY DEF BadItemAt, SelectInSeq
  <2> QED
    BY <1>3, <2>1
<1>5. I \in SUBSET (1 .. n)
  OBVIOUS
<1>6. /\ BadItemAt(p) = 0 <=> I = {}
      /\ BadItemAt(p) # 0 => BadItemAt(p) \in I
  <2> HIDE DEF I, n
  <2> QED
    BY <1>1, <1>4, <1>5, FirstPlace
<1> QED
  BY <1>1, <1>6

\* The errors of a list of integers, one by one.
LEMMA SequenceErrorsAre ==
  ASSUME IsTree(tree), NEW p \in DOMAIN tree, Kind(p) = "list", NEW e
  PROVE  e \in R!SequenceErrors(p) <=>
           \E k \in 1 .. Width(tree[p]) :
             \/ e = "invalid_tensor_field" /\ Kind(Append(p, k)) # "int"
             \/ e = "integer_out_of_range" /\ Kind(Append(p, k)) = "int" /\ ~IsU64(Append(p, k))
<1>1. ToSet(Children(p)) = {Append(p, i) : i \in 1 .. Width(tree[p])}
  BY NodeIs
<1>2. R!SequenceErrors(p) =
        R!Error("invalid_tensor_field", \E q \in ToSet(Children(p)) : Kind(q) # "int")
        \cup R!Error("integer_out_of_range",
                     \E q \in ToSet(Children(p)) : Kind(q) = "int" /\ ~IsU64(q))
  BY ReportReads DEF R!SequenceErrors
<1>3. e \in R!SequenceErrors(p) <=>
        \/ e = "invalid_tensor_field" /\ \E q \in ToSet(Children(p)) : Kind(q) # "int"
        \/ /\ e = "integer_out_of_range"
           /\ \E q \in ToSet(Children(p)) : Kind(q) = "int" /\ ~IsU64(q)
  BY <1>2 DEF R!Error
<1> QED
  BY <1>1, <1>3

\* _decode_unsigned_sequence passes a list without error and reports one it has.
LEMMA SequenceDecided ==
  ASSUME IsTree(tree), NEW p \in DOMAIN tree
  PROVE  /\ SequenceCode(p) = "none" =>
              /\ R!SequenceErrors(p) = {}
              /\ Kind(p) = "list"
              /\ \A k \in 1 .. Width(tree[p]) : IsU64(Append(p, k))
         /\ SequenceCode(p) # "none" => SequenceCode(p) \in R!SequenceErrors(p)
<1>1. CASE Kind(p) # "list"
  BY <1>1, ReportReads DEF SequenceCode, R!SequenceErrors
<1>2. CASE Kind(p) = "list" /\ BadItemAt(p) = 0
  <2>1. \A k \in 1 .. Width(tree[p]) : Kind(Append(p, k)) = "int" /\ IsU64(Append(p, k))
    BY <1>2, BadItemIs DEF ItemBad
  <2>2. \A e : e \notin R!SequenceErrors(p)
    BY <1>2, <2>1, SequenceErrorsAre
  <2> QED
    BY <1>2, <2>1, <2>2 DEF SequenceCode
<1>3. CASE Kind(p) = "list" /\ BadItemAt(p) # 0
  <2>1. BadItemAt(p) \in 1 .. Width(tree[p]) /\ ItemBad(Append(p, BadItemAt(p)))
    BY <1>3, BadItemIs
  <2>2. SequenceCode(p) = IF Kind(Append(p, BadItemAt(p))) # "int" THEN "invalid_tensor_field"
                          ELSE "integer_out_of_range"
    BY <1>3 DEF SequenceCode
  <2> QED
    BY <1>3, <2>1, <2>2, SequenceErrorsAre DEF ItemBad
<1> QED
  BY <1>1, <1>2, <1>3

-----------------------------------------------------------------------------
(***************************************************************************)
(* The fields.                                                             *)
(***************************************************************************)
LEMMA FieldIs ==
  ASSUME IsTree(tree), NEW i \in DOMAIN Keys(<<>>), NEW f \in Required \ Missing(i)
  PROVE  FieldAt(i, f) \in DOMAIN tree
<1>1. <<>> \in DOMAIN tree
  BY DEF IsTree
<1>2. RecordAt(i) \in DOMAIN tree
  <2>1. Keys(<<>>) \in Seq(Text) /\ Len(Keys(<<>>)) \in 0 .. Width(tree[<<>>])
    BY <1>1, NodeIs
  <2>2. i \in 1 .. Width(tree[<<>>])
    BY <1>1, <2>1, NodeIs
  <2> QED
    BY <1>1, <2>2, NodeIs DEF RecordAt
<1>3. f \in ToSet(Keys(RecordAt(i)))
  BY DEF Missing
<1> QED
  BY <1>2, <1>3, MemberIs DEF FieldAt

\* The same for the dtype ...
LEMMA DtypeDecided ==
  ASSUME IsTree(tree), NEW i \in DOMAIN Keys(<<>>), "dtype" \notin Missing(i)
  PROVE  LET p == FieldAt(i, "dtype") IN
         /\ DtypeCode(p) = "none" =>
              R!FieldErrors(i, "dtype") = {} /\ Kind(p) = "str" /\ tree[p].text \notin Surrogate
         /\ DtypeCode(p) # "none" => DtypeCode(p) \in R!FieldErrors(i, "dtype")
<1> DEFINE p == FieldAt(i, "dtype")
<1>1. R!FieldErrors(i, "dtype") =
        R!Error("invalid_tensor_field", Kind(p) # "str")
        \cup R!Error("invalid_unicode_scalar", Kind(p) = "str" /\ tree[p].text \in Surrogate)
  BY ReportReads DEF R!FieldErrors
<1> HIDE DEF p
<1> QED
  BY <1>1, ErrorIs DEF DtypeCode, p

\* ... for the shape ...
LEMMA ShapeDecided ==
  ASSUME IsTree(tree), NEW i \in DOMAIN Keys(<<>>), "shape" \notin Missing(i)
  PROVE  LET p == FieldAt(i, "shape") IN
         /\ ShapeCode(p) = "none" =>
              /\ R!FieldErrors(i, "shape") = {}
              /\ SequenceCode(p) = "none" /\ Width(tree[p]) <= MaxRank
         /\ ShapeCode(p) # "none" => ShapeCode(p) \in R!FieldErrors(i, "shape")
<1> DEFINE p == FieldAt(i, "shape")
<1>1. p \in DOMAIN tree /\ Width(tree[p]) \in Nat /\ MaxRank \in Nat
  BY FieldIs, NodeIs, HeaderLimitsAssumption DEF Required
<1>2. \A e : e \in R!FieldErrors(i, "shape") <=>
               \/ e \in R!SequenceErrors(p)
               \/ /\ e = "tensor_rank_exceeds_policy_limit"
                  /\ Kind(p) = "list" /\ Width(tree[p]) > MaxRank
  BY ErrorIs, ReportReads DEF R!FieldErrors
<1> HIDE DEF p
<1>3. CASE SequenceCode(p) # "none"
  BY <1>1, <1>2, <1>3, SequenceDecided DEF ShapeCode, p
<1>4. CASE SequenceCode(p) = "none"
  <2>1. R!SequenceErrors(p) = {} /\ Kind(p) = "list"
    BY <1>1, <1>4, SequenceDecided
  <2> QED
    BY <1>1, <1>2, <1>4, <2>1 DEF ShapeCode, p
<1> QED
  BY <1>3, <1>4

\* ... and for the data offsets.
LEMMA OffsetsDecided ==
  ASSUME IsTree(tree), NEW i \in DOMAIN Keys(<<>>), "data_offsets" \notin Missing(i)
  PROVE  LET p == FieldAt(i, "data_offsets") IN
         /\ OffsetsCode(p) = "none" =>
              /\ R!FieldErrors(i, "data_offsets") = {}
              /\ SequenceCode(p) = "none" /\ Width(tree[p]) = 2
         /\ OffsetsCode(p) # "none" => OffsetsCode(p) \in R!FieldErrors(i, "data_offsets")
<1> DEFINE p == FieldAt(i, "data_offsets")
<1>1. p \in DOMAIN tree
  BY FieldIs DEF Required
<1>2. \A e : e \in R!FieldErrors(i, "data_offsets") <=>
               \/ e \in R!SequenceErrors(p)
               \/ e = "invalid_tensor_field" /\ Width(tree[p]) # 2
  BY ErrorIs, ReportReads DEF R!FieldErrors
<1> HIDE DEF p
<1>3. CASE SequenceCode(p) # "none"
  BY <1>1, <1>2, <1>3, SequenceDecided DEF OffsetsCode, p
<1>4. CASE SequenceCode(p) = "none"
  <2>1. R!SequenceErrors(p) = {} /\ Kind(p) = "list"
    BY <1>1, <1>4, SequenceDecided
  <2> QED
    BY <1>1, <1>2, <1>4, <2>1 DEF OffsetsCode, p
<1> QED
  BY <1>3, <1>4

\* The first check of the three fields to fail decides.
LEMMA FirstOfThree ==
  ASSUME NEW a, NEW b, NEW c
  PROVE  FirstOf(<<a, b, c>>) = IF a # "none" THEN a ELSE IF b # "none" THEN b ELSE c
<1> DEFINE codes == <<a, b, c>>
           I == {k \in 1 .. 3 : codes[k] # "none"}
           at == IF I # {} THEN Min(I) ELSE 0
<1>1. Len(codes) = 3 /\ codes[1] = a /\ codes[2] = b /\ codes[3] = c
  OBVIOUS
<1>2. FirstOf(codes) = IF at = 0 THEN "none" ELSE codes[at]
  <2>1. {k \in 1 .. Len(codes) : codes[k] # "none"} = I
    BY <1>1
  <2>2. FirstOf(codes) =
          LET J == {k \in 1 .. Len(codes) : codes[k] # "none"}
              k == IF J # {} THEN Min(J) ELSE 0
          IN  IF k = 0 THEN "none" ELSE codes[k]
    BY DEF FirstOf, SelectInSeq
  <2> QED
    BY <2>1, <2>2
<1>3. /\ at = 0 <=> I = {}
      /\ at # 0 => at \in I /\ \A i \in I : at <= i
  <2>1. 3 \in Nat /\ I \in SUBSET (1 .. 3)
    OBVIOUS
  <2> HIDE DEF I
  <2> QED
    BY <2>1, FirstPlace
<1> HIDE DEF at
<1>4. at \in {0, 1, 2, 3}
  BY <1>3
<1>5. CASE a # "none"
  <2>1. 1 \in I
    BY <1>1, <1>5
  <2>2. at = 1
    BY <1>3, <1>4, <2>1
  <2> QED
    BY <1>1, <1>2, <1>5, <2>2
<1>6. CASE a = "none" /\ b # "none"
  <2>1. 2 \in I /\ 1 \notin I
    BY <1>1, <1>6
  <2>2. at = 2
    BY <1>3, <1>4, <2>1
  <2> QED
    BY <1>1, <1>2, <1>6, <2>2
<1>7. CASE a = "none" /\ b = "none" /\ c # "none"
  <2>1. 3 \in I /\ 1 \notin I /\ 2 \notin I
    BY <1>1, <1>7
  <2>2. at = 3
    BY <1>3, <1>4, <2>1
  <2> QED
    BY <1>1, <1>2, <1>7, <2>2
<1>8. CASE a = "none" /\ b = "none" /\ c = "none"
  <2>1. I = {}
    BY <1>1, <1>8
  <2>2. at = 0
    BY <1>3, <2>1
  <2> QED
    BY <1>2, <1>8, <2>2
<1> QED
  BY <1>5, <1>6, <1>7, <1>8

-----------------------------------------------------------------------------
(***************************************************************************)
(* A record.  The code of a tensor is one of its errors, and a tensor      *)
(* without a code has none.                                                *)
(***************************************************************************)
LEMMA TensorErrorsAre ==
  ASSUME NEW i, NEW e
  PROVE  e \in R!TensorErrors(i) <=>
           \/ /\ e = "invalid_unicode_scalar"
              /\ ({NameAt(i)} \cup ToSet(Keys(RecordAt(i)))) \cap Surrogate # {}
           \/ e = "tensor_name_exceeds_policy_limit" /\ Bytes[NameAt(i)] > MaxName
           \/ e = "invalid_tensor_record" /\ Kind(RecordAt(i)) # "dict"
           \/ e = "missing_tensor_field" /\ Kind(RecordAt(i)) = "dict" /\ Missing(i) # {}
           \/ /\ Kind(RecordAt(i)) = "dict"
              /\ \E f \in Required \ Missing(i) : e \in R!FieldErrors(i, f)
<1>1. R!TensorErrors(i) =
        (R!Error("invalid_unicode_scalar",
                 ({NameAt(i)} \cup ToSet(Keys(RecordAt(i)))) \cap Surrogate # {})
         \cup R!Error("tensor_name_exceeds_policy_limit", Bytes[NameAt(i)] > MaxName))
        \cup (IF Kind(RecordAt(i)) # "dict" THEN {"invalid_tensor_record"}
              ELSE R!Error("missing_tensor_field", Missing(i) # {})
                   \cup UNION {R!FieldErrors(i, f) : f \in Required \ Missing(i)})
  BY ReportReads DEF R!TensorErrors
<1>2. e \in UNION {R!FieldErrors(i, f) : f \in Required \ Missing(i)} <=>
        \E f \in Required \ Missing(i) : e \in R!FieldErrors(i, f)
  OBVIOUS
<1>3. CASE Kind(RecordAt(i)) = "dict"
  <2>1. e \in R!TensorErrors(i) <=>
          \/ e \in R!Error("invalid_unicode_scalar",
                           ({NameAt(i)} \cup ToSet(Keys(RecordAt(i)))) \cap Surrogate # {})
          \/ e \in R!Error("tensor_name_exceeds_policy_limit", Bytes[NameAt(i)] > MaxName)
          \/ e \in R!Error("missing_tensor_field", Missing(i) # {})
          \/ \E f \in Required \ Missing(i) : e \in R!FieldErrors(i, f)
    BY <1>1, <1>2, <1>3
  <2> QED
    BY <1>3, <2>1 DEF R!Error
<1>4. CASE Kind(RecordAt(i)) # "dict"
  <2>1. e \in R!TensorErrors(i) <=>
          \/ e \in R!Error("invalid_unicode_scalar",
                           ({NameAt(i)} \cup ToSet(Keys(RecordAt(i)))) \cap Surrogate # {})
          \/ e \in R!Error("tensor_name_exceeds_policy_limit", Bytes[NameAt(i)] > MaxName)
          \/ e = "invalid_tensor_record"
    BY <1>1, <1>4
  <2> QED
    BY <1>4, <2>1 DEF R!Error
<1> QED
  BY <1>3, <1>4

\* The checks of a tensor pass exactly when it has no error, and report one it has.
LEMMA TensorDecided ==
  ASSUME IsTree(tree), NEW i \in DOMAIN Keys(<<>>)
  PROVE  /\ TensorCode(i) = "none" =>
              /\ R!TensorErrors(i) = {}
              /\ NameCode(i) = "none" /\ RecordCode(i) = "none"
              /\ DtypeCode(FieldAt(i, "dtype")) = "none"
              /\ ShapeCode(FieldAt(i, "shape")) = "none"
              /\ OffsetsCode(FieldAt(i, "data_offsets")) = "none"
         /\ TensorCode(i) # "none" => TensorCode(i) \in R!TensorErrors(i)
<1> DEFINE d == DtypeCode(FieldAt(i, "dtype"))
           s == ShapeCode(FieldAt(i, "shape"))
           o == OffsetsCode(FieldAt(i, "data_offsets"))
<1>1. CASE NameCode(i) # "none"
  <2>1. TensorCode(i) = NameCode(i)
    BY <1>1 DEF TensorCode
  <2> QED
    BY <1>1, <2>1, TensorErrorsAre DEF NameCode
<1>2. CASE NameCode(i) = "none" /\ RecordCode(i) # "none"
  <2>1. TensorCode(i) = RecordCode(i)
    BY <1>2 DEF TensorCode
  <2>2. Kind(RecordAt(i)) # "dict" => RecordCode(i) \in R!TensorErrors(i)
    BY TensorErrorsAre DEF RecordCode
  <2>3. ToSet(Keys(RecordAt(i))) \cap Surrogate # {}
          => "invalid_unicode_scalar" \in R!TensorErrors(i)
    BY TensorErrorsAre
  <2>4. Kind(RecordAt(i)) = "dict" /\ Missing(i) # {}
          => "missing_tensor_field" \in R!TensorErrors(i)
    BY TensorErrorsAre
  <2> QED
    BY <1>2, <2>1, <2>2, <2>3, <2>4 DEF RecordCode
<1>3. CASE NameCode(i) = "none" /\ RecordCode(i) = "none"
  <2>1. /\ Kind(RecordAt(i)) = "dict" /\ Missing(i) = {}
        /\ ToSet(Keys(RecordAt(i))) \cap Surrogate = {}
    BY <1>3 DEF RecordCode
  <2>2. NameAt(i) \notin Surrogate /\ ~(Bytes[NameAt(i)] > MaxName)
    BY <1>3 DEF NameCode
  <2>3. TensorCode(i) = IF d # "none" THEN d ELSE IF s # "none" THEN s ELSE o
    BY <1>3, FirstOfThree DEF TensorCode, FieldCodes
  <2>4. \A e : e \in R!TensorErrors(i) <=>
                 \E f \in {"dtype", "shape", "data_offsets"} : e \in R!FieldErrors(i, f)
    BY <2>1, <2>2, TensorErrorsAre DEF Required
  <2>5. /\ d = "none" => R!FieldErrors(i, "dtype") = {}
        /\ d # "none" => d \in R!FieldErrors(i, "dtype")
    BY <2>1, DtypeDecided
  <2>6. /\ s = "none" => R!FieldErrors(i, "shape") = {}
        /\ s # "none" => s \in R!FieldErrors(i, "shape")
    BY <2>1, ShapeDecided
  <2>7. /\ o = "none" => R!FieldErrors(i, "data_offsets") = {}
        /\ o # "none" => o \in R!FieldErrors(i, "data_offsets")
    BY <2>1, OffsetsDecided
  <2> HIDE DEF d, s, o
  <2>8. CASE TensorCode(i) = "none"
    <3>1. d = "none" /\ s = "none" /\ o = "none"
      BY <2>3, <2>8
    <3>2. R!TensorErrors(i) = {}
      BY <2>4, <2>5, <2>6, <2>7, <3>1
    <3> QED
      BY <1>3, <2>8, <3>1, <3>2 DEF d, s, o
  <2>9. CASE TensorCode(i) # "none"
    BY <2>3, <2>4, <2>5, <2>6, <2>7, <2>9
  <2> QED
    BY <2>8, <2>9
<1> QED
  BY <1>1, <1>2, <1>3

(***************************************************************************)
(* What the constructors ask of a tensor, they find.                       *)
(***************************************************************************)
LEMMA IntegersFit ==
  ASSUME IsTree(tree), NEW p \in DOMAIN tree, SequenceCode(p) = "none"
  PROVE  /\ IntegersAt(p) \in Seq(0 .. U64Max)
         /\ Len(IntegersAt(p)) = Width(tree[p])
<1>1. Width(tree[p]) \in Nat
  BY NodeIs
<1>2. \A k \in 1 .. Width(tree[p]) : tree[Append(p, k)].int \in 0 .. U64Max
  BY SequenceDecided DEF IsU64
<1>3. IntegersAt(p) = [k \in 1 .. Width(tree[p]) |-> tree[Append(p, k)].int]
  BY DEF IntegersAt
<1>4. \A n \in Nat : \A V, f : f \in [1 .. n -> V] => f \in Seq(V) /\ Len(f) = n
  OBVIOUS
<1>5. IntegersAt(p) \in [1 .. Width(tree[p]) -> 0 .. U64Max]
  BY <1>2, <1>3
<1> QED
  BY <1>1, <1>4, <1>5

\* A tensor read without error has the values its record type allows.
LEMMA TensorFits ==
  ASSUME IsTree(tree), NEW k \in DOMAIN TensorMembers, TensorCode(TensorMembers[k]) = "none"
  PROVE  LET t == TensorAt(TensorMembers[k]) IN
         /\ t.name \in Text /\ t.dtype \in Text
         /\ t.shape \in Shape
         /\ t.data_offsets \in Seq(Offset) /\ Len(t.data_offsets) = 2
         /\ ComponentsFit(t)
         /\ Bytes[t.name] <= MaxName
         /\ Len(t.shape) <= MaxRank
<1> DEFINE i == TensorMembers[k]
           t == TensorAt(i)
           dtype == FieldAt(i, "dtype")
           shape == FieldAt(i, "shape")
           offsets == FieldAt(i, "data_offsets")
           kept == ToSet(Keys(RecordAt(i)))
<1>1. i \in DOMAIN Keys(<<>>) /\ NameAt(i) # MetadataKey
  BY MembersAre
<1>2. <<>> \in DOMAIN tree
  BY DEF IsTree
<1>3. NameAt(i) \in Text
  BY <1>1, <1>2, NodeIs DEF NameAt
<1>4. /\ NameCode(i) = "none" /\ RecordCode(i) = "none"
      /\ DtypeCode(dtype) = "none" /\ ShapeCode(shape) = "none" /\ OffsetsCode(offsets) = "none"
  BY <1>1, TensorDecided
<1>5. Missing(i) = {} /\ kept \cap Surrogate = {}
  BY <1>4 DEF RecordCode
<1>6. NameAt(i) \notin Surrogate /\ Bytes[NameAt(i)] <= MaxName
  <2>1. Bytes[NameAt(i)] \in Nat /\ MaxName \in Nat
    BY <1>3, TextAssumption, HeaderLimitsAssumption
  <2> QED
    BY <1>4, <2>1 DEF NameCode
<1>7. /\ dtype \in DOMAIN tree /\ shape \in DOMAIN tree /\ offsets \in DOMAIN tree
  BY <1>1, <1>5, FieldIs DEF Required
<1>8. tree[dtype].text \in Text \ Surrogate
  <2>1. Kind(dtype) = "str" /\ tree[dtype].text \notin Surrogate
    BY <1>1, <1>4, <1>5, DtypeDecided
  <2>2. tree[dtype] \in Node
    BY <1>7, NodeIs
  <2> QED
    BY <2>1, <2>2 DEF Node, Kind
<1>9. IntegersAt(shape) \in Seq(0 .. U64Max) /\ Len(IntegersAt(shape)) <= MaxRank
  <2>1. SequenceCode(shape) = "none" /\ Width(tree[shape]) <= MaxRank
    BY <1>1, <1>4, <1>5, ShapeDecided
  <2> QED
    BY <1>7, <2>1, IntegersFit
<1>10. IntegersAt(offsets) \in Seq(0 .. U64Max) /\ Len(IntegersAt(offsets)) = 2
  <2>1. SequenceCode(offsets) = "none" /\ Width(tree[offsets]) = 2
    BY <1>1, <1>4, <1>5, OffsetsDecided
  <2> QED
    BY <1>7, <2>1, IntegersFit
<1>11. /\ t.name = NameAt(i) /\ t.dtype = tree[dtype].text
       /\ t.shape = IntegersAt(shape) /\ t.data_offsets = IntegersAt(offsets)
       /\ t.unknown_fields = kept \ Required
  BY DEF TensorAt
<1>12. /\ \A j \in DOMAIN t.shape : t.shape[j] \in 0 .. U64Max
      /\ \A j \in DOMAIN t.data_offsets : t.data_offsets[j] \in 0 .. U64Max
      /\ DOMAIN t.data_offsets = 1 .. 2
  <2> DEFINE V == 0 .. U64Max
  <2> HIDE DEF V, i, t, dtype, shape, offsets, kept
  <2>1. \A s \in Seq(V) : DOMAIN s = 1 .. Len(s) /\ \A j \in DOMAIN s : s[j] \in V
    OBVIOUS
  <2>2. t.shape \in Seq(V) /\ t.data_offsets \in Seq(V) /\ Len(t.data_offsets) = 2
    BY <1>9, <1>10, <1>11 DEF V
  <2> QED
    BY <2>1, <2>2 DEF V
<1> HIDE DEF i, t, dtype, shape, offsets, kept
<1>13. ComponentsFit(t)
  <2>1. ({t.name, t.dtype} \cup t.unknown_fields) \cap Surrogate = {}
    BY <1>5, <1>6, <1>8, <1>11
  <2>2. \A j \in DOMAIN t.shape : t.shape[j] \in 0 .. U64Max
    BY <1>12
  <2>3. Len(t.data_offsets) = 2 /\ \A j \in 1 .. 2 : t.data_offsets[j] \in 0 .. U64Max
    BY <1>10, <1>11, <1>12
  <2>4. t.unknown_fields \cap Required = {} /\ t.name # MetadataKey
    BY <1>1, <1>11 DEF i
  <2> QED
    BY <2>1, <2>2, <2>3, <2>4 DEF ComponentsFit
<1> QED
  BY <1>3, <1>6, <1>8, <1>9, <1>10, <1>11, <1>13 DEF Shape, Offset, t, i

-----------------------------------------------------------------------------
(***************************************************************************)
(* The inductive invariant of the decoder: where it is, what it has read   *)
(* of the metadata and of the tensors, and why it has refused.             *)
(***************************************************************************)
ControlTrue ==
    /\ IsTree(tree) /\ header \in Header
    /\ phase \in {"bytes", "metadata", "count", "tensors", "done", "refused"}
    /\ code = "none" <=> phase # "refused"
    /\ phase \notin {"bytes", "refused"} => Readable(header) /\ Kind(<<>>) = "dict"
    /\ phase \in {"tensors", "done"} => Len(TensorMembers) <= MaxTensors
    /\ phase = "done" => Len(tensors) = Len(TensorMembers)

MetadataRead ==
    phase \in {"count", "tensors", "done"} => MetadataSound /\ metadata = MetadataEntries

TensorsRead ==
    /\ Len(tensors) \in 0 .. Len(TensorMembers)
    /\ tensors = [k \in 1 .. Len(tensors) |-> TensorAt(TensorMembers[k])]
    /\ \A k \in 1 .. Len(tensors) : TensorCode(TensorMembers[k]) = "none"
    /\ phase \in {"bytes", "metadata", "count"} => tensors = <<>>

NoticesRead ==
    phase \in {"count", "tensors", "done"} =>
      \A n : n \in notices <=>
               \/ n = "metadata_null" /\ MetadataForm = "null"
               \/ /\ n = "unknown_tensor_fields"
                  /\ \E k \in DOMAIN tensors : tensors[k].unknown_fields # {}

OfTensors == {"tensor_name_exceeds_policy_limit", "invalid_tensor_record", "missing_tensor_field",
              "integer_out_of_range", "tensor_rank_exceeds_policy_limit"}

RefusalTrue ==
    phase = "refused" =>
      /\ code \in R!Errors
      /\ code \in OfTensors => \E i \in Following : code \in R!TensorErrors(i)

SchemaInv == ControlTrue /\ MetadataRead /\ TensorsRead /\ NoticesRead /\ RefusalTrue

-----------------------------------------------------------------------------
(***************************************************************************)
(* Every reading is of the document, which does not change.                *)
(***************************************************************************)
LEMMA ReadingsFixed ==
  ASSUME tree' = tree
  PROVE  /\ \A p : Kind(p)' = Kind(p)
         /\ TensorMembers' = TensorMembers
         /\ MetadataForm' = MetadataForm /\ MetadataEntries' = MetadataEntries
         /\ MetadataSound' <=> MetadataSound
         /\ \A i : TensorAt(i)' = TensorAt(i) /\ TensorCode(i)' = TensorCode(i)
         /\ R!MetadataErrors' = R!MetadataErrors
         /\ \A i : R!TensorErrors(i)' = R!TensorErrors(i)
<1>1. \A p : Kind(p)' = Kind(p) /\ Keys(p)' = Keys(p) /\ Children(p)' = Children(p)
  BY DEF Kind, Keys, Children
<1>2. \A p, key : Get(p, key)' = Get(p, key) /\ (Has(p, key)' <=> Has(p, key))
  BY <1>1 DEF Get, Has, Member
<1>3. /\ TensorMembers' = TensorMembers
      /\ Metadata' = Metadata /\ MetadataForm' = MetadataForm
  BY <1>1, <1>2 DEF TensorMembers, Metadata, MetadataForm
<1>4. MetadataEntries' = MetadataEntries
  BY <1>1, <1>3 DEF MetadataEntries
<1>5. \A i : /\ NameAt(i)' = NameAt(i) /\ RecordAt(i)' = RecordAt(i)
             /\ Missing(i)' = Missing(i)
  BY <1>1 DEF NameAt, RecordAt, Missing
<1>6. \A i, f : FieldAt(i, f)' = FieldAt(i, f)
  BY <1>2, <1>5 DEF FieldAt
<1>7. \A i : TensorAt(i)' = TensorAt(i)
  BY <1>1, <1>5, <1>6 DEF TensorAt, IntegersAt
<1>8. \A k : EntryMistyped(k)' = EntryMistyped(k) /\ EntryUnencodable(k)' = EntryUnencodable(k)
  BY <1>1, <1>3 DEF EntryMistyped, EntryUnencodable
<1>9. MetadataSound' <=> MetadataSound
  <2>1. BadEntryAt' = BadEntryAt
    BY <1>1, <1>3, <1>8 DEF BadEntryAt, SelectInSeq
  <2> QED
    BY <1>1, <1>3, <2>1 DEF MetadataSound
<1>10. \A p : DecodesU64(p)' <=> DecodesU64(p)
  BY DEF DecodesU64, FitsU64, TextGreater, Digits
<1>11. \A p : SequenceCode(p)' = SequenceCode(p)
  <2>1. \A p : BadItemAt(p)' = BadItemAt(p)
    BY <1>1, <1>10 DEF BadItemAt, SelectInSeq
  <2> QED
    BY <1>1, <2>1 DEF SequenceCode
<1>12. \A p : /\ DtypeCode(p)' = DtypeCode(p) /\ ShapeCode(p)' = ShapeCode(p)
              /\ OffsetsCode(p)' = OffsetsCode(p)
  BY <1>1, <1>11 DEF DtypeCode, ShapeCode, OffsetsCode
<1>13. \A i : TensorCode(i)' = TensorCode(i)
  <2>1. \A i : FieldCodes(i)' = FieldCodes(i)
    BY <1>6, <1>12 DEF FieldCodes
  <2>2. \A i : NameCode(i)' = NameCode(i) /\ RecordCode(i)' = RecordCode(i)
    BY <1>1, <1>5 DEF NameCode, RecordCode
  <2> QED
    BY <2>1, <2>2 DEF TensorCode
<1>14. R!MetadataErrors' = R!MetadataErrors
  BY DEF R!MetadataErrors, R!MetadataForm, R!Metadata, R!Kind, R!Keys, R!Children, R!Get, R!Has,
         R!Member, R!MetadataTexts
<1>15. \A i : R!TensorErrors(i)' = R!TensorErrors(i)
  <2>1. \A p : R!Kind(p)' = R!Kind(p) /\ R!Keys(p)' = R!Keys(p) /\ R!Children(p)' = R!Children(p)
    BY DEF R!Kind, R!Keys, R!Children
  <2>2. \A i : /\ R!NameAt(i)' = R!NameAt(i) /\ R!RecordAt(i)' = R!RecordAt(i)
               /\ R!Missing(i)' = R!Missing(i)
    BY <2>1 DEF R!NameAt, R!RecordAt, R!Missing
  <2>3. \A i, f : R!FieldAt(i, f)' = R!FieldAt(i, f)
    BY <2>1, <2>2 DEF R!FieldAt, R!Get, R!Member
  <2>4. \A p : R!SequenceErrors(p)' = R!SequenceErrors(p)
    BY <2>1 DEF R!SequenceErrors, R!IsU64
  <2>5. \A i, f : R!FieldErrors(i, f)' = R!FieldErrors(i, f)
    BY <2>1, <2>3, <2>4 DEF R!FieldErrors
  <2> QED
    BY <2>1, <2>2, <2>5 DEF R!TensorErrors
<1> QED
  BY <1>1, <1>3, <1>4, <1>7, <1>9, <1>13, <1>14, <1>15

\* Nor do the errors of the header.
LEMMA ErrorsFixed ==
  ASSUME tree' = tree, header' = header
  PROVE  R!Errors' = R!Errors
<1>1. \A p : R!Kind(p)' = R!Kind(p)
  BY DEF R!Kind
<1>2. R!TensorMembers' = R!TensorMembers
  BY DEF R!TensorMembers, R!Keys, R!Kind, R!Has, R!Member
<1> QED
  BY <1>1, <1>2, ReadingsFixed DEF R!Errors

(***************************************************************************)
(* The errors of a readable object.                                        *)
(***************************************************************************)
LEMMA ErrorsAre ==
  ASSUME Readable(header), Kind(<<>>) = "dict", NEW e
  PROVE  e \in R!Errors <=>
           \/ e \in R!MetadataErrors
           \/ e = "tensor_count_exceeds_policy_limit" /\ Len(TensorMembers) > MaxTensors
           \/ \E i \in ToSet(TensorMembers) : e \in R!TensorErrors(i)
<1>1. header.utf8 /\ header.json = "value"
  BY DEF Readable
<1>2. R!Errors = (R!MetadataErrors
        \cup R!Error("tensor_count_exceeds_policy_limit", Len(TensorMembers) > MaxTensors))
        \cup UNION {R!TensorErrors(i) : i \in ToSet(TensorMembers)}
  BY <1>1, ReportReads DEF R!Errors
<1> QED
  BY <1>2 DEF R!Error

\* The member to read next.
LEMMA FollowingIs ==
  ASSUME IsTree(tree), TensorsRead
  PROVE  \A i \in Following : /\ i = TensorMembers[Len(tensors) + 1]
                              /\ Len(tensors) + 1 \in DOMAIN TensorMembers
                              /\ i \in ToSet(TensorMembers) /\ i \in DOMAIN Keys(<<>>)
BY MembersAre DEF Following, ToSet

-----------------------------------------------------------------------------
\* The invariant of the decoder at the start.
LEMMA SchemaStart == Init => SchemaInv
<1> SUFFICES ASSUME Init PROVE SchemaInv
  OBVIOUS
<1>1. /\ IsTree(tree) /\ header \in Header /\ phase = "bytes" /\ code = "none" /\ tensors = <<>>
  BY TreesAssumption DEF Init
<1>2. /\ Len(tensors) = 0 /\ Len(TensorMembers) \in Nat
      /\ tensors = [k \in 1 .. 0 |-> TensorAt(TensorMembers[k])]
  BY <1>1, MembersAre
<1> QED
  BY <1>1, <1>2 DEF SchemaInv, ControlTrue, MetadataRead, TensorsRead, NoticesRead, RefusalTrue

(***************************************************************************)
(* A step that leaves the tensors alone keeps what is true of them.        *)
(***************************************************************************)
LEMMA TensorsKept ==
  ASSUME SchemaInv, UNCHANGED <<tree, tensors>>,
         phase' \in {"bytes", "metadata", "count"} => tensors = <<>>
  PROVE  TensorsRead'
<1>1. /\ TensorMembers' = TensorMembers
      /\ \A i : TensorAt(i)' = TensorAt(i) /\ TensorCode(i)' = TensorCode(i)
  BY ReadingsFixed
<1>2. tensors = [k \in 1 .. Len(tensors) |-> TensorAt(TensorMembers[k])]
  BY DEF SchemaInv, TensorsRead
<1>3. tensors' = [k \in 1 .. Len(tensors') |-> TensorAt(TensorMembers[k])']
  BY <1>1, <1>2
<1>4. \A k \in 1 .. Len(tensors') : TensorCode(TensorMembers[k])' = "none"
  BY <1>1 DEF SchemaInv, TensorsRead
<1> QED
  BY <1>1, <1>3, <1>4 DEF SchemaInv, TensorsRead

(***************************************************************************)
(* A refusal for an error the header has ends the call as it should.       *)
(***************************************************************************)
LEMMA RefuseKeeps ==
  ASSUME SchemaInv, NEW error \in R!Errors, error # "none", Refuse(error),
         error \in OfTensors => \E i \in Following : error \in R!TensorErrors(i)
  PROVE  SchemaInv'
<1>1. /\ UNCHANGED <<header, tree, metadata, tensors, notices>>
      /\ phase' = "refused" /\ code' = error
  BY DEF Refuse, fields
<1>2. TensorsRead'
  BY <1>1, TensorsKept
<1>3. R!Errors' = R!Errors /\ \A i : R!TensorErrors(i)' = R!TensorErrors(i)
  BY <1>1, ErrorsFixed, ReadingsFixed
<1>4. Following' = Following
  BY <1>1, ReadingsFixed DEF Following
<1>5. RefusalTrue'
  BY <1>1, <1>3, <1>4 DEF RefusalTrue
<1>6. ControlTrue'
  BY <1>1 DEF SchemaInv, ControlTrue
<1> QED
  BY <1>1, <1>2, <1>5, <1>6 DEF SchemaInv, MetadataRead, NoticesRead

(***************************************************************************)
(* The bytes.                                                              *)
(***************************************************************************)
LEMMA BytesKeep ==
  ASSUME SchemaInv, ReadBytes
  PROVE  SchemaInv'
<1>1. CASE RefuseUtf8
  <2>1. "header_utf8" \in R!Errors
    BY <1>1 DEF RefuseUtf8, R!Errors
  <2> QED
    BY <1>1, <2>1, RefuseKeeps DEF RefuseUtf8, OfTensors
<1>2. CASE RefuseJson
  <2>1. header.json \in DOMAIN JsonFailures
    BY <1>2 DEF RefuseJson, SchemaInv, ControlTrue, Header
  <2>2. JsonFailures[header.json] \notin OfTensors \cup {"none"}
    BY <2>1 DEF JsonFailures, OfTensors
  <2>3. JsonFailures[header.json] \in R!Errors
    BY <1>2, ReportReads DEF RefuseJson, R!Errors
  <2> QED
    BY <1>2, <2>2, <2>3, RefuseKeeps DEF RefuseJson
<1>3. CASE RefuseRoot
  <2>1. "header_not_object" \in R!Errors
    BY <1>3, ReportReads DEF RefuseRoot, R!Errors, Readable
  <2> QED
    BY <1>3, <2>1, RefuseKeeps DEF RefuseRoot, OfTensors
<1>4. CASE BeginObject
  <2>1. /\ UNCHANGED <<header, tree, metadata, tensors, notices, code>>
        /\ phase = "bytes" /\ phase' = "metadata"
        /\ Readable(header) /\ Kind(<<>>) = "dict"
    BY <1>4 DEF BeginObject, Proceed, fields
  <2>2. TensorsRead'
    BY <2>1, TensorsKept DEF SchemaInv, TensorsRead
  <2>3. ControlTrue'
    BY <2>1, ReadingsFixed DEF SchemaInv, ControlTrue
  <2> QED
    BY <2>1, <2>2, <2>3 DEF SchemaInv, MetadataRead, NoticesRead, RefusalTrue
<1> QED
  BY <1>1, <1>2, <1>3, <1>4 DEF ReadBytes

(***************************************************************************)
(* The metadata.                                                           *)
(***************************************************************************)
LEMMA MetadataKeeps ==
  ASSUME SchemaInv, DecodeMetadata
  PROVE  SchemaInv'
<1>1. phase = "metadata" /\ Readable(header) /\ Kind(<<>>) = "dict" /\ IsTree(tree)
  BY DEF DecodeMetadata, RefuseMetadata, RefuseMetadataCount, RefuseMetadataEntry, ReadMetadata,
         ReadingMetadata, SchemaInv, ControlTrue
<1>2. CASE RefuseMetadata
  <2>1. "invalid_metadata" \in R!MetadataErrors
    BY <1>2, ReportReads DEF RefuseMetadata, R!MetadataErrors
  <2> QED
    BY <1>1, <1>2, <2>1, ErrorsAre, RefuseKeeps DEF RefuseMetadata, OfTensors
<1>3. CASE RefuseMetadataCount
  <2>1. "metadata_count_exceeds_policy_limit"
           \in R!Error("metadata_count_exceeds_policy_limit", Len(Keys(Metadata)) > MaxMetadata)
    BY <1>3 DEF RefuseMetadataCount, R!Error
  <2>2. "metadata_count_exceeds_policy_limit" \in R!MetadataErrors
    BY <1>3, <2>1, ReportReads DEF RefuseMetadataCount, R!MetadataErrors
  <2> QED
    BY <1>1, <1>3, <2>2, ErrorsAre, RefuseKeeps DEF RefuseMetadataCount, OfTensors
<1>4. CASE RefuseMetadataEntry
  <2>1. EntryCode(BadEntryAt) \in R!MetadataErrors
    BY <1>1, <1>4, EntryRefused DEF RefuseMetadataEntry
  <2>2. EntryCode(BadEntryAt) \in {"invalid_metadata", "invalid_unicode_scalar"}
    BY DEF EntryCode
  <2>3. EntryCode(BadEntryAt) \notin OfTensors \cup {"none"}
    BY <2>2 DEF OfTensors
  <2> QED
    BY <1>1, <1>4, <2>1, <2>3, ErrorsAre, RefuseKeeps DEF RefuseMetadataEntry
<1>5. CASE ReadMetadata
  <2>1. /\ UNCHANGED <<header, tree, tensors, code>>
        /\ phase' = "count"
        /\ metadata' = MetadataEntries
        /\ notices' = {"metadata_null" : f \in {MetadataForm} \cap {"null"}}
        /\ MetadataSound
    BY <1>5 DEF ReadMetadata, Proceed, MetadataSound
  <2>2. TensorsRead'
    BY <1>1, <2>1, TensorsKept DEF SchemaInv, TensorsRead
  <2>3. ControlTrue'
    BY <1>1, <2>1, ReadingsFixed DEF SchemaInv, ControlTrue
  <2>4. MetadataRead'
    BY <2>1, ReadingsFixed DEF MetadataRead
  <2>5. NoticesRead'
    <3>1. tensors' = <<>> /\ DOMAIN tensors' = {}
      BY <1>1, <2>1 DEF SchemaInv, TensorsRead
    <3>2. \A n : n \in notices' <=> n = "metadata_null" /\ MetadataForm = "null"
      BY <2>1
    <3> QED
      BY <2>1, <3>1, <3>2, ReadingsFixed DEF NoticesRead
  <2> QED
    BY <1>1, <2>1, <2>2, <2>3, <2>4, <2>5 DEF SchemaInv, RefusalTrue
<1> QED
  BY <1>2, <1>3, <1>4, <1>5 DEF DecodeMetadata

(***************************************************************************)
(* The tensors.                                                            *)
(***************************************************************************)
LEMMA OneMore ==
  ASSUME NEW n \in Nat, NEW s, NEW x, s = [k \in 1 .. n |-> s[k]]
  PROVE  Append(s, x) = [k \in 1 .. n + 1 |-> IF k <= n THEN s[k] ELSE x]
<1> DEFINE V == {s[k] : k \in 1 .. n} \cup {x}
<1>1. s \in [1 .. n -> V]
  OBVIOUS
<1>2. s \in Seq(V) /\ Len(s) = n /\ x \in V
  BY <1>1
<1> HIDE DEF V
<1>3. /\ Append(s, x) \in Seq(V) /\ Len(Append(s, x)) = n + 1
      /\ \A k \in 1 .. n : Append(s, x)[k] = s[k]
      /\ Append(s, x)[n + 1] = x
  BY <1>2, AppendProperties
<1>4. Append(s, x) = [k \in 1 .. n + 1 |-> Append(s, x)[k]]
  BY <1>3
<1>5. \A k \in 1 .. n + 1 : k \in 1 .. n \/ (k = n + 1 /\ ~(k <= n))
  OBVIOUS
<1>6. \A k \in 1 .. n : k <= n
  OBVIOUS
<1> QED
  BY <1>3, <1>4, <1>5, <1>6

\* Reading a tensor adds the next one that is declared.
LEMMA ReadTensorKeeps ==
  ASSUME SchemaInv, ReadTensor
  PROVE  SchemaInv'
<1> DEFINE n == Len(tensors)
<1>1. /\ phase = "tensors" /\ IsTree(tree) /\ TensorsRead
      /\ UNCHANGED <<header, tree, phase, code, metadata>>
  BY DEF ReadTensor, SchemaInv, ControlTrue
<1>2. PICK i \in Following :
        /\ TensorCode(i) = "none"
        /\ tensors' = Append(tensors, TensorAt(i))
        /\ notices' = notices
               \cup {"unknown_tensor_fields" : f \in ToSet(Keys(RecordAt(i))) \ Required}
  BY DEF ReadTensor
<1>3. i = TensorMembers[n + 1] /\ n + 1 \in DOMAIN TensorMembers
  BY <1>1, <1>2, FollowingIs
<1>4. /\ n \in Nat /\ n + 1 \in 1 .. Len(TensorMembers)
      /\ tensors = [k \in 1 .. n |-> TensorAt(TensorMembers[k])]
      /\ Len(TensorMembers) \in Nat
  BY <1>1, <1>3, MembersAre DEF TensorsRead
<1>5. /\ Len(tensors') = n + 1 /\ DOMAIN tensors' = 1 .. n + 1
      /\ tensors'[n + 1] = TensorAt(i)
      /\ \A k \in 1 .. n : tensors'[k] = tensors[k]
      /\ tensors' = [k \in 1 .. n + 1 |-> TensorAt(TensorMembers[k])]
  <2>1. tensors' = [k \in 1 .. n + 1 |-> IF k <= n THEN tensors[k] ELSE TensorAt(i)]
    <3>1. tensors = [k \in 1 .. n |-> tensors[k]]
      BY <1>4
    <3> QED
      BY <1>2, <1>4, <3>1, OneMore
  <2>2. \A k \in 1 .. n + 1 : k <= n => tensors[k] = TensorAt(TensorMembers[k])
    BY <1>4
  <2>3. \A k \in 1 .. n + 1 : ~(k <= n) => k = n + 1
    BY <1>4
  <2> HIDE DEF n
  <2> QED
    BY <1>3, <1>4, <2>1, <2>2, <2>3
<1>6. /\ TensorMembers' = TensorMembers /\ MetadataForm' = MetadataForm
      /\ \A k : TensorAt(k)' = TensorAt(k) /\ TensorCode(k)' = TensorCode(k)
      /\ (MetadataSound' <=> MetadataSound) /\ MetadataEntries' = MetadataEntries
      /\ \A p : Kind(p)' = Kind(p)
  BY <1>1, ReadingsFixed
<1>7. TensorsRead'
  <2>1. tensors' = [k \in 1 .. Len(tensors') |-> TensorAt(TensorMembers[k])']
    BY <1>5, <1>6
  <2>2. \A k \in 1 .. n + 1 : TensorCode(TensorMembers[k]) = "none"
    <3>1. \A k \in 1 .. n : TensorCode(TensorMembers[k]) = "none"
      BY <1>1 DEF TensorsRead
    <3>2. \A k \in 1 .. n + 1 : k \in 1 .. n \/ k = n + 1
      BY <1>4
    <3> HIDE DEF n
    <3> QED
      BY <1>2, <1>3, <3>1, <3>2
  <2>3. \A k \in 1 .. Len(tensors') : TensorCode(TensorMembers[k])' = "none"
    BY <1>5, <1>6, <2>2
  <2>4. Len(tensors') \in 0 .. Len(TensorMembers)'
    BY <1>4, <1>5, <1>6
  <2> QED
    BY <1>1, <2>1, <2>3, <2>4 DEF TensorsRead
<1>8. NoticesRead'
  <2>1. TensorAt(i).unknown_fields = ToSet(Keys(RecordAt(i))) \ Required
    BY DEF TensorAt
  <2>2. \A m : m \in notices' <=>
                 \/ m \in notices
                 \/ m = "unknown_tensor_fields" /\ TensorAt(i).unknown_fields # {}
    BY <1>2, <2>1
  <2>3. \A m : m \in notices <=>
                 \/ m = "metadata_null" /\ MetadataForm = "null"
                 \/ /\ m = "unknown_tensor_fields"
                    /\ \E k \in DOMAIN tensors : tensors[k].unknown_fields # {}
    BY <1>1 DEF SchemaInv, NoticesRead
  <2>4. (\E k \in DOMAIN tensors' : tensors'[k].unknown_fields # {}) <=>
          \/ \E k \in DOMAIN tensors : tensors[k].unknown_fields # {}
          \/ TensorAt(i).unknown_fields # {}
    <3>1. DOMAIN tensors = 1 .. n
      BY <1>4
    <3>2. DOMAIN tensors' = DOMAIN tensors \cup {n + 1}
      BY <1>4, <1>5, <3>1
    <3> QED
      BY <1>5, <3>1, <3>2
  <2> QED
    BY <1>6, <2>2, <2>3, <2>4 DEF NoticesRead
<1>9. ControlTrue'
  BY <1>1, <1>6 DEF SchemaInv, ControlTrue
<1>10. MetadataRead'
  BY <1>1, <1>6 DEF SchemaInv, MetadataRead
<1> QED
  BY <1>1, <1>7, <1>8, <1>9, <1>10 DEF SchemaInv, RefusalTrue

\* The count, a refused tensor, a tensor read.
LEMMA TensorsKeep ==
  ASSUME SchemaInv, DecodeTensors
  PROVE  SchemaInv'
<1>1. phase \in {"count", "tensors"} /\ Readable(header) /\ Kind(<<>>) = "dict" /\ IsTree(tree)
  BY DEF DecodeTensors, RefuseTensorCount, BeginTensors, RefuseTensor, ReadTensor, SchemaInv,
         ControlTrue
<1>2. CASE RefuseTensorCount
  <2>1. "tensor_count_exceeds_policy_limit" \in R!Errors
    BY <1>1, <1>2, ErrorsAre DEF RefuseTensorCount
  <2> QED
    BY <1>2, <2>1, RefuseKeeps DEF RefuseTensorCount, OfTensors
<1>3. CASE BeginTensors
  <2>1. /\ UNCHANGED <<header, tree, metadata, tensors, notices, code>>
        /\ phase = "count" /\ phase' = "tensors"
        /\ Len(TensorMembers) <= MaxTensors
    BY <1>3 DEF BeginTensors, Proceed, fields
  <2>2. TensorsRead'
    BY <2>1, TensorsKept
  <2>3. ControlTrue'
    BY <2>1, ReadingsFixed DEF SchemaInv, ControlTrue
  <2>4. MetadataRead' /\ NoticesRead'
    BY <2>1, ReadingsFixed DEF SchemaInv, MetadataRead, NoticesRead
  <2> QED
    BY <2>1, <2>2, <2>3, <2>4 DEF SchemaInv, RefusalTrue
<1>4. CASE RefuseTensor
  <2>1. PICK i \in Following : TensorCode(i) # "none" /\ Refuse(TensorCode(i))
    BY <1>4 DEF RefuseTensor
  <2>2. i \in ToSet(TensorMembers) /\ i \in DOMAIN Keys(<<>>)
    BY <1>1, <2>1, FollowingIs DEF SchemaInv
  <2>3. TensorCode(i) \in R!TensorErrors(i)
    BY <1>1, <2>1, <2>2, TensorDecided
  <2>4. TensorCode(i) \in R!Errors
    BY <1>1, <2>2, <2>3, ErrorsAre
  <2> QED
    BY <2>1, <2>3, <2>4, RefuseKeeps
<1>5. CASE ReadTensor
  BY <1>5, ReadTensorKeeps
<1> QED
  BY <1>2, <1>3, <1>4, <1>5 DEF DecodeTensors

(***************************************************************************)
(* The constructors.                                                       *)
(***************************************************************************)
LEMMA EntriesFit ==
  ASSUME IsTree(tree), MetadataSound
  PROVE  /\ \A e, f \in MetadataEntries : e[1] = f[1] => e = f
         /\ \A e \in MetadataEntries : {e[1], e[2]} \cap Surrogate = {}
         /\ Cardinality(MetadataEntries) <= MaxMetadata
<1>1. CASE MetadataForm # "object"
  <2>1. MetadataEntries = {}
    BY <1>1 DEF MetadataEntries
  <2> QED
    BY <2>1, FS_EmptySet, HeaderLimitsAssumption
<1>2. CASE MetadataForm = "object"
  <2> DEFINE n == Len(Keys(Metadata))
             entry == [k \in 1 .. n |-> <<Keys(Metadata)[k], tree[Append(Metadata, k)].text>>]
  <2>1. /\ n \in Nat /\ n <= MaxMetadata /\ DOMAIN Keys(Metadata) = 1 .. n
        /\ \A j, k \in 1 .. n : Keys(Metadata)[j] = Keys(Metadata)[k] => j = k
        /\ \A k \in 1 .. n : ~EntryBad(k)
    BY <1>2, MetadataIs, BadEntryIs DEF MetadataSound
  <2>2. MetadataEntries = {entry[k] : k \in 1 .. n}
    BY <1>2, <2>1 DEF MetadataEntries
  <2>3. \A k \in 1 .. n : /\ entry[k][1] = Keys(Metadata)[k]
                          /\ entry[k][2] = tree[Append(Metadata, k)].text
                          /\ entry[k][1] \notin Surrogate /\ entry[k][2] \notin Surrogate
    BY <2>1 DEF EntryBad, EntryMistyped, EntryUnencodable
  <2>4. Cardinality(MetadataEntries) <= n
    <3>1. entry \in Surjection(1 .. n, MetadataEntries)
      BY <2>2 DEF Surjection
    <3>2. ExistsSurjection(1 .. n, MetadataEntries)
      BY <3>1 DEF ExistsSurjection
    <3> QED
      BY <2>1, <3>2, FS_SurjCardinalityBound
  <2>5. Cardinality(MetadataEntries) \in Nat
    <3>1. IsFiniteSet(1 .. n)
      BY <2>1, FS_Interval
    <3>2. entry \in Surjection(1 .. n, MetadataEntries)
      BY <2>2 DEF Surjection
    <3>3. IsFiniteSet(MetadataEntries)
      BY <3>1, <3>2, FS_Surjection
    <3> QED
      BY <3>3, FS_CardinalityType
  <2> HIDE DEF n, entry
  <2>6. Cardinality(MetadataEntries) <= MaxMetadata
    BY <2>1, <2>4, <2>5, HeaderLimitsAssumption
  <2> QED
    BY <2>1, <2>2, <2>3, <2>6
<1> QED
  BY <1>1, <1>2

\* The constructor accepts what has been read.
LEMMA HeaderAccepted ==
  ASSUME SchemaInv, phase = "tensors"
  PROVE  HeaderFits
<1>1. /\ IsTree(tree) /\ MetadataSound /\ metadata = MetadataEntries
      /\ Len(TensorMembers) <= MaxTensors
  BY DEF SchemaInv, ControlTrue, MetadataRead
<1>2. /\ Len(tensors) \in Nat /\ Len(tensors) <= Len(TensorMembers) /\ Len(TensorMembers) \in Nat
      /\ DOMAIN tensors = 1 .. Len(tensors)
      /\ \A k \in DOMAIN tensors : /\ tensors[k] = TensorAt(TensorMembers[k])
                                   /\ TensorCode(TensorMembers[k]) = "none"
                                   /\ k \in DOMAIN TensorMembers
  BY <1>1, MembersAre DEF SchemaInv, TensorsRead
<1>3. \A k \in DOMAIN tensors : /\ ComponentsFit(tensors[k])
                                /\ Bytes[tensors[k].name] <= MaxName
                                /\ Len(tensors[k].shape) <= MaxRank
  BY <1>1, <1>2, TensorFits
<1>4. \A j, k \in DOMAIN tensors : tensors[j].name = tensors[k].name => j = k
  <2>1. \A i : TensorAt(i).name = Keys(<<>>)[i]
    BY DEF TensorAt, NameAt
  <2>2. <<>> \in DOMAIN tree
    BY <1>1 DEF IsTree
  <2>3. IsInjective(Keys(<<>>))
    BY <1>1, <2>2, NodeIs
  <2> QED
    BY <1>1, <1>2, <2>1, <2>3, MembersAre DEF IsInjective
<1>5. Len(tensors) <= MaxTensors
  BY <1>1, <1>2, HeaderLimitsAssumption
<1>6. MetadataForm # "object" => metadata = {}
  BY <1>1 DEF MetadataEntries
<1>7. /\ "metadata_null" \in notices <=> MetadataForm = "null"
      /\ "unknown_tensor_fields" \in notices <=>
           \E k \in DOMAIN tensors : tensors[k].unknown_fields # {}
  BY DEF SchemaInv, NoticesRead
<1> QED
  BY <1>1, <1>3, <1>4, <1>5, <1>6, <1>7, EntriesFit DEF HeaderFits

\* So the call ends with a header.
LEMMA BuildKeeps ==
  ASSUME SchemaInv, BuildHeader
  PROVE  SchemaInv'
<1>1. /\ UNCHANGED <<header, tree, metadata, tensors, notices, code>>
      /\ phase = "tensors" /\ phase' = "done"
      /\ Len(tensors) = Len(TensorMembers)
  BY HeaderAccepted DEF BuildHeader, fields
<1>2. TensorsRead'
  BY <1>1, TensorsKept
<1>3. ControlTrue'
  BY <1>1, ReadingsFixed DEF SchemaInv, ControlTrue
<1>4. MetadataRead' /\ NoticesRead'
  BY <1>1, ReadingsFixed DEF SchemaInv, MetadataRead, NoticesRead
<1> QED
  BY <1>1, <1>2, <1>3, <1>4 DEF SchemaInv, RefusalTrue

\* Every step of the decoder keeps its invariant.
LEMMA SchemaKeeps ==
  ASSUME SchemaInv, [Next]_vars
  PROVE  SchemaInv'
<1>1. CASE UNCHANGED vars
  <2>1. UNCHANGED <<header, tree, phase, code, metadata, tensors, notices>>
    BY <1>1 DEF vars, fields
  <2>2. TensorsRead'
    BY <2>1, TensorsKept DEF SchemaInv, TensorsRead
  <2>3. ControlTrue'
    BY <2>1, ReadingsFixed DEF SchemaInv, ControlTrue
  <2>4. MetadataRead' /\ NoticesRead'
    BY <2>1, ReadingsFixed DEF SchemaInv, MetadataRead, NoticesRead
  <2>5. RefusalTrue'
    <3>1. Following' = Following
      BY <2>1, ReadingsFixed DEF Following
    <3> QED
      BY <2>1, <3>1, ErrorsFixed, ReadingsFixed DEF SchemaInv, RefusalTrue
  <2> QED
    BY <2>2, <2>3, <2>4, <2>5 DEF SchemaInv
<1> QED
  BY <1>1, BytesKeep, MetadataKeeps, TensorsKeep, BuildKeeps DEF Next

-----------------------------------------------------------------------------
(***************************************************************************)
(* No error of the header is a Python exception outside the documented     *)
(* codes, and "none" is no error.                                          *)
(***************************************************************************)
LEMMA ErrorsDocumented ==
  ASSUME header \in Header
  PROVE  R!Errors \cap {"ValueError", "none"} = {}
<1>1. R!MetadataErrors \cap {"ValueError", "none"} = {}
  BY DEF R!MetadataErrors, R!Error
<1>2. \A p : R!SequenceErrors(p) \cap {"ValueError", "none"} = {}
  BY DEF R!SequenceErrors, R!Error
<1>3. \A i, f : R!FieldErrors(i, f) \cap {"ValueError", "none"} = {}
  BY <1>2 DEF R!FieldErrors, R!Error
<1>4. \A i : R!TensorErrors(i) \cap {"ValueError", "none"} = {}
  BY <1>3, TensorErrorsAre
<1>5. CASE header.utf8 /\ header.json # "value"
  <2>1. header.json \in DOMAIN JsonFailures
    BY <1>5 DEF Header
  <2>2. JsonFailures[header.json] \notin {"ValueError", "none"}
    BY <2>1 DEF JsonFailures
  <2> QED
    BY <1>5, <2>2, ReportReads DEF R!Errors
<1>6. CASE header.utf8 /\ header.json = "value" /\ Kind(<<>>) = "dict"
  BY <1>1, <1>4, <1>6, ErrorsAre DEF Readable, Header
<1>7. CASE ~header.utf8
  BY <1>7 DEF R!Errors
<1>8. CASE header.utf8 /\ header.json = "value" /\ Kind(<<>>) # "dict"
  BY <1>8, ReportReads DEF R!Errors
<1> QED
  BY <1>5, <1>6, <1>7, <1>8

(***************************************************************************)
(* The properties of the decoder, from its invariant.                      *)
(***************************************************************************)
LEMMA FirstReported == SchemaInv => ReportsFirst
<1> SUFFICES ASSUME SchemaInv PROVE ReportsFirst
  OBVIOUS
<1>1. phase \in {"count", "tensors", "done"} => R!MetadataErrors = {}
  BY MetadataDecided DEF SchemaInv, ControlTrue, MetadataRead
<1>2. \A i \in {TensorMembers[k] : k \in DOMAIN tensors} : R!TensorErrors(i) = {}
  <2>1. SUFFICES ASSUME NEW k \in DOMAIN tensors PROVE R!TensorErrors(TensorMembers[k]) = {}
    OBVIOUS
  <2>2. /\ k \in 1 .. Len(tensors) /\ TensorCode(TensorMembers[k]) = "none"
        /\ Len(tensors) \in 0 .. Len(TensorMembers)
    BY <2>1 DEF SchemaInv, TensorsRead
  <2>3. IsTree(tree) /\ k \in DOMAIN TensorMembers
    BY <2>2, MembersAre DEF SchemaInv, ControlTrue
  <2> QED
    BY <2>2, <2>3, MembersAre, TensorDecided
<1>3. phase \in {"tensors", "done"} => Len(TensorMembers) <= MaxTensors
  BY DEF SchemaInv, ControlTrue
<1>4. code \in OfTensors => \E i \in Following : code \in R!TensorErrors(i)
  <2>1. code \in OfTensors => phase = "refused"
    BY DEF SchemaInv, ControlTrue, OfTensors
  <2> QED
    BY <2>1 DEF SchemaInv, RefusalTrue
<1> QED
  BY <1>1, <1>2, <1>3, <1>4 DEF ReportsFirst, OfTensors

\* A refusal has a documented code.
LEMMA OnlyDocumented == SchemaInv => DecoderNeverEscapes
BY ErrorsDocumented DEF SchemaInv, ControlTrue, RefusalTrue, DecoderNeverEscapes

(***************************************************************************)
(* A header decoded to the end has no error, and what was read is what it  *)
(* declares.                                                               *)
(***************************************************************************)
WhollyRead ==
    /\ R!Errors = {}
    /\ ToSet(tensors) = R!DeclaredTensors
    /\ metadata = R!MetadataEntries /\ MetadataForm = R!MetadataForm
    /\ notices = R!DeclaredNotices

LEMMA DecodedWhole == SchemaInv /\ phase = "done" => WhollyRead
<1> SUFFICES ASSUME SchemaInv, phase = "done" PROVE WhollyRead
  OBVIOUS
<1>1. /\ Readable(header) /\ Kind(<<>>) = "dict" /\ IsTree(tree)
      /\ Len(TensorMembers) <= MaxTensors /\ Len(tensors) = Len(TensorMembers)
      /\ MetadataSound /\ metadata = MetadataEntries
  BY DEF SchemaInv, ControlTrue, MetadataRead
<1>2. /\ DOMAIN tensors = 1 .. Len(TensorMembers) /\ DOMAIN TensorMembers = 1 .. Len(TensorMembers)
      /\ \A k \in DOMAIN tensors : /\ tensors[k] = TensorAt(TensorMembers[k])
                                   /\ TensorCode(TensorMembers[k]) = "none"
      /\ Len(TensorMembers) \in Nat
  BY <1>1, MembersAre DEF SchemaInv, TensorsRead
<1>3. \A i \in ToSet(TensorMembers) : i \in DOMAIN Keys(<<>>) /\ R!TensorErrors(i) = {}
  BY <1>1, <1>2, MembersAre, TensorDecided DEF ToSet
<1>4. R!Errors = {}
  <2>1. ~(Len(TensorMembers) > MaxTensors)
    BY <1>1, <1>2, HeaderLimitsAssumption
  <2> QED
    BY <1>1, <1>3, <2>1, ErrorsAre, MetadataDecided
<1>5. ToSet(tensors) = R!DeclaredTensors
  BY <1>2, ReportReads DEF R!DeclaredTensors, ToSet
<1>6. notices = R!DeclaredNotices
  <2>1. (\E k \in DOMAIN tensors : tensors[k].unknown_fields # {})
          <=> \E t \in R!DeclaredTensors : t.unknown_fields # {}
    BY <1>5 DEF ToSet
  <2>2. \A n : n \in R!DeclaredNotices <=>
                 \/ n = "metadata_null" /\ MetadataForm = "null"
                 \/ /\ n = "unknown_tensor_fields"
                    /\ \E t \in R!DeclaredTensors : t.unknown_fields # {}
    BY ReportReads DEF R!DeclaredNotices, R!Error
  <2>3. \A n : n \in notices <=> n \in R!DeclaredNotices
    BY <2>1, <2>2 DEF SchemaInv, NoticesRead
  <2>4. \A s, t : (\A x : x \in s <=> x \in t) => s = t
    OBVIOUS
  <2> QED
    BY <2>3, <2>4
<1> QED
  BY <1>1, <1>4, <1>5, <1>6, ReportReads DEF WhollyRead

(***************************************************************************)
(* What a header declares does not change, and a step that ends the        *)
(* decoding ends it with all of it.                                        *)
(***************************************************************************)
LEMMA DeclaredFixed ==
  ASSUME tree' = tree
  PROVE  /\ R!DeclaredTensors' = R!DeclaredTensors /\ R!MetadataEntries' = R!MetadataEntries
         /\ R!DeclaredNotices' = R!DeclaredNotices /\ R!MetadataForm' = R!MetadataForm
<1>1. \A p : R!Kind(p)' = R!Kind(p) /\ R!Keys(p)' = R!Keys(p)
  BY DEF R!Kind, R!Keys
<1>2. \A p, key : R!Get(p, key)' = R!Get(p, key) /\ (R!Has(p, key)' <=> R!Has(p, key))
  BY <1>1 DEF R!Get, R!Has, R!Member
<1>3. /\ R!TensorMembers' = R!TensorMembers
      /\ R!Metadata' = R!Metadata /\ R!MetadataForm' = R!MetadataForm
  BY <1>1, <1>2 DEF R!TensorMembers, R!Metadata, R!MetadataForm
<1>4. R!MetadataEntries' = R!MetadataEntries
  BY <1>1, <1>3 DEF R!MetadataEntries
<1>5. \A i, f : R!FieldAt(i, f)' = R!FieldAt(i, f)
  BY <1>1, <1>2 DEF R!FieldAt, R!RecordAt
<1>6. \A i : R!TensorAt(i)' = R!TensorAt(i)
  BY <1>1, <1>5 DEF R!TensorAt, R!NameAt, R!RecordAt, R!IntegersAt
<1>7. R!DeclaredTensors' = R!DeclaredTensors
  BY <1>3, <1>6 DEF R!DeclaredTensors
<1>8. R!DeclaredNotices' = R!DeclaredNotices
  BY <1>3, <1>7 DEF R!DeclaredNotices
<1> QED
  BY <1>3, <1>4, <1>7, <1>8

-----------------------------------------------------------------------------
(***************************************************************************)
(* decode_header is always where its invariant says: what it has read is   *)
(* what the document declares, and a refusal is an error the header has.   *)
(***************************************************************************)
THEOREM SchemaCorrect == Spec => []SchemaInv
<1>1. Init => SchemaInv
  BY SchemaStart
<1>2. SchemaInv /\ [Next]_vars => SchemaInv'
  BY SchemaKeeps
<1> QED
  BY <1>1, <1>2, PTL DEF Spec

(***************************************************************************)
(* For every document and all limits, decode_header reports the first      *)
(* error in reading order: the metadata are sound when the tensors are     *)
(* counted, and the tensors before the one refused are without error.      *)
(***************************************************************************)
THEOREM ReportsInOrder == Spec => []ReportsFirst
BY SchemaCorrect, FirstReported, PTL

(***************************************************************************)
(* For every document and all limits, the constructor of the decoded       *)
(* header repeats the decoder's checks in vain: it never raises.           *)
(***************************************************************************)
THEOREM SchemaNeverEscapes == Spec => []DecoderNeverEscapes
BY SchemaCorrect, OnlyDocumented, PTL

(***************************************************************************)
(* The abstract specification, read from the decoder's state.              *)
(***************************************************************************)
LEMMA ReportedIs ==
  /\ Reported!Errors = R!Errors /\ Reported!Pending = R!Pending
  /\ Reported!DeclaredTensors = R!DeclaredTensors
  /\ Reported!MetadataEntries = R!MetadataEntries /\ Reported!MetadataForm = R!MetadataForm
  /\ Reported!DeclaredNotices = R!DeclaredNotices
  /\ \A e : Reported!Refused(e) = R!Refused(e)
  /\ \A t, m, f, n : Reported!Decoded(t, m, f, n) = R!Decoded(t, m, f, n)
<1>1. \A c, holds : Reported!Error(c, holds) = R!Error(c, holds)
  BY DEF Reported!Error, R!Error
<1>2. \A p : /\ Reported!Kind(p) = R!Kind(p) /\ Reported!Keys(p) = R!Keys(p)
             /\ Reported!Children(p) = R!Children(p)
  BY DEF Reported!Kind, R!Kind, Reported!Keys, R!Keys, Reported!Children, R!Children,
         Reported!Width, R!Width
<1>3. /\ \A node : Reported!Width(node) = R!Width(node)
      /\ \A s : Reported!ToSet(s) = R!ToSet(s)
      /\ \A p : Reported!IsU64(p) <=> R!IsU64(p)
  BY DEF Reported!Width, R!Width, Reported!ToSet, R!ToSet, Reported!IsU64, R!IsU64
<1>4. \A p, k : Reported!Member(p, k) = R!Member(p, k)
  BY <1>2 DEF Reported!Member, R!Member
<1>5. \A p, k : Reported!Get(p, k) = R!Get(p, k) /\ (Reported!Has(p, k) <=> R!Has(p, k))
  BY <1>4 DEF Reported!Get, R!Get, Reported!Has, R!Has
<1>6. Reported!Metadata = R!Metadata /\ Reported!MetadataForm = R!MetadataForm
  BY <1>2, <1>5 DEF Reported!Metadata, R!Metadata, Reported!MetadataForm, R!MetadataForm,
     Reported!MetadataKey, R!MetadataKey
<1>7. Reported!TensorMembers = R!TensorMembers
  BY <1>2, <1>5 DEF Reported!TensorMembers, R!TensorMembers, Reported!MetadataKey, R!MetadataKey
<1>8. \A i : /\ Reported!NameAt(i) = R!NameAt(i) /\ Reported!RecordAt(i) = R!RecordAt(i)
             /\ Reported!Missing(i) = R!Missing(i) /\ Reported!Required = R!Required
  BY <1>2, <1>3 DEF Reported!NameAt, R!NameAt, Reported!RecordAt, R!RecordAt, Reported!Missing,
     R!Missing, Reported!Required, R!Required
<1>9. \A i, f : Reported!FieldAt(i, f) = R!FieldAt(i, f)
  BY <1>5, <1>8 DEF Reported!FieldAt, R!FieldAt
<1>10. \A i : Reported!TensorAt(i) = R!TensorAt(i)
  BY <1>2, <1>3, <1>8, <1>9 DEF Reported!TensorAt, R!TensorAt, Reported!IntegersAt, R!IntegersAt
<1>11. Reported!MetadataEntries = R!MetadataEntries
  BY <1>2, <1>6 DEF Reported!MetadataEntries, R!MetadataEntries
<1>12. Reported!DeclaredTensors = R!DeclaredTensors
  BY <1>3, <1>7, <1>10 DEF Reported!DeclaredTensors, R!DeclaredTensors
<1>13. Reported!DeclaredNotices = R!DeclaredNotices
  BY <1>6, <1>12 DEF Reported!DeclaredNotices, R!DeclaredNotices, Reported!Error, R!Error
<1>14. Reported!MetadataErrors = R!MetadataErrors
  <2>1. Reported!MetadataTexts = R!MetadataTexts
    BY <1>2, <1>3, <1>6 DEF Reported!MetadataTexts, R!MetadataTexts
  <2> QED
    BY <1>2, <1>3, <1>6, <2>1 DEF Reported!MetadataErrors, R!MetadataErrors, Reported!Error, R!Error
<1>15. \A i : Reported!TensorErrors(i) = R!TensorErrors(i)
  <2>1. \A p : Reported!SequenceErrors(p) = R!SequenceErrors(p)
    BY <1>2, <1>3 DEF Reported!SequenceErrors, R!SequenceErrors, Reported!Error, R!Error
  <2>2. \A i, f : Reported!FieldErrors(i, f) = R!FieldErrors(i, f)
    BY <1>2, <1>3, <1>9, <2>1 DEF Reported!FieldErrors, R!FieldErrors, Reported!Error, R!Error
  <2> QED
    BY <1>2, <1>3, <1>8, <2>2 DEF Reported!TensorErrors, R!TensorErrors, Reported!Error, R!Error
<1>16. Reported!Errors = R!Errors
  BY <1>2, <1>3, <1>7, <1>14, <1>15 DEF Reported!Errors, R!Errors, Reported!JsonFailures,
     R!JsonFailures, Reported!Error, R!Error
<1> QED
  BY <1>6, <1>11, <1>12, <1>13, <1>16 DEF Reported!Pending, R!Pending, Reported!Refused, R!Refused,
     Reported!Decoded, R!Decoded

(***************************************************************************)
(* Refinement, without its liveness: decode_header answers once, and with  *)
(* what its header deserves, an error it has or exactly what it declares.  *)
(***************************************************************************)
THEOREM RefinesReport == Spec => Reported!Init /\ [][Reported!Answer]_(Reported!vars)
<1>1. Init => Reported!Init
  <2> SUFFICES ASSUME Init PROVE Reported!Init
    OBVIOUS
  <2>1. IsTree(tree) /\ header \in Header /\ code = "none" /\ phase # "done"
    BY TreesAssumption DEF Init
  <2>2. Reported!IsTree(tree) <=> IsTree(tree)
    <3>1. Reported!Path = Path /\ Reported!Node = Node
      BY DEF Reported!Path, Path, Reported!Node, Node
    <3>2. /\ \A node : Reported!Width(node) = Width(node)
          /\ \A s : Reported!IsInjective(s) <=> IsInjective(s)
          /\ \A s : Reported!Front(s) = Front(s) /\ Reported!Last(s) = Last(s)
      BY DEF Reported!Width, Width, Reported!IsInjective, IsInjective, Reported!Front, Front,
             Reported!Last, Last
    <3> QED
      BY <3>1, <3>2 DEF Reported!IsTree, IsTree
  <2>3. Reported!Header = Header
    BY DEF Reported!Header, Header, Reported!JsonFailures, JsonFailures
  <2> QED
    BY <2>1, <2>2, <2>3, ReportedIs DEF Reported!Init, Outcome
<1>2. (SchemaInv /\ phase = "done" => WhollyRead)'
  BY DecodedWhole, PTL
<1>3. SchemaInv /\ SchemaInv' /\ [Next]_vars => [Reported!Answer]_(Reported!vars)
  <2> SUFFICES ASSUME SchemaInv, SchemaInv', [Next]_vars
               PROVE  [Reported!Answer]_(Reported!vars)
    OBVIOUS
  <2>1. header' = header /\ tree' = tree
    BY DEF Next, ReadBytes, RefuseUtf8, RefuseJson, RefuseRoot, BeginObject, DecodeMetadata,
       RefuseMetadata, RefuseMetadataCount, RefuseMetadataEntry, ReadMetadata, DecodeTensors,
       RefuseTensorCount, BeginTensors, RefuseTensor, ReadTensor, BuildHeader, Refuse, Proceed,
       fields, vars
  <2>2. CASE UNCHANGED vars
    <3>1. MetadataForm' = MetadataForm
      BY <2>1, ReadingsFixed
    <3>2. Outcome' = Outcome
      BY <2>2, <3>1 DEF vars, fields, Outcome, R!Refused, R!Pending, R!Decoded
    <3> QED
      BY <2>1, <3>2 DEF Reported!vars
  <2>3. CASE Next
    <3>1. phase \notin {"done", "refused"}
      BY <2>3 DEF Next, ReadBytes, RefuseUtf8, RefuseJson, RefuseRoot, BeginObject, DecodeMetadata,
         RefuseMetadata, RefuseMetadataCount, RefuseMetadataEntry, ReadMetadata, ReadingMetadata,
         DecodeTensors, RefuseTensorCount, BeginTensors, RefuseTensor, ReadTensor, BuildHeader
    <3>2. code = "none" /\ Outcome = R!Pending
      BY <3>1 DEF SchemaInv, ControlTrue, Outcome
    <3>3. R!Errors' = R!Errors
      BY <2>1, ErrorsFixed
    <3>4. CASE phase' = "refused"
      <4>1. code' # "none" /\ code' \in R!Errors
        BY <3>3, <3>4 DEF SchemaInv, ControlTrue, RefusalTrue
      <4>2. Outcome' = R!Refused(code')
        BY <4>1 DEF Outcome, R!Refused
      <4> QED
        BY <2>1, <3>2, <4>1, <4>2, ReportedIs DEF Reported!Answer
    <3>5. CASE phase' = "done"
      <4>1. /\ R!Errors = {}
            /\ ToSet(tensors)' = R!DeclaredTensors'
            /\ metadata' = R!MetadataEntries' /\ MetadataForm' = R!MetadataForm'
            /\ notices' = R!DeclaredNotices'
        BY <1>2, <3>3, <3>5 DEF WhollyRead
      <4>2. /\ R!DeclaredTensors' = R!DeclaredTensors /\ R!MetadataEntries' = R!MetadataEntries
            /\ R!DeclaredNotices' = R!DeclaredNotices /\ R!MetadataForm' = R!MetadataForm
        BY <2>1, DeclaredFixed
      <4>3. Outcome' = R!Decoded(ToSet(tensors)', metadata', MetadataForm', notices')
        <5>1. code' = "none"
          BY <3>5 DEF SchemaInv, ControlTrue
        <5> QED
          BY <3>5, <5>1 DEF Outcome, R!Decoded
      <4>4. Outcome' = R!Decoded(R!DeclaredTensors, R!MetadataEntries, R!MetadataForm,
                                 R!DeclaredNotices)
        BY <4>1, <4>2, <4>3
      <4> QED
        BY <2>1, <3>2, <4>1, <4>4, ReportedIs DEF Reported!Answer
    <3>6. CASE phase' \notin {"refused", "done"}
      <4>1. Outcome' = R!Pending
        BY <3>6 DEF SchemaInv, ControlTrue, Outcome, R!Pending, R!Refused
      <4> QED
        BY <2>1, <3>2, <4>1 DEF Reported!vars
    <3> QED
      BY <3>4, <3>5, <3>6
  <2> QED
    BY <2>2, <2>3
<1> QED
  BY SchemaCorrect, <1>1, <1>3, PTL DEF Spec

-----------------------------------------------------------------------------
(***************************************************************************)
(* validate_storage as it is proved about is validate_storage as it is     *)
(* called, and what it decides is what the document declares.              *)
(***************************************************************************)
LEMMA SameSize ==
  /\ \A s, d : S!CheckedSize(s, d) = SP!CheckedSize(s, d)
  /\ \A s, d : Declared!CheckedSize(s, d) = SP!CheckedSize(s, d)
  /\ S!Overflow = SP!Overflow /\ S!Misaligned = SP!Misaligned
<1>1. \A s : S!ElementCount(s) = SP!ElementCount(s)
  BY DEF S!ElementCount, SP!ElementCount, S!ProductOverflows, SP!ProductOverflows, S!Overflow,
         SP!Overflow
<1>2. \A s : Declared!ElementCount(s) = SP!ElementCount(s)
  BY DEF Declared!ElementCount, SP!ElementCount, Declared!ProductOverflows, SP!ProductOverflows,
         Declared!Overflow, SP!Overflow
<1> QED
  BY <1>1, <1>2 DEF S!CheckedSize, SP!CheckedSize, Declared!CheckedSize, S!Overflow, SP!Overflow,
     Declared!Overflow, S!Misaligned, SP!Misaligned, Declared!Misaligned

\* A step of the one is a step of the other.
LEMMA SameStep == S!Next => SP!Next
<1> SUFFICES ASSUME S!Next PROVE SP!Next
  OBVIOUS
<1>1. /\ \A t : S!SizeOf(t) = SP!SizeOf(t)
      /\ \A t, u : S!KeyLeq(t, u) <=> SP!KeyLeq(t, u)
      /\ \A t : S!Registered(t) <=> SP!Registered(t)
  BY SameSize DEF S!SizeOf, SP!SizeOf, S!KeyLeq, SP!KeyLeq, S!Registered, SP!Registered
<1>2. \A c : S!Reject(c) <=> SP!Reject(c)
  BY DEF S!Reject, SP!Reject
<1>3. \A t : S!DtypeStep(t) => SP!DtypeStep(t)
  BY <1>1, <1>2 DEF S!DtypeStep, SP!DtypeStep, S!RecogniseDtype, SP!RecogniseDtype,
     S!InvalidDtype, SP!InvalidDtype, S!NextByName, SP!NextByName
<1>4. \A t : /\ S!Aligned(t) <=> SP!Aligned(t)
             /\ S!InOrder(t) <=> SP!InOrder(t)
             /\ S!Sized(t) <=> SP!Sized(t)
             /\ S!NextByKey(t) <=> SP!NextByKey(t)
  <2>1. \A t : S!NextByKey(t) <=> SP!NextByKey(t)
    BY <1>1 DEF S!NextByKey, SP!NextByKey
  <2>2. \A t : (S!Aligned(t) <=> SP!Aligned(t)) /\ (S!InOrder(t) <=> SP!InOrder(t))
    BY <2>1 DEF S!Aligned, SP!Aligned, S!InOrder, SP!InOrder
  <2> QED
    BY <1>1, <2>1, <2>2, SameSize DEF S!Sized, SP!Sized
<1>5. \A t : S!PlaceTensor(t) => SP!PlaceTensor(t)
  BY <1>1, <1>4 DEF S!PlaceTensor, SP!PlaceTensor
<1>6. \A t : S!LayoutStep(t) => SP!LayoutStep(t)
  BY <1>1, <1>2, <1>4, <1>5, SameSize
     DEF S!LayoutStep, SP!LayoutStep, S!LayoutGap, SP!LayoutGap, S!LayoutOverlap,
     SP!LayoutOverlap, S!OffsetsReversed, SP!OffsetsReversed, S!SizeOverflow, SP!SizeOverflow,
     S!ByteMisaligned, SP!ByteMisaligned, S!SizeMismatch, SP!SizeMismatch
<1>7. S!StartLayout => SP!StartLayout
  BY DEF S!StartLayout, SP!StartLayout
<1>8. S!PayloadSizeMismatch => SP!PayloadSizeMismatch
  BY <1>2 DEF S!PayloadSizeMismatch, SP!PayloadSizeMismatch, S!WalkDone, SP!WalkDone
<1>9. S!ManifestAccepts <=> SP!ManifestAccepts
  <2>1. \A k : S!EndBefore(k) = SP!EndBefore(k)
    BY DEF S!EndBefore, SP!EndBefore
  <2>2. \A t : S!RebuildAccepts(t) <=> SP!RebuildAccepts(t)
    BY <1>1 DEF S!RebuildAccepts, SP!RebuildAccepts
  <2>3. /\ S!Canonical <=> SP!Canonical
        /\ S!HoleFree <=> SP!HoleFree
        /\ S!CoversPayload <=> SP!CoversPayload
    BY <1>1, <2>1 DEF S!Canonical, SP!Canonical, S!HoleFree, SP!HoleFree, S!CoversPayload,
       SP!CoversPayload
  <2> QED
    BY <2>2, <2>3 DEF S!ManifestAccepts, SP!ManifestAccepts
<1>10. S!BuildManifest => SP!BuildManifest
  BY <1>9 DEF S!BuildManifest, SP!BuildManifest, S!WalkDone, SP!WalkDone
<1> QED
  BY <1>3, <1>6, <1>7, <1>8, <1>10 DEF S!Next, SP!Next

\* The layout is valid exactly when the declared tensors are a valid layout.
LEMMA SameVerdict ==
  ASSUME layout = LayoutOf(R!DeclaredTensors)
  PROVE  Declared!ValidLayout <=> SP!ValidLayout
<1>1. \A t : Declared!Registered(t) <=> SP!Registered(t)
  BY DEF Declared!Registered, SP!Registered
<1>2. \A t : Declared!SpanExact(t) <=> SP!SpanExact(t)
  BY SameSize DEF Declared!SpanExact, SP!SpanExact
<1>3. \A t, u : Declared!Disjoint(t, u) <=> SP!Disjoint(t, u)
  BY DEF Declared!Disjoint, SP!Disjoint
<1>4. \A b : Declared!Covered(b) <=> SP!Covered(b)
  BY DEF Declared!Covered, SP!Covered
<1> QED
  BY <1>1, <1>2, <1>3, <1>4 DEF Declared!ValidLayout, SP!ValidLayout

-----------------------------------------------------------------------------
(***************************************************************************)
(* What the decoder hands over is a header of the storage validator, with  *)
(* one entry for every declared tensor.                                    *)
(***************************************************************************)
LEMMA LayoutFits ==
  ASSUME SchemaInv
  PROVE  LayoutOf(ToSet(tensors)) \in SP!Headers
<1> DEFINE found == ToSet(tensors)
           Ranks == {RankOf[t.name] : t \in found}
<1>1. ASSUME NEW t \in found
      PROVE  /\ RankOf[t.name] \in Name
             /\ Stored(t) \in SP!TensorHeader
  <2>1. PICK k \in DOMAIN tensors : t = tensors[k]
    BY <1>1 DEF ToSet
  <2>2. /\ IsTree(tree) /\ k \in DOMAIN TensorMembers
        /\ t = TensorAt(TensorMembers[k]) /\ TensorCode(TensorMembers[k]) = "none"
    <3>1. /\ IsTree(tree) /\ Len(tensors) \in 0 .. Len(TensorMembers)
          /\ tensors = [j \in 1 .. Len(tensors) |-> TensorAt(TensorMembers[j])]
          /\ \A j \in 1 .. Len(tensors) : TensorCode(TensorMembers[j]) = "none"
      BY DEF SchemaInv, ControlTrue, TensorsRead
    <3>2. k \in 1 .. Len(tensors)
      BY <2>1, <3>1
    <3>3. k \in DOMAIN TensorMembers
      BY <3>1, <3>2, MembersAre
    <3> QED
      BY <2>1, <3>1, <3>2, <3>3
  <2>3. /\ t.name \in Text /\ t.dtype \in Text /\ t.shape \in Shape
        /\ t.data_offsets \in Seq(Offset) /\ Len(t.data_offsets) = 2
    BY <2>2, TensorFits
  <2>4. t.data_offsets[1] \in Offset /\ t.data_offsets[2] \in Offset
    BY <2>3
  <2> QED
    BY <2>3, <2>4 DEF Name, Stored, SP!TensorHeader
<1>2. \A r \in Ranks : TensorNamed(found, r) \in found
  BY DEF TensorNamed
<1>3. LayoutOf(found) \in [Ranks -> SP!TensorHeader]
  BY <1>1, <1>2 DEF LayoutOf
<1>4. Ranks \subseteq Name
  BY <1>1
<1> QED
  BY <1>3, <1>4 DEF SP!Headers

\* The layout has one entry for each tensor member.
LEMMA NamesCounted ==
  ASSUME IsTree(tree), \A i \in ToSet(TensorMembers) : NameAt(i) \in Text
  PROVE  /\ DOMAIN LayoutOf(R!DeclaredTensors) = {RankOf[NameAt(i)] : i \in ToSet(TensorMembers)}
         /\ \A n \in Nat : ExistsBijection(1 .. n, DOMAIN LayoutOf(R!DeclaredTensors))
                             => n = Len(TensorMembers)
<1> DEFINE D == {RankOf[NameAt(i)] : i \in ToSet(TensorMembers)}
           m == Len(TensorMembers)
           rank == [k \in 1 .. m |-> RankOf[NameAt(TensorMembers[k])]]
<1>1. DOMAIN LayoutOf(R!DeclaredTensors) = D
  <2>1. \A i : TensorAt(i).name = NameAt(i)
    BY DEF TensorAt
  <2>2. R!DeclaredTensors = {TensorAt(i) : i \in ToSet(TensorMembers)}
    BY ReportReads DEF R!DeclaredTensors
  <2> QED
    BY <2>1, <2>2 DEF LayoutOf
<1>2. /\ m \in Nat /\ DOMAIN TensorMembers = 1 .. m
      /\ ToSet(TensorMembers) = {TensorMembers[k] : k \in 1 .. m}
      /\ \A k \in 1 .. m : TensorMembers[k] \in DOMAIN Keys(<<>>)
      /\ \A j, k \in 1 .. m : TensorMembers[j] = TensorMembers[k] => j = k
  BY MembersAre DEF ToSet
<1>3. \A i, j \in DOMAIN Keys(<<>>) : NameAt(i) = NameAt(j) => i = j
  <2>1. <<>> \in DOMAIN tree
    BY DEF IsTree
  <2> QED
    BY <2>1, NodeIs DEF IsInjective, NameAt
<1>4. ASSUME NEW j \in 1 .. m, NEW k \in 1 .. m, rank[j] = rank[k] PROVE j = k
  <2>1. NameAt(TensorMembers[j]) = NameAt(TensorMembers[k])
    BY <1>2, <1>4, RankOfAssumption
  <2> QED
    BY <1>2, <1>3, <2>1
<1>5. rank \in Bijection(1 .. m, D)
  <2>1. D = {rank[k] : k \in 1 .. m}
    BY <1>2
  <2>2. rank \in [1 .. m -> D]
    BY <2>1
  <2> HIDE DEF D, rank, m
  <2> QED
    BY <1>4, <2>1, <2>2 DEF Bijection, Injection, Surjection, IsInjective
<1>6. Cardinality(D) = m
  <2>1. ExistsBijection(1 .. m, D)
    BY <1>5 DEF ExistsBijection
  <2> QED
    BY <1>2, <2>1, FS_CountingElements
<1> HIDE DEF D, m
<1>7. \A n \in Nat : ExistsBijection(1 .. n, D) => n = m
  BY <1>6, FS_CountingElements
<1> QED
  BY <1>1, <1>7 DEF D, m

-----------------------------------------------------------------------------
(***************************************************************************)
(* The inductive invariant of the two stages: storage validation waits for *)
(* the decoder, and then works on what the document declares.              *)
(***************************************************************************)
StorageInv ==
    /\ SP!TypeOK /\ SP!WalkInv
    /\ SP!AcceptsExactlyTilings /\ SP!ManifestNeverRefuses /\ SP!PlacedOnce

Waiting ==
    storage = "idle" =>
      /\ dataSize \in PayloadSize
      /\ placed = <<>> /\ cursor = 0 /\ layoutCode = "none"

Validating ==
    storage # "idle" =>
      /\ phase = "done"
      /\ layout = LayoutOf(R!DeclaredTensors)
      /\ StorageInv

ParseInv == SchemaInv /\ Waiting /\ Validating

\* The invariant of storage validation at its start ...
LEMMA StorageStart == SP!Init => StorageInv
<1>1. SP!Init => SP!TypeOK /\ SP!WalkInv /\ SP!PlacedOnce
  BY StorageAssumptions, SP!TypeStart, SP!WalkInit, SP!OnceStart
<1>2. SP!Init => SP!AcceptsExactlyTilings /\ SP!ManifestNeverRefuses
  BY DEF SP!Init, SP!AcceptsExactlyTilings, SP!ManifestNeverRefuses
<1> QED
  BY <1>1, <1>2 DEF StorageInv

\* ... and at each of its steps.
LEMMA StorageKeeps ==
  ASSUME StorageInv, [SP!Next]_(SP!vars)
  PROVE  StorageInv'
<1>1. /\ SP!TypeOK /\ SP!WalkInv
      /\ SP!AcceptsExactlyTilings /\ SP!ManifestNeverRefuses /\ SP!PlacedOnce
  BY DEF StorageInv
<1>2. SP!TypeOK'
  BY <1>1, StorageAssumptions, SP!TypeStep
<1>3. SP!WalkInv'
  BY <1>1, StorageAssumptions, SP!WalkStep
<1>4. SP!AcceptsExactlyTilings'
  BY <1>1, StorageAssumptions, SP!AcceptsStep
<1>5. SP!ManifestNeverRefuses'
  BY <1>1, StorageAssumptions, SP!BuildsStep
<1>6. SP!PlacedOnce'
  BY <1>1, StorageAssumptions, SP!OnceStep
<1> QED
  BY <1>2, <1>3, <1>4, <1>5, <1>6 DEF StorageInv

\* The invariant of the call at the start.
LEMMA ParseStart == ParseInit => ParseInv
<1> SUFFICES ASSUME ParseInit PROVE ParseInv
  OBVIOUS
<1>1. SchemaInv
  BY SchemaStart DEF ParseInit
<1> QED
  BY <1>1 DEF ParseInit, ParseInv, Waiting, Validating

\* The decoder is over when it has answered.
LEMMA NextEnds == Next => phase \notin {"done", "refused"}
BY DEF Next, ReadBytes, RefuseUtf8, RefuseJson, RefuseRoot, BeginObject, DecodeMetadata,
   RefuseMetadata, RefuseMetadataCount, RefuseMetadataEntry, ReadMetadata, ReadingMetadata,
   DecodeTensors, RefuseTensorCount, BeginTensors, RefuseTensor, ReadTensor, BuildHeader

\* Handing the decoded header over.
LEMMA BeginKeeps ==
  ASSUME ParseInv, BeginStorage, SP!Init' => StorageInv'
  PROVE  ParseInv'
<1>1. /\ phase = "done" /\ storage = "idle" /\ storage' = "dtypes"
      /\ layout' = LayoutOf(ToSet(tensors)) /\ todo' = DOMAIN layout'
      /\ UNCHANGED <<vars, dataSize, placed, cursor, layoutCode>>
  BY DEF BeginStorage
<1>2. UNCHANGED vars /\ tree' = tree /\ phase' = phase
  BY <1>1 DEF vars
<1>3. SchemaInv'
  BY <1>2, SchemaKeeps DEF ParseInv
<1>4. layout' = LayoutOf(R!DeclaredTensors)'
  <2>1. ToSet(tensors) = R!DeclaredTensors
    BY <1>1, DecodedWhole DEF ParseInv, WhollyRead
  <2>2. R!DeclaredTensors' = R!DeclaredTensors
    BY <1>2, DeclaredFixed
  <2> QED
    BY <1>1, <2>1, <2>2 DEF LayoutOf, TensorNamed
<1>5. StorageInv'
  <2>1. LayoutOf(ToSet(tensors)) \in SP!Headers
    BY LayoutFits DEF ParseInv
  <2>2. layout' \in SP!Headers'
    BY <1>1, <2>1 DEF SP!Headers, SP!TensorHeader
  <2>3. dataSize' \in PayloadSize /\ placed' = <<>> /\ cursor' = 0 /\ layoutCode' = "none"
    BY <1>1 DEF ParseInv, Waiting
  <2>4. SP!Init'
    BY <1>1, <2>2, <2>3 DEF SP!Init, SP!Headers, SP!TensorHeader
  <2> QED
    BY <2>4
<1> QED
  BY <1>1, <1>2, <1>3, <1>4, <1>5 DEF ParseInv, Waiting, Validating

\* Every step of the call keeps its invariant.
LEMMA ParseKeeps ==
  ASSUME ParseInv, [ParseNext]_<<vars, storing>>, SP!Init' => StorageInv'
  PROVE  ParseInv'
<1>1. CASE DecodeHeader
  <2>1. Next /\ UNCHANGED <<layout, dataSize, storage, todo, placed, cursor, layoutCode>>
    BY <1>1 DEF DecodeHeader, storing
  <2>2. SchemaInv'
    BY <2>1, SchemaKeeps DEF ParseInv
  <2>3. storage = "idle"
    BY <2>1, NextEnds DEF ParseInv, Validating
  <2> QED
    BY <2>1, <2>2, <2>3 DEF ParseInv, Waiting, Validating
<1>2. CASE BeginStorage
  BY <1>2, BeginKeeps
<1>3. CASE ValidateStorage
  <2>1. S!Next /\ UNCHANGED vars /\ tree' = tree /\ phase' = phase
    BY <1>3 DEF ValidateStorage, vars
  <2>2. SP!Next
    BY <2>1, SameStep
  <2>3. storage # "idle"
    BY <2>1 DEF S!Next, S!DtypeStep, S!RecogniseDtype, S!InvalidDtype, S!NextByName, S!LayoutStep,
       S!LayoutGap, S!LayoutOverlap, S!OffsetsReversed, S!SizeOverflow, S!ByteMisaligned,
       S!SizeMismatch, S!PlaceTensor, S!Sized, S!InOrder, S!Aligned, S!NextByKey, S!StartLayout,
       S!PayloadSizeMismatch, S!BuildManifest, S!WalkDone
  <2>4. StorageInv'
    BY <2>2, <2>3, StorageKeeps DEF ParseInv, Validating
  <2>5. layout' = layout
    BY <2>2, StorageAssumptions, SP!InputFixed
  <2>6. layout' = LayoutOf(R!DeclaredTensors)'
    <3>1. R!DeclaredTensors' = R!DeclaredTensors
      BY <2>1, DeclaredFixed
    <3> QED
      BY <2>3, <2>5, <3>1 DEF ParseInv, Validating, LayoutOf, TensorNamed
  <2>7. SchemaInv'
    BY <2>1, SchemaKeeps DEF ParseInv
  <2>8. storage' # "idle"
    BY <2>4 DEF StorageInv, SP!TypeOK, SP!Phases
  <2> QED
    BY <2>1, <2>3, <2>4, <2>6, <2>7, <2>8 DEF ParseInv, Waiting, Validating
<1>4. CASE UNCHANGED <<vars, storing>>
  <2>1. /\ UNCHANGED vars /\ tree' = tree /\ phase' = phase
        /\ UNCHANGED <<layout, dataSize, storage, todo, placed, cursor, layoutCode>>
    BY <1>4 DEF vars, storing
  <2>2. SchemaInv'
    BY <2>1, SchemaKeeps DEF ParseInv
  <2>3. ASSUME storage # "idle" PROVE StorageInv' /\ layout' = LayoutOf(R!DeclaredTensors)'
    <3>1. StorageInv /\ UNCHANGED SP!vars
      BY <2>1, <2>3 DEF ParseInv, Validating, SP!vars
    <3>2. StorageInv'
      BY <3>1, StorageKeeps
    <3>3. R!DeclaredTensors' = R!DeclaredTensors
      BY <2>1, DeclaredFixed
    <3> QED
      BY <2>1, <2>3, <3>2, <3>3 DEF ParseInv, Validating, LayoutOf, TensorNamed
  <2> QED
    BY <2>1, <2>2, <2>3 DEF ParseInv, Waiting, Validating
<1> QED
  BY <1>1, <1>2, <1>3, <1>4 DEF ParseNext, Over

-----------------------------------------------------------------------------
(***************************************************************************)
(* parse_safetensors_manifest is always where its invariant says: the      *)
(* decoder has read what the document declares, and storage validation     *)
(* works on exactly that.                                                  *)
(***************************************************************************)
THEOREM ParseCorrect == ParseSpec => []ParseInv
<1>1. (SP!Init => StorageInv)'
  BY StorageStart, PTL
<1>2. ParseInv /\ [ParseNext]_<<vars, storing>> => ParseInv'
  BY <1>1, ParseKeeps
<1> QED
  BY ParseStart, <1>2, PTL DEF ParseSpec

(***************************************************************************)
(* For every document, limits and payload: a manifest is returned only for *)
(* a header without an error whose declared tensors tile the payload, and  *)
(* has each of them once; a storage error is raised only where they do not *)
(* tile it; and an error of the schema only for a header that has one.     *)
(***************************************************************************)
THEOREM ParsesExactly == ParseSpec => []ManifestExact
<1>1. ParseInv => ManifestExact
  <2> SUFFICES ASSUME ParseInv PROVE ManifestExact
    OBVIOUS
  <2>1. phase = "refused" => R!Errors # {}
    BY DEF ParseInv, SchemaInv, RefusalTrue
  <2>2. ASSUME storage # "idle"
        PROVE  /\ R!Errors = {} /\ layout = LayoutOf(R!DeclaredTensors) /\ StorageInv
               /\ IsTree(tree) /\ SchemaInv /\ phase = "done"
    BY <2>2, DecodedWhole DEF ParseInv, Validating, WhollyRead, SchemaInv, ControlTrue
  <2>3. storage = "rejected" => R!Errors = {} /\ ~Declared!ValidLayout
    BY <2>2, SameVerdict DEF StorageInv, SP!AcceptsExactlyTilings
  <2>4. ASSUME storage = "accepted"
        PROVE  /\ S!Placed = {RankOf[NameAt(i)] : i \in ToSet(TensorMembers)}
               /\ Len(placed) = Len(TensorMembers)
    <3>1. /\ layout = LayoutOf(R!DeclaredTensors) /\ StorageInv
          /\ IsTree(tree) /\ SchemaInv /\ phase = "done"
      BY <2>2, <2>4
    <3>2. \A i \in ToSet(TensorMembers) : NameAt(i) \in Text
      <4>1. <<>> \in DOMAIN tree
        BY <3>1 DEF IsTree
      <4>2. Keys(<<>>) \in Seq(Text)
        BY <3>1, <4>1, NodeIs
      <4>3. \A i \in DOMAIN Keys(<<>>) : Keys(<<>>)[i] \in Text
        BY <4>2
      <4> QED
        BY <3>1, <4>3, MembersAre DEF NameAt, ToSet
    <3>3. /\ placed \in Seq(DOMAIN layout)
          /\ \A i, j \in DOMAIN placed : placed[i] = placed[j] => i = j
          /\ SP!Placed = DOMAIN layout /\ SP!Placed = {placed[i] : i \in DOMAIN placed}
      BY <2>4, <3>1 DEF StorageInv, SP!TypeOK, SP!PlacedOnce, SP!Placed
    <3>4. Len(placed) \in Nat /\ DOMAIN placed = 1 .. Len(placed)
      BY <3>3
    <3>5. placed \in Bijection(1 .. Len(placed), DOMAIN layout)
      <4>1. placed \in [1 .. Len(placed) -> DOMAIN layout]
        BY <3>3, <3>4
      <4> QED
        BY <3>3, <3>4, <4>1 DEF Bijection, Injection, Surjection, IsInjective
    <3>6. ExistsBijection(1 .. Len(placed), DOMAIN layout)
      BY <3>5 DEF ExistsBijection
    <3>7. S!Placed = SP!Placed
      BY DEF S!Placed, SP!Placed
    <3> QED
      BY <3>1, <3>2, <3>3, <3>4, <3>6, <3>7, NamesCounted
  <2>5. storage = "accepted" => R!Errors = {} /\ Declared!ValidLayout
    BY <2>2, SameVerdict DEF StorageInv, SP!AcceptsExactlyTilings
  <2> QED
    BY <2>1, <2>3, <2>4, <2>5 DEF ManifestExact
<1> QED
  BY <1>1, ParseCorrect, PTL

(***************************************************************************)
(* For every document, limits and payload, no constructor on the way       *)
(* raises on what the stage before it has produced.                        *)
(***************************************************************************)
THEOREM ParseEscapesNever == ParseSpec => []ParseNeverEscapes
<1>1. ParseInv => ParseNeverEscapes
  BY OnlyDocumented DEF ParseInv, Validating, StorageInv, SP!ManifestNeverRefuses, ParseNeverEscapes
<1> QED
  BY <1>1, ParseCorrect, PTL

(***************************************************************************)
(* Within the whole call too, the error of the schema is the first in      *)
(* reading order.                                                          *)
(***************************************************************************)
THEOREM ParseReportsInOrder == ParseSpec => []ReportsFirst
<1>1. ParseInv => ReportsFirst
  BY FirstReported DEF ParseInv
<1> QED
  BY <1>1, ParseCorrect, PTL
=============================================================================
