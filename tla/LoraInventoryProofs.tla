------------------------ MODULE LoraInventoryProofs ------------------------
(***************************************************************************)
(* For all names, shapes and manifests: what each pass has compiled at     *)
(* every moment, and so that the passes compile exactly the declarative    *)
(* pairs and issues, each once, whatever the order of the groups.          *)
(***************************************************************************)
EXTENDS LoraInventory, FiniteSetTheorems, SequenceTheorems, TLAPS

(***************************************************************************)
(* Two paths that end with one suffix and agree before it are equal.       *)
(***************************************************************************)
LEMMA SamePath ==
  ASSUME NEW S, NEW p \in Seq(S), NEW q \in Seq(S), NEW suffix,
         Len(suffix) \in Nat, EndsWith(p, suffix), EndsWith(q, suffix),
         SubSeq(p, 1, Len(p) - Len(suffix)) = SubSeq(q, 1, Len(q) - Len(suffix))
  PROVE  p = q
<1> DEFINE j == Len(p) - Len(suffix)
           k == Len(q) - Len(suffix)
<1>1. /\ j \in Nat \ {0} /\ k \in Nat \ {0}
      /\ Len(p) \in Nat /\ Len(q) \in Nat /\ Len(suffix) \in Nat
  BY LenProperties DEF EndsWith
<1>2. /\ \A i \in 1 .. Len(p) : p[i] \in S
      /\ \A i \in 1 .. Len(q) : q[i] \in S
  BY ElementOfSeq
<1>3. /\ Len(SubSeq(p, 1, j)) = j
      /\ \A i \in 1 .. j : SubSeq(p, 1, j)[i] = p[i]
  <2>1. \A i \in 1 .. j : p[i] \in S
    BY <1>1, <1>2
  <2> HIDE DEF j
  <2>2. \A i \in 1 .. j - 1 + 1 : SubSeq(p, 1, j)[i] = p[1 + i - 1]
    BY <2>1, <1>1, SubSeqProperties
  <2>3. Len(SubSeq(p, 1, j)) = IF 1 <= j THEN j - 1 + 1 ELSE 0
    BY <2>1, <1>1, SubSeqProperties
  <2> QED
    BY <1>1, <2>2, <2>3
<1>4. /\ Len(SubSeq(q, 1, k)) = k
      /\ \A i \in 1 .. k : SubSeq(q, 1, k)[i] = q[i]
  <2>1. \A i \in 1 .. k : q[i] \in S
    BY <1>1, <1>2
  <2> HIDE DEF k
  <2>2. \A i \in 1 .. k - 1 + 1 : SubSeq(q, 1, k)[i] = q[1 + i - 1]
    BY <2>1, <1>1, SubSeqProperties
  <2>3. Len(SubSeq(q, 1, k)) = IF 1 <= k THEN k - 1 + 1 ELSE 0
    BY <2>1, <1>1, SubSeqProperties
  <2> QED
    BY <1>1, <2>2, <2>3
<1>5. j = k /\ Len(p) = Len(q)
  BY <1>1, <1>3, <1>4
<1>6. \A i \in 1 .. j : p[i] = q[i]
  BY <1>3, <1>4, <1>5
<1>7. \A i \in j + 1 .. Len(p) : p[i] = q[i]
  <2> SUFFICES ASSUME NEW i \in j + 1 .. Len(p) PROVE p[i] = q[i]
    OBVIOUS
  <2>1. \A h \in j + 1 .. Len(p) : p[h] \in S /\ q[h] \in S
    BY <1>1, <1>2, <1>5
  <2>2. i - j \in 1 .. Len(p) - (j + 1) + 1 /\ i \in Int
    BY <1>1
  <2> HIDE DEF j
  <2>3. SubSeq(p, j + 1, Len(p))[i - j] = p[j + 1 + (i - j) - 1]
    BY <1>1, <2>1, <2>2, SubSeqProperties
  <2>4. SubSeq(q, j + 1, Len(p))[i - j] = q[j + 1 + (i - j) - 1]
    BY <1>1, <2>1, <2>2, SubSeqProperties
  <2>5. j + 1 + (i - j) - 1 = i
    BY <1>1, <2>2
  <2>6. SubSeq(p, j + 1, Len(p)) = SubSeq(q, j + 1, Len(p))
    BY <1>5 DEF EndsWith, j
  <2> QED
    BY <2>3, <2>4, <2>5, <2>6
<1>8. \A i \in 1 .. Len(p) : p[i] = q[i]
  BY <1>1, <1>6, <1>7
<1> QED
  BY <1>5, <1>8, SeqEqual

LEMMA SuffixLength == ASSUME NEW role \in Role PROVE Len(Suffix[role]) \in Nat
<1>1. role \in {"weight_a", "weight_b", "embedding_a", "embedding_b"}
  BY DEF Role, Suffix
<1>2. CASE role = "weight_a"
  BY <1>2 DEF Suffix
<1>3. CASE role = "weight_b"
  BY <1>3 DEF Suffix
<1>4. CASE role = "embedding_a"
  BY <1>4 DEF Suffix
<1>5. CASE role = "embedding_b"
  BY <1>5 DEF Suffix
<1> QED
  BY <1>1, <1>2, <1>3, <1>4, <1>5

-----------------------------------------------------------------------------
(***************************************************************************)
(* The role and target the inventory gives a name are those of the         *)
(* grammar.                                                                *)
(***************************************************************************)
LEMMA ClassifiedRole ==
  ASSUME NEW n \in Classified
  PROVE  /\ n \in Name
         /\ RoleOf[n] \in Role
         /\ HasRole(n, RoleOf[n])
         /\ TargetOf[n] = Before(n, RoleOf[n])
BY DEF Classified, RoleOf, TargetOf

(***************************************************************************)
(* The dictionary of _compile_relationships never meets one key twice:     *)
(* a name is determined by its target and role.                            *)
(***************************************************************************)
THEOREM NameDetermined ==
  ASSUME NEW m \in Classified, NEW n \in Classified,
         TargetOf[m] = TargetOf[n], RoleOf[m] = RoleOf[n]
  PROVE  m = n
<1> DEFINE role == RoleOf[n]
<1>1. role \in Role /\ m \in Name /\ n \in Name
  BY ClassifiedRole
<1>2. EndsWith(Components[m], Suffix[role]) /\ EndsWith(Components[n], Suffix[role])
  <2>1. Matches(m) = {role} /\ Matches(n) = {role}
    BY ClassifiedRole DEF HasRole
  <2> QED
    BY <2>1 DEF Matches
<1>3. Before(m, role) = Before(n, role)
  BY ClassifiedRole
<1>4. Components[m] \in Seq(STRING) /\ Components[n] \in Seq(STRING)
  BY <1>1, ComponentsAssumption
<1>5. Components[m] = Components[n]
  <2> HIDE DEF role
  <2> QED
    BY <1>1, <1>2, <1>3, <1>4, SuffixLength, SamePath DEF Before
<1> QED
  BY <1>1, <1>5, ComponentsAssumption

-----------------------------------------------------------------------------
(***************************************************************************)
(* Roles come in two kinds, with an A and a B each.                        *)
(***************************************************************************)
LEMMA RoleKinds ==
  ASSUME NEW role \in Role
  PROVE  /\ KindOf(role) \in Kind
         /\ role \in {ARole(KindOf(role)), BRole(KindOf(role))}
BY DEF Role, Suffix, KindOf, Kind, ARole, BRole

LEMMA KindRoles ==
  ASSUME NEW kind \in Kind
  PROVE  /\ ARole(kind) # BRole(kind)
         /\ KindOf(ARole(kind)) = kind /\ KindOf(BRole(kind)) = kind
BY DEF Kind, KindOf, ARole, BRole

(***************************************************************************)
(* A member has at most one partner, and none is an A and a B at once.     *)
(***************************************************************************)
LEMMA PartnerUnique ==
  ASSUME NEW a \in Classified, NEW b \in Classified, Complementary(a, b)
  PROVE  /\ \A c \in Classified : Complementary(a, c) => c = b
         /\ \A c \in Classified : Complementary(c, b) => c = a
         /\ \A c \in Classified : ~Complementary(b, c) /\ ~Complementary(c, a)
         /\ a # b
<1>1. RoleOf[a] \in Role /\ RoleOf[b] \in Role
  BY ClassifiedRole
<1>2. KindOf(RoleOf[a]) \in Kind /\ ARole(KindOf(RoleOf[a])) # BRole(KindOf(RoleOf[a]))
  BY <1>1, RoleKinds, KindRoles
<1>3. ASSUME NEW c \in Classified, Complementary(a, c) PROVE c = b
  BY <1>3, NameDetermined DEF Complementary
<1>4. ASSUME NEW c \in Classified, Complementary(c, b) PROVE c = a
  BY <1>4, NameDetermined DEF Complementary
<1>5. ASSUME NEW c \in Classified PROVE ~Complementary(b, c) /\ ~Complementary(c, a)
  BY <1>2, <1>5 DEF Complementary
<1>6. a # b
  BY <1>2 DEF Complementary
<1> QED
  BY <1>3, <1>4, <1>5, <1>6

LEMMA PairParts ==
  ASSUME NEW p \in PairsOf
  PROVE  /\ p = Pair(p.a, p.b)
         /\ p.a \in Recognised /\ p.b \in Recognised
         /\ Complementary(p.a, p.b)
BY DEF PairsOf, Pair

(***************************************************************************)
(* Two pairs that share a member are one pair.                             *)
(***************************************************************************)
THEOREM PairsDisjoint ==
  ASSUME NEW p \in PairsOf, NEW q \in PairsOf, {p.a, p.b} \cap {q.a, q.b} # {}
  PROVE  p = q
<1>1. /\ p.a \in Classified /\ p.b \in Classified /\ q.a \in Classified /\ q.b \in Classified
      /\ Complementary(p.a, p.b) /\ Complementary(q.a, q.b)
  BY PairParts DEF Recognised
<1>2. p.a = q.a /\ p.b = q.b
  BY <1>1, PartnerUnique
<1> QED
  BY <1>2, PairParts

(***************************************************************************)
(* A recognised tensor is an orphan or in a pair, and not both.            *)
(***************************************************************************)
LEMMA AloneOrPaired ==
  ASSUME NEW n \in Recognised
  PROVE  Alone(n) <=> \A p \in PairsOf : n \notin {p.a, p.b}
<1>1. ASSUME Alone(n), NEW p \in PairsOf PROVE n \notin {p.a, p.b}
  BY <1>1, PairParts DEF Alone
<1>2. ASSUME NEW m \in Recognised, Complementary(n, m) PROVE \E p \in PairsOf : n \in {p.a, p.b}
  <2>1. Pair(n, m) \in PairsOf /\ Pair(n, m).a = n
    BY <1>2 DEF PairsOf, Pair
  <2> QED
    BY <2>1
<1>3. ASSUME NEW m \in Recognised, Complementary(m, n) PROVE \E p \in PairsOf : n \in {p.a, p.b}
  <2>1. Pair(m, n) \in PairsOf /\ Pair(m, n).b = n
    BY <1>3 DEF PairsOf, Pair
  <2> QED
    BY <2>1
<1> QED
  BY <1>1, <1>2, <1>3 DEF Alone

-----------------------------------------------------------------------------
(***************************************************************************)
(* Issues of different kinds differ, and so do those of different tensors. *)
(***************************************************************************)
LEMMA IssueInjective ==
  ASSUME NEW k, NEW l, NEW m, NEW n
  PROVE  Issue(k, TensorScope(m)) = Issue(l, TensorScope(n)) <=> k = l /\ m = n
BY DEF Issue, TensorScope

(***************************************************************************)
(* What the declarative issues say of one tensor.                          *)
(***************************************************************************)
LEMMA ReportedOf ==
  ASSUME NEW n \in Present
  PROVE  /\ Issue("unclassified_tensor", TensorScope(n)) \in IssuesOf <=> n \notin Recognised
         /\ Issue("orphan_member", TensorScope(n)) \in IssuesOf <=> n \in Recognised /\ Alone(n)
<1>1. \A k : \/ Issue(k, TensorScope(n)) \in
                  {Issue("unclassified_tensor", TensorScope(m)) : m \in Present \ Recognised}
             \/ Issue(k, TensorScope(n)) \in
                  {Issue("orphan_member", TensorScope(m)) : m \in {h \in Recognised : Alone(h)}}
             <=> \/ k = "unclassified_tensor" /\ n \notin Recognised
                 \/ k = "orphan_member" /\ n \in Recognised /\ Alone(n)
  <2>1. \A k : Issue(k, TensorScope(n)) \in
                 {Issue("unclassified_tensor", TensorScope(m)) : m \in Present \ Recognised}
               <=> k = "unclassified_tensor" /\ n \notin Recognised
    BY IssueInjective
  <2>2. \A k : Issue(k, TensorScope(n)) \in
                 {Issue("orphan_member", TensorScope(m)) : m \in {h \in Recognised : Alone(h)}}
               <=> k = "orphan_member" /\ n \in Recognised /\ Alone(n)
    BY IssueInjective
  <2> QED
    BY <2>1, <2>2
<1>2. \A k : k \in {"unclassified_tensor", "orphan_member"} /\ Issue(k, TensorScope(n)) \in IssuesOf =>
         \/ Issue(k, TensorScope(n)) \in
              {Issue("unclassified_tensor", TensorScope(m)) : m \in Present \ Recognised}
         \/ Issue(k, TensorScope(n)) \in
              {Issue("orphan_member", TensorScope(m)) : m \in {h \in Recognised : Alone(h)}}
  BY DEF IssuesOf, Issue
<1>3. \A i : \/ i \in {Issue("unclassified_tensor", TensorScope(m)) : m \in Present \ Recognised}
             \/ i \in {Issue("orphan_member", TensorScope(m)) : m \in {h \in Recognised : Alone(h)}}
             => i \in IssuesOf
  BY DEF IssuesOf
<1> QED
  BY <1>1, <1>2, <1>3

(***************************************************************************)
(* The declarative parts are functions of the tensors.                     *)
(***************************************************************************)
LEMMA RelationsKept ==
  ASSUME tensors' = tensors
  PROVE  /\ Present' = Present /\ Recognised' = Recognised /\ Extended' = Extended
         /\ PairsOf' = PairsOf /\ IssuesOf' = IssuesOf
BY DEF Present, Recognised, Extended, PairsOf, IssuesOf, MixedTargets, Alone, Complementary,
   HighRank

-----------------------------------------------------------------------------

GroupOf(n) == <<TargetOf[n], KindOf(RoleOf[n])>>

AllGroups == {GroupOf(n) : n \in Recognised}

\* The issues of the classification of the tensors in S ...
Unclassifieds(S) ==
    {Issue("unclassified_tensor", TensorScope(n)) : n \in S \ Classified}

Unknowns(S) ==
    {Issue("unknown_tensor_fields", TensorScope(n)) : n \in (S \cap Classified) \cap Extended}

\* ... and of the pairing of the groups in G.
OrphansIn(G) ==
    {Issue("orphan_member", TensorScope(n)) :
       n \in {m \in Recognised : Alone(m) /\ GroupOf(m) \in G}}

Orientations(G) ==
    {Issue("unmodeled_weight_orientation", TensorScope(p.a)) :
       p \in {q \in PairsOf : /\ GroupOf(q.a) \in G
                              /\ KindOf(RoleOf[q.a]) = "weight"
                              /\ HighRank(q.a) \/ HighRank(q.b)}}

(***************************************************************************)
(* The inductive invariant: the dictionary holds the tensors classified so *)
(* far, the lists what those and the finished groups give, and no issue    *)
(* was appended twice.                                                     *)
(***************************************************************************)
ControlTrue ==
    /\ phase \in {"classify", "pair", "build", "done"}
    /\ repeated = FALSE
    /\ todo \subseteq Present
    /\ phase # "classify" => todo = {}
    /\ phase = "classify" => groups = {} /\ Present # {}
    /\ phase = "pair" => groups \subseteq AllGroups /\ Present # {}
    /\ phase \in {"build", "done"} => groups = {}

GroupedTrue == grouped = {Entry(n) : n \in Recognised \ todo}

PairsTrue ==
    pairs = IF phase = "classify" THEN {} ELSE {p \in PairsOf : GroupOf(p.a) \notin groups}

IssuesTrue ==
    /\ phase = "classify" =>
         issues = Unclassifieds(Present \ todo) \cup Unknowns(Present \ todo)
    /\ phase = "pair" =>
         issues = (Unclassifieds(Present) \cup Unknowns(Present))
                    \cup (OrphansIn(AllGroups \ groups) \cup Orientations(AllGroups \ groups))
    /\ phase \in {"build", "done"} => issues = IssuesOf

PassesInv == ControlTrue /\ GroupedTrue /\ PairsTrue /\ IssuesTrue

-----------------------------------------------------------------------------
LEMMA IssueKinds ==
  ASSUME NEW S, NEW G
  PROVE  /\ \A i \in Unclassifieds(S) : i.kind = "unclassified_tensor"
         /\ \A i \in Unknowns(S) : i.kind = "unknown_tensor_fields"
         /\ \A i \in OrphansIn(G) : i.kind = "orphan_member"
         /\ \A i \in Orientations(G) : i.kind = "unmodeled_weight_orientation"
BY DEF Unclassifieds, Unknowns, OrphansIn, Orientations, Issue

-----------------------------------------------------------------------------
(***************************************************************************)
(* The members of a group once all tensors are in the dictionary.          *)
(***************************************************************************)
LEMMA GroupMembers ==
  ASSUME grouped = {Entry(n) : n \in Recognised}, NEW g \in AllGroups
  PROVE  /\ AMembers(g) = {n \in Recognised : GroupOf(n) = g /\ RoleOf[n] = ARole(g[2])}
         /\ BMembers(g) = {n \in Recognised : GroupOf(n) = g /\ RoleOf[n] = BRole(g[2])}
         /\ AMembers(g) \cup BMembers(g) = {n \in Recognised : GroupOf(n) = g}
<1>1. PICK m \in Recognised : g = GroupOf(m)
  BY DEF AllGroups
<1>2. g[1] = TargetOf[m] /\ g[2] = KindOf(RoleOf[m]) /\ g = <<g[1], g[2]>>
  BY <1>1 DEF GroupOf
<1>3. g[2] \in Kind
  BY <1>2, ClassifiedRole, RoleKinds DEF Recognised
<1>4. ASSUME NEW role
      PROVE  Member(g, role) = {n \in Recognised : TargetOf[n] = g[1] /\ RoleOf[n] = role}
  <2>1. ASSUME NEW n \in Recognised, TargetOf[n] = g[1], RoleOf[n] = role
        PROVE  n \in Member(g, role)
    <3>1. Entry(n) \in grouped
      OBVIOUS
    <3>2. Entry(n).target = g[1] /\ Entry(n).role = role /\ Entry(n).name = n
      BY <2>1 DEF Entry
    <3> QED
      BY <3>1, <3>2 DEF Member
  <2>2. ASSUME NEW n \in Member(g, role)
        PROVE  n \in Recognised /\ TargetOf[n] = g[1] /\ RoleOf[n] = role
    <3>1. PICK e \in grouped : e.target = g[1] /\ e.role = role /\ e.name = n
      BY <2>2 DEF Member
    <3> QED
      BY <3>1 DEF Entry
  <2> QED
    BY <2>1, <2>2
<1>5. \A n \in Recognised : GroupOf(n) = g <=> TargetOf[n] = g[1] /\ KindOf(RoleOf[n]) = g[2]
  BY <1>2 DEF GroupOf
<1>6. /\ AMembers(g) = {n \in Recognised : GroupOf(n) = g /\ RoleOf[n] = ARole(g[2])}
      /\ BMembers(g) = {n \in Recognised : GroupOf(n) = g /\ RoleOf[n] = BRole(g[2])}
  BY <1>3, <1>4, <1>5, KindRoles DEF AMembers, BMembers
<1>7. \A n \in Recognised : GroupOf(n) = g => RoleOf[n] \in {ARole(g[2]), BRole(g[2])}
  BY <1>5, ClassifiedRole, RoleKinds DEF Recognised
<1> QED
  BY <1>6, <1>7

(***************************************************************************)
(* Complementary tensors are the A and the B of one group.                 *)
(***************************************************************************)
LEMMA ComplementaryGroup ==
  ASSUME NEW a \in Recognised, NEW b \in Recognised
  PROVE  Complementary(a, b) <=> /\ GroupOf(a) = GroupOf(b)
                                 /\ RoleOf[a] = ARole(GroupOf(a)[2])
                                 /\ RoleOf[b] = BRole(GroupOf(a)[2])
BY DEF Complementary, GroupOf

-----------------------------------------------------------------------------
LEMMA InitialPasses == Init => PassesInv
<1> SUFFICES ASSUME Init PROVE PassesInv
  OBVIOUS
<1>1. ControlTrue /\ GroupedTrue
  BY DEF Init, ControlTrue, GroupedTrue, Recognised
<1>2. CASE Present = {}
  <2>1. Recognised = {} /\ PairsOf = {} /\ MixedTargets = {}
    BY <1>2 DEF Recognised, PairsOf, MixedTargets
  <2>2. IssuesOf = {Issue("empty_inventory", NoScope)}
    BY <1>2, <2>1 DEF IssuesOf
  <2> QED
    BY <1>1, <1>2, <2>1, <2>2 DEF Init, PassesInv, PairsTrue, IssuesTrue
<1>3. CASE Present # {}
  BY <1>1, <1>3 DEF Init, PassesInv, PairsTrue, IssuesTrue, Unclassifieds, Unknowns
<1> QED
  BY <1>2, <1>3

-----------------------------------------------------------------------------
(***************************************************************************)
(* Each action keeps the invariant.                                        *)
(***************************************************************************)
LEMMA SkipKept ==
  ASSUME PassesInv, NEW n \in Present, SkipUnclassified(n)
  PROVE  PassesInv'
<1> USE DEF PassesInv
<1> DEFINE S == Present \ todo
<1>1. /\ phase = "classify" /\ phase' = phase /\ n \in todo /\ todo' = todo \ {n}
      /\ tensors' = tensors /\ n \notin Classified
      /\ UNCHANGED <<grouped, groups, pairs>>
  BY DEF SkipUnclassified, NextTensor
<1>2. Present' = Present /\ Present \ todo' = S \cup {n} /\ n \notin S
  BY <1>1 DEF Present
<1>3. /\ Unclassifieds(S \cup {n}) =
           Unclassifieds(S) \cup {Issue("unclassified_tensor", TensorScope(n))}
      /\ Unknowns(S \cup {n}) = Unknowns(S)
  BY <1>1 DEF Unclassifieds, Unknowns
<1>4. Issue("unclassified_tensor", TensorScope(n)) \notin issues
  <2>1. Issue("unclassified_tensor", TensorScope(n)) \notin Unclassifieds(S)
    BY <1>2, IssueInjective DEF Unclassifieds
  <2>2. Issue("unclassified_tensor", TensorScope(n)) \notin Unknowns(S)
    BY IssueInjective DEF Unknowns
  <2> QED
    BY <1>1, <2>1, <2>2 DEF IssuesTrue
<1>5. ControlTrue'
  BY <1>1, <1>2, <1>4 DEF SkipUnclassified, AddIssues, ControlTrue
<1>6. GroupedTrue' /\ PairsTrue'
  <2>1. Recognised' = Recognised /\ Recognised \ todo' = Recognised \ todo
    BY <1>1, <1>2 DEF Recognised
  <2> QED
    BY <1>1, <2>1 DEF GroupedTrue, PairsTrue, Entry
<1>7. IssuesTrue'
  <2>1. issues' = Unclassifieds(S \cup {n}) \cup Unknowns(S \cup {n})
    BY <1>1, <1>3 DEF SkipUnclassified, AddIssues, IssuesTrue
  <2>2. Extended' = Extended
    BY <1>1, <1>2 DEF Extended
  <2> QED
    BY <1>1, <1>2, <2>1, <2>2 DEF IssuesTrue, Unclassifieds, Unknowns
<1> QED
  BY <1>5, <1>6, <1>7

LEMMA GroupKept ==
  ASSUME PassesInv, NEW n \in Present, GroupTensor(n)
  PROVE  PassesInv'
<1> USE DEF PassesInv
<1> DEFINE S == Present \ todo
<1>1. /\ phase = "classify" /\ phase' = phase /\ n \in todo /\ todo' = todo \ {n}
      /\ tensors' = tensors /\ n \in Classified
      /\ UNCHANGED <<groups, pairs>>
  BY DEF GroupTensor, NextTensor
<1>2. /\ Present' = Present /\ Recognised' = Recognised /\ Extended' = Extended
      /\ Present \ todo' = S \cup {n} /\ n \notin S /\ n \in Recognised
  BY <1>1 DEF Present, Recognised, Extended
<1> DEFINE new == {Issue("unknown_tensor_fields", TensorScope(m)) : m \in {n} \cap Extended}
<1>3. /\ Unknowns(S \cup {n}) = Unknowns(S) \cup new
      /\ Unclassifieds(S \cup {n}) = Unclassifieds(S)
  BY <1>1 DEF Unclassifieds, Unknowns
<1>4. issues \cap new = {}
  <2>1. Issue("unknown_tensor_fields", TensorScope(n)) \notin Unknowns(S)
    BY <1>2, IssueInjective DEF Unknowns
  <2>2. Issue("unknown_tensor_fields", TensorScope(n)) \notin Unclassifieds(S)
    BY IssueInjective DEF Unclassifieds
  <2> QED
    BY <1>1, <2>1, <2>2 DEF IssuesTrue
<1>5. ControlTrue'
  BY <1>1, <1>2, <1>4 DEF GroupTensor, AddIssues, ControlTrue
<1>6. GroupedTrue'
  <2>1. \A e \in grouped : <<e.target, e.role>> # <<TargetOf[n], RoleOf[n]>>
    <3> SUFFICES ASSUME NEW m \in Recognised \ todo,
                        TargetOf[m] = TargetOf[n], RoleOf[m] = RoleOf[n]
                 PROVE  FALSE
      BY DEF GroupedTrue, Entry
    <3> QED
      BY <1>1, NameDetermined DEF Recognised
  <2>2. grouped' = grouped \cup {Entry(n)}
    BY <2>1 DEF GroupTensor
  <2>3. Recognised \ todo' = (Recognised \ todo) \cup {n}
    BY <1>1, <1>2
  <2> QED
    BY <1>2, <2>2, <2>3 DEF GroupedTrue, Entry
<1>7. PairsTrue'
  BY <1>1 DEF PairsTrue
<1>8. IssuesTrue'
  <2>1. issues' = Unclassifieds(S \cup {n}) \cup Unknowns(S \cup {n})
    BY <1>1, <1>3 DEF GroupTensor, AddIssues, IssuesTrue
  <2> QED
    BY <1>1, <1>2, <2>1 DEF IssuesTrue, Unclassifieds, Unknowns
<1> QED
  BY <1>5, <1>6, <1>7, <1>8

(***************************************************************************)
(* The groups depend on the tensors alone, as the pairs and issues do.     *)
(***************************************************************************)
LEMMA TensorsKept ==
  ASSUME tensors' = tensors
  PROVE  /\ Present' = Present /\ Recognised' = Recognised /\ Extended' = Extended
         /\ PairsOf' = PairsOf /\ IssuesOf' = IssuesOf /\ AllGroups' = AllGroups
BY RelationsKept DEF AllGroups, GroupOf

LEMMA StartKept ==
  ASSUME PassesInv, StartPairing
  PROVE  PassesInv'
<1> USE DEF PassesInv
<1>1. /\ phase = "classify" /\ phase' = "pair" /\ todo = {} /\ todo' = {}
      /\ UNCHANGED <<tensors, grouped, pairs, issues, repeated>>
  BY DEF StartPairing
<1>2. /\ Present' = Present /\ Recognised' = Recognised /\ Extended' = Extended
      /\ PairsOf' = PairsOf /\ AllGroups' = AllGroups
  BY <1>1, TensorsKept
<1>3. groups' = AllGroups
  <2>1. grouped = {Entry(n) : n \in Recognised}
    BY <1>1 DEF GroupedTrue
  <2>2. groups' = {<<Entry(n).target, KindOf(Entry(n).role)>> : n \in Recognised}
    BY <2>1 DEF StartPairing
  <2> QED
    BY <2>2 DEF AllGroups, GroupOf, Entry
<1>4. ControlTrue'
  BY <1>1, <1>2, <1>3 DEF ControlTrue
<1>5. GroupedTrue'
  BY <1>1, <1>2 DEF GroupedTrue, Entry
<1>6. PairsTrue'
  <2>1. \A p \in PairsOf : GroupOf(p.a) \in AllGroups
    BY PairParts DEF AllGroups
  <2>2. pairs = {}
    BY <1>1 DEF PairsTrue
  <2> QED
    BY <1>1, <1>2, <1>3, <2>1, <2>2 DEF PairsTrue, GroupOf
<1>7. IssuesTrue'
  <2>1. issues = Unclassifieds(Present) \cup Unknowns(Present)
    BY <1>1 DEF IssuesTrue
  <2>2. issues' = (Unclassifieds(Present') \cup Unknowns(Present'))
                    \cup (OrphansIn(AllGroups' \ groups') \cup Orientations(AllGroups' \ groups'))
    BY <1>1, <1>2, <1>3, <2>1 DEF OrphansIn, Orientations
  <2> QED
    BY <1>1, <1>2, <2>2 DEF IssuesTrue, Unclassifieds, Unknowns, OrphansIn, Orientations,
       Alone, Complementary, HighRank, GroupOf
<1> QED
  BY <1>4, <1>5, <1>6, <1>7

(***************************************************************************)
(* The state in which the groups are compiled, for the next two actions.   *)
(***************************************************************************)
LEMMA PairingState ==
  ASSUME PassesInv, phase = "pair", NEW g \in groups
  PROVE  /\ grouped = {Entry(n) : n \in Recognised}
         /\ g \in AllGroups
         /\ AllGroups \ (groups \ {g}) = (AllGroups \ groups) \cup {g}
         /\ pairs = {p \in PairsOf : GroupOf(p.a) \notin groups}
         /\ issues = (Unclassifieds(Present) \cup Unknowns(Present))
                       \cup (OrphansIn(AllGroups \ groups) \cup Orientations(AllGroups \ groups))
BY DEF PassesInv, ControlTrue, GroupedTrue, PairsTrue, IssuesTrue

(***************************************************************************)
(* A step that compiles the group g needs to add just its pairs and issues *)
(* to the lists, if none of them is there yet.                             *)
(***************************************************************************)
LEMMA GroupCompiled ==
  ASSUME PassesInv, phase = "pair", NEW g \in groups,
         phase' = phase, groups' = groups \ {g},
         UNCHANGED <<tensors, todo, grouped>>,
         pairs' = pairs \cup {p \in PairsOf : GroupOf(p.a) = g},
         AddIssues(OrphansIn({g}) \cup Orientations({g}))
  PROVE  PassesInv'
<1>1. /\ Present' = Present /\ Recognised' = Recognised /\ Extended' = Extended
      /\ PairsOf' = PairsOf /\ AllGroups' = AllGroups
  BY TensorsKept
<1> DEFINE G == AllGroups \ groups
           new == OrphansIn({g}) \cup Orientations({g})
<1>2. AllGroups' \ groups' = G \cup {g} /\ g \notin G /\ g \in AllGroups
  BY <1>1, PairingState
<1>3. /\ OrphansIn(G \cup {g}) = OrphansIn(G) \cup OrphansIn({g})
      /\ Orientations(G \cup {g}) = Orientations(G) \cup Orientations({g})
  BY DEF OrphansIn, Orientations
<1>4. OrphansIn(G) \cap OrphansIn({g}) = {}
  <2> SUFFICES ASSUME NEW i \in OrphansIn(G), i \in OrphansIn({g}) PROVE FALSE
    OBVIOUS
  <2>1. PICK m \in Recognised : GroupOf(m) \in G /\ i = Issue("orphan_member", TensorScope(m))
    BY DEF OrphansIn
  <2>2. PICK n \in Recognised : GroupOf(n) = g /\ i = Issue("orphan_member", TensorScope(n))
    BY DEF OrphansIn
  <2>3. m = n
    BY <2>1, <2>2, IssueInjective
  <2> QED
    BY <1>2, <2>1, <2>2, <2>3
<1>5. Orientations(G) \cap Orientations({g}) = {}
  <2> SUFFICES ASSUME NEW i \in Orientations(G), i \in Orientations({g}) PROVE FALSE
    OBVIOUS
  <2>1. PICK p \in PairsOf : /\ GroupOf(p.a) \in G
                             /\ i = Issue("unmodeled_weight_orientation", TensorScope(p.a))
    BY DEF Orientations
  <2>2. PICK q \in PairsOf : /\ GroupOf(q.a) = g
                             /\ i = Issue("unmodeled_weight_orientation", TensorScope(q.a))
    BY DEF Orientations
  <2>3. p.a = q.a
    BY <2>1, <2>2, IssueInjective
  <2> QED
    BY <1>2, <2>1, <2>2, <2>3
<1>6. issues \cap new = {}
  <2>1. /\ \A i \in Unclassifieds(Present) : i.kind = "unclassified_tensor"
        /\ \A i \in Unknowns(Present) : i.kind = "unknown_tensor_fields"
    BY IssueKinds
  <2>2. /\ \A i \in OrphansIn(G) : i.kind = "orphan_member"
        /\ \A i \in Orientations(G) : i.kind = "unmodeled_weight_orientation"
        /\ \A i \in OrphansIn({g}) : i.kind = "orphan_member"
        /\ \A i \in Orientations({g}) : i.kind = "unmodeled_weight_orientation"
    BY IssueKinds
  <2>3. issues = (Unclassifieds(Present) \cup Unknowns(Present))
                   \cup (OrphansIn(G) \cup Orientations(G))
    BY PairingState
  <2> HIDE DEF G
  <2> QED
    BY <1>4, <1>5, <2>1, <2>2, <2>3
<1>7. ControlTrue'
  BY <1>1, <1>6 DEF PassesInv, ControlTrue, AddIssues
<1>8. GroupedTrue'
  BY <1>1 DEF PassesInv, GroupedTrue, Entry
<1>9. PairsTrue'
  <2>1. \A p \in PairsOf : GroupOf(p.a) \notin groups' <=> GroupOf(p.a) \notin groups \/ GroupOf(p.a) = g
    OBVIOUS
  <2>2. pairs' = {p \in PairsOf : GroupOf(p.a) \notin groups'}
    BY <2>1, PairingState
  <2> QED
    BY <1>1, <2>2 DEF PairsTrue, GroupOf
<1>10. IssuesTrue'
  <2>1. issues' = (Unclassifieds(Present') \cup Unknowns(Present'))
                    \cup (OrphansIn(AllGroups' \ groups') \cup Orientations(AllGroups' \ groups'))
    BY <1>1, <1>2, <1>3, PairingState DEF AddIssues
  <2> QED
    BY <1>1, <2>1 DEF IssuesTrue, Unclassifieds, Unknowns, OrphansIn, Orientations,
       Alone, Complementary, HighRank, GroupOf
<1> QED
  BY <1>7, <1>8, <1>9, <1>10 DEF PassesInv

LEMMA CompilePairKept ==
  ASSUME PassesInv, NEW g \in groups, CompilePair(g)
  PROVE  PassesInv'
<1>1. phase = "pair" /\ phase' = phase /\ groups' = groups \ {g}
      /\ UNCHANGED <<tensors, todo, grouped>>
  BY DEF CompilePair
<1> DEFINE Swapped(a, b) == g[2] = "weight" /\ (HighRank(a) \/ HighRank(b))
<1>2. PICK a \in AMembers(g), b \in BMembers(g) :
        /\ pairs' = pairs \cup {Pair(a, b)}
        /\ AddIssues(IF Swapped(a, b)
                     THEN {Issue("unmodeled_weight_orientation", TensorScope(a))} ELSE {})
  BY DEF CompilePair
<1>3. /\ g \in AllGroups
      /\ a \in Recognised /\ GroupOf(a) = g /\ RoleOf[a] = ARole(g[2])
      /\ b \in Recognised /\ GroupOf(b) = g /\ RoleOf[b] = BRole(g[2])
  BY <1>1, <1>2, PairingState, GroupMembers
<1>4. Complementary(a, b)
  BY <1>3, ComplementaryGroup
<1>5. Pair(a, b) \in PairsOf /\ Pair(a, b).a = a /\ Pair(a, b).b = b
  BY <1>3, <1>4 DEF PairsOf, Pair
<1>6. g[2] = KindOf(RoleOf[a])
  BY <1>3 DEF GroupOf
<1>7. \A n \in Recognised : GroupOf(n) = g => n \in {a, b}
  <2> SUFFICES ASSUME NEW n \in Recognised, GroupOf(n) = g PROVE n \in {a, b}
    OBVIOUS
  <2>1. RoleOf[n] \in {ARole(g[2]), BRole(g[2])} /\ TargetOf[n] = TargetOf[a] /\ TargetOf[n] = TargetOf[b]
    BY <1>3, ClassifiedRole, RoleKinds DEF Recognised, GroupOf
  <2> QED
    BY <1>3, <2>1, NameDetermined DEF Recognised
<1>8. {p \in PairsOf : GroupOf(p.a) = g} = {Pair(a, b)}
  <2>1. ASSUME NEW p \in PairsOf, GroupOf(p.a) = g PROVE p = Pair(a, b)
    <3>1. p.a \in Recognised /\ p.b \in Recognised /\ GroupOf(p.b) = g /\ p.a # p.b
          /\ RoleOf[p.a] = ARole(g[2]) /\ Complementary(p.a, p.b)
      BY <2>1, PairParts, ComplementaryGroup, PartnerUnique DEF Recognised
    <3>2. {p.a, p.b} \cap {Pair(a, b).a, Pair(a, b).b} # {}
      BY <1>5, <1>7, <3>1
    <3> QED
      BY <1>5, <3>2, PairsDisjoint
  <2> QED
    BY <1>3, <1>5, <2>1
<1>9. OrphansIn({g}) = {}
  <2>1. \A n \in Recognised : GroupOf(n) = g => ~Alone(n)
    BY <1>3, <1>4, <1>7 DEF Alone
  <2> QED
    BY <2>1 DEF OrphansIn
<1>10. Orientations({g}) = IF Swapped(a, b)
                           THEN {Issue("unmodeled_weight_orientation", TensorScope(a))} ELSE {}
  <2>1. \A p \in PairsOf : GroupOf(p.a) \in {g} <=> p = Pair(a, b)
    BY <1>8
  <2>2. {q \in PairsOf : /\ GroupOf(q.a) \in {g}
                         /\ KindOf(RoleOf[q.a]) = "weight"
                         /\ HighRank(q.a) \/ HighRank(q.b)}
          = IF Swapped(a, b) THEN {Pair(a, b)} ELSE {}
    BY <1>5, <1>6, <2>1
  <2> QED
    BY <1>5, <2>2 DEF Orientations
<1>11. AddIssues(OrphansIn({g}) \cup Orientations({g}))
  BY <1>2, <1>9, <1>10
<1>12. pairs' = pairs \cup {p \in PairsOf : GroupOf(p.a) = g}
  BY <1>2, <1>8
<1> QED
  BY <1>1, <1>11, <1>12, GroupCompiled

LEMMA CompileOrphansKept ==
  ASSUME PassesInv, NEW g \in groups, CompileOrphans(g)
  PROVE  PassesInv'
<1>1. /\ phase = "pair" /\ phase' = phase /\ groups' = groups \ {g}
      /\ UNCHANGED <<tensors, todo, grouped, pairs>>
      /\ AMembers(g) = {} \/ BMembers(g) = {}
  BY DEF CompileOrphans
<1>2. /\ g \in AllGroups
      /\ AMembers(g) = {n \in Recognised : GroupOf(n) = g /\ RoleOf[n] = ARole(g[2])}
      /\ BMembers(g) = {n \in Recognised : GroupOf(n) = g /\ RoleOf[n] = BRole(g[2])}
      /\ AMembers(g) \cup BMembers(g) = {n \in Recognised : GroupOf(n) = g}
  <2>1. g \in AllGroups /\ grouped = {Entry(n) : n \in Recognised}
    BY <1>1, PairingState
  <2> QED
    BY <2>1, GroupMembers
<1>3. ASSUME NEW m \in Recognised, NEW n \in Recognised, Complementary(m, n)
      PROVE  GroupOf(m) # g /\ GroupOf(n) # g
  <2>1. GroupOf(m) = GroupOf(n)
    BY <1>3, ComplementaryGroup
  <2>2. ASSUME GroupOf(m) = g PROVE m \in AMembers(g) /\ n \in BMembers(g)
    BY <1>2, <1>3, <2>2, ComplementaryGroup
  <2> QED
    BY <1>1, <2>1, <2>2
<1>4. {p \in PairsOf : GroupOf(p.a) = g} = {}
  BY <1>3, PairParts
<1>5. Orientations({g}) = {}
  BY <1>4 DEF Orientations
<1>6. OrphansIn({g}) = {Issue("orphan_member", TensorScope(n)) : n \in AMembers(g) \cup BMembers(g)}
  <2>1. \A n \in Recognised : GroupOf(n) = g => Alone(n)
    BY <1>3 DEF Alone
  <2>2. {m \in Recognised : Alone(m) /\ GroupOf(m) \in {g}} = {n \in Recognised : GroupOf(n) = g}
    BY <2>1
  <2> QED
    BY <1>2, <2>2 DEF OrphansIn
<1>7. AddIssues(OrphansIn({g}) \cup Orientations({g}))
  BY <1>5, <1>6 DEF CompileOrphans
<1>8. pairs' = pairs \cup {p \in PairsOf : GroupOf(p.a) = g}
  BY <1>1, <1>4
<1> QED
  BY <1>1, <1>7, <1>8, GroupCompiled

(***************************************************************************)
(* The declarative issues of a nonempty artifact, pass by pass.            *)
(***************************************************************************)
LEMMA IssuesByPass ==
  ASSUME Present # {}
  PROVE  IssuesOf = ((Unclassifieds(Present) \cup Unknowns(Present))
                       \cup (OrphansIn(AllGroups) \cup Orientations(AllGroups)))
                    \cup {Issue("mixed_pair_kind", TargetScope(t)) : t \in MixedTargets}
<1>1. Unclassifieds(Present) = {Issue("unclassified_tensor", TensorScope(n)) : n \in Present \ Recognised}
  BY DEF Unclassifieds, Recognised
<1>2. Unknowns(Present) = {Issue("unknown_tensor_fields", TensorScope(n)) : n \in Recognised \cap Extended}
  BY DEF Unknowns, Recognised
<1>3. OrphansIn(AllGroups) = {Issue("orphan_member", TensorScope(n)) : n \in {m \in Recognised : Alone(m)}}
  BY DEF OrphansIn, AllGroups
<1>4. Orientations(AllGroups) =
        {Issue("unmodeled_weight_orientation", TensorScope(p.a)) :
           p \in {q \in PairsOf : KindOf(RoleOf[q.a]) = "weight" /\ (HighRank(q.a) \/ HighRank(q.b))}}
  BY PairParts DEF Orientations, AllGroups
<1> QED
  BY <1>1, <1>2, <1>3, <1>4 DEF IssuesOf

LEMMA MarkKept ==
  ASSUME PassesInv, MarkMixed
  PROVE  PassesInv'
<1>1. /\ phase = "pair" /\ groups = {} /\ phase' = "build"
      /\ UNCHANGED <<tensors, todo, grouped, groups, pairs>>
  BY DEF MarkMixed
<1>2. /\ Present' = Present /\ Recognised' = Recognised /\ Extended' = Extended
      /\ PairsOf' = PairsOf /\ AllGroups' = AllGroups /\ IssuesOf' = IssuesOf
  BY <1>1, TensorsKept
<1> DEFINE new == {Issue("mixed_pair_kind", TargetScope(t)) : t \in MixedTargets}
           Mixed == {f \in grouped : \E h \in grouped : /\ h.target = f.target
                                                        /\ KindOf(h.role) # KindOf(f.role)}
<1>3. {e.target : e \in Mixed} = MixedTargets
  <2>1. grouped = {Entry(n) : n \in Recognised}
    BY <1>1 DEF PassesInv, ControlTrue, GroupedTrue
  <2>2. ASSUME NEW t \in MixedTargets PROVE \E e \in Mixed : e.target = t
    <3>1. PICK m \in Recognised, n \in Recognised :
            t = TargetOf[m] /\ TargetOf[n] = TargetOf[m] /\ KindOf(RoleOf[n]) # KindOf(RoleOf[m])
      BY DEF MixedTargets
    <3>2. Entry(m) \in grouped /\ Entry(n) \in grouped
      BY <2>1
    <3>3. Entry(m) \in Mixed /\ Entry(m).target = t
      BY <3>1, <3>2 DEF Entry
    <3> QED
      BY <3>3
  <2>3. ASSUME NEW e \in Mixed PROVE e.target \in MixedTargets
    <3>1. PICK h \in grouped : h.target = e.target /\ KindOf(h.role) # KindOf(e.role)
      OBVIOUS
    <3>2. PICK m \in Recognised, n \in Recognised : e = Entry(m) /\ h = Entry(n)
      BY <2>1, <3>1
    <3>3. TargetOf[n] = TargetOf[m] /\ KindOf(RoleOf[n]) # KindOf(RoleOf[m]) /\ e.target = TargetOf[m]
      BY <3>1, <3>2 DEF Entry
    <3> QED
      BY <3>3 DEF MixedTargets
  <2> HIDE DEF Mixed
  <2> QED
    BY <2>2, <2>3
<1>4. AddIssues(new)
  BY <1>3 DEF MarkMixed
<1>5. /\ issues = (Unclassifieds(Present) \cup Unknowns(Present))
                    \cup (OrphansIn(AllGroups) \cup Orientations(AllGroups))
      /\ Present # {}
  BY <1>1 DEF PassesInv, IssuesTrue, ControlTrue
<1>6. issues \cap new = {}
  <2>1. \A i \in issues : i.kind # "mixed_pair_kind"
    BY <1>5, IssueKinds
  <2> QED
    BY <2>1 DEF Issue
<1>7. issues' = IssuesOf
  BY <1>4, <1>5, IssuesByPass DEF AddIssues
<1>8. ControlTrue'
  BY <1>1, <1>2, <1>4, <1>6 DEF AddIssues, PassesInv, ControlTrue
<1>9. GroupedTrue' /\ PairsTrue'
  BY <1>1, <1>2 DEF PassesInv, GroupedTrue, PairsTrue, Entry, GroupOf
<1>10. IssuesTrue'
  BY <1>1, <1>2, <1>7 DEF IssuesTrue
<1> QED
  BY <1>8, <1>9, <1>10 DEF PassesInv

LEMMA BuildKept ==
  ASSUME PassesInv, BuildInventory
  PROVE  PassesInv'
<1>1. /\ phase = "build" /\ phase' = "done"
      /\ UNCHANGED <<tensors, todo, grouped, groups, pairs, issues, repeated>>
  BY DEF BuildInventory, PassesInv, ControlTrue
<1>2. Present' = Present /\ Recognised' = Recognised /\ PairsOf' = PairsOf /\ IssuesOf' = IssuesOf
  BY <1>1, TensorsKept
<1> QED
  BY <1>1, <1>2 DEF PassesInv, ControlTrue, GroupedTrue, PairsTrue, IssuesTrue, Entry, GroupOf

LEMMA StutterKept ==
  ASSUME PassesInv, UNCHANGED vars
  PROVE  PassesInv'
<1>1. UNCHANGED <<tensors, phase, todo, grouped, groups, pairs, issues, repeated>>
  BY DEF vars
<1>2. /\ Present' = Present /\ Recognised' = Recognised /\ Extended' = Extended
      /\ PairsOf' = PairsOf /\ AllGroups' = AllGroups /\ IssuesOf' = IssuesOf
  BY <1>1, TensorsKept
<1>3. ControlTrue' /\ GroupedTrue' /\ PairsTrue'
  BY <1>1, <1>2 DEF PassesInv, ControlTrue, GroupedTrue, PairsTrue, Entry, GroupOf
<1>4. IssuesTrue'
  BY <1>1, <1>2 DEF PassesInv, IssuesTrue, Unclassifieds, Unknowns, OrphansIn, Orientations,
     Alone, Complementary, HighRank, GroupOf
<1> QED
  BY <1>3, <1>4 DEF PassesInv

-----------------------------------------------------------------------------
(***************************************************************************)
(* At every moment of inspect_lora_inventory, for all names, shapes and    *)
(* orders of the groups, the dictionary and the lists hold exactly what    *)
(* the tensors and groups processed so far give.                           *)
(***************************************************************************)
THEOREM PassesCorrect == Spec => []PassesInv
<1>1. Init => PassesInv
  BY InitialPasses
<1>2. PassesInv /\ [Next]_vars => PassesInv'
  <2> SUFFICES ASSUME PassesInv, [Next]_vars PROVE PassesInv'
    OBVIOUS
  <2>1. ASSUME NEW n \in Present, SkipUnclassified(n) PROVE PassesInv'
    BY <2>1, SkipKept
  <2>2. ASSUME NEW n \in Present, GroupTensor(n) PROVE PassesInv'
    BY <2>2, GroupKept
  <2>3. CASE StartPairing
    BY <2>3, StartKept
  <2>4. ASSUME NEW g \in groups, CompilePair(g) PROVE PassesInv'
    BY <2>4, CompilePairKept
  <2>5. ASSUME NEW g \in groups, CompileOrphans(g) PROVE PassesInv'
    BY <2>5, CompileOrphansKept
  <2>6. CASE MarkMixed
    BY <2>6, MarkKept
  <2>7. CASE BuildInventory
    BY <2>7, BuildKept
  <2>8. CASE UNCHANGED vars
    BY <2>8, StutterKept
  <2> QED
    BY <2>1, <2>2, <2>3, <2>4, <2>5, <2>6, <2>7, <2>8 DEF Next
<1> QED
  BY <1>1, <1>2, PTL DEF Spec

(***************************************************************************)
(* The LoraInventory constructor never finds a repeated issue.             *)
(***************************************************************************)
THEOREM NeverRefusesHolds == Spec => []InventoryNeverRefuses
<1>1. PassesInv => InventoryNeverRefuses
  BY DEF PassesInv, ControlTrue, InventoryNeverRefuses
<1> QED
  BY <1>1, PassesCorrect, PTL

(***************************************************************************)
(* Type correctness follows, as the tensors never change.                  *)
(***************************************************************************)
THEOREM TypeCorrect == Spec => []TypeOK
<1>1. Init => tensors \in Manifests
  BY DEF Init
<1>2. tensors \in Manifests /\ [Next]_vars => (tensors \in Manifests)'
  BY DEF Next, SkipUnclassified, GroupTensor, StartPairing, CompilePair, CompileOrphans,
     MarkMixed, BuildInventory, vars
<1>3. PassesInv /\ tensors \in Manifests => TypeOK
  <2> SUFFICES ASSUME PassesInv, tensors \in Manifests PROVE TypeOK
    OBVIOUS
  <2>1. \A e \in grouped : e.name \in Recognised /\ e = Entry(e.name)
    BY DEF PassesInv, GroupedTrue, Entry
  <2>2. \A g \in groups : \E e \in grouped : g = <<e.target, KindOf(e.role)>>
    <3> SUFFICES ASSUME NEW g \in groups PROVE \E e \in grouped : g = <<e.target, KindOf(e.role)>>
      OBVIOUS
    <3>1. g \in AllGroups /\ todo = {}
      BY DEF PassesInv, ControlTrue
    <3>2. PICK n \in Recognised : g = GroupOf(n)
      BY <3>1 DEF AllGroups
    <3>3. Entry(n) \in grouped
      BY <3>1 DEF PassesInv, GroupedTrue
    <3> QED
      BY <3>2, <3>3 DEF Entry, GroupOf
  <2>3. pairs \subseteq [a : Present, b : Present]
    <3>1. PairsOf \subseteq [a : Present, b : Present]
      BY DEF PairsOf, Recognised
    <3> QED
      BY <3>1 DEF PassesInv, PairsTrue
  <2> QED
    BY <2>1, <2>2, <2>3 DEF TypeOK, PassesInv, ControlTrue
<1> QED
  BY <1>1, <1>2, <1>3, PassesCorrect, PTL DEF Spec

-----------------------------------------------------------------------------
(***************************************************************************)
(* Every tensor of a compiled inventory is unclassified, or an orphan, or  *)
(* in exactly one pair: none is lost and none counts twice.                *)
(***************************************************************************)
THEOREM TensorsAccounted == Spec => []EveryTensorAccounted
<1>1. PassesInv => EveryTensorAccounted
  <2> SUFFICES ASSUME PassesInv, phase = "done", NEW n \in Present
               PROVE  \/ /\ Reported("unclassified_tensor", n) /\ ~Reported("orphan_member", n)
                         /\ PairsWith(n) = {}
                      \/ /\ Reported("orphan_member", n) /\ ~Reported("unclassified_tensor", n)
                         /\ PairsWith(n) = {}
                      \/ /\ Cardinality(PairsWith(n)) = 1
                         /\ ~Reported("orphan_member", n) /\ ~Reported("unclassified_tensor", n)
    BY DEF EveryTensorAccounted
  <2>1. issues = IssuesOf /\ pairs = PairsOf
    BY DEF PassesInv, ControlTrue, PairsTrue, IssuesTrue
  <2>2. PairsWith(n) = {p \in PairsOf : n \in {p.a, p.b}}
    BY <2>1 DEF PairsWith
  <2>3. CASE n \notin Recognised
    <3>1. PairsWith(n) = {}
      BY <2>2, <2>3, PairParts
    <3> QED
      BY <2>1, <2>3, <3>1, ReportedOf DEF Reported
  <2>4. CASE n \in Recognised /\ Alone(n)
    <3>1. PairsWith(n) = {}
      BY <2>2, <2>4, AloneOrPaired
    <3> QED
      BY <2>1, <2>4, <3>1, ReportedOf DEF Reported
  <2>5. CASE n \in Recognised /\ ~Alone(n)
    <3>1. PICK p \in PairsOf : n \in {p.a, p.b}
      BY <2>5, AloneOrPaired
    <3>2. \A q \in PairsOf : n \in {q.a, q.b} => q = p
      BY <3>1, PairsDisjoint
    <3>3. PairsWith(n) = {p}
      BY <2>2, <3>1, <3>2
    <3>4. Cardinality(PairsWith(n)) = 1
      BY <3>3, FS_Singleton
    <3> QED
      BY <2>1, <2>5, <3>4, ReportedOf DEF Reported
  <2> QED
    BY <2>3, <2>4, <2>5
<1> QED
  BY <1>1, PassesCorrect, PTL

(***************************************************************************)
(* No write to the dictionary replaces an entry.                           *)
(***************************************************************************)
THEOREM DictionaryGrows == Spec => NothingOverwritten
<1>1. PassesInv /\ [Next]_vars => [grouped \subseteq grouped']_vars
  <2> SUFFICES ASSUME PassesInv, Next PROVE grouped \subseteq grouped'
    OBVIOUS
  <2>1. ASSUME NEW n \in Present, GroupTensor(n) PROVE grouped \subseteq grouped'
    <3>1. n \in todo /\ n \in Classified
      BY <2>1 DEF GroupTensor, NextTensor
    <3>2. ASSUME NEW e \in grouped PROVE <<e.target, e.role>> # <<TargetOf[n], RoleOf[n]>>
      <4>1. PICK m \in Recognised \ todo : e = Entry(m)
        BY DEF PassesInv, GroupedTrue
      <4>2. m # n /\ m \in Classified
        BY <3>1 DEF Recognised
      <4> QED
        BY <3>1, <4>1, <4>2, NameDetermined DEF Entry
    <3> QED
      BY <2>1, <3>2 DEF GroupTensor
  <2>2. ASSUME ~\E n \in Present : GroupTensor(n) PROVE grouped \subseteq grouped'
    BY <2>2 DEF Next, SkipUnclassified, StartPairing, CompilePair, CompileOrphans,
       MarkMixed, BuildInventory
  <2> QED
    BY <2>1, <2>2
<1> QED
  BY <1>1, PassesCorrect, PTL DEF Spec, NothingOverwritten

-----------------------------------------------------------------------------
(***************************************************************************)
(* The instance of LoraRelations gives names, pairs and issues the same    *)
(* meaning.                                                                *)
(***************************************************************************)
LEMMA SameRelations == Relations!PairsOf = PairsOf /\ Relations!IssuesOf = IssuesOf
<1>1. Relations!Suffix = Suffix /\ Relations!Role = Role
  BY DEF Relations!Suffix, Suffix, Relations!Role, Role
<1>2. \A n, r : Relations!HasRole(n, r) <=> HasRole(n, r)
  BY <1>1 DEF Relations!HasRole, HasRole, Relations!Matches, Matches, Relations!EndsWith, EndsWith,
     Relations!IsUnambiguousTarget, IsUnambiguousTarget, Relations!Reserved, Reserved,
     Relations!Before, Before
<1>3. Relations!Classified = Classified
  BY <1>1, <1>2 DEF Relations!Classified, Classified
<1>4. Relations!RoleOf = RoleOf
  BY <1>1, <1>2, <1>3 DEF Relations!RoleOf, RoleOf
<1>5. Relations!TargetOf = TargetOf
  BY <1>1, <1>3, <1>4 DEF Relations!TargetOf, TargetOf, Relations!Before, Before
<1>6. Relations!Present = Present /\ Relations!Recognised = Recognised /\ Relations!Extended = Extended
  BY <1>3 DEF Relations!Present, Present, Relations!Recognised, Recognised, Relations!Extended, Extended
<1>7. \A a, b : Relations!Complementary(a, b) <=> Complementary(a, b)
  BY <1>4, <1>5 DEF Relations!Complementary, Complementary, Relations!KindOf, KindOf,
     Relations!ARole, ARole, Relations!BRole, BRole
<1>8. Relations!PairsOf = PairsOf
  BY <1>6, <1>7 DEF Relations!PairsOf, PairsOf
<1>9. Relations!MixedTargets = MixedTargets
  BY <1>4, <1>5, <1>6 DEF Relations!MixedTargets, MixedTargets, Relations!KindOf, KindOf
<1>10. \A n : Relations!Alone(n) <=> Alone(n)
  BY <1>6, <1>7 DEF Relations!Alone, Alone
<1>11. Relations!IssuesOf = IssuesOf
  BY <1>4, <1>6, <1>8, <1>9, <1>10 DEF Relations!IssuesOf, IssuesOf, Relations!Issue, Issue,
     Relations!TensorScope, TensorScope, Relations!TargetScope, TargetScope,
     Relations!NoScope, NoScope, Relations!KindOf, KindOf, Relations!HighRank, HighRank
<1> QED
  BY <1>8, <1>11

(***************************************************************************)
(* Refinement: every step is a stutter of LoraRelations, but the one that  *)
(* returns the inventory, which compiles the declarative pairs and issues. *)
(***************************************************************************)
THEOREM RefinesRelations ==
  Spec => Relations!Init /\ [][Relations!Compile]_(Relations!vars)
<1>1. Init => Relations!Init
  <2>1. Relations!Manifests = Manifests
    <3>1. Relations!Tensor = Tensor
      BY DEF Tensor, Relations!Tensor
    <3> QED
      BY <3>1 DEF Manifests, Relations!Manifests, IsFiniteSet, Relations!IsFiniteSet
  <2> QED
    BY <2>1 DEF Init, Relations!Init, Compiled
<1>2. PassesInv /\ [Next]_vars => [Relations!Compile]_(Relations!vars)
  <2> SUFFICES ASSUME PassesInv, [Next]_vars PROVE [Relations!Compile]_(Relations!vars)
    OBVIOUS
  <2>1. tensors' = tensors
    BY DEF Next, SkipUnclassified, GroupTensor, StartPairing, CompilePair, CompileOrphans,
       MarkMixed, BuildInventory, vars
  <2>2. CASE BuildInventory
    <3>1. phase = "build" /\ phase' = "done" /\ UNCHANGED <<pairs, issues>>
      BY <2>2 DEF BuildInventory, PassesInv, ControlTrue
    <3>2. pairs = PairsOf /\ issues = IssuesOf
      BY <3>1 DEF PassesInv, ControlTrue, PairsTrue, IssuesTrue
    <3>3. Compiled = {} /\ Compiled' = {[pairs |-> PairsOf, issues |-> IssuesOf]}
      BY <3>1, <3>2 DEF Compiled
    <3>4. Relations!PairsOf = PairsOf /\ Relations!IssuesOf = IssuesOf
      BY SameRelations
    <3> QED
      BY <2>1, <3>3, <3>4 DEF Relations!Compile
  <2>3. CASE ~BuildInventory
    <3>1. Compiled' = Compiled
      BY <2>3 DEF Compiled, Next, SkipUnclassified, GroupTensor, StartPairing, CompilePair,
         CompileOrphans, MarkMixed, vars, NextTensor
    <3> QED
      BY <2>1, <3>1 DEF Relations!vars
  <2> QED
    BY <2>2, <2>3
<1> QED
  BY <1>1, <1>2, PassesCorrect, PTL DEF Spec
=============================================================================
