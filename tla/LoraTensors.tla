---------------------------- MODULE LoraTensors ----------------------------
(***************************************************************************)
(* The tensors of a validated manifest as the inventory sees them, and the *)
(* declarative meaning of its pairs and issues.                            *)
(*                                                                         *)
(* A pair is its A and B names; an issue is a kind and the name, target or *)
(* nothing it is about.  Role and kind follow from the name, so they are   *)
(* not stored again.                                                       *)
(***************************************************************************)
EXTENDS SavedKeys

CONSTANT Shape      \* tensor shapes

ASSUME ShapesAssumption == Shape \subseteq Seq(Nat)

VARIABLE tensors    \* name -> shape, and whether extension fields were retained

Tensor == [shape : Shape, extended : BOOLEAN]

\* A header holds finitely many tensors.
Manifests == UNION {[S -> Tensor] : S \in {T \in SUBSET Name : IsFiniteSet(T)}}

Present == DOMAIN tensors

Recognised == Present \cap Classified

TensorScope(n) == <<"tensor", n>>
TargetScope(t) == <<"target", t>>
NoScope == <<"none">>

Issue(kind, scope) == [kind |-> kind, on |-> scope]

Pair(a, b) == [a |-> a, b |-> b]

Extended == {n \in Present : tensors[n].extended}

HighRank(n) == Len(tensors[n].shape) > 2

-----------------------------------------------------------------------------
Complementary(a, b) ==
    /\ TargetOf[a] = TargetOf[b]
    /\ KindOf(RoleOf[a]) = KindOf(RoleOf[b])
    /\ RoleOf[a] = ARole(KindOf(RoleOf[a]))
    /\ RoleOf[b] = BRole(KindOf(RoleOf[b]))

PairsOf == {p \in [a : Recognised, b : Recognised] : Complementary(p.a, p.b)}

Alone(n) == \A m \in Recognised : ~Complementary(n, m) /\ ~Complementary(m, n)

MixedTargets ==
    {TargetOf[n] : n \in {a \in Recognised :
        \E b \in Recognised : /\ TargetOf[b] = TargetOf[a]
                              /\ KindOf(RoleOf[b]) # KindOf(RoleOf[a])}}

IssuesOf ==
    (IF Present = {} THEN {Issue("empty_inventory", NoScope)} ELSE {})
    \cup {Issue("unclassified_tensor", TensorScope(n)) : n \in Present \ Recognised}
    \cup {Issue("unknown_tensor_fields", TensorScope(n)) :
            n \in Recognised \cap Extended}
    \cup {Issue("orphan_member", TensorScope(n)) : n \in {m \in Recognised : Alone(m)}}
    \cup {Issue("mixed_pair_kind", TargetScope(t)) : t \in MixedTargets}
    \cup {Issue("unmodeled_weight_orientation", TensorScope(p.a)) :
            p \in {q \in PairsOf : /\ KindOf(RoleOf[q.a]) = "weight"
                                   /\ HighRank(q.a) \/ HighRank(q.b)}}
=============================================================================
