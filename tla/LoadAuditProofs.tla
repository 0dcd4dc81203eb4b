-------------------------- MODULE LoadAuditProofs --------------------------
(***************************************************************************)
(* The audit, for all names, shapes, configurations, manifests and answers *)
(* of the other rules.  First the evaluator alone: what its four           *)
(* evaluators find, that no two findings share a scope, and what the       *)
(* outcomes mean together.  Then the audit: the sequence handed to the     *)
(* reducer, the reducer's own theorems instantiated for it, and the        *)
(* verdict.                                                                *)
(***************************************************************************)
EXTENDS LoadAudit, SequenceTheorems, FiniteSetTheorems, TLAPS

(***************************************************************************)
(* The inventory of the same tensors, with what is proved of it.  Those    *)
(* facts are about the tensors alone, whatever the passes have compiled.   *)
(***************************************************************************)
I == INSTANCE LoraInventoryProofs WITH
       grouped <- {}, groups <- {}, pairs <- {}, issues <- {}, repeated <- FALSE

LEMMA InventoryNames == I!NamesAssumption
  BY NamesAssumption DEF I!NamesAssumption

LEMMA InventoryComponents == I!ComponentsAssumption
  BY ComponentsAssumption DEF I!ComponentsAssumption

LEMMA InventoryShapes == I!ShapesAssumption
  BY ShapesAssumption DEF I!ShapesAssumption

LEMMA SameKeys ==
  I!Classified = Classified /\ I!RoleOf = RoleOf /\ I!TargetOf = TargetOf
BY DEF I!Classified, Classified, I!RoleOf, RoleOf, I!TargetOf, TargetOf, I!Before, Before,
   I!HasRole, HasRole, I!Matches, Matches, I!Role, Role, I!Suffix, Suffix, I!EndsWith, EndsWith,
   I!IsUnambiguousTarget, IsUnambiguousTarget, I!Reserved, Reserved

LEMMA SameRelations ==
  /\ I!Present = Present /\ I!Recognised = Recognised
  /\ I!PairsOf = PairsOf
  /\ \A n : I!Alone(n) <=> Alone(n)
  /\ \A a, b : I!Complementary(a, b) <=> Complementary(a, b)
BY SameKeys
   DEF I!Present, Present, I!Recognised, Recognised, I!PairsOf, PairsOf, I!Alone, Alone,
       I!Complementary, Complementary, I!KindOf, KindOf, I!ARole, ARole, I!BRole, BRole

LEMMA SameIssues ==
  /\ I!IssuesOf = IssuesOf
  /\ \A kind, n : I!Issue(kind, I!TensorScope(n)) = Issue(kind, TensorScope(n))
BY SameKeys, SameRelations
   DEF I!IssuesOf, IssuesOf, I!Issue, Issue, I!TensorScope, TensorScope, I!TargetScope,
       TargetScope, I!NoScope, NoScope, I!MixedTargets, MixedTargets, I!Extended, Extended,
       I!HighRank, HighRank, I!KindOf, KindOf, I!Present, Present

(***************************************************************************)
(* Two pairs that share a member are one pair; a recognised tensor is an   *)
(* orphan or in a pair; and what the issues say of one tensor.             *)
(***************************************************************************)
LEMMA PairsDisjoint ==
  ASSUME NEW p \in PairsOf, NEW q \in PairsOf, {p.a, p.b} \cap {q.a, q.b} # {}
  PROVE  p = q
BY I!PairsDisjoint, InventoryNames, InventoryComponents, InventoryShapes, SameRelations

LEMMA PairParts ==
  ASSUME NEW p \in PairsOf
  PROVE  p.a \in Recognised /\ p.b \in Recognised
BY DEF PairsOf

LEMMA AloneOrPaired ==
  ASSUME NEW n \in Recognised
  PROVE  Alone(n) <=> \A p \in PairsOf : n \notin {p.a, p.b}
BY I!AloneOrPaired, InventoryNames, InventoryComponents, InventoryShapes, SameRelations

LEMMA ReportedOf ==
  ASSUME NEW n \in Present
  PROVE  /\ Issue("unclassified_tensor", TensorScope(n)) \in IssuesOf <=> n \notin Recognised
         /\ Issue("orphan_member", TensorScope(n)) \in IssuesOf <=> n \in Recognised /\ Alone(n)
BY I!ReportedOf, InventoryNames, InventoryComponents, InventoryShapes, SameRelations, SameIssues

-----------------------------------------------------------------------------
(***************************************************************************)
(* The declarative parts are functions of the tensors.                     *)
(***************************************************************************)
LEMMA RelationsKept ==
  ASSUME tensors' = tensors
  PROVE  /\ Present' = Present /\ Recognised' = Recognised /\ Extended' = Extended
         /\ PairsOf' = PairsOf /\ IssuesOf' = IssuesOf
BY DEF Present, Recognised, Extended, PairsOf, IssuesOf, MixedTargets, Alone, Complementary,
   HighRank

-----------------------------------------------------------------------------

(***************************************************************************)
(* The inductive invariant: the results are those of the evaluators that   *)
(* ran, each at most once, and the duplicate error is never raised.        *)
(***************************************************************************)
ResultsSoFar ==
    (IF phase # "PL102" THEN PL102 ELSE {})
    \cup (IF phase \notin {"PL102", "PL110"} THEN PL110 ELSE {})
    \cup (IF phase \in {"PL112", "collect", "done"} THEN PL111 ELSE {})
    \cup (IF phase \in {"collect", "done"} THEN PL112 ELSE {})

ResultsInv ==
    /\ tensors \in Manifests
    /\ config \in Config
    /\ phase \in Rules \cup {"collect", "done"}
    /\ results = ResultsSoFar

-----------------------------------------------------------------------------
(***************************************************************************)
(* The orphans are the recognised tensors without a partner; none is the A *)
(* of a pair.                                                              *)
(***************************************************************************)
LEMMA OrphansAlone ==
  /\ Orphans = {n \in Recognised : Alone(n)}
  /\ \A n \in Orphans : \A p \in PairsOf : n # p.a /\ n # p.b
<1>1. Recognised \subseteq Present
  BY DEF Recognised
<1>2. Orphans = {n \in Recognised : Alone(n)}
  BY <1>1, ReportedOf DEF Orphans
<1> QED
  BY <1>2, AloneOrPaired

\* The findings of one rule on all pairs and orphans.
FoundOn(rule, F, G) ==
    {OfPair(rule, p, F[p]) : p \in PairsOf} \cup {OfOrphan(rule, n, G[n]) : n \in Orphans}

(***************************************************************************)
(* Findings on the pairs and orphans of one rule have different scopes.    *)
(***************************************************************************)
LEMMA ScopesDiffer ==
  ASSUME NEW rule, NEW F, NEW G,
         NEW found, found = FoundOn(rule, F, G)
  PROVE  /\ \A f \in OrVacuousPass(rule, found) : f.rule = rule
         /\ \A f, g \in OrVacuousPass(rule, found) : f.on = g.on => f = g
<1>1. ASSUME NEW p \in PairsOf, NEW q \in PairsOf,
             OfPair(rule, p, F[p]).on = OfPair(rule, q, F[q]).on
      PROVE  p = q
  <2>1. p.a = q.a
    BY <1>1 DEF OfPair, Finding, TensorScope
  <2> QED
    BY <2>1, PairsDisjoint
<1>2. ASSUME NEW p \in PairsOf, NEW n \in Orphans
      PROVE  OfPair(rule, p, F[p]).on # OfOrphan(rule, n, G[n]).on
  BY OrphansAlone DEF OfPair, OfOrphan, Finding, TensorScope
<1>3. ASSUME NEW m \in Orphans, NEW n \in Orphans,
             OfOrphan(rule, m, G[m]).on = OfOrphan(rule, n, G[n]).on
      PROVE  m = n
  BY <1>3 DEF OfOrphan, Finding, TensorScope
<1>4. \A f, g \in found : f.on = g.on => f = g
  BY <1>1, <1>2, <1>3 DEF FoundOn
<1>5. \A f \in found : f.rule = rule
  BY DEF FoundOn, OfPair, OfOrphan, Finding
<1>6. CASE found = {}
  BY <1>6 DEF OrVacuousPass, Globally, Finding
<1>7. CASE found # {}
  BY <1>4, <1>5, <1>7 DEF OrVacuousPass
<1> QED
  BY <1>6, <1>7

LEMMA UniquePL102 ==
  /\ \A f \in PL102 : f.rule = "PL102"
  /\ \A f, g \in PL102 : f.on = g.on => f = g
BY DEF PL102, Globally, Finding

LEMMA UniquePL110 ==
  /\ \A f \in PL110 : f.rule = "PL110"
  /\ \A f, g \in PL110 : f.on = g.on => f = g
<1> DEFINE F == [p \in PairsOf |-> IF ExtendedPair(p) THEN "unknown" ELSE "pass"]
           G == [n \in Orphans |-> IF n \in Extended THEN "unknown" ELSE "contradiction"]
           found == FoundOn("PL110", F, G)
<1>1. config.closed => PL110 = OrVacuousPass("PL110", found)
  BY DEF PL110, FoundOn
<1>2. ~config.closed => PL110 = Globally("PL110", "unknown")
  BY DEF PL110
<1> HIDE DEF F, G
<1>3. /\ \A f \in OrVacuousPass("PL110", found) : f.rule = "PL110"
      /\ \A f, g \in OrVacuousPass("PL110", found) : f.on = g.on => f = g
  BY ScopesDiffer
<1> QED
  BY <1>1, <1>2, <1>3 DEF Globally, Finding

LEMMA UniquePL111 ==
  /\ \A f \in PL111 : f.rule = "PL111"
  /\ \A f, g \in PL111 : f.on = g.on => f = g
<1> DEFINE F == [p \in PairsOf |-> DimensionOutcome(p)]
           G == [n \in Orphans |-> "unknown"]
           found == FoundOn("PL111", F, G)
<1>1. config.closed => PL111 = OrVacuousPass("PL111", found)
  BY DEF PL111, FoundOn
<1>2. ~config.closed => PL111 = Globally("PL111", "unknown")
  BY DEF PL111
<1> HIDE DEF F, G
<1>3. /\ \A f \in OrVacuousPass("PL111", found) : f.rule = "PL111"
      /\ \A f, g \in OrVacuousPass("PL111", found) : f.on = g.on => f = g
  BY ScopesDiffer
<1> QED
  BY <1>1, <1>2, <1>3 DEF Globally, Finding

LEMMA UniquePL112 ==
  /\ \A f \in PL112 : f.rule = "PL112"
  /\ \A f, g \in PL112 : f.on = g.on => f = g
<1> DEFINE F == [p \in PairsOf |-> IF config.patterned THEN "unknown" ELSE RankOutcome(p)]
           G == [n \in Orphans |-> "unknown"]
           found == FoundOn("PL112", F, G)
<1>1. config.closed /\ ~config.patterned => PL112 = OrVacuousPass("PL112", found)
  BY DEF PL112, FoundOn
<1>2. config.closed /\ config.patterned =>
        PL112 = IF found = {} THEN Globally("PL112", "unknown") ELSE found
  BY DEF PL112, Unexecuted, FoundOn
<1>3. ~config.closed => PL112 = Globally("PL112", "unknown")
  BY DEF PL112
<1> HIDE DEF F, G
<1>4. /\ \A f \in OrVacuousPass("PL112", found) : f.rule = "PL112"
      /\ \A f, g \in OrVacuousPass("PL112", found) : f.on = g.on => f = g
  BY ScopesDiffer
<1>5. found # {} => found = OrVacuousPass("PL112", found)
  BY DEF OrVacuousPass
<1> HIDE DEF found
<1> QED
  BY <1>1, <1>2, <1>3, <1>4, <1>5 DEF Globally, Finding

-----------------------------------------------------------------------------
(***************************************************************************)
(* The evaluators read only the tensors and the configuration.             *)
(***************************************************************************)
LEMMA EvaluatorsKept ==
  ASSUME tensors' = tensors, config' = config
  PROVE  PL102' = PL102 /\ PL110' = PL110 /\ PL111' = PL111 /\ PL112' = PL112
<1>1. /\ Present' = Present /\ Recognised' = Recognised /\ Extended' = Extended
      /\ PairsOf' = PairsOf /\ IssuesOf' = IssuesOf
  BY RelationsKept
<1>2. Orphans' = Orphans /\ OpenScopes' = OpenScopes
  BY <1>1 DEF Orphans, OpenScopes
<1>3. PL102' = PL102 /\ PL110' = PL110
  BY <1>1, <1>2 DEF PL102, PL110, ExtendedPair
<1>4. PL111' = PL111
  BY <1>1, <1>2 DEF PL111, DimensionOutcome, ExtendedPair, MaybeConvolution, RankTwo, Positive,
     RanksAgree, ShapeA, ShapeB, HighRank
<1>5. Unexecuted' = Unexecuted
  BY <1>1, <1>2 DEF Unexecuted
<1>6. PL112' = PL112
  BY <1>1, <1>2, <1>5 DEF PL112, RankOutcome, ProvesRank, ExtendedPair, RankTwo, Positive,
     RanksAgree, ShapeA, ShapeB
<1> QED
  BY <1>3, <1>4, <1>6

(***************************************************************************)
(* The four evaluators together never give two results of one rule on one  *)
(* scope.                                                                  *)
(***************************************************************************)
LEMMA ScopesUniqueAfterAll ==
  ASSUME results = ((PL102 \cup PL110) \cup PL111) \cup PL112
  PROVE  ScopesUnique
<1> SUFFICES ASSUME NEW f \in results, NEW g \in results, f.rule = g.rule, f.on = g.on
             PROVE  f = g
  BY DEF ScopesUnique
<1>1. CASE f \in PL102
  BY <1>1, UniquePL102, UniquePL110, UniquePL111, UniquePL112
<1>2. CASE f \in PL110
  BY <1>2, UniquePL102, UniquePL110, UniquePL111, UniquePL112
<1>3. CASE f \in PL111
  BY <1>3, UniquePL102, UniquePL110, UniquePL111, UniquePL112
<1>4. CASE f \in PL112
  BY <1>4, UniquePL102, UniquePL110, UniquePL111, UniquePL112
<1> QED
  BY <1>1, <1>2, <1>3, <1>4

LEMMA ResultsInit == Init => ResultsInv
  BY DEF Init, ResultsInv, ResultsSoFar, Rules

LEMMA ResultsStep ==
  ASSUME ResultsInv, [Next]_vars
  PROVE  ResultsInv'
<1>1. tensors' = tensors /\ config' = config
  BY DEF Next, EvaluatePL102, EvaluatePL110, EvaluatePL111, EvaluatePL112, Evaluate, Collect, vars
<1>2. /\ PL102' = PL102 /\ PL110' = PL110 /\ PL111' = PL111 /\ PL112' = PL112
      /\ (tensors \in Manifests)' /\ (config \in Config)'
  BY <1>1, EvaluatorsKept DEF ResultsInv, Manifests, Tensor, Config
<1>3. CASE EvaluatePL102
  BY <1>2, <1>3 DEF EvaluatePL102, Evaluate, ResultsInv, ResultsSoFar, Rules
<1>4. CASE EvaluatePL110
  BY <1>2, <1>4 DEF EvaluatePL110, Evaluate, ResultsInv, ResultsSoFar, Rules
<1>5. CASE EvaluatePL111
  BY <1>2, <1>5 DEF EvaluatePL111, Evaluate, ResultsInv, ResultsSoFar, Rules
<1>6. CASE EvaluatePL112
  BY <1>2, <1>6 DEF EvaluatePL112, Evaluate, ResultsInv, ResultsSoFar, Rules
<1>7. CASE Collect
  <2>1. phase = "collect" /\ results' = results
    BY <1>7 DEF Collect
  <2>2. results = ((PL102 \cup PL110) \cup PL111) \cup PL112
    BY <2>1 DEF ResultsInv, ResultsSoFar
  <2>3. phase' = "done"
    BY <1>7, <2>2, ScopesUniqueAfterAll DEF Collect
  <2> QED
    BY <1>2, <2>1, <2>2, <2>3 DEF ResultsInv, ResultsSoFar, Rules
<1>8. CASE UNCHANGED vars
  BY <1>2, <1>8 DEF vars, ResultsInv, ResultsSoFar
<1> QED
  BY <1>3, <1>4, <1>5, <1>6, <1>7, <1>8 DEF Next

(***************************************************************************)
(* At every moment of evaluate_lora_inventory the results are those of the *)
(* evaluators that ran, and the duplicate error is not reached.            *)
(***************************************************************************)
THEOREM ResultsCorrect == Spec => []ResultsInv
<1>1. ResultsInv /\ [Next]_vars => ResultsInv'
  BY ResultsStep
<1> QED
  BY ResultsInit, <1>1, PTL DEF Spec

(***************************************************************************)
(* The duplicate-scope error is unreachable.                               *)
(***************************************************************************)
THEOREM NeverDuplicate == Spec => []EvaluationNeverRefuses
<1>1. ResultsInv => EvaluationNeverRefuses
  BY DEF ResultsInv, Rules, EvaluationNeverRefuses
<1> QED
  BY <1>1, ResultsCorrect, PTL

-----------------------------------------------------------------------------
(***************************************************************************)
(* What a finished evaluation holds of each rule.                          *)
(***************************************************************************)
LEMMA FoundAtEnd ==
  ASSUME ResultsInv, phase = "done"
  PROVE  /\ results = ((PL102 \cup PL110) \cup PL111) \cup PL112
         /\ Found("PL102") = PL102 /\ Found("PL110") = PL110
         /\ Found("PL111") = PL111 /\ Found("PL112") = PL112
<1>1. results = ((PL102 \cup PL110) \cup PL111) \cup PL112
  BY DEF ResultsInv, ResultsSoFar
<1> QED
  BY <1>1, UniquePL102, UniquePL110, UniquePL111, UniquePL112 DEF Found

(***************************************************************************)
(* Where each rule decides: nowhere under an open profile, vacuously if    *)
(* there is neither pair nor orphan, and otherwise on what it examined.    *)
(***************************************************************************)
Vacuous(rule, f) ==
    PairsOf = {} /\ Orphans = {} /\ f = Finding(rule, NoScope, "pass", <<"rule">>)

LEMMA DecidedPL110 ==
  ASSUME NEW f \in PL110, f.outcome # "unknown"
  PROVE  /\ config.closed
         /\ \/ Vacuous("PL110", f)
            \/ \E p \in PairsOf : f = OfPair("PL110", p, "pass")
            \/ \E n \in Orphans : n \notin Extended /\ f = OfOrphan("PL110", n, "contradiction")
<1>1. config.closed
  BY DEF PL110, Globally, Finding
<1>2. CASE PairsOf = {} /\ Orphans = {}
  BY <1>1, <1>2 DEF PL110, OrVacuousPass, Globally, Vacuous
<1>3. CASE ~(PairsOf = {} /\ Orphans = {})
  <2>1. f \in {OfOrphan("PL110", n, IF n \in Extended THEN "unknown" ELSE "contradiction") : n \in Orphans}
              \cup {OfPair("PL110", p, IF ExtendedPair(p) THEN "unknown" ELSE "pass") : p \in PairsOf}
    BY <1>1, <1>3 DEF PL110, OrVacuousPass
  <2>2. \A n, o : OfOrphan("PL110", n, o).outcome = o
    BY DEF OfOrphan, Finding
  <2>3. \A p, o : OfPair("PL110", p, o).outcome = o
    BY DEF OfPair, Finding
  <2> QED
    BY <1>1, <2>1, <2>2, <2>3
<1> QED
  BY <1>2, <1>3

LEMMA DecidedPL111 ==
  ASSUME NEW f \in PL111, f.outcome # "unknown"
  PROVE  /\ config.closed
         /\ \/ Vacuous("PL111", f)
            \/ \E p \in PairsOf : /\ f = OfPair("PL111", p, DimensionOutcome(p))
                                  /\ DimensionOutcome(p) # "unknown"
<1>1. config.closed
  BY DEF PL111, Globally, Finding
<1>2. CASE PairsOf = {} /\ Orphans = {}
  BY <1>1, <1>2 DEF PL111, OrVacuousPass, Globally, Vacuous
<1>3. CASE ~(PairsOf = {} /\ Orphans = {})
  <2>1. f \in {OfPair("PL111", p, DimensionOutcome(p)) : p \in PairsOf}
              \cup {OfOrphan("PL111", n, "unknown") : n \in Orphans}
    BY <1>1, <1>3 DEF PL111, OrVacuousPass
  <2>2. \A n, o : OfOrphan("PL111", n, o).outcome = o
    BY DEF OfOrphan, Finding
  <2>3. \A p, o : OfPair("PL111", p, o).outcome = o
    BY DEF OfPair, Finding
  <2> QED
    BY <1>1, <2>1, <2>2, <2>3
<1> QED
  BY <1>2, <1>3

LEMMA DecidedPL112 ==
  ASSUME NEW f \in PL112, f.outcome # "unknown"
  PROVE  /\ config.closed /\ ~config.patterned
         /\ \/ Vacuous("PL112", f)
            \/ \E p \in PairsOf : f = OfPair("PL112", p, RankOutcome(p)) /\ ProvesRank(p)
<1>1. \A n, o : OfOrphan("PL112", n, o).outcome = o
  BY DEF OfOrphan, Finding
<1>2. \A p, o : OfPair("PL112", p, o).outcome = o
  BY DEF OfPair, Finding
<1>3. \A h \in Globally("PL112", "unknown") : h.outcome = "unknown"
  BY DEF Globally, Finding
<1>4. \A h \in Unexecuted : h.outcome = "unknown"
  BY <1>1, <1>2 DEF Unexecuted
<1>5. config.closed /\ ~config.patterned
  BY <1>3, <1>4 DEF PL112
<1>6. CASE PairsOf = {} /\ Orphans = {}
  BY <1>5, <1>6 DEF PL112, OrVacuousPass, Globally, Vacuous
<1>7. CASE ~(PairsOf = {} /\ Orphans = {})
  <2>1. f \in {OfPair("PL112", p, RankOutcome(p)) : p \in PairsOf}
              \cup {OfOrphan("PL112", n, "unknown") : n \in Orphans}
    BY <1>5, <1>7 DEF PL112, OrVacuousPass
  <2>2. PICK p \in PairsOf : f = OfPair("PL112", p, RankOutcome(p))
    BY <1>1, <2>1
  <2>3. ProvesRank(p)
    BY <1>2, <2>2 DEF RankOutcome
  <2> QED
    BY <1>5, <2>2, <2>3
<1> QED
  BY <1>6, <1>7

-----------------------------------------------------------------------------
(***************************************************************************)
(* The dimension checks that PL112 repeats are those of PL111.             *)
(***************************************************************************)
LEMMA RankNeedsDimensions ==
  ASSUME NEW p \in PairsOf, ProvesRank(p)
  PROVE  /\ DimensionOutcome(p) = "pass"
         /\ ~ExtendedPair(p) /\ ~MaybeConvolution(p)
<1>1. ~HighRank(p.a) /\ ~HighRank(p.b)
  BY DEF ProvesRank, RankTwo, ShapeA, ShapeB, HighRank
<1> QED
  BY <1>1 DEF ProvesRank, DimensionOutcome, MaybeConvolution

(***************************************************************************)
(* PL112 decides only where PL111 passes, and PL111 only where PL110 does. *)
(***************************************************************************)
THEOREM DecisionsSupported == Spec => []DecisionsRest
<1>1. ASSUME NEW f \in PL112, f.outcome # "unknown"
      PROVE  \E g \in PL111 : g.on = f.on /\ g.outcome = "pass"
  <2>1. config.closed
    BY <1>1, DecidedPL112
  <2>2. CASE Vacuous("PL112", f)
    <3>1. PL111 = {Finding("PL111", NoScope, "pass", <<"rule">>)}
      BY <2>1, <2>2 DEF Vacuous, PL111, OrVacuousPass, Globally
    <3> QED
      BY <2>2, <3>1 DEF Vacuous, Finding
  <2>3. ASSUME NEW p \in PairsOf, f = OfPair("PL112", p, RankOutcome(p)), ProvesRank(p)
        PROVE  \E g \in PL111 : g.on = f.on /\ g.outcome = "pass"
    <3>1. OfPair("PL111", p, DimensionOutcome(p)) \in PL111
      BY <2>1 DEF PL111, OrVacuousPass
    <3>2. DimensionOutcome(p) = "pass"
      BY <2>3, RankNeedsDimensions
    <3> QED
      BY <2>3, <3>1, <3>2 DEF OfPair, Finding
  <2> QED
    BY <1>1, <2>2, <2>3, DecidedPL112
<1>2. ASSUME NEW f \in PL111, f.outcome # "unknown"
      PROVE  \E g \in PL110 : g.on = f.on /\ g.outcome = "pass"
  <2>1. config.closed
    BY <1>2, DecidedPL111
  <2>2. CASE Vacuous("PL111", f)
    <3>1. PL110 = {Finding("PL110", NoScope, "pass", <<"rule">>)}
      BY <2>1, <2>2 DEF Vacuous, PL110, OrVacuousPass, Globally
    <3> QED
      BY <2>2, <3>1 DEF Vacuous, Finding
  <2>3. ASSUME NEW p \in PairsOf, f = OfPair("PL111", p, DimensionOutcome(p)),
               DimensionOutcome(p) # "unknown"
        PROVE  \E g \in PL110 : g.on = f.on /\ g.outcome = "pass"
    <3>1. OfPair("PL110", p, IF ExtendedPair(p) THEN "unknown" ELSE "pass") \in PL110
      BY <2>1 DEF PL110, OrVacuousPass
    <3>2. ~ExtendedPair(p)
      BY <2>3 DEF DimensionOutcome
    <3> QED
      BY <2>3, <3>1, <3>2 DEF OfPair, Finding
  <2> QED
    BY <1>2, <2>2, <2>3, DecidedPL111
<1>3. ResultsInv => DecisionsRest
  BY <1>1, <1>2, FoundAtEnd DEF DecisionsRest
<1> QED
  BY <1>3, ResultsCorrect, PTL

(***************************************************************************)
(* What a contradiction of each rule rests on.                             *)
(***************************************************************************)
LEMMA ContradictionCause ==
  /\ \A f \in PL102 : f.outcome # "contradiction"
  /\ \A f \in PL110 : f.outcome = "contradiction" =>
       config.closed /\ \E n \in Recognised \ Extended : Alone(n)
  /\ \A f \in PL111 \cup PL112 : f.outcome = "contradiction" =>
       config.closed /\ \E p \in PairsOf : DefinitePair(p)
<1>1. ASSUME NEW f \in PL110, f.outcome = "contradiction"
      PROVE  config.closed /\ \E n \in Recognised \ Extended : Alone(n)
  <2>1. \A p \in PairsOf : OfPair("PL110", p, "pass").outcome = "pass"
    BY DEF OfPair, Finding
  <2>2. ~Vacuous("PL110", f)
    BY <1>1 DEF Vacuous, Finding
  <2>3. config.closed /\ \E n \in Orphans : n \notin Extended
    BY <1>1, <2>1, <2>2, DecidedPL110
  <2> QED
    BY <2>3, OrphansAlone
<1>2. ASSUME NEW f \in PL111, f.outcome = "contradiction"
      PROVE  config.closed /\ \E p \in PairsOf : DefinitePair(p)
  <2>1. ~Vacuous("PL111", f)
    BY <1>2 DEF Vacuous, Finding
  <2>2. config.closed
    BY <1>2, DecidedPL111
  <2>3. PICK p \in PairsOf : f = OfPair("PL111", p, DimensionOutcome(p))
    BY <1>2, <2>1, DecidedPL111
  <2>4. DimensionOutcome(p) = "contradiction"
    BY <1>2, <2>3 DEF OfPair, Finding
  <2>5. DefinitePair(p)
    BY <2>4 DEF DimensionOutcome, DefinitePair
  <2> QED
    BY <2>2, <2>5
<1>3. ASSUME NEW f \in PL112, f.outcome = "contradiction"
      PROVE  config.closed /\ \E p \in PairsOf : DefinitePair(p)
  <2>1. ~Vacuous("PL112", f)
    BY <1>3 DEF Vacuous, Finding
  <2>2. config.closed /\ ~config.patterned
    BY <1>3, DecidedPL112
  <2>3. PICK p \in PairsOf : f = OfPair("PL112", p, RankOutcome(p)) /\ ProvesRank(p)
    BY <1>3, <2>1, DecidedPL112
  <2>4. RankOutcome(p) = "contradiction"
    BY <1>3, <2>3 DEF OfPair, Finding
  <2>5. DefinitePair(p)
    BY <2>2, <2>3, <2>4, RankNeedsDimensions DEF RankOutcome, DefinitePair
  <2> QED
    BY <2>2, <2>5
<1>4. ASSUME NEW f \in PL102 PROVE f.outcome # "contradiction"
  BY DEF PL102, Globally, Finding
<1> QED
  BY <1>1, <1>2, <1>3, <1>4

(***************************************************************************)
(* A contradiction rests on a tensor fact that no missing evidence could   *)
(* repair, and under an open profile nothing is decided.                   *)
(***************************************************************************)
THEOREM ClosedFailure == Spec => []FailsClosed
<1>1. ASSUME NEW f \in PL102, ~config.closed PROVE f.outcome = "unknown"
  <2>1. OpenScopes # {}
    BY <1>1 DEF OpenScopes
  <2> QED
    BY <2>1 DEF PL102, Finding
<1>2. ASSUME ResultsInv, phase = "done", NEW f \in results, f.outcome = "contradiction"
      PROVE  /\ config.closed
             /\ (\E n \in Recognised \ Extended : Alone(n)) \/ \E p \in PairsOf : DefinitePair(p)
  <2>1. f \in PL102 \/ f \in PL110 \/ f \in PL111 \/ f \in PL112
    BY <1>2, FoundAtEnd
  <2> QED
    BY <1>2, <2>1, ContradictionCause
<1>3. ASSUME ResultsInv, phase = "done", NEW f \in results, ~config.closed
      PROVE  f.outcome = "unknown"
  <2>1. f \in PL102 \/ f \in PL110 \/ f \in PL111 \/ f \in PL112
    BY <1>3, FoundAtEnd
  <2> QED
    BY <1>1, <1>3, <2>1, DecidedPL110, DecidedPL111, DecidedPL112
<1>4. ResultsInv => FailsClosed
  BY <1>2, <1>3 DEF FailsClosed
<1> QED
  BY <1>4, ResultsCorrect, PTL

-----------------------------------------------------------------------------
(***************************************************************************)
(* When each rule passes on all it examined.                               *)
(***************************************************************************)
Passes(found) == found # {} /\ \A f \in found : f.outcome = "pass"

LEMMA OutcomeOfFinding ==
  /\ \A rule, p, o : OfPair(rule, p, o).outcome = o
  /\ \A rule, n, o : OfOrphan(rule, n, o).outcome = o
  /\ \A rule, o : Passes(Globally(rule, o)) <=> o = "pass"
BY DEF OfPair, OfOrphan, Finding, Passes, Globally

LEMMA NoClosureIssue ==
  (\A i \in IssuesOf : i.kind \notin ClosureIssues)
    <=> /\ Present # {} /\ Present = Recognised /\ Recognised \cap Extended = {}
        /\ MixedTargets = {}
        /\ \A p \in PairsOf : ~MaybeConvolution(p)
<1>1. \A k, s : Issue(k, s).kind = k
  BY DEF Issue
<1>2. Recognised \subseteq Present
  BY DEF Recognised
<1>3. ASSUME \A i \in IssuesOf : i.kind \notin ClosureIssues
      PROVE  /\ Present # {} /\ Present = Recognised /\ Recognised \cap Extended = {}
             /\ MixedTargets = {}
             /\ \A p \in PairsOf : ~MaybeConvolution(p)
  <2>1. Present # {}
    BY <1>1, <1>3 DEF IssuesOf, ClosureIssues
  <2>2. \A n \in Present : n \in Recognised
    BY <1>1, <1>3 DEF IssuesOf, ClosureIssues
  <2>3. \A n \in Recognised : n \notin Extended
    BY <1>1, <1>3 DEF IssuesOf, ClosureIssues
  <2>4. MixedTargets = {}
    BY <1>1, <1>3 DEF IssuesOf, ClosureIssues
  <2>5. ASSUME NEW p \in PairsOf, MaybeConvolution(p) PROVE FALSE
    <3>1. Issue("unmodeled_weight_orientation", TensorScope(p.a)) \in IssuesOf
      BY <2>5 DEF IssuesOf, MaybeConvolution
    <3> QED
      BY <1>1, <1>3, <3>1 DEF ClosureIssues
  <2> QED
    BY <1>2, <2>1, <2>2, <2>3, <2>4, <2>5
<1>4. ASSUME Present # {}, Present = Recognised, Recognised \cap Extended = {},
             MixedTargets = {}, \A p \in PairsOf : ~MaybeConvolution(p),
             NEW i \in IssuesOf
      PROVE  i.kind = "orphan_member"
  <2>1. {q \in PairsOf : KindOf(RoleOf[q.a]) = "weight" /\ (HighRank(q.a) \/ HighRank(q.b))} = {}
    BY <1>4 DEF MaybeConvolution
  <2>2. i \in {Issue("orphan_member", TensorScope(n)) : n \in {m \in Recognised : Alone(m)}}
    BY <1>4, <2>1 DEF IssuesOf
  <2> QED
    BY <1>1, <2>2
<1> QED
  BY <1>3, <1>4 DEF ClosureIssues

LEMMA PassPL102 ==
  Passes(PL102) <=>
    /\ config.closed /\ ~config.saves
    /\ Present # {} /\ Present = Recognised /\ Recognised \cap Extended = {}
    /\ MixedTargets = {}
    /\ \A p \in PairsOf : ~MaybeConvolution(p)
<1>1. OpenScopes = {} <=>
        /\ config.closed /\ ~config.saves
        /\ \A i \in IssuesOf : i.kind \notin ClosureIssues
  BY DEF OpenScopes
<1>2. Passes(PL102) <=> OpenScopes = {}
  <2>1. CASE OpenScopes = {}
    BY <2>1, OutcomeOfFinding DEF PL102
  <2>2. CASE OpenScopes # {}
    BY <2>2 DEF PL102, Passes, Finding
  <2> QED
    BY <2>1, <2>2
<1> QED
  BY <1>1, <1>2, NoClosureIssue

LEMMA PassPL110 ==
  Passes(PL110) <=> config.closed /\ Orphans = {} /\ \A p \in PairsOf : ~ExtendedPair(p)
<1>1. CASE ~config.closed
  BY <1>1, OutcomeOfFinding DEF PL110
<1>2. CASE config.closed /\ PairsOf = {} /\ Orphans = {}
  BY <1>2, OutcomeOfFinding DEF PL110, OrVacuousPass
<1>3. CASE config.closed /\ ~(PairsOf = {} /\ Orphans = {})
  <2> DEFINE found == {OfOrphan("PL110", n, IF n \in Extended THEN "unknown" ELSE "contradiction") :
                         n \in Orphans}
                      \cup {OfPair("PL110", p, IF ExtendedPair(p) THEN "unknown" ELSE "pass") :
                              p \in PairsOf}
  <2>1. PL110 = found /\ found # {}
    BY <1>3 DEF PL110, OrVacuousPass
  <2> QED
    BY <1>3, <2>1, OutcomeOfFinding DEF Passes
<1> QED
  BY <1>1, <1>2, <1>3

LEMMA PassPL111 ==
  Passes(PL111) <=> /\ config.closed /\ Orphans = {}
                    /\ \A p \in PairsOf : DimensionOutcome(p) = "pass"
<1>1. CASE ~config.closed
  BY <1>1, OutcomeOfFinding DEF PL111
<1>2. CASE config.closed /\ PairsOf = {} /\ Orphans = {}
  BY <1>2, OutcomeOfFinding DEF PL111, OrVacuousPass
<1>3. CASE config.closed /\ ~(PairsOf = {} /\ Orphans = {})
  <2> DEFINE found == {OfPair("PL111", p, DimensionOutcome(p)) : p \in PairsOf}
                      \cup {OfOrphan("PL111", n, "unknown") : n \in Orphans}
  <2>1. PL111 = found /\ found # {}
    BY <1>3 DEF PL111, OrVacuousPass
  <2> QED
    BY <1>3, <2>1, OutcomeOfFinding DEF Passes
<1> QED
  BY <1>1, <1>2, <1>3

LEMMA PassPL112 ==
  Passes(PL112) <=> /\ config.closed /\ ~config.patterned /\ Orphans = {}
                    /\ \A p \in PairsOf : RankOutcome(p) = "pass"
<1>1. CASE ~config.closed
  BY <1>1, OutcomeOfFinding DEF PL112
<1>2. CASE config.closed /\ config.patterned
  <2>1. \A f \in Unexecuted : f.outcome = "unknown"
    BY OutcomeOfFinding DEF Unexecuted
  <2> QED
    BY <1>2, <2>1, OutcomeOfFinding DEF PL112, Passes
<1>3. CASE config.closed /\ ~config.patterned /\ PairsOf = {} /\ Orphans = {}
  BY <1>3, OutcomeOfFinding DEF PL112, OrVacuousPass
<1>4. CASE config.closed /\ ~config.patterned /\ ~(PairsOf = {} /\ Orphans = {})
  <2> DEFINE found == {OfPair("PL112", p, RankOutcome(p)) : p \in PairsOf}
                      \cup {OfOrphan("PL112", n, "unknown") : n \in Orphans}
  <2>1. PL112 = found /\ found # {}
    BY <1>4 DEF PL112, OrVacuousPass
  <2> QED
    BY <1>4, <2>1, OutcomeOfFinding DEF Passes
<1> QED
  BY <1>1, <1>2, <1>3, <1>4

FourPass == Passes(PL102) /\ Passes(PL110) /\ Passes(PL111) /\ Passes(PL112)

LEMMA FourPassSound == FourPass <=> SoundAdapter
<1>1. ASSUME FourPass PROVE SoundAdapter
  <2>1. /\ config.closed /\ ~config.saves /\ ~config.patterned
        /\ Present # {} /\ Present = Recognised /\ Extended = {} /\ MixedTargets = {}
    BY <1>1, PassPL102, PassPL112 DEF FourPass, Extended
  <2>2. \A n \in Present : \E p \in PairsOf : n \in {p.a, p.b}
    BY <1>1, <2>1, PassPL110, OrphansAlone, AloneOrPaired DEF FourPass
  <2>3. ASSUME NEW p \in PairsOf
        PROVE  RankTwo(p) /\ Positive(p) /\ ShapeA(p)[1] = config.r /\ ShapeB(p)[2] = config.r
    <3>1. RankOutcome(p) = "pass"
      BY <1>1, PassPL112 DEF FourPass
    <3> QED
      BY <3>1 DEF RankOutcome, ProvesRank, RanksAgree
  <2> QED
    BY <2>1, <2>2, <2>3 DEF SoundAdapter
<1>2. ASSUME SoundAdapter PROVE FourPass
  <2>1. Orphans = {}
    BY <1>2, OrphansAlone, AloneOrPaired DEF SoundAdapter
  <2>2. ASSUME NEW p \in PairsOf PROVE ProvesRank(p) /\ ShapeA(p)[1] = config.r
    BY <1>2, <2>2 DEF SoundAdapter, ProvesRank, ExtendedPair, RanksAgree
  <2>3. \A p \in PairsOf : /\ DimensionOutcome(p) = "pass" /\ RankOutcome(p) = "pass"
                           /\ ~ExtendedPair(p) /\ ~MaybeConvolution(p)
    BY <2>2, RankNeedsDimensions DEF RankOutcome
  <2> QED
    BY <1>2, <2>1, <2>3, PassPL102, PassPL110, PassPL111, PassPL112 DEF SoundAdapter, FourPass
<1> QED
  BY <1>1, <1>2

(***************************************************************************)
(* Four passing rules mean a sound adapter, and a sound adapter passes all *)
(* four: neither a vacuous pass nor a missing result stands in for a fact. *)
(***************************************************************************)
THEOREM PassSound == Spec => []PassMeansSound
<1>1. ASSUME ResultsInv, phase = "done" PROVE AllPass <=> FourPass
  BY <1>1, FoundAtEnd DEF AllPass, Rules, Passes, FourPass
<1>2. ResultsInv => PassMeansSound
  BY <1>1, FourPassSound DEF PassMeansSound
<1> QED
  BY <1>2, ResultsCorrect, PTL

-----------------------------------------------------------------------------
(***************************************************************************)
(* InOrder: a finite set of results whose sort keys differ is listed       *)
(* completely, each result once.  The number of results before one is an   *)
(* injection of the set into 0 .. n - 1, hence onto it.                    *)
(***************************************************************************)
KeysDiffer(found) ==
    /\ found \subseteq Findings
    /\ \A f, g \in found : f.rule = g.rule /\ f.path = g.path => f = g

\* The sequence s holds every element of S, each once.
Lists(s, S) ==
    /\ s \in Seq(S)
    /\ \A f \in S : \E k \in DOMAIN s : s[k] = f
    /\ \A j, k \in DOMAIN s : s[j] = s[k] => j = k

LEMMA KeyOrder ==
  ASSUME NEW found, KeysDiffer(found)
  PROVE  /\ \A f \in found : ~R!KeyLess(f, f)
         /\ \A f, g \in found : f = g \/ R!KeyLess(f, g) \/ R!KeyLess(g, f)
         /\ \A f, g, h \in found : R!KeyLess(f, g) /\ R!KeyLess(g, h) => R!KeyLess(f, h)
<1>1. LoadRules \subseteq Nat /\ Paths \subseteq Nat
  BY OthersAssumption, PathAssumption DEF LoadRules, Paths
<1>2. \A f \in found : f \in Findings
  BY DEF KeysDiffer
<1>3. \A f \in Findings : f.rule \in Nat /\ f.path \in Nat /\ f.artifact = 1
  BY <1>1 DEF Findings
<1> QED
  BY <1>2, <1>3 DEF KeysDiffer, R!KeyLess

LEMMA InOrderLists ==
  ASSUME NEW found, IsFiniteSet(found), KeysDiffer(found)
  PROVE  Lists(InOrder(found), found)
<1> DEFINE n == Cardinality(found)
           Below(f) == {g \in found : R!KeyLess(g, f)}
           rank == [f \in found |-> Cardinality(Below(f))]
<1>1. n \in Nat
  BY FS_CardinalityType
<1>2. \A f \in found : IsFiniteSet(Below(f)) /\ Cardinality(Below(f)) \in Nat
  BY FS_Subset, FS_CardinalityType
<1>3. ASSUME NEW f \in found PROVE rank[f] \in 0 .. n - 1
  <2>1. f \notin Below(f) /\ Below(f) \in SUBSET found
    BY KeyOrder
  <2>2. Cardinality(Below(f)) <= n /\ Cardinality(Below(f)) # n
    BY <2>1, FS_Subset
  <2> QED
    BY <1>1, <1>2, <2>2
<1>4. ASSUME NEW f \in found, NEW g \in found, R!KeyLess(f, g)
      PROVE  rank[f] < rank[g]
  <2>1. Below(f) \in SUBSET Below(g) /\ f \in Below(g) /\ f \notin Below(f)
    BY <1>4, KeyOrder
  <2>2. Cardinality(Below(f)) <= Cardinality(Below(g)) /\ Cardinality(Below(f)) # Cardinality(Below(g))
    BY <1>2, <2>1, FS_Subset
  <2> QED
    BY <1>2, <2>2
<1>5. \A f, g \in found : rank[f] = rank[g] => f = g
  <2>1. \A f \in found : rank[f] \in Int
    BY <1>3
  <2> HIDE DEF rank
  <2> QED
    BY <1>4, <2>1, KeyOrder
<1>6. \A k \in 0 .. n - 1 : \E f \in found : rank[f] = k
  <2>1. rank \in Injection(found, 0 .. n - 1)
    BY <1>3, <1>5 DEF Injection, IsInjective
  <2>2. IsFiniteSet(0 .. n - 1) /\ Cardinality(0 .. n - 1) = n
    BY <1>1, FS_Interval
  <2>3. rank \in Surjection(found, 0 .. n - 1)
    <3> HIDE DEF rank, n
    <3>1. Cardinality(found) = Cardinality(0 .. n - 1)
      BY <2>2 DEF n
    <3> QED
      BY <2>1, <2>2, <3>1, FS_Injection
  <2> QED
    BY <2>3 DEF Surjection
<1>7. \A k \in 1 .. n : InOrder(found)[k] \in found /\ rank[InOrder(found)[k]] = k - 1
  <2> SUFFICES ASSUME NEW k \in 1 .. n
               PROVE  InOrder(found)[k] \in found /\ rank[InOrder(found)[k]] = k - 1
    OBVIOUS
  <2>1. k - 1 \in 0 .. n - 1
    BY <1>1
  <2>2. \E f \in found : Cardinality(Below(f)) = k - 1
    BY <1>6, <2>1 DEF rank
  <2>3. InOrder(found)[k] = CHOOSE f \in found : Cardinality(Below(f)) = k - 1
    BY DEF InOrder
  <2> HIDE DEF Below
  <2>4. InOrder(found)[k] \in found /\ Cardinality(Below(InOrder(found)[k])) = k - 1
    BY <2>2, <2>3
  <2> QED
    BY <2>4
<1>8. InOrder(found) = [k \in 1 .. n |-> InOrder(found)[k]]
  BY DEF InOrder
<1> HIDE DEF n, rank
<1>9. InOrder(found) \in Seq(found) /\ DOMAIN InOrder(found) = 1 .. n
  <2>1. \A k \in 1 .. n : InOrder(found)[k] \in found
    BY <1>7
  <2> QED
    BY <1>1, <1>8, <2>1, IsASeq
<1>10. ASSUME NEW f \in found PROVE \E k \in 1 .. n : InOrder(found)[k] = f
  <2>1. rank[f] + 1 \in 1 .. n /\ (rank[f] + 1) - 1 = rank[f]
    BY <1>1, <1>3
  <2>2. InOrder(found)[rank[f] + 1] \in found /\ rank[InOrder(found)[rank[f] + 1]] = rank[f]
    BY <1>7, <2>1
  <2>3. InOrder(found)[rank[f] + 1] = f
    BY <1>5, <2>2
  <2> QED
    BY <2>1, <2>3
<1>11. ASSUME NEW j \in 1 .. n, NEW k \in 1 .. n, InOrder(found)[j] = InOrder(found)[k]
       PROVE  j = k
  <2>1. j - 1 = k - 1
    BY <1>7, <1>11
  <2> QED
    BY <2>1
<1> QED
  BY <1>9, <1>10, <1>11 DEF Lists

-----------------------------------------------------------------------------
(***************************************************************************)
(* A manifest has finitely many scopes, and the results speak of no other. *)
(***************************************************************************)
ArtifactScopes ==
    ({NoScope} \cup {TensorScope(n) : n \in Present})
    \cup {TargetScope(TargetOf[n]) : n \in Recognised}

LEMMA ImageFinite ==
  ASSUME NEW S, IsFiniteSet(S), NEW f
  PROVE  IsFiniteSet({f[x] : x \in S})
<1> DEFINE g == [x \in S |-> f[x]]
<1>1. g \in Surjection(S, {f[x] : x \in S})
  BY DEF Surjection
<1> QED
  BY <1>1, FS_Surjection

LEMMA ScopesFinite ==
  ASSUME tensors \in Manifests
  PROVE  IsFiniteSet(ArtifactScopes) /\ ArtifactScopes \subseteq Scopes
<1>1. Present \in SUBSET Name /\ IsFiniteSet(Present)
  BY DEF Manifests, Present
<1>2. Recognised \in SUBSET Present
  BY DEF Recognised
<1>3. IsFiniteSet(Recognised)
  BY <1>1, <1>2, FS_Subset
<1>4. IsFiniteSet({TensorScope(n) : n \in Present})
  <2> DEFINE f == [n \in Present |-> TensorScope(n)]
  <2>1. {f[n] : n \in Present} = {TensorScope(n) : n \in Present}
    OBVIOUS
  <2> HIDE DEF f
  <2>2. IsFiniteSet({f[n] : n \in Present})
    BY <1>1, ImageFinite
  <2> QED
    BY <2>1, <2>2
<1>5. IsFiniteSet({TargetScope(TargetOf[n]) : n \in Recognised})
  <2> DEFINE f == [n \in Recognised |-> TargetScope(TargetOf[n])]
  <2>1. {f[n] : n \in Recognised} = {TargetScope(TargetOf[n]) : n \in Recognised}
    OBVIOUS
  <2> HIDE DEF f
  <2>2. IsFiniteSet({f[n] : n \in Recognised})
    BY <1>3, ImageFinite
  <2> QED
    BY <2>1, <2>2
<1>6. IsFiniteSet({NoScope} \cup {TensorScope(n) : n \in Present})
  BY <1>4, FS_Singleton, FS_Union
<1>7. IsFiniteSet(ArtifactScopes)
  BY <1>5, <1>6, FS_Union DEF ArtifactScopes
<1>8. ArtifactScopes \subseteq Scopes
  BY <1>1 DEF ArtifactScopes, Scopes, Recognised
<1> QED
  BY <1>7, <1>8

LEMMA IssueScopes == \A i \in IssuesOf : i.on \in ArtifactScopes
<1>1. \A k, s : Issue(k, s).on = s
  BY DEF Issue
<1>2. Recognised \subseteq Present
  BY DEF Recognised
<1>3. \A n \in Present : TensorScope(n) \in ArtifactScopes
  BY DEF ArtifactScopes
<1>4. \A p \in PairsOf : p.a \in Present
  BY <1>2, PairParts
<1>5. \A t \in MixedTargets : TargetScope(t) \in ArtifactScopes
  BY DEF MixedTargets, ArtifactScopes
<1>6. NoScope \in ArtifactScopes
  BY DEF ArtifactScopes
<1> SUFFICES ASSUME NEW i \in IssuesOf PROVE i.on \in ArtifactScopes
  OBVIOUS
<1>7. CASE \E k, n : n \in Present /\ i = Issue(k, TensorScope(n))
  BY <1>1, <1>3, <1>7
<1>8. CASE \E t \in MixedTargets : i = Issue("mixed_pair_kind", TargetScope(t))
  BY <1>1, <1>5, <1>8
<1>9. CASE i = Issue("empty_inventory", NoScope)
  BY <1>1, <1>6, <1>9
<1> QED
  BY <1>2, <1>4, <1>7, <1>8, <1>9 DEF IssuesOf

Reports(found) ==
    \A f \in found : /\ f.on \in ArtifactScopes
                     /\ f.outcome \in {"pass", "unknown", "contradiction"}

LEMMA EvaluatorsReport == Reports(PL102) /\ Reports(PL110) /\ Reports(PL111) /\ Reports(PL112)
<1>1. \A rule, o : o \in {"pass", "unknown", "contradiction"} => Reports(Globally(rule, o))
  BY DEF Reports, Globally, Finding, ArtifactScopes
<1>2. ASSUME NEW rule, NEW p \in PairsOf, NEW o \in {"pass", "unknown", "contradiction"}
      PROVE  /\ OfPair(rule, p, o).on \in ArtifactScopes
             /\ OfPair(rule, p, o).outcome \in {"pass", "unknown", "contradiction"}
  <2>1. p.a \in Present
    BY PairParts DEF Recognised
  <2> QED
    BY <2>1 DEF OfPair, Finding, ArtifactScopes
<1>3. ASSUME NEW rule, NEW n \in Orphans, NEW o \in {"pass", "unknown", "contradiction"}
      PROVE  /\ OfOrphan(rule, n, o).on \in ArtifactScopes
             /\ OfOrphan(rule, n, o).outcome \in {"pass", "unknown", "contradiction"}
  BY DEF OfOrphan, Finding, ArtifactScopes, Orphans
<1>4. Reports(PL102)
  <2>1. OpenScopes \subseteq ArtifactScopes
    BY IssueScopes DEF OpenScopes, ArtifactScopes
  <2>2. CASE OpenScopes = {}
    BY <1>1, <2>2 DEF PL102
  <2>3. CASE OpenScopes # {}
    BY <2>1, <2>3 DEF PL102, Finding, Reports
  <2> QED
    BY <2>2, <2>3
<1>5. Reports(PL110)
  <2>1. Reports({OfOrphan("PL110", n, IF n \in Extended THEN "unknown" ELSE "contradiction") :
                   n \in Orphans})
    BY <1>3 DEF Reports
  <2>2. Reports({OfPair("PL110", p, IF ExtendedPair(p) THEN "unknown" ELSE "pass") :
                   p \in PairsOf})
    BY <1>2 DEF Reports
  <2> QED
    BY <1>1, <2>1, <2>2 DEF PL110, OrVacuousPass, Reports
<1>6. Reports(PL111)
  <2>1. Reports({OfPair("PL111", p, DimensionOutcome(p)) : p \in PairsOf})
    BY <1>2 DEF Reports, DimensionOutcome
  <2>2. Reports({OfOrphan("PL111", n, "unknown") : n \in Orphans})
    BY <1>3 DEF Reports
  <2> QED
    BY <1>1, <2>1, <2>2 DEF PL111, OrVacuousPass, Reports
<1>7. Reports(PL112)
  <2>1. Reports({OfPair("PL112", p, RankOutcome(p)) : p \in PairsOf})
    BY <1>2 DEF Reports, RankOutcome
  <2>2. Reports({OfOrphan("PL112", n, "unknown") : n \in Orphans})
    BY <1>3 DEF Reports
  <2>3. Reports({OfPair("PL112", p, "unknown") : p \in PairsOf})
    BY <1>2 DEF Reports
  <2> QED
    BY <1>1, <2>1, <2>2, <2>3 DEF PL112, Unexecuted, OrVacuousPass, Reports
<1> QED
  BY <1>4, <1>5, <1>6, <1>7

(***************************************************************************)
(* The sides of the reduction: what the evaluator returns and what comes   *)
(* from elsewhere are finite sets of results with different sort keys.     *)
(***************************************************************************)
LEMMA EvaluatedKeys ==
  ASSUME ResultsInv, phase = "done"
  PROVE  IsFiniteSet(Evaluated) /\ KeysDiffer(Evaluated)
<1> DEFINE result == [f \in results |-> RuleResult(Number[f.rule], PathOf[f.on], f.outcome)]
           where == [f \in results |-> <<f.rule, f.on>>]
<1>1. results = ((PL102 \cup PL110) \cup PL111) \cup PL112
  BY FoundAtEnd
<1>2. \A f, g \in results : f.rule = g.rule /\ f.on = g.on => f = g
  BY <1>1, ScopesUniqueAfterAll DEF ScopesUnique
<1>3. \A f \in results : /\ f.rule \in Rules
                         /\ f.on \in ArtifactScopes
                         /\ f.outcome \in {"pass", "unknown", "contradiction"}
  BY <1>1, EvaluatorsReport, UniquePL102, UniquePL110, UniquePL111, UniquePL112
     DEF Reports, Rules
<1>4. IsFiniteSet(results)
  <2>1. IsFiniteSet(Rules)
    <3>1. Rules = ((({} \cup {"PL102"}) \cup {"PL110"}) \cup {"PL111"}) \cup {"PL112"}
      BY DEF Rules
    <3> QED
      BY <3>1, FS_EmptySet, FS_AddElement
  <2>2. IsFiniteSet(Rules \X ArtifactScopes)
    BY <2>1, ScopesFinite, FS_Product DEF ResultsInv
  <2>3. where \in Injection(results, Rules \X ArtifactScopes)
    BY <1>2, <1>3 DEF Injection, IsInjective
  <2> QED
    BY <2>2, <2>3, FS_Injection
<1>5. IsFiniteSet(Evaluated)
  <2>1. {result[f] : f \in results} = Evaluated
    BY DEF Evaluated
  <2> HIDE DEF result
  <2> QED
    BY <1>4, <2>1, ImageFinite
<1>6. ASSUME NEW f \in results
      PROVE  result[f] \in Findings
  <2>1. Number[f.rule] \in LoadRules
    BY <1>3 DEF Rules, Number, LoadRules
  <2>2. PathOf[f.on] \in Paths
    BY <1>3, ScopesFinite DEF Paths, ResultsInv
  <2> QED
    BY <1>3, <2>1, <2>2 DEF RuleResult, Findings
<1>7. ASSUME NEW f \in results, NEW g \in results,
             result[f].rule = result[g].rule, result[f].path = result[g].path
      PROVE  f = g
  <2>1. Number[f.rule] = Number[g.rule] /\ PathOf[f.on] = PathOf[g.on]
    BY <1>7 DEF RuleResult
  <2>2. f.rule = g.rule
    BY <1>3, <2>1 DEF Rules, Number
  <2>3. f.on = g.on
    BY <1>3, <2>1, ScopesFinite, PathAssumption DEF ResultsInv
  <2> QED
    BY <1>2, <2>2, <2>3
<1>8. KeysDiffer(Evaluated)
  <2>1. \A r \in Evaluated : \E f \in results : r = result[f]
    BY DEF Evaluated
  <2> HIDE DEF result
  <2> QED
    BY <1>6, <1>7, <2>1 DEF KeysDiffer
<1> QED
  BY <1>5, <1>8

LEMMA ElsewhereKeys ==
  ASSUME NEW outcomes \in OtherResults
  PROVE  IsFiniteSet(Elsewhere(outcomes)) /\ KeysDiffer(Elsewhere(outcomes))
<1> DEFINE result == [rule \in DOMAIN outcomes |-> RuleResult(rule, 0, outcomes[rule])]
<1>1. DOMAIN outcomes \in SUBSET Others /\ \A rule \in DOMAIN outcomes : outcomes[rule] \in R!Outcome
  BY DEF OtherResults
<1>2. IsFiniteSet(DOMAIN outcomes)
  BY <1>1, OthersAssumption, FS_Subset
<1>3. IsFiniteSet(Elsewhere(outcomes))
  <2>1. {result[rule] : rule \in DOMAIN outcomes} = Elsewhere(outcomes)
    BY DEF Elsewhere
  <2> HIDE DEF result
  <2> QED
    BY <1>2, <2>1, ImageFinite
<1>4. 0 \in Paths
  BY PathAssumption DEF Paths, Scopes
<1>5. \A rule \in DOMAIN outcomes : RuleResult(rule, 0, outcomes[rule]) \in Findings
  BY <1>1, <1>4 DEF RuleResult, Findings, LoadRules, R!Outcome
<1>6. KeysDiffer(Elsewhere(outcomes))
  BY <1>5 DEF KeysDiffer, Elsewhere, RuleResult
<1> QED
  BY <1>3, <1>6

-----------------------------------------------------------------------------
(***************************************************************************)
(* The reducer of the audit, with what is proved of it.                    *)
(***************************************************************************)
RP == INSTANCE LoadReducerProofs WITH
        phase <- reduction,
        Audit <- {"audit"}, Ruleset <- {"lora-v1"},
        RequiredRules <- [s \in {"lora-v1"} |-> LoadRules],
        Rule <- LoadRules, Artifact <- {1}, Path <- Paths,
        Inputs <- Seq(Findings)

LEMMA ReducerRequired == RP!RequiredAssumption
  BY DEF RP!RequiredAssumption

LEMMA ReducerRanks == RP!RankAssumption
  BY OthersAssumption, PathAssumption DEF RP!RankAssumption, LoadRules, Paths

LEMMA ReducerInputs == RP!InputsAssumption
<1>1. Findings \subseteq RP!Result
  BY DEF Findings, RP!Result, RP!Profile, RP!Outcome
<1>2. ASSUME NEW s \in Seq(Findings) PROVE s \in Seq(RP!Result)
  <2>1. \A i \in 1 .. Len(s) : s[i] \in RP!Result
    BY <1>1
  <2> QED
    BY <2>1
<1> QED
  BY <1>2 DEF RP!InputsAssumption

LEMMA SameReducer == R!Next <=> RP!Next
BY DEF RP!Next, R!Next, RP!UnregisteredRuleset, R!UnregisteredRuleset, RP!FindRuleset,
   R!FindRuleset, RP!CheckResult, R!CheckResult, RP!ForeignResult, R!ForeignResult,
   RP!SortResults, R!SortResults, RP!GroupResult, R!GroupResult, RP!DuplicateResult,
   R!DuplicateResult, RP!Summarise, R!Summarise, RP!Refuse, R!Refuse, RP!Registered, R!Registered,
   RP!request, R!request, RP!Checking, R!Checking, RP!Belongs, R!Belongs, RP!Required, R!Required,
   RP!NextByKey, R!NextByKey, RP!ComesFirst, R!ComesFirst, RP!KeyLess, R!KeyLess, RP!Scope,
   R!Scope, RP!Contradicting, R!Contradicting, RP!Missing, R!Missing, RP!Unknown, R!Unknown,
   RP!Passing, R!Passing

-----------------------------------------------------------------------------
(***************************************************************************)
(* The request of an audit: all results of both sides, each once.          *)
(***************************************************************************)
Submits(s) ==
    /\ s \in Seq(Findings)
    /\ \E outcomes \in OtherResults :
         {s[i] : i \in DOMAIN s} = Elsewhere(outcomes) \cup Evaluated
    /\ \A i, j \in DOMAIN s :
         i # j => <<s[i].rule, s[i].path>> # <<s[j].rule, s[j].path>>

LEMMA Joined ==
  ASSUME NEW S, NEW T, NEW s, NEW t, Lists(s, S), Lists(t, T), S \cap T = {}
  PROVE  Lists(s \o t, S \cup T)
<1> DEFINE j == s \o t
           m == Len(s)
           n == Len(t)
<1>1. s \in Seq(S) /\ t \in Seq(T)
  BY DEF Lists
<1>2. m \in Nat /\ n \in Nat /\ DOMAIN s = 1 .. m /\ DOMAIN t = 1 .. n
  BY <1>1
<1>3. /\ j \in Seq(S \cup T) /\ DOMAIN j = 1 .. m + n
      /\ \A i \in 1 .. m + n : j[i] = IF i <= m THEN s[i] ELSE t[i - m]
  <2>1. s \in Seq(S \cup T) /\ t \in Seq(S \cup T)
    BY <1>1
  <2>2. /\ j \in Seq(S \cup T) /\ Len(j) = m + n
        /\ \A i \in 1 .. m + n : j[i] = IF i <= m THEN s[i] ELSE t[i - m]
    BY <2>1, ConcatProperties
  <2>3. DOMAIN j = 1 .. Len(j)
    BY <2>2
  <2> QED
    BY <2>2, <2>3
<1>4. /\ \A k \in 1 .. m : s[k] \in S
      /\ \A k \in 1 .. n : t[k] \in T
  BY <1>1
<1> HIDE DEF j, m, n
<1>5. ASSUME NEW i \in DOMAIN j
      PROVE  \/ i \in 1 .. m /\ j[i] = s[i] /\ j[i] \in S
             \/ i - m \in 1 .. n /\ j[i] = t[i - m] /\ j[i] \in T
  BY <1>2, <1>3, <1>4
<1>6. ASSUME NEW f \in S PROVE \E i \in DOMAIN j : j[i] = f
  <2>1. PICK k \in 1 .. m : s[k] = f
    BY <1>2 DEF Lists
  <2>2. k \in DOMAIN j /\ j[k] = s[k]
    BY <1>2, <1>3
  <2> QED
    BY <2>1, <2>2
<1>7. ASSUME NEW f \in T PROVE \E i \in DOMAIN j : j[i] = f
  <2>1. PICK k \in 1 .. n : t[k] = f
    BY <1>2 DEF Lists
  <2>2. m + k \in 1 .. m + n /\ ~(m + k <= m) /\ (m + k) - m = k
    BY <1>2
  <2>3. m + k \in DOMAIN j /\ j[m + k] = t[k]
    BY <1>3, <2>2
  <2> QED
    BY <2>1, <2>3
<1>8. ASSUME NEW i \in DOMAIN j, NEW k \in DOMAIN j, j[i] = j[k] PROVE i = k
  <2>1. i \in Nat /\ k \in Nat
    BY <1>2, <1>3
  <2>2. \/ i \in 1 .. m /\ k \in 1 .. m /\ s[i] = s[k]
        \/ i - m \in 1 .. n /\ k - m \in 1 .. n /\ t[i - m] = t[k - m]
    BY <1>5, <1>8
  <2>3. i = k \/ i - m = k - m
    BY <1>2, <2>2 DEF Lists
  <2> QED
    BY <1>2, <2>1, <2>3
<1> QED
  BY <1>3, <1>6, <1>7, <1>8 DEF j, Lists

LEMMA SidesApart ==
  ASSUME ResultsInv, phase = "done", NEW outcomes \in OtherResults,
         NEW f \in Elsewhere(outcomes), NEW g \in Evaluated
  PROVE  f.rule # g.rule
<1>1. f.rule \in Others
  BY DEF Elsewhere, OtherResults, RuleResult
<1>2. \A h \in results : h.rule \in Rules
  BY FoundAtEnd, UniquePL102, UniquePL110, UniquePL111, UniquePL112 DEF Rules
<1>3. g.rule \in {102, 110, 111, 112}
  BY <1>2 DEF Evaluated, RuleResult, Rules, Number
<1> QED
  BY <1>1, <1>3, OthersAssumption

LEMMA SubmitsAll ==
  ASSUME ResultsInv, phase = "done", NEW outcomes \in OtherResults,
         NEW s, s = InOrder(Elsewhere(outcomes)) \o InOrder(Evaluated)
  PROVE  Submits(s)
<1> DEFINE found == Elsewhere(outcomes)
           more == Evaluated
<1>1. /\ IsFiniteSet(found) /\ KeysDiffer(found)
      /\ IsFiniteSet(more) /\ KeysDiffer(more)
  BY EvaluatedKeys, ElsewhereKeys
<1>2. \A f \in found : \A g \in more : f.rule # g.rule
  BY SidesApart
<1> HIDE DEF found, more
<1>3. found \subseteq Findings /\ more \subseteq Findings /\ found \cap more = {}
  BY <1>1, <1>2 DEF KeysDiffer
<1>4. Lists(s, found \cup more)
  <2>1. s = InOrder(found) \o InOrder(more)
    BY DEF found, more
  <2>2. Lists(InOrder(found), found) /\ Lists(InOrder(more), more)
    BY <1>1, InOrderLists
  <2> QED
    BY <1>3, <2>1, <2>2, Joined
<1>5. \A f, g \in found \cup more : f.rule = g.rule /\ f.path = g.path => f = g
  BY <1>1, <1>2 DEF KeysDiffer
<1>6. \A i \in DOMAIN s : s[i] \in found \cup more
  BY <1>4 DEF Lists
<1>7. s \in Seq(Findings)
  <2>1. s \in Seq(found \cup more)
    BY <1>4 DEF Lists
  <2> QED
    BY <1>3, <2>1
<1>8. {s[i] : i \in DOMAIN s} = found \cup more
  <2>1. \A f \in found \cup more : \E i \in DOMAIN s : s[i] = f
    BY <1>4 DEF Lists
  <2> QED
    BY <1>6, <2>1
<1>9. \A i, j \in DOMAIN s :
        i # j => <<s[i].rule, s[i].path>> # <<s[j].rule, s[j].path>>
  BY <1>4, <1>5, <1>6 DEF Lists
<1> QED
  BY <1>7, <1>8, <1>9 DEF found, more, Submits

-----------------------------------------------------------------------------
(***************************************************************************)
(* The inductive invariant of an audit: the evaluator's invariant, and     *)
(* once its results are submitted, the reducer's for that request.         *)
(***************************************************************************)
Idle ==
    /\ pos = 1 /\ todo = {} /\ ordered = <<>> /\ seen = {}
    /\ byRule = [rule \in LoadRules |-> {}]
    /\ verdict = "none"

AuditInv ==
    /\ ResultsInv
    /\ audit = "audit" /\ ruleset = "lora-v1"
    /\ reduction = "idle" => Idle
    /\ reduction # "idle" => phase = "done" /\ Submits(input) /\ RP!TypeOK /\ RP!LoopInv

LEMMA SubmittedAdmissible ==
  ASSUME audit = "audit", ruleset = "lora-v1", Submits(input)
  PROVE  RP!Admissible /\ RP!Required = LoadRules
<1>1. RP!Registered /\ RP!Required = LoadRules
  BY DEF RP!Registered, RP!Required
<1>2. \A i \in DOMAIN input : input[i] \in Findings
  BY DEF Submits
<1>3. \A i \in DOMAIN input : RP!Belongs(input[i])
  BY <1>1, <1>2 DEF RP!Belongs, Findings
<1>4. \A i, j \in DOMAIN input : i # j => RP!Scope(input[i]) # RP!Scope(input[j])
  BY DEF Submits, RP!Scope
<1> QED
  BY <1>1, <1>3, <1>4 DEF RP!Admissible

\* The evaluator's state fixes what is submitted.
LEMMA SubmittedKept ==
  ASSUME UNCHANGED <<input, results>>, Submits(input)
  PROVE  Submits(input)'
<1>1. Evaluated' = Evaluated /\ input' = input
  BY DEF Evaluated
<1> QED
  BY <1>1 DEF Submits

LEMMA StartsReducing ==
  ASSUME AuditInv, Submit
  PROVE  AuditInv'
<1>1. /\ phase = "done" /\ reduction = "idle" /\ reduction' = "ruleset"
      /\ UNCHANGED <<tensors, config, phase, results, audit, ruleset, pos, todo, ordered, seen,
                     byRule, verdict>>
  BY DEF Submit, evaluating, loops
<1>2. Submits(input')
  BY <1>1, SubmitsAll DEF AuditInv, Submit
<1>3. Submits(input)'
  <2>1. Evaluated' = Evaluated
    BY <1>1 DEF Evaluated
  <2> QED
    BY <1>2, <2>1 DEF Submits
<1>4. ResultsInv'
  <2>1. ResultsInv /\ UNCHANGED vars
    BY <1>1 DEF AuditInv, vars
  <2> QED
    BY <2>1, ResultsStep
<1>5. RP!TypeOK'
  <2>1. input' \in Seq(Findings) /\ Len(input') \in Nat
    BY <1>2 DEF Submits
  <2>2. <<>> \in Seq(DOMAIN input')
    OBVIOUS
  <2> QED
    BY <1>1, <2>1, <2>2 DEF AuditInv, Idle, RP!TypeOK
<1>6. RP!LoopInv'
  <2>1. 1 .. pos' - 1 = {}
    BY <1>1 DEF AuditInv, Idle
  <2> QED
    BY <1>1, <2>1 DEF AuditInv, Idle, RP!LoopInv, RP!BeforeGrouping, RP!WhileGrouping
<1> QED
  BY <1>1, <1>3, <1>4, <1>5, <1>6 DEF AuditInv

LEMMA KeepsReducing ==
  ASSUME AuditInv, R!Next, UNCHANGED evaluating
  PROVE  AuditInv'
<1>1. RP!Next
  BY SameReducer
<1>2. reduction # "idle" /\ reduction' # "idle"
  BY <1>1 DEF RP!Next, RP!UnregisteredRuleset, RP!FindRuleset, RP!CheckResult, RP!Checking,
     RP!ForeignResult, RP!SortResults, RP!GroupResult, RP!DuplicateResult, RP!NextByKey,
     RP!Summarise, RP!Refuse
<1>3. RP!TypeOK /\ RP!LoopInv /\ phase = "done" /\ Submits(input) /\ ResultsInv
      /\ audit = "audit" /\ ruleset = "lora-v1"
  BY <1>2 DEF AuditInv
<1>4. RP!TypeOK'
  BY <1>1, <1>3, RP!TypeStep, ReducerRequired, ReducerRanks, ReducerInputs
<1>5. RP!LoopInv'
  BY <1>1, <1>3, RP!LoopStep, ReducerRequired, ReducerRanks, ReducerInputs
<1>6. audit' = audit /\ ruleset' = ruleset /\ input' = input
  BY <1>1, RP!RequestFixed, ReducerRequired, ReducerRanks, ReducerInputs
<1>7. ResultsInv' /\ phase' = "done" /\ Submits(input)'
  <2>1. UNCHANGED vars /\ UNCHANGED <<input, results>>
    BY <1>6 DEF evaluating, vars
  <2> QED
    BY <1>3, <2>1, ResultsStep, SubmittedKept DEF vars
<1> QED
  BY <1>2, <1>3, <1>4, <1>5, <1>6, <1>7 DEF AuditInv

LEMMA KeepsEvaluating ==
  ASSUME AuditInv, EvaluateInventory
  PROVE  AuditInv'
<1>1. ResultsInv' /\ UNCHANGED reducing
  BY ResultsStep DEF EvaluateInventory, AuditInv
<1>2. phase # "done"
  BY DEF EvaluateInventory, Next, EvaluatePL102, EvaluatePL110, EvaluatePL111, EvaluatePL112,
     Evaluate, Collect
<1>3. reduction = "idle" /\ reduction' = "idle"
  BY <1>1, <1>2 DEF AuditInv, reducing
<1> QED
  BY <1>1, <1>3 DEF AuditInv, reducing, loops, Idle

(***************************************************************************)
(* Every state of an audit satisfies the invariant.                        *)
(***************************************************************************)
THEOREM AuditCorrect == AuditSpec => []AuditInv
<1>1. AuditInit => AuditInv
  BY ResultsInit DEF AuditInit, AuditInv, Idle
<1>2. AuditInv /\ [AuditNext]_<<evaluating, reducing>> => AuditInv'
  <2> SUFFICES ASSUME AuditInv, [AuditNext]_<<evaluating, reducing>> PROVE AuditInv'
    OBVIOUS
  <2>1. CASE UNCHANGED <<evaluating, reducing>>
    <3>1. /\ UNCHANGED vars /\ UNCHANGED <<input, results>>
          /\ UNCHANGED <<audit, ruleset, input, reduction, pos, todo, ordered, seen, byRule, verdict>>
      BY <2>1 DEF vars, evaluating, reducing, loops
    <3>2. ResultsInv'
      BY <3>1, ResultsStep DEF AuditInv
    <3>3. CASE reduction = "idle"
      BY <3>1, <3>2, <3>3 DEF AuditInv, Idle
    <3>4. CASE reduction # "idle"
      <4>1. Submits(input)' /\ phase' = "done"
        BY <3>1, <3>4, SubmittedKept DEF AuditInv, vars
      <4>2. UNCHANGED RP!vars
        BY <3>1 DEF RP!vars, RP!request
      <4>3. RP!TypeOK' /\ RP!LoopInv'
        BY <3>4, <4>2, RP!TypeStep, RP!LoopStep, ReducerRequired, ReducerRanks, ReducerInputs
           DEF AuditInv
      <4> QED
        BY <3>1, <3>2, <3>4, <4>1, <4>3 DEF AuditInv
    <3> QED
      BY <3>3, <3>4
  <2> QED
    BY <2>1, KeepsEvaluating, StartsReducing, KeepsReducing DEF AuditNext, SummarizeLoad
<1> QED
  BY <1>1, <1>2, PTL DEF AuditSpec

(***************************************************************************)
(* Neither the evaluator's duplicate error nor any refusal of the reducer  *)
(* is reachable.                                                           *)
(***************************************************************************)
THEOREM AuditAccepts == AuditSpec => []AuditNeverRefuses
<1>1. AuditInv => AuditNeverRefuses
  <2> SUFFICES ASSUME AuditInv PROVE AuditNeverRefuses
    OBVIOUS
  <2>1. phase # "duplicate"
    BY DEF AuditInv, ResultsInv, Rules
  <2>2. reduction = "refused" => FALSE
    BY SubmittedAdmissible DEF AuditInv, RP!LoopInv
  <2> QED
    BY <2>1, <2>2 DEF AuditNeverRefuses
<1> QED
  BY <1>1, AuditCorrect, PTL

-----------------------------------------------------------------------------
(***************************************************************************)
(* What the request holds of each rule the evaluator implements: the       *)
(* outcomes of that evaluator, of which there is at least one.             *)
(***************************************************************************)
Outcomes(found) == {f.outcome : f \in found}

LEMMA RuleOutcomes ==
  ASSUME ResultsInv, phase = "done", Submits(input)
  PROVE  /\ R!OutcomesOf(102) = Outcomes(PL102)
         /\ R!OutcomesOf(110) = Outcomes(PL110)
         /\ R!OutcomesOf(111) = Outcomes(PL111)
         /\ R!OutcomesOf(112) = Outcomes(PL112)
<1>1. PICK outcomes \in OtherResults :
        {input[i] : i \in DOMAIN input} = Elsewhere(outcomes) \cup Evaluated
  BY DEF Submits
<1>2. \A r \in Elsewhere(outcomes) : r.rule \in Others
  BY DEF Elsewhere, OtherResults, RuleResult
<1>3. ASSUME NEW number \in {102, 110, 111, 112}
      PROVE  R!OutcomesOf(number) = {r.outcome : r \in {q \in Evaluated : q.rule = number}}
  <2>1. number \notin Others
    BY OthersAssumption
  <2>2. R!OutcomesOf(number)
          = {r.outcome : r \in {q \in Elsewhere(outcomes) \cup Evaluated : q.rule = number}}
    BY <1>1 DEF R!OutcomesOf
  <2> QED
    BY <1>2, <2>1, <2>2
<1>4. ASSUME NEW rule \in Rules
      PROVE  {r.outcome : r \in {q \in Evaluated : q.rule = Number[rule]}} = Outcomes(Found(rule))
  <2> DEFINE result(f) == RuleResult(Number[f.rule], PathOf[f.on], f.outcome)
  <2>1. \A f \in results : f.rule \in Rules
    BY FoundAtEnd, UniquePL102, UniquePL110, UniquePL111, UniquePL112 DEF Rules
  <2>2. \A s \in Rules : Number[s] = Number[rule] => s = rule
    BY DEF Rules, Number
  <2>3. \A f \in results : result(f).rule = Number[f.rule] /\ result(f).outcome = f.outcome
    BY DEF RuleResult
  <2>4. Evaluated = {result(f) : f \in results}
    BY DEF Evaluated
  <2> HIDE DEF result
  <2>5. \A f \in results : result(f).rule = Number[rule] <=> f.rule = rule
    BY <2>1, <2>2, <2>3
  <2> QED
    BY <2>3, <2>4, <2>5 DEF Found, Outcomes
<1>5. /\ Number["PL102"] = 102 /\ Number["PL110"] = 110
      /\ Number["PL111"] = 111 /\ Number["PL112"] = 112
  BY DEF Number
<1>6. \A rule \in Rules : R!OutcomesOf(Number[rule]) = Outcomes(Found(rule))
  <2>1. \A rule \in Rules : Number[rule] \in {102, 110, 111, 112}
    BY <1>5 DEF Rules
  <2> QED
    BY <1>3, <1>4, <2>1
<1>7. /\ R!OutcomesOf(102) = Outcomes(Found("PL102")) /\ R!OutcomesOf(110) = Outcomes(Found("PL110"))
      /\ R!OutcomesOf(111) = Outcomes(Found("PL111")) /\ R!OutcomesOf(112) = Outcomes(Found("PL112"))
  BY <1>5, <1>6 DEF Rules
<1> QED
  BY <1>7, FoundAtEnd

LEMMA EveryRuleReports == PL102 # {} /\ PL110 # {} /\ PL111 # {} /\ PL112 # {}
<1>1. \A rule, o : Globally(rule, o) # {}
  BY DEF Globally
<1>2. PL102 # {}
  BY <1>1 DEF PL102
<1>3. PL110 # {}
  BY <1>1 DEF PL110, OrVacuousPass
<1>4. PL111 # {}
  BY <1>1 DEF PL111, OrVacuousPass
<1>5. PL112 # {}
  BY <1>1 DEF PL112, OrVacuousPass
<1> QED
  BY <1>2, <1>3, <1>4, <1>5

LEMMA OutcomesGrouped ==
  ASSUME AuditInv, reduction = "done"
  PROVE  /\ ResultsInv /\ phase = "done" /\ Submits(input)
         /\ R!Required = LoadRules
         /\ \A rule \in LoadRules : byRule[rule] = R!OutcomesOf(rule)
         /\ verdict = RP!VerdictOf
<1>1. /\ ResultsInv /\ phase = "done" /\ Submits(input) /\ RP!TypeOK /\ RP!LoopInv
      /\ audit = "audit" /\ ruleset = "lora-v1"
  BY DEF AuditInv
<1>2. RP!Required = LoadRules /\ R!Required = LoadRules
  BY <1>1 DEF RP!Required, R!Required
<1>3. todo = {} /\ verdict = RP!VerdictOf
  BY <1>1 DEF RP!LoopInv
<1>4. \A rule \in RP!Required : byRule[rule] = RP!OutcomesOf(rule)
  BY <1>1, <1>3, RP!GroupedOutcomes, ReducerRequired, ReducerRanks, ReducerInputs
<1>5. \A rule : R!OutcomesOf(rule) = RP!OutcomesOf(rule)
  BY DEF R!OutcomesOf, RP!OutcomesOf
<1> QED
  BY <1>1, <1>2, <1>3, <1>4, <1>5

(***************************************************************************)
(* Only rules evaluated elsewhere can be missing from a summary.           *)
(***************************************************************************)
THEOREM AnswersItsRules == AuditSpec => []RulesAnswered
<1>1. AuditInv => RulesAnswered
  <2> SUFFICES ASSUME AuditInv, reduction = "done",
                      NEW rule \in R!Missing
               PROVE  rule \in Others
    BY DEF RulesAnswered
  <2>1. rule \in LoadRules /\ R!OutcomesOf(rule) = {}
    BY OutcomesGrouped DEF R!Missing
  <2>2. \A found : found # {} => Outcomes(found) # {}
    BY DEF Outcomes
  <2>3. rule \notin {102, 110, 111, 112}
    BY <2>1, <2>2, OutcomesGrouped, RuleOutcomes, EveryRuleReports
  <2> QED
    BY <2>1, <2>3 DEF LoadRules
<1> QED
  BY <1>1, AuditCorrect, PTL

(***************************************************************************)
(* The contradictions of the evaluators, exactly.                          *)
(***************************************************************************)
LEMMA ContradictionExact ==
  ("contradiction" \in Outcomes(PL110) \cup Outcomes(PL111) \cup Outcomes(PL112))
    <=> /\ config.closed
        /\ (\E n \in Recognised \ Extended : Alone(n)) \/ \E p \in PairsOf : DefinitePair(p)
<1>1. ASSUME "contradiction" \in Outcomes(PL110) \cup Outcomes(PL111) \cup Outcomes(PL112)
      PROVE  /\ config.closed
             /\ (\E n \in Recognised \ Extended : Alone(n)) \/ \E p \in PairsOf : DefinitePair(p)
  BY <1>1, ContradictionCause DEF Outcomes
<1>2. ASSUME config.closed, NEW n \in Recognised \ Extended, Alone(n)
      PROVE  "contradiction" \in Outcomes(PL110)
  <2>1. n \in Orphans
    BY <1>2, OrphansAlone
  <2>2. OfOrphan("PL110", n, "contradiction") \in PL110
    BY <1>2, <2>1 DEF PL110, OrVacuousPass
  <2> QED
    BY <2>2, OutcomeOfFinding DEF Outcomes
<1>3. ASSUME config.closed, NEW p \in PairsOf, DefinitePair(p)
      PROVE  "contradiction" \in Outcomes(PL111) \cup Outcomes(PL112)
  <2>1. CASE ~(RankTwo(p) /\ Positive(p) /\ RanksAgree(p))
    <3>1. DimensionOutcome(p) = "contradiction"
      BY <1>3, <2>1 DEF DefinitePair, DimensionOutcome
    <3>2. OfPair("PL111", p, "contradiction") \in PL111
      BY <1>3, <3>1 DEF PL111, OrVacuousPass
    <3> QED
      BY <3>2, OutcomeOfFinding DEF Outcomes
  <2>2. CASE RankTwo(p) /\ Positive(p) /\ RanksAgree(p)
    <3>1. ~config.patterned /\ RankOutcome(p) = "contradiction"
      BY <1>3, <2>2 DEF DefinitePair, RankOutcome, ProvesRank
    <3>2. OfPair("PL112", p, "contradiction") \in PL112
      BY <1>3, <3>1 DEF PL112, OrVacuousPass
    <3> QED
      BY <3>2, OutcomeOfFinding DEF Outcomes
  <2> QED
    BY <2>1, <2>2
<1> QED
  BY <1>1, <1>2, <1>3

(***************************************************************************)
(* The verdict of an audit is what the tensors, the configuration and the  *)
(* other rules' answers make of the adapter: wrong, sound or undecided.    *)
(***************************************************************************)
THEOREM VerdictCorrect == AuditSpec => []VerdictExact
<1>1. ASSUME AuditInv, reduction = "done" PROVE VerdictExact
  <2>1. /\ R!OutcomesOf(102) = Outcomes(PL102) /\ R!OutcomesOf(110) = Outcomes(PL110)
        /\ R!OutcomesOf(111) = Outcomes(PL111) /\ R!OutcomesOf(112) = Outcomes(PL112)
    BY <1>1, OutcomesGrouped, RuleOutcomes
  <2>2. \A rule : RP!OutcomesOf(rule) = R!OutcomesOf(rule)
    BY DEF R!OutcomesOf, RP!OutcomesOf
  <2>3. RP!Admissible /\ RP!Required = LoadRules
    BY <1>1, SubmittedAdmissible DEF AuditInv
  <2>4. "contradiction" \notin Outcomes(PL102)
    BY ContradictionCause DEF Outcomes
  <2>5. (\E rule \in LoadRules : "contradiction" \in RP!OutcomesOf(rule)) <=> DefinitelyWrong
    <3> DEFINE wrong(rule) == "contradiction" \in R!OutcomesOf(rule)
    <3>1. ~wrong(102)
      BY <2>1, <2>4
    <3>2. wrong(110) \/ wrong(111) \/ wrong(112)
            <=> "contradiction" \in Outcomes(PL110) \cup Outcomes(PL111) \cup Outcomes(PL112)
      BY <2>1
    <3>3. DefinitelyWrong
            <=> (\E rule \in Others : wrong(rule)) \/ wrong(110) \/ wrong(111) \/ wrong(112)
      BY <3>2, ContradictionExact DEF DefinitelyWrong
    <3>4. \A rule : "contradiction" \in RP!OutcomesOf(rule) <=> wrong(rule)
      BY <2>2
    <3> HIDE DEF wrong
    <3> QED
      BY <3>1, <3>3, <3>4 DEF LoadRules
  <2>6. \A found : Outcomes(found) = {"pass"} <=> Passes(found)
    BY DEF Outcomes, Passes
  <2>7. (\A rule \in LoadRules : RP!OutcomesOf(rule) = {"pass"}) <=> SoundAdapter /\ AllOthersPass
    BY <2>1, <2>2, <2>6, FourPassSound DEF LoadRules, FourPass, AllOthersPass
  <2>8. verdict = RP!VerdictOf
    BY <1>1, OutcomesGrouped
  <2> QED
    BY <2>3, <2>5, <2>7, <2>8 DEF RP!VerdictOf, VerdictExact
<1>2. AuditInv => VerdictExact
  BY <1>1 DEF VerdictExact
<1> QED
  BY <1>2, AuditCorrect, PTL
=============================================================================
