--------------------------- MODULE LoraEvaluation ---------------------------
(***************************************************************************)
(* evaluate_lora_inventory (lora_evaluation.py): the four evaluators in    *)
(* order, then the check that no two results share an evidence scope.  The *)
(* inventory is the one LoraRelations specifies.                           *)
(*                                                                         *)
(* A configuration is what the evaluators read of AdapterConfigManifest:   *)
(* closed_profile (which implies lora is not None), r, and whether         *)
(* rank_pattern and modules_to_save are nonempty.  A result keeps its      *)
(* rule, its scope `on` (artifact and audit are the same for all), its     *)
(* outcome, and what it is `of`, so that two results with the same scope   *)
(* stay two elements of the set.                                           *)
(***************************************************************************)
EXTENDS LoraTensors

CONSTANT Rank       \* values of the configured r

ASSUME RankAssumption == Rank \subseteq Nat \ {0}

VARIABLES
    config,     \* the configuration facts
    phase,      \* the evaluator to run next, "collect", "done" or "duplicate"
    results     \* the results so far

vars == <<tensors, config, phase, results>>

Config == [closed : BOOLEAN, r : Rank, patterned : BOOLEAN, saves : BOOLEAN]

Rules == {"PL102", "PL110", "PL111", "PL112"}

Finding(rule, on, outcome, of) ==
    [rule |-> rule, on |-> on, outcome |-> outcome, of |-> of]

Globally(rule, outcome) == {Finding(rule, NoScope, outcome, <<"rule">>)}

\* Mutant: an evaluator without findings says nothing.
OrNothing(rule, found) == found

\* An evaluator without pair or orphan findings passes vacuously.
OrVacuousPass(rule, found) ==
    IF found = {} THEN Globally(rule, "pass") ELSE found

OfPair(rule, p, outcome) ==
    Finding(rule, TensorScope(p.a), outcome, <<"pair", p>>)

Orphans == {n \in Present : Issue("orphan_member", TensorScope(n)) \in IssuesOf}

\* Mutant: an orphan reported on its target.
OfOrphanTarget(rule, n, outcome) ==
    Finding(rule, TargetScope(TargetOf[n]), outcome, <<"orphan", n>>)

OfOrphan(rule, n, outcome) ==
    Finding(rule, TensorScope(n), outcome, <<"orphan", n>>)

ExtendedPair(p) == p.a \in Extended \/ p.b \in Extended

-----------------------------------------------------------------------------
(***************************************************************************)
(* PL102, inventory closure: one unknown result per scope with a reason.   *)
(***************************************************************************)
ClosureIssues == {"empty_inventory", "unclassified_tensor",
                  "unknown_tensor_fields", "mixed_pair_kind",
                  "unmodeled_weight_orientation"}

\* Mutant: modules_to_save taken for a closed inventory.
OpenScopesIgnoringSaves ==
    {i.on : i \in {j \in IssuesOf : j.kind \in ClosureIssues}}
    \cup (IF ~config.closed THEN {NoScope} ELSE {})

OpenScopes ==
    {i.on : i \in {j \in IssuesOf : j.kind \in ClosureIssues}}
    \cup (IF ~config.closed \/ config.saves THEN {NoScope} ELSE {})

PL102 ==
    IF OpenScopes = {} THEN Globally("PL102", "pass")
    ELSE {Finding("PL102", s, "unknown", <<"scope", s>>) : s \in OpenScopes}

\* Mutant: an orphan with extension fields is still a contradiction.
PL110IgnoringExtensions ==
    IF ~config.closed THEN Globally("PL110", "unknown")
    ELSE OrVacuousPass("PL110",
           {OfOrphan("PL110", n, "contradiction") : n \in Orphans}
           \cup {OfPair("PL110", p, IF ExtendedPair(p) THEN "unknown" ELSE "pass") :
                   p \in PairsOf})

(***************************************************************************)
(* PL110, pair completeness.                                               *)
(***************************************************************************)
PL110 ==
    IF ~config.closed THEN Globally("PL110", "unknown")
    ELSE OrVacuousPass("PL110",
           {OfOrphan("PL110", n, IF n \in Extended THEN "unknown" ELSE "contradiction") :
              n \in Orphans}
           \cup {OfPair("PL110", p, IF ExtendedPair(p) THEN "unknown" ELSE "pass") :
                   p \in PairsOf})

(***************************************************************************)
(* PL111, pair dimensions: A is [rank, width], B is [width, rank].         *)
(***************************************************************************)
ShapeA(p) == tensors[p.a].shape
ShapeB(p) == tensors[p.b].shape

RankTwo(p) == Len(ShapeA(p)) = 2 /\ Len(ShapeB(p)) = 2

Positive(p) == \A i \in 1 .. 2 : ShapeA(p)[i] # 0 /\ ShapeB(p)[i] # 0

RanksAgree(p) == ShapeA(p)[1] = ShapeB(p)[2]

MaybeConvolution(p) ==
    KindOf(RoleOf[p.a]) = "weight" /\ (HighRank(p.a) \/ HighRank(p.b))

DimensionOutcome(p) ==
    IF ExtendedPair(p) \/ MaybeConvolution(p) THEN "unknown"
    ELSE IF RankTwo(p) /\ Positive(p) /\ RanksAgree(p) THEN "pass"
    ELSE "contradiction"

PL111 ==
    IF ~config.closed THEN Globally("PL111", "unknown")
    ELSE OrVacuousPass("PL111",
           {OfPair("PL111", p, DimensionOutcome(p)) : p \in PairsOf}
           \cup {OfOrphan("PL111", n, "unknown") : n \in Orphans})

(***************************************************************************)
(* PL112, configured rank; _proved_rank repeats the dimension checks.      *)
(***************************************************************************)
\* Mutant: the repeated checks forget the zero dimensions.
ProvesRankUnlessZero(p) == ~ExtendedPair(p) /\ RankTwo(p) /\ RanksAgree(p)

ProvesRank(p) == ~ExtendedPair(p) /\ RankTwo(p) /\ Positive(p) /\ RanksAgree(p)

RankOutcome(p) ==
    IF ~ProvesRank(p) THEN "unknown"
    ELSE IF ShapeA(p)[1] = config.r THEN "pass"
    ELSE "contradiction"

Unexecuted ==
    {OfPair("PL112", p, "unknown") : p \in PairsOf}
    \cup {OfOrphan("PL112", n, "unknown") : n \in Orphans}

PL112 ==
    IF ~config.closed THEN Globally("PL112", "unknown")
    ELSE IF config.patterned
    THEN IF Unexecuted = {} THEN Globally("PL112", "unknown") ELSE Unexecuted
    ELSE OrVacuousPass("PL112",
           {OfPair("PL112", p, RankOutcome(p)) : p \in PairsOf}
           \cup {OfOrphan("PL112", n, "unknown") : n \in Orphans})

-----------------------------------------------------------------------------
Init ==
    /\ tensors \in Manifests
    /\ config \in Config
    /\ phase = "PL102"
    /\ results = {}

Evaluate(rule, found, next) ==
    /\ phase = rule
    /\ results' = results \cup found
    /\ phase' = next
    /\ UNCHANGED <<tensors, config>>

EvaluatePL102 == Evaluate("PL102", PL102, "PL110")
EvaluatePL110 == Evaluate("PL110", PL110, "PL111")
EvaluatePL111 == Evaluate("PL111", PL111, "PL112")
EvaluatePL112 == Evaluate("PL112", PL112, "collect")

ScopesUnique ==
    \A f, g \in results : f.rule = g.rule /\ f.on = g.on => f = g

Collect ==
    /\ phase = "collect"
    /\ phase' = IF ScopesUnique THEN "done" ELSE "duplicate"
    /\ UNCHANGED <<tensors, config, results>>

Next ==
    \/ EvaluatePL102
    \/ EvaluatePL110
    \/ EvaluatePL111
    \/ EvaluatePL112
    \/ Collect

\* The call runs to its end: nothing else can hold it up.
Spec == Init /\ [][Next]_vars /\ WF_vars(Next)

-----------------------------------------------------------------------------
TypeOK ==
    /\ tensors \in Manifests
    /\ config \in Config
    /\ phase \in Rules \cup {"collect", "done", "duplicate"}
    /\ \A f \in results : f.rule \in Rules
                          /\ f.outcome \in {"pass", "unknown", "contradiction"}

(***************************************************************************)
(* The evaluator never raises its duplicate-scope error: a pair reports on *)
(* its A member and an orphan on itself, and no tensor is both, or the A   *)
(* of two pairs.                                                           *)
(***************************************************************************)
EvaluationNeverRefuses == phase # "duplicate"

Found(rule) == {f \in results : f.rule = rule}

(***************************************************************************)
(* The rules stay consistent scope by scope: PL112 decides only where      *)
(* PL111 passes, and PL111 only where PL110 passes, so a rank verdict can  *)
(* never rest on a pair whose dimensions or completeness are in doubt.     *)
(***************************************************************************)
DecisionsRest ==
    phase = "done" =>
      /\ \A f \in Found("PL112") : f.outcome # "unknown" =>
           \E g \in Found("PL111") : g.on = f.on /\ g.outcome = "pass"
      /\ \A f \in Found("PL111") : f.outcome # "unknown" =>
           \E g \in Found("PL110") : g.on = f.on /\ g.outcome = "pass"

(***************************************************************************)
(* What four passing rules mean: the artifact is nonempty, the profile is  *)
(* closed, and every tensor belongs to exactly one pair, of one kind per   *)
(* target, with positive rank-two shapes whose inner rank is the           *)
(* configured one.  No vacuous pass, missing result or unread field can    *)
(* stand in for any of it.                                                 *)
(***************************************************************************)
AllPass ==
    \A rule \in Rules : Found(rule) # {} /\ \A f \in Found(rule) : f.outcome = "pass"

SoundAdapter ==
    /\ config.closed /\ ~config.patterned /\ ~config.saves
    /\ Present # {} /\ Present = Recognised /\ Extended = {} /\ MixedTargets = {}
    /\ \A n \in Present : \E p \in PairsOf : n \in {p.a, p.b}
    /\ \A p \in PairsOf :
         /\ RankTwo(p) /\ Positive(p)
         /\ ShapeA(p)[1] = config.r /\ ShapeB(p)[2] = config.r

PassMeansSound == phase = "done" => (AllPass <=> SoundAdapter)

(***************************************************************************)
(* Fail closed: a contradiction needs a closed profile and a tensor fact   *)
(* that no missing evidence could repair, an unextended orphan or an       *)
(* unextended pair with wrong dimensions or another rank; and without a    *)
(* closed profile nothing at all is decided.                               *)
(***************************************************************************)
DefinitePair(p) ==
    /\ ~ExtendedPair(p)
    /\ ~MaybeConvolution(p)
    /\ \/ ~RankTwo(p)
       \/ ~(Positive(p) /\ RanksAgree(p))
       \/ ~config.patterned /\ ShapeA(p)[1] # config.r

FailsClosed ==
    phase = "done" =>
      /\ (\E f \in results : f.outcome = "contradiction") =>
           /\ config.closed
           /\ (\E n \in Recognised \ Extended : Alone(n)) \/ \E p \in PairsOf : DefinitePair(p)
      /\ ~config.closed => \A f \in results : f.outcome = "unknown"
=============================================================================
