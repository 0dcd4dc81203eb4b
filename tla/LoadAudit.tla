----------------------------- MODULE LoadAudit -----------------------------
(***************************************************************************)
(* A load audit: the results of evaluate_lora_inventory                    *)
(* (lora_evaluation.py) together with those of rules evaluated elsewhere,  *)
(* reduced by summarize_load (evidence.py).  The caller that brings them   *)
(* together is not in the repository; it passes every result on.           *)
(***************************************************************************)
EXTENDS LoraEvaluation

CONSTANTS
    Others,     \* required rules that the inventory does not decide
    PathOf      \* scope -> rank of its logical path, 0 for none

Scopes == {NoScope} \cup {TensorScope(n) : n \in Name} \cup {TargetScope(TargetOf[n]) : n \in Classified}

ASSUME OthersAssumption ==
    Others \subseteq Nat \ {102, 110, 111, 112} /\ IsFiniteSet(Others)

\* evidence_path and logical_path tell all scopes apart.
ASSUME PathAssumption ==
    /\ PathOf \in [Scopes -> Nat]
    /\ \A s, t \in Scopes : PathOf[s] = PathOf[t] => s = t
    /\ PathOf[NoScope] = 0

VARIABLES audit, ruleset, input, reduction, pos, todo, ordered, seen, byRule, verdict

evaluating == <<tensors, config, phase, results>>
loops == <<pos, todo, ordered, seen, byRule, verdict>>
reducing == <<audit, ruleset, input, reduction, loops>>

Number == [PL102 |-> 102, PL110 |-> 110, PL111 |-> 111, PL112 |-> 112]

LoadRules == {102, 110, 111, 112} \cup Others

Paths == {PathOf[s] : s \in Scopes}

Findings ==
    [audit : {"audit"}, ruleset : {"lora-v1"}, profile : {"load"}, rule : LoadRules,
     artifact : {1}, path : Paths, outcome : {"pass", "unknown", "contradiction"}]

R == INSTANCE LoadReducer WITH
       phase <- reduction,
       Audit <- {"audit"}, Ruleset <- {"lora-v1"},
       RequiredRules <- [s \in {"lora-v1"} |-> LoadRules],
       Rule <- LoadRules, Artifact <- {1}, Path <- Paths,
       Inputs <- Seq(Findings)

RuleResult(rule, path, outcome) ==
    [audit |-> "audit", ruleset |-> "lora-v1", profile |-> "load", rule |-> rule,
     artifact |-> 1, path |-> path, outcome |-> outcome]

\* The tuple evaluate_lora_inventory returns, in sort_key order.
Evaluated == {RuleResult(Number[f.rule], PathOf[f.on], f.outcome) : f \in results}

InOrder(found) ==
    [k \in 1 .. Cardinality(found) |->
       CHOOSE f \in found : Cardinality({g \in found : R!KeyLess(g, f)}) = k - 1]

\* One result for some of the other rules.
OtherResults ==
    UNION {[answered -> R!Outcome] : answered \in SUBSET Others}

Elsewhere(outcomes) == {RuleResult(rule, 0, outcomes[rule]) : rule \in DOMAIN outcomes}

-----------------------------------------------------------------------------
AuditInit ==
    /\ Init
    /\ audit = "audit" /\ ruleset = "lora-v1"
    /\ input = <<>>
    /\ reduction = "idle"
    /\ pos = 1 /\ todo = {} /\ ordered = <<>> /\ seen = {}
    /\ byRule = [rule \in LoadRules |-> {}]
    /\ verdict = "none"

EvaluateInventory == Next /\ UNCHANGED reducing

Submit ==
    /\ phase = "done"
    /\ reduction = "idle"
    /\ \E outcomes \in OtherResults :
         input' = InOrder(Elsewhere(outcomes)) \o InOrder(Evaluated)
    /\ reduction' = "ruleset"
    /\ UNCHANGED <<evaluating, audit, ruleset, loops>>

SummarizeLoad == R!Next /\ UNCHANGED evaluating

AuditNext == EvaluateInventory \/ Submit \/ SummarizeLoad

AuditSpec == AuditInit /\ [][AuditNext]_<<evaluating, reducing>> /\ WF_<<evaluating, reducing>>(AuditNext)

-----------------------------------------------------------------------------
(***************************************************************************)
(* The reducer never refuses what the evaluator gives it, for any          *)
(* inventory, configuration and answers of the other rules: the scopes of  *)
(* both sides are the same scopes.                                         *)
(***************************************************************************)
AuditNeverRefuses == phase # "duplicate" /\ reduction # "refused"

(***************************************************************************)
(* The evaluator answers every rule it implements, also for an empty or    *)
(* unclassified artifact: only rules evaluated elsewhere can be missing.   *)
(***************************************************************************)
RulesAnswered == reduction = "done" => R!Missing \subseteq Others

(***************************************************************************)
(* What the verdict says of the adapter.  Compatible: it is sound and      *)
(* every other rule passed.  Incompatible: another rule found a            *)
(* contradiction, or the profile is closed and a tensor without extension  *)
(* fields has no partner, or a pair is definitely wrong.  Unknown          *)
(* otherwise: neither is ever claimed for lack of evidence.                *)
(***************************************************************************)
AllOthersPass == \A rule \in Others : R!OutcomesOf(rule) = {"pass"}

DefinitelyWrong ==
    \/ \E rule \in Others : "contradiction" \in R!OutcomesOf(rule)
    \/ /\ config.closed
       /\ (\E n \in Recognised \ Extended : Alone(n)) \/ \E p \in PairsOf : DefinitePair(p)

VerdictExact ==
    reduction = "done" =>
      verdict = IF DefinitelyWrong THEN "incompatible"
                ELSE IF SoundAdapter /\ AllOthersPass THEN "compatible"
                ELSE "unknown"
=============================================================================
