---------------------------- MODULE LoadEvidence ----------------------------
(***************************************************************************)
(* Rule results and the question summarize_load answers about them         *)
(* (evidence.py): the values, and the declarative meaning of a verdict.    *)
(*                                                                         *)
(* Rule ids ("PL" and three digits), artifacts and logical paths are ranks *)
(* in code-point order.  Path 0 is the absent path: the sort key maps None *)
(* to "", which no path can be, since a blank logical_path is refused.     *)
(* Message, severity, witness, observed and expected never influence the   *)
(* reduction and are left out.                                             *)
(***************************************************************************)
EXTENDS Integers, Sequences

CONSTANTS
    Audit,          \* audit ids
    Ruleset,        \* ruleset names, registered or not
    RequiredRules,  \* registered ruleset -> its mandatory load rules
    Rule,           \* rule ids
    Artifact,       \* artifacts a result can be about
    Path,           \* logical paths, 0 when there is none
    Inputs          \* sequences of results a caller can pass

Profile == {"load", "hotswap"}
Outcome == {"pass", "contradiction", "unknown"}

Result == [audit : Audit, ruleset : Ruleset, profile : Profile, rule : Rule,
           artifact : Artifact, path : Path, outcome : Outcome]

ASSUME RequiredAssumption ==
    /\ DOMAIN RequiredRules \subseteq Ruleset
    /\ \A s \in DOMAIN RequiredRules : RequiredRules[s] \subseteq Rule
ASSUME RankAssumption ==
    Rule \subseteq Nat /\ Artifact \subseteq Nat /\ Path \subseteq Nat
ASSUME InputsAssumption == Inputs \subseteq Seq(Result)

VARIABLES
    audit,      \* the audit the call summarises
    ruleset,    \* the ruleset the call names
    input       \* the caller's results, in the caller's order

request == <<audit, ruleset, input>>

Registered == ruleset \in DOMAIN RequiredRules

\* Evaluated only for a registered ruleset.
Required == RequiredRules[ruleset]

\* A result of another audit, ruleset or profile is refused, not filtered.
Belongs(r) ==
    /\ r.audit = audit
    /\ r.ruleset = ruleset
    /\ r.profile = "load"
    /\ r.rule \in Required

Scope(r) == <<r.profile, r.rule, r.artifact, r.path>>

-----------------------------------------------------------------------------
OutcomesOf(rule) ==
    {input[i].outcome : i \in {j \in DOMAIN input : input[j].rule = rule}}

Admissible ==
    /\ Registered
    /\ \A i \in DOMAIN input : Belongs(input[i])
    /\ \A i, j \in DOMAIN input : i # j => Scope(input[i]) # Scope(input[j])

(***************************************************************************)
(* The verdict as a function of the set of results: one contradiction      *)
(* decides; compatibility needs an explicit pass of every required rule.   *)
(***************************************************************************)
VerdictOf ==
    IF ~Admissible THEN "refused"
    ELSE IF \E rule \in Required : "contradiction" \in OutcomesOf(rule)
         THEN "incompatible"
    ELSE IF \A rule \in Required : OutcomesOf(rule) = {"pass"}
         THEN "compatible"
    ELSE "unknown"
=============================================================================
