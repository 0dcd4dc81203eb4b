---------------------------- MODULE LoadReducer ----------------------------
(***************************************************************************)
(* summarize_load (evidence.py), loop by loop: results are checked in the  *)
(* caller's order, then taken in sort_key order, each entered under its    *)
(* rule unless its scope was already seen, and the four rule lists give    *)
(* the verdict.                                                            *)
(***************************************************************************)
EXTENDS LoadEvidence

VARIABLES
    phase,      \* "ruleset", "check", "group", "refused" or "done"
    pos,        \* the next result to check, an index of input
    todo,       \* indices of results not yet grouped
    ordered,    \* indices in the order of the `ordered` tuple
    seen,       \* seen_scopes
    byRule,     \* rule -> outcomes of its results; {} when not in by_rule
    verdict     \* Verdict, "none" before the end, "invalid" for the guard

vars == <<request, phase, pos, todo, ordered, seen, byRule, verdict>>

Init ==
    /\ audit \in Audit
    /\ ruleset \in Ruleset
    /\ input \in Inputs
    /\ phase = "ruleset"
    /\ pos = 1
    /\ todo = {}
    /\ ordered = <<>>
    /\ seen = {}
    /\ byRule = [rule \in Rule |-> {}]
    /\ verdict = "none"

Refuse ==
    /\ phase' = "refused"
    /\ UNCHANGED <<request, pos, todo, ordered, seen, byRule, verdict>>

UnregisteredRuleset ==
    /\ phase = "ruleset"
    /\ ~Registered
    /\ Refuse

FindRuleset ==
    /\ phase = "ruleset"
    /\ Registered
    /\ phase' = "check"
    /\ UNCHANGED <<request, pos, todo, ordered, seen, byRule, verdict>>

-----------------------------------------------------------------------------
(***************************************************************************)
(* The validation loop.  The four refusals differ only in their message.   *)
(***************************************************************************)
Checking == phase = "check" /\ pos <= Len(input)

CheckResult ==
    /\ Checking
    /\ Belongs(input[pos])
    /\ pos' = pos + 1
    /\ UNCHANGED <<request, phase, todo, ordered, seen, byRule, verdict>>

ForeignResult ==
    /\ Checking
    /\ ~Belongs(input[pos])
    /\ Refuse

SortResults ==
    /\ phase = "check"
    /\ pos > Len(input)
    /\ phase' = "group"
    /\ todo' = DOMAIN input
    /\ UNCHANGED <<request, pos, ordered, seen, byRule, verdict>>

-----------------------------------------------------------------------------
(***************************************************************************)
(* The grouping loop over sorted(..., key = sort_key), a stable sort: of   *)
(* two equal keys the earlier result comes first.                          *)
(***************************************************************************)
KeyLess(r, s) ==
    \/ r.rule < s.rule
    \/ r.rule = s.rule /\ r.artifact < s.artifact
    \/ r.rule = s.rule /\ r.artifact = s.artifact /\ r.path < s.path

\* Mutant: a sort key that stops at the rule.
ComesFirstByRule(i, j) ==
    \/ input[i].rule < input[j].rule
    \/ input[i].rule = input[j].rule /\ i <= j

ComesFirst(i, j) ==
    \/ KeyLess(input[i], input[j])
    \/ Scope(input[i]) = Scope(input[j]) /\ i <= j

NextByKey(i) ==
    /\ phase = "group"
    /\ i \in todo
    /\ \A j \in todo : ComesFirst(i, j)

\* Mutant: results overwrite one another under their rule.
GroupResultLast(i) ==
    /\ NextByKey(i)
    /\ Scope(input[i]) \notin seen
    /\ seen' = seen \cup {Scope(input[i])}
    /\ byRule' = [byRule EXCEPT ![input[i].rule] = {input[i].outcome}]
    /\ ordered' = Append(ordered, i)
    /\ todo' = todo \ {i}
    /\ UNCHANGED <<request, phase, pos, verdict>>

\* Mutant: the scope is recorded by rule and path, whatever the artifact.
GroupResultByPath(i) ==
    /\ NextByKey(i)
    /\ \A k \in seen : <<k[2], k[4]>> # <<input[i].rule, input[i].path>>
    /\ seen' = seen \cup {Scope(input[i])}
    /\ byRule' = [byRule EXCEPT ![input[i].rule] = @ \cup {input[i].outcome}]
    /\ ordered' = Append(ordered, i)
    /\ todo' = todo \ {i}
    /\ UNCHANGED <<request, phase, pos, verdict>>

GroupResult(i) ==
    /\ NextByKey(i)
    /\ Scope(input[i]) \notin seen
    /\ seen' = seen \cup {Scope(input[i])}
    /\ byRule' = [byRule EXCEPT ![input[i].rule] = @ \cup {input[i].outcome}]
    /\ ordered' = Append(ordered, i)
    /\ todo' = todo \ {i}
    /\ UNCHANGED <<request, phase, pos, verdict>>

DuplicateResult(i) ==
    /\ NextByKey(i)
    /\ Scope(input[i]) \in seen
    /\ Refuse

-----------------------------------------------------------------------------
Missing == {rule \in Required : byRule[rule] = {}}

Contradicting == {rule \in Required : "contradiction" \in byRule[rule]}

Unknown == {rule \in Required \ Contradicting : "unknown" \in byRule[rule]}

Passing == {rule \in Required \ Missing : byRule[rule] \subseteq {"pass"}}

Summarise ==
    /\ phase = "group"
    /\ todo = {}
    /\ phase' = "done"
    /\ verdict' = IF Contradicting # {} THEN "incompatible"
                  ELSE IF Missing \cup Unknown # {} THEN "unknown"
                  ELSE IF Passing = Required THEN "compatible"
                  ELSE "invalid"
    /\ UNCHANGED <<request, pos, todo, ordered, seen, byRule>>

Next ==
    \/ UnregisteredRuleset
    \/ FindRuleset
    \/ CheckResult
    \/ ForeignResult
    \/ SortResults
    \/ \E i \in DOMAIN input : GroupResult(i) \/ DuplicateResult(i)
    \/ Summarise

\* The call runs to its end: nothing else can hold it up.
Spec == Init /\ [][Next]_vars /\ WF_vars(Next)

-----------------------------------------------------------------------------
TypeOK ==
    /\ input \in Inputs
    /\ audit \in Audit /\ ruleset \in Ruleset
    /\ phase \in {"ruleset", "check", "group", "refused", "done"}
    /\ pos \in 1 .. Len(input) + 1
    /\ todo \subseteq DOMAIN input
    /\ ordered \in Seq(DOMAIN input)
    /\ byRule \in [Rule -> SUBSET Outcome]
    /\ verdict \in {"none", "incompatible", "unknown", "compatible", "invalid"}

(***************************************************************************)
(* What the loops have established: before grouping, the checked results   *)
(* belong to the request; during grouping, seen and byRule are exactly the *)
(* scopes and outcomes of the grouped results, whose scopes differ.        *)
(***************************************************************************)
Grouped == DOMAIN input \ todo

BeforeGrouping ==
    phase \in {"ruleset", "check"} =>
      /\ byRule = [rule \in Rule |-> {}]
      /\ seen = {}
      /\ \A i \in 1 .. pos - 1 : Belongs(input[i])

WhileGrouping ==
    phase \in {"group", "done"} =>
      /\ \A i \in DOMAIN input : Belongs(input[i])
      /\ seen = {Scope(input[i]) : i \in Grouped}
      /\ \A i, j \in Grouped : i # j => Scope(input[i]) # Scope(input[j])
      /\ \A rule \in Rule :
           byRule[rule] = {input[i].outcome :
                             i \in {j \in Grouped : input[j].rule = rule}}

LoopInv ==
    /\ phase \in {"check", "group", "done"} => Registered
    /\ phase = "done" => todo = {} /\ verdict = VerdictOf /\ Admissible
    /\ phase = "refused" => ~Admissible
    /\ BeforeGrouping
    /\ WhileGrouping

(***************************************************************************)
(* The summary carries its whole justification: each required rule is in   *)
(* at most one of the three lists, a rule in none of them has results and  *)
(* only passes, and the verdict is the one the lists imply, so a reader of *)
(* ProfileSummary never needs the results to trust it.                     *)
(***************************************************************************)
ReasonsComplete ==
    phase = "done" =>
      /\ Missing \cap Unknown = {}
      /\ Missing \cap Contradicting = {}
      /\ Unknown \cap Contradicting = {}
      /\ \A rule \in Required \ (Missing \cup Unknown \cup Contradicting) :
           OutcomesOf(rule) = {"pass"}
      /\ verdict = "compatible" <=> Missing \cup Unknown \cup Contradicting = {}
      /\ verdict = "incompatible" <=> Contradicting # {}

(***************************************************************************)
(* The results tuple of a summary holds every result exactly once, in      *)
(* strictly increasing scope order, whatever order the caller used.        *)
(***************************************************************************)
ResultsCanonical ==
    phase = "done" =>
      /\ {ordered[k] : k \in DOMAIN ordered} = DOMAIN input
      /\ \A k \in 1 .. Len(ordered) - 1 :
           KeyLess(input[ordered[k]], input[ordered[k + 1]])

(***************************************************************************)
(* Refinement: the whole call is one answer of the abstract specification, *)
(* so the order of the caller's results never changes it, a duplicate      *)
(* scope is always refused, and the defensive guard is never reached (its  *)
(* "invalid" is no abstract answer).                                       *)
(***************************************************************************)
AnswerSoFar ==
    IF phase = "refused" THEN "refused"
    ELSE IF phase = "done" THEN verdict
    ELSE "pending"

Abstract == INSTANCE LoadVerdict WITH answer <- AnswerSoFar

ImplementsVerdict == Abstract!Spec
=============================================================================
