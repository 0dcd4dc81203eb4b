------------------------- MODULE LoadReducerProofs -------------------------
(***************************************************************************)
(* Proofs about LoadReducer for any sets of rules, rulesets, artifacts and *)
(* paths, and input sequences of any length.                               *)
(***************************************************************************)
EXTENDS LoadReducer, TLAPS

(***************************************************************************)
(* What the assumptions say of one result of the input.                    *)
(***************************************************************************)
LEMMA InputFields ==
  ASSUME input \in Inputs
  PROVE  /\ input \in Seq(Result)
         /\ DOMAIN input = 1 .. Len(input)
         /\ Len(input) \in Nat
         /\ \A i \in DOMAIN input :
              input[i].rule \in Rule /\ input[i].outcome \in Outcome
<1>1. input \in Seq(Result)
  BY InputsAssumption
<1>2. \A i \in 1 .. Len(input) : input[i] \in Result
  BY <1>1
<1> QED
  BY <1>1, <1>2 DEF Result

LEMMA RequiredAreRules ==
  ASSUME Registered
  PROVE  Required \subseteq Rule
  BY RequiredAssumption DEF Registered, Required

LEMMA TypeInit == ASSUME Init PROVE TypeOK
<1>1. Len(input) \in Nat
  BY InputFields DEF Init
<1> QED
  BY <1>1 DEF Init, TypeOK

LEMMA TypeStep ==
  ASSUME TypeOK, [Next]_vars
  PROVE  TypeOK'
<1>1. /\ DOMAIN input = 1 .. Len(input) /\ Len(input) \in Nat
      /\ \A i \in DOMAIN input :
           input[i].rule \in Rule /\ input[i].outcome \in Outcome
  BY InputFields DEF TypeOK
<1>2. CASE Refuse
  BY <1>2 DEF Refuse, TypeOK, request
<1>3. CASE FindRuleset
  BY <1>3 DEF FindRuleset, TypeOK, request
<1>4. CASE CheckResult
  BY <1>1, <1>4 DEF CheckResult, Checking, TypeOK, request
<1>5. CASE SortResults
  BY <1>5 DEF SortResults, TypeOK, request
<1>6. ASSUME NEW i \in DOMAIN input, GroupResult(i) PROVE TypeOK'
  <2>1. byRule' \in [Rule -> SUBSET Outcome]
    BY <1>1, <1>6 DEF GroupResult, TypeOK
  <2>2. ordered' \in Seq(DOMAIN input)
    BY <1>6 DEF GroupResult, TypeOK
  <2> QED
    BY <1>6, <2>1, <2>2 DEF GroupResult, TypeOK, request
<1>7. CASE Summarise
  BY <1>7 DEF Summarise, TypeOK, request
<1>8. CASE UNCHANGED vars
  BY <1>8 DEF vars, request, TypeOK
<1> QED
  BY <1>2, <1>3, <1>4, <1>5, <1>6, <1>7, <1>8
     DEF Next, UnregisteredRuleset, ForeignResult, DuplicateResult

(***************************************************************************)
(* Type correctness.                                                       *)
(***************************************************************************)
THEOREM TypeCorrect == Spec => []TypeOK
<1>1. Init => TypeOK
  BY TypeInit
<1>2. TypeOK /\ [Next]_vars => TypeOK'
  BY TypeStep
<1> QED
  BY <1>1, <1>2, PTL DEF Spec

-----------------------------------------------------------------------------
\* The request is fixed for the whole call.
LEMMA RequestFixed ==
  ASSUME [Next]_vars
  PROVE  audit' = audit /\ ruleset' = ruleset /\ input' = input
  BY DEF Next, vars, request, UnregisteredRuleset, FindRuleset, CheckResult,
     ForeignResult, SortResults, GroupResult, DuplicateResult, Summarise, Refuse

(***************************************************************************)
(* A refusal always has a cause in the request.                            *)
(***************************************************************************)
LEMMA RefusalHasCause ==
  ASSUME TypeOK, LoopInv,
         UnregisteredRuleset \/ ForeignResult
           \/ \E i \in DOMAIN input : DuplicateResult(i)
  PROVE  ~Admissible
<1>1. CASE UnregisteredRuleset
  BY <1>1 DEF UnregisteredRuleset, Admissible
<1>2. CASE ForeignResult
  <2>1. pos \in DOMAIN input
    BY <1>2, InputFields DEF ForeignResult, Checking, TypeOK
  <2> QED
    BY <1>2, <2>1 DEF ForeignResult, Admissible
<1>3. ASSUME NEW i \in DOMAIN input, DuplicateResult(i) PROVE ~Admissible
  <2>1. i \in todo /\ phase = "group" /\ Scope(input[i]) \in seen
    BY <1>3 DEF DuplicateResult, NextByKey
  <2>2. PICK j \in Grouped : Scope(input[j]) = Scope(input[i])
    BY <2>1 DEF LoopInv, WhileGrouping
  <2> QED
    BY <2>1, <2>2 DEF Grouped, Admissible
<1> QED
  BY <1>1, <1>2, <1>3

(***************************************************************************)
(* Once every result is grouped, the lists give the declarative verdict.   *)
(***************************************************************************)
LEMMA GroupedOutcomes ==
  ASSUME TypeOK, LoopInv, phase \in {"group", "done"}, todo = {}
  PROVE  /\ \A rule \in Required : byRule[rule] = OutcomesOf(rule)
         /\ Admissible
<1>1. Grouped = DOMAIN input /\ Registered
  BY DEF Grouped, LoopInv
<1>2. Required \subseteq Rule
  BY <1>1, RequiredAreRules
<1> QED
  BY <1>1, <1>2 DEF LoopInv, WhileGrouping, OutcomesOf, Admissible

LEMMA SummaryIsVerdict ==
  ASSUME TypeOK, LoopInv, Summarise
  PROVE  verdict' = VerdictOf /\ Admissible
<1>1. /\ \A rule \in Required : byRule[rule] = OutcomesOf(rule)
      /\ Admissible
  BY GroupedOutcomes DEF Summarise
<1>2. \A rule \in Required : byRule[rule] \subseteq {"pass", "contradiction", "unknown"}
  BY <1>1, RequiredAreRules DEF TypeOK, Admissible, Outcome
<1>3. CASE Contradicting # {}
  BY <1>1, <1>3 DEF Contradicting, Summarise, VerdictOf
<1>4. CASE Contradicting = {} /\ Missing \cup Unknown # {}
  <2>1. PICK rule \in Required : byRule[rule] # {"pass"}
    BY <1>4 DEF Missing, Unknown
  <2> QED
    BY <1>1, <1>4, <2>1 DEF Contradicting, Summarise, VerdictOf
<1>5. CASE Contradicting = {} /\ Missing \cup Unknown = {}
  <2>1. \A rule \in Required : byRule[rule] = {"pass"}
    BY <1>2, <1>5 DEF Contradicting, Missing, Unknown
  <2>2. Passing = Required
    BY <2>1 DEF Passing, Missing
  <2> QED
    BY <1>1, <1>5, <2>1, <2>2 DEF Contradicting, Summarise, VerdictOf
<1> QED
  BY <1>3, <1>4, <1>5

(***************************************************************************)
(* LoopInv is inductive.                                                   *)
(***************************************************************************)
LEMMA LoopInit == Init => LoopInv
<1> SUFFICES ASSUME Init PROVE LoopInv
  OBVIOUS
<1>1. 1 .. pos - 1 = {} /\ phase = "ruleset"
  BY DEF Init
<1> QED
  BY <1>1 DEF Init, LoopInv, BeforeGrouping, WhileGrouping

LEMMA LoopStep ==
  ASSUME TypeOK, LoopInv, [Next]_vars
  PROVE  LoopInv'
<1>1. audit' = audit /\ ruleset' = ruleset /\ input' = input
  BY RequestFixed
<1>2. /\ DOMAIN input = 1 .. Len(input) /\ Len(input) \in Nat
      /\ \A i \in DOMAIN input : input[i].rule \in Rule
  BY InputFields DEF TypeOK
<1>3. /\ Registered' = Registered /\ Admissible' = Admissible
      /\ VerdictOf' = VerdictOf
      /\ \A i : Belongs(input[i])' = Belongs(input[i])
      /\ \A i : Scope(input[i])' = Scope(input[i])
  BY <1>1 DEF Registered, Admissible, VerdictOf, OutcomesOf, Required, Belongs,
              Scope
<1>4. CASE UnregisteredRuleset \/ ForeignResult
             \/ \E i \in DOMAIN input : DuplicateResult(i)
  <2>1. phase' = "refused"
    BY <1>4 DEF UnregisteredRuleset, ForeignResult, DuplicateResult, Refuse
  <2> QED
    BY <1>3, <1>4, <2>1, RefusalHasCause DEF LoopInv, BeforeGrouping, WhileGrouping
<1>5. CASE FindRuleset
  BY <1>1, <1>3, <1>5 DEF FindRuleset, LoopInv, BeforeGrouping, WhileGrouping
<1>6. CASE CheckResult
  <2>1. \A i \in 1 .. pos' - 1 : Belongs(input[i])
    <3>1. \A i \in 1 .. pos' - 1 : i \in 1 .. pos - 1 \/ i = pos
      BY <1>6 DEF CheckResult, TypeOK
    <3> QED
      BY <1>6, <3>1 DEF CheckResult, Checking, LoopInv, BeforeGrouping
  <2> QED
    BY <1>1, <1>3, <1>6, <2>1
       DEF CheckResult, Checking, LoopInv, BeforeGrouping, WhileGrouping
<1>7. CASE SortResults
  <2>1. \A i \in DOMAIN input : Belongs(input[i])
    BY <1>2, <1>7 DEF SortResults, TypeOK, LoopInv, BeforeGrouping
  <2>2. Grouped' = {} /\ seen' = {} /\ byRule' = [rule \in Rule |-> {}]
    BY <1>1, <1>7 DEF SortResults, Grouped, LoopInv, BeforeGrouping
  <2> QED
    BY <1>1, <1>3, <1>7, <2>1, <2>2
       DEF SortResults, LoopInv, BeforeGrouping, WhileGrouping
<1>8. ASSUME NEW i \in DOMAIN input, GroupResult(i) PROVE LoopInv'
  <2>1. /\ phase = "group" /\ phase' = "group" /\ i \in todo
        /\ Scope(input[i]) \notin seen
        /\ seen' = seen \cup {Scope(input[i])}
        /\ byRule' = [byRule EXCEPT ![input[i].rule] = @ \cup {input[i].outcome}]
    BY <1>8 DEF GroupResult, NextByKey
  <2>2. Grouped' = Grouped \cup {i}
    BY <1>1, <1>8 DEF GroupResult, Grouped
  <2>3. seen' = {Scope(input[j]) : j \in Grouped'}
    BY <2>1, <2>2 DEF LoopInv, WhileGrouping
  <2>4. \A j, k \in Grouped' : j # k => Scope(input[j]) # Scope(input[k])
    BY <2>1, <2>2 DEF LoopInv, WhileGrouping
  <2>5. ASSUME NEW rule \in Rule
        PROVE  byRule'[rule] = {input[j].outcome :
                                  j \in {k \in Grouped' : input[k].rule = rule}}
    <3>1. byRule[rule] = {input[j].outcome :
                            j \in {k \in Grouped : input[k].rule = rule}}
      BY <2>1 DEF LoopInv, WhileGrouping
    <3>2. CASE input[i].rule = rule
      <4>1. byRule'[rule] = byRule[rule] \cup {input[i].outcome}
        BY <2>1, <3>2 DEF TypeOK
      <4> QED
        BY <2>2, <3>1, <3>2, <4>1
    <3>3. CASE input[i].rule # rule
      <4>1. byRule'[rule] = byRule[rule]
        BY <2>1, <3>3 DEF TypeOK
      <4> QED
        BY <2>2, <3>1, <3>3, <4>1
    <3> QED
      BY <3>2, <3>3
  <2> QED
    BY <1>1, <1>3, <2>1, <2>3, <2>4, <2>5
       DEF LoopInv, BeforeGrouping, WhileGrouping
<1>9. CASE Summarise
  <2>1. verdict' = VerdictOf /\ Admissible
    BY <1>9, SummaryIsVerdict
  <2>2. /\ phase = "group" /\ phase' = "done" /\ todo' = {} /\ todo' = todo
        /\ seen' = seen /\ byRule' = byRule /\ Grouped' = Grouped
    BY <1>1, <1>9 DEF Summarise, Grouped
  <2> QED
    BY <1>1, <1>3, <2>1, <2>2 DEF LoopInv, BeforeGrouping, WhileGrouping
<1>10. CASE UNCHANGED vars
  BY <1>1, <1>3, <1>10 DEF vars, LoopInv, BeforeGrouping, WhileGrouping, Grouped
<1> QED
  BY <1>4, <1>5, <1>6, <1>7, <1>8, <1>9, <1>10 DEF Next

(***************************************************************************)
(* The loop invariant holds in every call.                                 *)
(***************************************************************************)
THEOREM LoopCorrect == Spec => []LoopInv
<1>1. TypeOK /\ LoopInv /\ [Next]_vars => LoopInv'
  BY LoopStep
<1> QED
  BY TypeCorrect, LoopInit, <1>1, PTL DEF Spec

(***************************************************************************)
(* The lists of a finished summary justify its verdict.                    *)
(***************************************************************************)
THEOREM ReasonsJustify == Spec => []ReasonsComplete
<1>1. TypeOK /\ LoopInv => ReasonsComplete
  <2> SUFFICES ASSUME TypeOK, LoopInv, phase = "done" PROVE ReasonsComplete
    BY DEF ReasonsComplete
  <2>1. /\ \A rule \in Required : byRule[rule] = OutcomesOf(rule)
        /\ Admissible
    BY GroupedOutcomes DEF LoopInv
  <2>2. \A rule \in Required :
          byRule[rule] \subseteq {"pass", "contradiction", "unknown"}
    BY <2>1, RequiredAreRules DEF TypeOK, Admissible, Outcome
  <2>3. verdict = VerdictOf
    BY DEF LoopInv
  <2>4. \A rule \in Required \ (Missing \cup Unknown \cup Contradicting) :
          OutcomesOf(rule) = {"pass"}
    BY <2>1, <2>2 DEF Missing, Unknown, Contradicting
  <2>5. verdict = "incompatible" <=> Contradicting # {}
    BY <2>1, <2>3 DEF VerdictOf, Contradicting
  <2>6. verdict = "compatible" <=> Missing \cup Unknown \cup Contradicting = {}
    <3>1. ASSUME Missing \cup Unknown \cup Contradicting = {}
          PROVE  verdict = "compatible"
      BY <2>1, <2>3, <2>4, <3>1 DEF VerdictOf, Contradicting
    <3>2. ASSUME verdict = "compatible"
          PROVE  Missing \cup Unknown \cup Contradicting = {}
      <4>1. \A rule \in Required : byRule[rule] = {"pass"}
        BY <2>1, <2>3, <3>2 DEF VerdictOf
      <4> QED
        BY <4>1 DEF Missing, Unknown, Contradicting
    <3> QED
      BY <3>1, <3>2
  <2> QED
    BY <2>4, <2>5, <2>6 DEF ReasonsComplete, Missing, Unknown, Contradicting
<1> QED
  BY TypeCorrect, LoopCorrect, <1>1, PTL

(***************************************************************************)
(* Refinement: every step is a stutter of LoadVerdict or its one answer.   *)
(***************************************************************************)
THEOREM RefinesVerdict ==
  Spec => Abstract!Init /\ [][Abstract!Answer]_(Abstract!vars)
<1>1. Init => Abstract!Init
  BY DEF Init, Abstract!Init, AnswerSoFar
<1>2. TypeOK /\ LoopInv /\ LoopInv' /\ [Next]_vars
        => [Abstract!Answer]_(Abstract!vars)
  <2> SUFFICES ASSUME TypeOK, LoopInv, LoopInv', [Next]_vars
               PROVE  [Abstract!Answer]_(Abstract!vars)
    OBVIOUS
  <2>1. audit' = audit /\ ruleset' = ruleset /\ input' = input
    BY RequestFixed
  <2>2. Abstract!VerdictOf = VerdictOf
    BY DEF Abstract!VerdictOf, VerdictOf, Abstract!Admissible, Admissible,
       Abstract!Required, Required, Abstract!OutcomesOf, OutcomesOf,
       Abstract!Registered, Registered, Abstract!Belongs, Belongs,
       Abstract!Scope, Scope
  <2>3. VerdictOf' = VerdictOf /\ (~Admissible => VerdictOf = "refused")
    BY <2>1 DEF VerdictOf, Admissible, OutcomesOf, Required, Registered,
                Belongs, Scope
  <2>4. ASSUME phase \in {"ruleset", "check", "group"},
               phase' \in {"refused", "done"}
        PROVE  Abstract!Answer
    <3>1. AnswerSoFar = "pending" /\ AnswerSoFar' = VerdictOf
      <4>1. CASE phase' = "refused"
        <5>1. ~Admissible
          BY <2>1, <4>1 DEF LoopInv, Admissible, Registered, Belongs, Required,
                            Scope
        <5> QED
          BY <2>3, <2>4, <4>1, <5>1 DEF AnswerSoFar
      <4>2. CASE phase' = "done"
        BY <2>3, <2>4, <4>2 DEF AnswerSoFar, LoopInv
      <4> QED
        BY <2>4, <4>1, <4>2
    <3> QED
      BY <2>1, <2>2, <3>1 DEF Abstract!Answer, Abstract!request
  <2>5. ASSUME phase \in {"ruleset", "check", "group"},
               phase' \in {"ruleset", "check", "group"}
        PROVE  UNCHANGED Abstract!vars
    BY <2>1, <2>5 DEF Abstract!vars, Abstract!request, AnswerSoFar
  <2>6. CASE phase \in {"refused", "done"}
    <3>1. UNCHANGED vars
      BY <2>6 DEF Next, UnregisteredRuleset, FindRuleset, CheckResult, Checking,
         ForeignResult, SortResults, GroupResult, DuplicateResult, NextByKey,
         Summarise
    <3> QED
      BY <3>1 DEF vars, request, Abstract!vars, Abstract!request, AnswerSoFar
  <2>7. phase \in {"ruleset", "check", "group", "refused", "done"}
        /\ phase' \in {"ruleset", "check", "group", "refused", "done"}
    BY DEF TypeOK, Next, vars, UnregisteredRuleset, FindRuleset, CheckResult,
       ForeignResult, SortResults, GroupResult, DuplicateResult, Summarise,
       Refuse
  <2> QED
    BY <2>4, <2>5, <2>6, <2>7
<1> QED
  BY TypeCorrect, LoopCorrect, <1>1, <1>2, PTL DEF Spec

-----------------------------------------------------------------------------
(***************************************************************************)
(* The order of the summary.  What the results tuple is while it is built: *)
(* the grouped results, in increasing scope order, all before the rest.    *)
(***************************************************************************)
SortedSoFar ==
    /\ phase \in {"ruleset", "check"} => ordered = <<>>
    /\ phase \in {"group", "done"} => {ordered[k] : k \in DOMAIN ordered} = Grouped
    /\ \A k \in 1 .. Len(ordered) - 1 : KeyLess(input[ordered[k]], input[ordered[k + 1]])
    /\ \A k \in DOMAIN ordered : \A j \in todo : ComesFirst(ordered[k], j)

LEMMA GroupedInOrder ==
  ASSUME TypeOK, LoopInv, SortedSoFar, NEW i \in DOMAIN input, GroupResult(i)
  PROVE  SortedSoFar'
<1>1. /\ phase = "group" /\ phase' = "group" /\ i \in todo /\ todo' = todo \ {i}
      /\ ordered' = Append(ordered, i) /\ input' = input
      /\ Scope(input[i]) \notin seen /\ seen = {Scope(input[j]) : j \in Grouped}
      /\ \A j \in todo : ComesFirst(i, j)
  BY DEF GroupResult, NextByKey, request, LoopInv, WhileGrouping
<1>2. /\ ordered \in Seq(DOMAIN input) /\ Len(ordered) \in Nat
      /\ DOMAIN ordered = 1 .. Len(ordered)
      /\ Len(ordered') = Len(ordered) + 1
      /\ DOMAIN ordered' = 1 .. Len(ordered) + 1
      /\ ordered'[Len(ordered) + 1] = i
      /\ \A k \in DOMAIN ordered : ordered'[k] = ordered[k]
  BY <1>1 DEF TypeOK
<1>3. Grouped' = Grouped \cup {i}
  BY <1>1 DEF Grouped
<1>4. {ordered'[k] : k \in DOMAIN ordered'} = Grouped'
  <2>1. {ordered[k] : k \in DOMAIN ordered} = Grouped
    BY <1>1 DEF SortedSoFar
  <2>2. ASSUME NEW x \in Grouped' PROVE \E k \in DOMAIN ordered' : ordered'[k] = x
    BY <1>2, <1>3, <2>1
  <2>3. ASSUME NEW k \in DOMAIN ordered' PROVE ordered'[k] \in Grouped'
    <3>1. CASE k = Len(ordered) + 1
      BY <1>2, <1>3, <3>1
    <3>2. CASE k \in DOMAIN ordered
      BY <1>2, <1>3, <2>1, <3>2
    <3> QED
      BY <1>2, <3>1, <3>2
  <2> QED
    BY <2>2, <2>3
<1>5. \A k \in 1 .. Len(ordered') - 1 : KeyLess(input[ordered'[k]], input[ordered'[k + 1]])
  <2>1. ASSUME NEW k \in 1 .. Len(ordered) - 1
        PROVE  KeyLess(input[ordered'[k]], input[ordered'[k + 1]])
    <3>1. ordered'[k] = ordered[k] /\ ordered'[k + 1] = ordered[k + 1]
      BY <1>2
    <3>2. KeyLess(input[ordered[k]], input[ordered[k + 1]])
      BY DEF SortedSoFar
    <3> QED
      BY <3>1, <3>2
  <2>2. ASSUME NEW k, k = Len(ordered), k # 0
        PROVE  KeyLess(input[ordered'[k]], input[ordered'[k + 1]])
    <3>1. k \in DOMAIN ordered /\ ordered'[k] = ordered[k] /\ ordered'[k + 1] = i
      BY <1>2, <2>2
    <3>2. ordered[k] \in Grouped
      BY <1>1, <3>1 DEF SortedSoFar
    <3>3. ComesFirst(ordered[k], i) /\ Scope(input[ordered[k]]) # Scope(input[i])
      BY <1>1, <3>1, <3>2 DEF SortedSoFar
    <3> QED
      BY <3>1, <3>3 DEF ComesFirst
  <2> QED
    BY <1>2, <2>1, <2>2
<1>6. ASSUME NEW k \in DOMAIN ordered', NEW j \in todo'
      PROVE  ComesFirst(ordered'[k], j)
  <2>1. CASE k \in DOMAIN ordered
    BY <1>1, <1>2, <2>1 DEF SortedSoFar
  <2>2. CASE k = Len(ordered) + 1
    BY <1>1, <1>2, <2>2
  <2> QED
    BY <1>2, <2>1, <2>2
<1> QED
  BY <1>1, <1>4, <1>5, <1>6 DEF SortedSoFar, ComesFirst, Scope

(***************************************************************************)
(* The reducer's ordered list stays sorted by scope while it is built.     *)
(***************************************************************************)
THEOREM SortedCorrect == Spec => []SortedSoFar
<1>1. Init => SortedSoFar
  BY DEF Init, SortedSoFar
<1>2. TypeOK /\ LoopInv /\ SortedSoFar /\ [Next]_vars => SortedSoFar'
  <2> SUFFICES ASSUME TypeOK, LoopInv, SortedSoFar, [Next]_vars PROVE SortedSoFar'
    OBVIOUS
  <2>1. input' = input
    BY RequestFixed
  <2>2. CASE SortResults
    <3>1. ordered' = <<>> /\ Grouped' = {} /\ phase' = "group"
      BY <2>1, <2>2 DEF SortResults, SortedSoFar, Grouped
    <3> QED
      BY <3>1 DEF SortedSoFar
  <2>3. ASSUME NEW i \in DOMAIN input, GroupResult(i) PROVE SortedSoFar'
    BY <2>3, GroupedInOrder
  <2>4. CASE /\ UNCHANGED <<ordered, todo>>
             /\ phase' \in {"ruleset", "check"} => phase \in {"ruleset", "check"}
             /\ phase' \in {"group", "done"} => phase \in {"group", "done"}
    BY <2>1, <2>4 DEF SortedSoFar, Grouped, ComesFirst, Scope
  <2> QED
    BY <2>2, <2>3, <2>4 DEF Next, vars, UnregisteredRuleset, FindRuleset, CheckResult, Checking,
       ForeignResult, DuplicateResult, NextByKey, Summarise, Refuse
<1> QED
  BY TypeCorrect, LoopCorrect, <1>1, <1>2, PTL DEF Spec

(***************************************************************************)
(* The results of a finished summary are all the caller's, each once, in   *)
(* strictly increasing scope order.                                        *)
(***************************************************************************)
THEOREM SummaryCanonical == Spec => []ResultsCanonical
<1>1. LoopInv /\ SortedSoFar => ResultsCanonical
  BY DEF LoopInv, SortedSoFar, ResultsCanonical, Grouped
<1> QED
  BY LoopCorrect, SortedCorrect, <1>1, PTL
=============================================================================
