---------------------------- MODULE LoadVerdict ----------------------------
(***************************************************************************)
(* What summarize_load promises: one answer, a function of the set of      *)
(* results that depends on no order among them.                            *)
(***************************************************************************)
EXTENDS LoadEvidence

VARIABLE answer     \* "pending", "refused" or a verdict

vars == <<request, answer>>

Init ==
    /\ audit \in Audit
    /\ ruleset \in Ruleset
    /\ input \in Inputs
    /\ answer = "pending"

Answer ==
    /\ answer = "pending"
    /\ answer' = VerdictOf
    /\ UNCHANGED request

Spec == Init /\ [][Answer]_vars /\ WF_vars(Answer)
=============================================================================
