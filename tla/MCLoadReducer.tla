--------------------------- MODULE MCLoadReducer ---------------------------
(***************************************************************************)
(* Two required rules, two artifacts, the absent path and one path; every  *)
(* sequence of at most three results, among them one result of another     *)
(* audit, ruleset, profile and one of a rule that is not registered.       *)
(***************************************************************************)
EXTENDS LoadReducer, SequencesExt

MCRequiredRules == [s \in {"lora-v1"} |-> {101, 110}]

MCResult(a, s, p, rule, artifact, path, outcome) ==
    [audit |-> a, ruleset |-> s, profile |-> p, rule |-> rule,
     artifact |-> artifact, path |-> path, outcome |-> outcome]

MCOwnResults ==
    {MCResult("a1", "lora-v1", "load", 101, f, p, o) :
        f \in {1, 2}, p \in {0, 1}, o \in Outcome}
    \cup {MCResult("a1", "lora-v1", "load", 110, 1, 0, o) : o \in Outcome}

MCForeignResults ==
    {MCResult("a2", "lora-v1", "load", 101, 1, 0, "pass"),
     MCResult("a1", "other", "load", 101, 1, 0, "pass"),
     MCResult("a1", "lora-v1", "hotswap", 101, 1, 0, "pass"),
     MCResult("a1", "lora-v1", "load", 200, 1, 0, "pass")}

MCInputs == BoundedSeq(MCOwnResults \cup MCForeignResults, 3)
=============================================================================
