SPECIFICATION Spec
CONSTANTS
    Audit = {"a1", "a2"}
    Ruleset = {"lora-v1", "other"}
    RequiredRules <- MCRequiredRules
    Rule = {101, 110, 200}
    Artifact = {1, 2}
    Path = {0, 1}
    Inputs <- MCInputs
CHECK_DEADLOCK FALSE
INVARIANTS
    ReasonsComplete
    ResultsCanonical
PROPERTY ImplementsVerdict
