SPECIFICATION Spec
CONSTANTS
    NumSteps = 3
    Deps <- MCDeps
    Tool <- MCTool
    NeedsEvidence = {3}
    MaxParallel = 2
    Failures = {"thin", "retry", "alternative", "review"}
    Criteria = {"proof", "suite", "recent", "approval"}
    CriterionType <- MCType
    CriterionRefs <- MCRefs
    MaxCrashes = 0
    MaxControls = 0
    MaxOpen = 6
    MaxAnswers = 0
INVARIANTS
    RecoveringIsResumable
CHECK_DEADLOCK FALSE
