SPECIFICATION MCSpec
CONSTANTS
    NumSteps = 3
    Deps <- MCDeps
    Tool <- MCTool
    NeedsEvidence = {3}
    MaxParallel = 2
    Failures = {"thin", "retry", "alternative", "read", "review"}
    Criteria = {"proof", "suite", "recent", "approval"}
    CriterionType <- MCType
    CriterionRefs <- MCRefs
    MaxCrashes = 1
    MaxControls = 2
    MaxOpen = 6
    MaxAnswers = 1
INVARIANTS
    TypeOK
    OverlapOnlyIfSafe
    CancelStopsBatches
    RetryIsOfFailedStep
    WaitingIsAnswerable
    StallIsExplained
    DependenciesFirst
    CompletedIsVerified
PROPERTIES
    RunningSettles
    ImplementsPlan
CHECK_DEADLOCK FALSE
