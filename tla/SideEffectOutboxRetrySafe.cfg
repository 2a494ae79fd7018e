SPECIFICATION Spec
CONSTANTS
    Executors = {e1, e2}
    Intents = 1
    RetrySafe = TRUE
    Outcomes = {"ok", "error"}
    AnchorReuse = FALSE
    MaxCalls = 5
    MaxCrashes = 2
    MaxRulings = 0
SYMMETRY ExecutorSymmetry
CHECK_DEADLOCK FALSE
INVARIANTS
    OneResult
    NoManualReview
PROPERTIES
    ConfirmedAfterResult
