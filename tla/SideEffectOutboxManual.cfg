SPECIFICATION Spec
CONSTANTS
    Executors = {e1, e2}
    Intents = 2
    RetrySafe = FALSE
    Outcomes = {"ok", "other_effects", "error", "error_with_effects"}
    AnchorReuse = TRUE
    MaxCalls = 3
    MaxCrashes = 1
    MaxRulings = 1
SYMMETRY ExecutorSymmetry
CHECK_DEADLOCK FALSE
INVARIANTS
    TypeOK
    AtMostOnce
PROPERTIES
    DispatchLicensed
