SPECIFICATION Spec
CONSTANTS
    Executors = {e1, e2}
    Intents = 1
    RetrySafe = TRUE
    Outcomes = {"ok", "error"}
    AnchorReuse = TRUE
    MaxCalls = 3
    MaxCrashes = 0
    MaxRulings = 0
CHECK_DEADLOCK FALSE
PROPERTIES
    ConfirmedAfterResult
