SPECIFICATION Spec
CONSTANTS
    Executors = {p1}
    Operators = {o1}
    Adapters = {"sqlite"}
    MaxWork = 3
CHECK_DEADLOCK FALSE
PROPERTIES
    CancelledIsFinal
