SPECIFICATION ControlSpec
CONSTANTS
    Operators = {o1}
    MaxRuns = 2
    MaxControls = 2
CHECK_DEADLOCK FALSE
PROPERTY CancelsOnlyNonTerminal
