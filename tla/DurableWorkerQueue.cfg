SPECIFICATION LiveSpec
CONSTANTS
    Workers = {w1}
    Approver = app
    Operators = {o1}
    NoOwner = none
    LeaseSeconds = 1
    RetryBudget = 2
    BaseBackoffSeconds = 1
    MaxBackoffSeconds = 2
    MaxRuns = 2
    MaxControls = 0
    ScanLimit = 2
    MaxCrashes = 1
    MaxApprovals = 0
CHECK_DEADLOCK FALSE
PROPERTIES
    RunsSettle
    DeadLetterReported
