SPECIFICATION Spec
CONSTANTS
    Workers = {w1, w2}
    Approver = app
    Operators = {o1}
    NoOwner = none
    LeaseSeconds = 1
    RetryBudget = 2
    BaseBackoffSeconds = 1
    MaxBackoffSeconds = 1
    MaxRuns = 1
    MaxControls = 1
    ScanLimit = 1
    MaxCrashes = 1
    MaxApprovals = 1
SYMMETRY WorkerSymmetry
CHECK_DEADLOCK FALSE
INVARIANTS
    TypeOK
    NoLeaseLeak
    ClaimsWithinBudget
PROPERTIES
    FencedLease
    DeadLetterIsFinal
    CancelledIsFinal
