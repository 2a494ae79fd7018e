SPECIFICATION Spec
CONSTANTS
    Executors = {p1}
    Operators = {o1}
    Adapters = {"locking", "sqlite"}
    MaxWork = 4
CHECK_DEADLOCK FALSE
INVARIANTS
    TypeOK
    EventSeqExact
PROPERTIES
    LockedCancelIsFinal
    EventsNumbered
