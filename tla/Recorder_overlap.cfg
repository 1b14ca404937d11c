SPECIFICATION Spec
CONSTANTS
    Caller = {h1, h2}
    MaxSessions = 3
INVARIANTS NoOverlap
CHECK_DEADLOCK FALSE
