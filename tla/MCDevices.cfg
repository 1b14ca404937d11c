SPECIFICATION DevicesSpec
CONSTANTS
    Request = {r1, r2}
    Local = {phone}
    Remote = {rented}
    Tethered = {phone}
    NoId = NoId
    MaxCopies = 2
    MaxMishaps = 1
    Client = {c1, c2}
    QueueCap = 2
    Chunks <- SeparateSets
    Ends = {"nil", "lost"}
    MaxCalls = 3
SYMMETRY Symmetry
INVARIANTS
    TypeOK NoLostWakeup OneLiveSource TeardownIsUnwatched NoOrphanSource LateJoinerDecodes
    NoStaleBytes TruncationIsReported OneInstanceWhileSeen OverrideIsReachable BusyWhileHeld
PROPERTIES SharedSpec
CHECK_DEADLOCK FALSE
