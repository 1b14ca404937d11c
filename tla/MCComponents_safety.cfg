SPECIFICATION Spec
CONSTANTS
    Parts = {"recording", "streams", "socket", "flutter", "servers", "agents", "methods"}
    Viewers = {v1, v2}
    MaxMessages = 3
    Nodes = {n1, n2, n3}
    Root = n1
    Main = main
    MaxCalls = 1
    Requests = {r1, r2}
    Setter = r2
    Builds = {b1, b2}
    Ports = {p1, p2}
    None = None
    MaxDeaths = 1
    Callers = {c1, c2}
    Streamers = {c2}
    Hooked = {c1}
    MaxLoops = 2
    MaxRunners = 1
    MaxForwards = 3
    Caller = {h1, h2}
    MaxRecordings = 2
    Tickets = {t1, t2}
    NoTicket = NoTicket
    MaxSessions = 1
    MaxCrashes = 1
    MaxHandlers = 2
INVARIANTS
    TypeOK OneViewerPerClaim CancelGetsResult SlotsAreHandlers
    RepeatedOnlyAfterDeath ShutdownStopsEverything NobodyIsStuck AgentBeforeUse NothingLeftBehind FailedLeavesDevice
PROPERTIES Promises
CHECK_DEADLOCK FALSE
