SPECIFICATION FairSpec
CONSTANTS
    Parts = {"recording", "streams", "socket", "flutter"}
    Viewers = {v1}
    MaxMessages = 2
    Nodes = {n1, n2}
    Root = n1
    Main = main
    MaxCalls = 1
    Requests = {r1, r2}
    Setter = r2
    Builds = {b1, b2}
    Ports = {p1, p2}
    None = None
    MaxDeaths = 1
    Callers = {c1, c2}
    Streamers = {c2}
    Hooked = {c1}
    MaxLoops = 1
    MaxRunners = 1
    MaxForwards = 3
    Caller = {h1, h2}
    MaxRecordings = 2
    Tickets = {t1, t2}
    NoTicket = NoTicket
    MaxSessions = 1
    MaxCrashes = 1
    MaxHandlers = 1
INVARIANTS ManagedIfSerial NoExitMidFile
PROPERTIES EveryCallAnswered StopTakesEffect StreamsEnd RequestsAreAnswered WalkEnds
CHECK_DEADLOCK FALSE
