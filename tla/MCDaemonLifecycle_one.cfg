SPECIFICATION Spec
CONSTANTS
    Client = {c1, c2}
    Version = {v1, v2}
    NoOne = NoOne
    Dead = Dead
    MaxCommands = 2
    MaxDaemons = 2
    MaxMishaps = 1
SYMMETRY Symmetry
INVARIANTS TypeOK OneInside OneServes SocketKept EnsuredVersion
PROPERTIES AcceptedIsAnswered
CHECK_DEADLOCK FALSE
