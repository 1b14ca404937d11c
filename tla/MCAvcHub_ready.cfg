SPECIFICATION Spec
CONSTANTS
    Client = {c1, c2}
    QueueCap = 2
    Chunks <- KeyPictures
    Ends = {"lost"}
    MaxCalls = 2
INVARIANTS ReadyHasKeyFrame
CHECK_DEADLOCK FALSE
