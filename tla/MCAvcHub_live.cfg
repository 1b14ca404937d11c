SPECIFICATION FairSpec
CONSTANTS
    Client = {c1, c2}
    QueueCap = 1
    Chunks <- KeyPictures
    Ends = {"lost"}
    MaxCalls = 2
PROPERTIES CancelReturns WaitersAreReleased IdleHubLetsGo
CHECK_DEADLOCK FALSE
