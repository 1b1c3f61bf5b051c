SPECIFICATION FairSpec
CONSTANTS
    QueueSize = 1
    MaxEvents = 1
    Requests = 1
INVARIANT NothingLeft
INVARIANT ScratchLast
PROPERTY RequestEnds
PROPERTY LoginExpires
