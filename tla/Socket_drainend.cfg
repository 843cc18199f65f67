\* end(data) from a 'drain' listener.
SPECIFICATION Spec
CONSTANTS
    MaxFd = 1
    MaxSock = 1
    Chunks <- MCChunks
    MaxPeer = 1
    MaxDepth = 4
    Allow = {"endInDrain"}
INVARIANT FinAfterData
CHECK_DEADLOCK FALSE
