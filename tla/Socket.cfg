\* Two sockets in turn on one fd number, the peer and the listeners in between.
SPECIFICATION FairSpec
CONSTANTS
    MaxFd = 1
    MaxSock = 2
    Chunks <- MCChunks
    MaxPeer = 1
    MaxDepth = 4
    Allow = {}
INVARIANTS LiveWatched PendingPolled FinIsOwn FinAfterData NothingLost
PROPERTIES QuietAfterClose ClosesAfterEof WritesFlush
CHECK_DEADLOCK FALSE
