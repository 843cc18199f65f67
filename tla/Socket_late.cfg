\* A promise job writes or ends after _poll has returned a mask without OUT.
SPECIFICATION Spec
CONSTANTS
    MaxFd = 1
    MaxSock = 1
    Chunks <- MCOne
    MaxPeer = 1
    MaxDepth = 3
    Allow = {"lateWrite"}
INVARIANT PendingPolled
CHECK_DEADLOCK FALSE
