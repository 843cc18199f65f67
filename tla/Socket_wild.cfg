\* Listeners throw, destroy and reopen at every emit; two sockets at once.
SPECIFICATION Spec
CONSTANTS
    MaxFd = 2
    MaxSock = 2
    Chunks <- MCOne
    MaxPeer = 1
    MaxDepth = 4
    Allow <- MCWild
INVARIANT OwnFd
CHECK_DEADLOCK FALSE
