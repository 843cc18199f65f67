\* One loop at a time; every call a script or a handler can make.
SPECIFICATION FairSpec
CONSTANTS
    f1 = f1
    f2 = f2
    h1 = h1
    h2 = h2
    NoHandler = NoHandler
    Fds <- MCFds
    Handlers <- MCHandlers
    Nesting = FALSE
    MaxDepth = 2
INVARIANTS
    FirstThrowKept
PROPERTIES
    FreeOutsideLoop
    ReleasedSilent
    ThrowSurfaces
