\* Two of everything that is given out again (descriptors, addresses, slots,
\* numbers, pids) for three holders; runs of up to three pages of two rows.
SPECIFICATION PartsSpec
CONSTANTS
    w1 = w1
    w2 = w2
    w3 = w3
    a1 = a1
    a2 = a2
    Wraps <- MCWraps
    Addrs <- MCAddrs
    Fds <- MCFds
    PinMaps = 2
    PinFds = 1
    MaxGen = 2
    Nums = {1, 2}
    Hands = {1, 2, 3}
    Things = 3
    Servers = {"s"}
    Dgrams = {"d", "e"}
    Watchers = {"w"}
    MaxQueue = 2
    MaxOpens = 3
    Procs = {1, 2, 3}
    Packs <- MCPacks
    Pids = {1, 2}
    NoDir = NoDir
    Installed <- Leaves
    Keys = {0, 1, 2, 3, 4, 5}
    Vals = {0, 1}
    Per = 2
    MaxRows = 5
SYMMETRY MCSymmetry
INVARIANTS ViewsMapped NoneOrphaned SweepsInTime OwnCalls SlotsHeld
           OwnEvents StaysWatched LostIsReal Served RaceWins
           GetExact KeyedRangeExact
CHECK_DEADLOCK FALSE
