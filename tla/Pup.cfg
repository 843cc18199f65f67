\* Scans within scans; two runs and both parts of the memtable, which are too
\* many to read.  The bounds of MCPup say how much of each.
SPECIFICATION Spec
CONSTANTS
    v1 = v1
    v2 = v2
    Keys <- MCKeys
    Vals <- MCVals
    None = None
    Cap = 3
    MaxMaps = 3
    MaxEpoch = 5
    MaxScans = 2
SYMMETRY MCSymmetry
CONSTRAINT Bounded
INVARIANTS CursorIntact ScansIntact ViewsIntact
PROPERTY OneMap
CHECK_DEADLOCK FALSE
