\* The same runs; a key of wh128 may have two rows.
SPECIFICATION Spec
CONSTANTS
    Keys <- MCKeys
    Vals <- MCVals
    Per = 2
    MaxRows = 5
INVARIANT StartExact
