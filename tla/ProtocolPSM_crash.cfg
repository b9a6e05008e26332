CONSTANTS
    k1 = k1
    Keys <- MCKeys
    MaxEntries <- MCMaxEntries

SPECIFICATION Spec

INVARIANT NoCrash

CHECK_DEADLOCK FALSE
