SPECIFICATION Spec
CONSTANTS
    k1 = k1
    Keys <- MCKeys
    MaxEntries <- MCMaxEntries
INVARIANT
    StatusCarriesState
CHECK_DEADLOCK FALSE
