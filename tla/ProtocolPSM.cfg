CONSTANTS
    k1 = k1
    Keys <- MCKeys
    MaxEntries <- MCMaxEntries

SPECIFICATION Spec

INVARIANTS
    TypeOK
    NoDuplicateSend
    OkOnlyAfterExchange

PROPERTIES
    StatusRefinement

\* The agency is reactive: with every instance finished (and the record at
\* its bound) nothing is enabled until a peer or client acts again.
CHECK_DEADLOCK FALSE
