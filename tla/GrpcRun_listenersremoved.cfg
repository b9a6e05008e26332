CONSTANTS
    k1 = k1
    Key <- k1
    MaxEntries <- MCMaxEntries
    ChanCap <- MCChanCap

SPECIFICATION Spec

INVARIANTS
    ListenersRemoved

\* A protocol waits on its peer or its client indefinitely; Run then waits
\* on its channels, which is not a deadlock of the agency.
CHECK_DEADLOCK FALSE
