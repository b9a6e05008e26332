----------------------------- MODULE MC_StatusRPC -----------------------------
EXTENDS StatusRPC

CONSTANT k1
MCKeys == {k1}
MCMaxEntries == 6
=============================================================================
