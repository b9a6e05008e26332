SPECIFICATION Spec
CONSTANTS
    Invitations <- MCInvitations
    Types <- MCTypesAliasing
    MaxCalls <- MCMaxCalls
INVARIANTS
    NoEscapedPanic
\* The service stops taking calls at MaxCalls, or after an escaped panic.
CHECK_DEADLOCK FALSE
