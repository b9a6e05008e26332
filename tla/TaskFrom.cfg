SPECIFICATION Spec
CONSTANTS
    Invitations <- MCInvitations
    Types <- MCTypes
    MaxCalls <- MCMaxCalls
INVARIANTS
    TypeOK
    
\* The service stops taking calls at MaxCalls, or after an escaped panic.
CHECK_DEADLOCK FALSE
