SPECIFICATION Spec
CONSTANTS
    Names <- MCNames
    CredDefs <- MCCredDefs
    GivenIDs <- MCGivenIDs
    MaxAttrs <- MCMaxAttrs
    Values <- MCValues
    Mimes <- MCMimes
INVARIANTS
    NoAttributeLost
\* A request ends once its task is created and, for a verifier or an
\* issue-credential task, started.
CHECK_DEADLOCK FALSE
