SPECIFICATION Spec
CONSTANTS
    Requests <- PlainRequests
    MaxRequests = 2
    Pipelining = FALSE
    MayBlock = TRUE
INVARIANTS
    IdleIsDeleted
