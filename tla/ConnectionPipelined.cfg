SPECIFICATION Spec
CONSTANTS
    Requests <- PlainRequests
    MaxRequests = 2
    Pipelining = TRUE
    MayBlock = FALSE
INVARIANTS
    DeletedIsQuiet
