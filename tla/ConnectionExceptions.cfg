SPECIFICATION Spec
CONSTANTS
    Requests <- MixedRequests
    MaxRequests = 2
    Pipelining = FALSE
    MayBlock = FALSE
INVARIANTS
    ExceptionsBecome500
