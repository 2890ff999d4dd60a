SPECIFICATION FairSpec
CONSTANTS
    Requests <- MixedRequests
    MaxRequests = 3
    Pipelining = FALSE
    MayBlock = FALSE
INVARIANTS
    IdleIsDeletedIfUnblocked
PROPERTIES
    ConnectionDeleted
