SPECIFICATION FairSpec
CONSTANTS
    Requests <- MixedRequests
    MaxRequests = 3
    Pipelining = FALSE
    MayBlock = TRUE
INVARIANTS
    ReadFlagExact
    DeletedIsQuietUnpipelined
    OpenHasDeadline
    RepliesExplained
PROPERTIES
    NoHandlerWhileWriting
    SocketCloses
