SPECIFICATION Spec
CONSTANTS
    Depth = 8
    Consumed = 8
    Worker = {w1, w2}
    Ids <- CIds
    Contents <- CContents
    Faults <- CFaults
    Portions = {1, 3, 4, 8}
    MaxRuns = 3
    MaxCrashes = 1
    Caller = {c1, c2}
    Handle = {h1, h2, h3}
    NoHandle = none
    MaxCalls = 3
    Nesting = 6
    Leavings = {"", "ttp"}
    DocumentBegins <- CDocumentBegins
    DocumentPieces <- CDocumentPieces
    MaxDocument = 3
    PostBegins <- CPostBegins
    PostPieces <- CPostPieces
    MaxPost = 2
    MaxTemplate = 4
SYMMETRY Symmetric
INVARIANTS
    OwnReplies
    PooledAreClean
    RequestsAreOwn
    DocumentsAgree
    MarkupCloses
    TemplatesMean
CHECK_DEADLOCK FALSE
