SPECIFICATION Spec
CONSTANTS
    Conversations <- CConversations
    Rules <- CRules
    RuleMethods <- CRuleMethods
    Handlers <- CHandlers
    Cuts = {1, 2, 7}
    MaxHeaderSize = 96
    MaxLength = 255
    MaxInt = 9999
    MaxPairs = 8
    Signers = {w1, w2}
    Tokens = {"t-1", "t&u"}
    Verifiers = {"v=1", "v&b=1"}
    ConsumerKey = "key"
    ConsumerSecret = "se/cret"
    Website = "https://a.b/"
    MaxSignings = 3
    Seconds = 1
    Word = 1024
    HMAC_BUF_LEN = 196
    MaxMessage = 140
    KeyLengths = {0, 20, 64, 65, 130}
    Lists = {"/"}
    Topics = {"t1", "t2"}
    MaxClicks = 3
    MaxEntries = 5
    Categories <- CCategories
    Unknown = "no"
    Titles <- CTitles
    Posts <- CPosts
    HtmlOf <- CHtmlOf
    Authors = {"ann"}
    Counts = {0}
    PerPage = 1
    MaxPosts = 2
    MaxPage = 2
    Uploaders = {w1, w2}
    Users = {"u"}
    Files <- CFiles
    Garbage <- CGarbage
    MinLength = 3
    Randoms = {"1", "2"}
    MaxUploads = 3
    Concurrency = 3
    MaxAccepts = 2
    MaxTime = 3
    SDS_MAX_PREALLOC = 8
    READER_MAX_BUF = 3
    Discarded = 4
    BufferUnit = 3
    StackSize = 1
    StackCapacity = 2
    ArgLengths <- CArgLengths
    PieceLengths = {1, 4}
    MaxUses = 7
    MaxDepth = 3
INVARIANTS
    RequestsArrive
    RoutesAreFound
    ParametersAreRead
    SignedAsSent
    NoncesDiffer
    DigestsAreOfTheWhole
    PageIsAddressed
    RepliesGoHome
    PagesShowTheForum
    UploadsAreKept
    WorkersAreReady
    BuffersKeep
CHECK_DEADLOCK FALSE
