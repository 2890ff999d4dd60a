SPECIFICATION Spec
CONSTANTS
    Ann = Ann
    Bob = Bob
    AnnName = AnnName
    BobName = BobName
    Users <- TwoUsers
    Names <- TwoNames
    SignedIn <- TwoSignedIn
    Texts <- TwoTexts
    Categories = {1, 2}
    First <- ThreeTopics
    PerPage = 1
    Workers = {w1, w2}
    Faults = TRUE
    MaxJobs = 2
SYMMETRY Symmetric
INVARIANTS
    AnswersAreTrue
    MentionsNotify
    NothingIsMissed
PROPERTIES
    TextsAreKept
    ClearedWereThere
