SPECIFICATION Spec
CONSTANTS
    Ann = Ann
    Bob = Bob
    AnnName = AnnName
    BobName = BobName
    NewName = NewName
    BadName = BadName
    Users <- TwoUsers
    Names <- TwoNames
    Provider <- TwoProviders
    Default <- TwoDefault
    Wanted <- FreshWanted
    Valid <- TwoValid
    Avatars = {face, other}
    NewAvatar = face
    None = None
    Workers = {w1, w2}
    Faults = FALSE
    MaxJobs = 4
SYMMETRY Symmetric
INVARIANTS
    UsernamesUnique
