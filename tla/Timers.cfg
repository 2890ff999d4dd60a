SPECIFICATION FairSpec
CONSTANTS
    Conns = {c1, c2}
    NoFn = NoFn
    Tick = 2
    W = 8
    First = 6
    MaxAdds = 6
    Overlap = FALSE
INVARIANTS
    KeyFindsOwn
    CallbacksAreSafe
PROPERTIES
    OnlyOwnerDisarms
    OverdueIsShut
    ImplementsDeadlines
