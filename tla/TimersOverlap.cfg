SPECIFICATION Spec
CONSTANTS
    Conns = {c1, c2, c3}
    NoFn = NoFn
    Tick = 2
    W = 8
    First = 0
    MaxAdds = 5
    Overlap = TRUE
PROPERTIES
    OnlyOwnerDisarms
SYMMETRY Symmetric
