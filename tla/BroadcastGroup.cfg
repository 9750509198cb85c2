CONSTANTS
    Conns = {c1, c2}
    Pipes = {p1, p2, p3}
    HeaderSize = 1
    PayloadSizes = {0, 1}
    PipeSize = 2
    MaxMessages = 3
SPECIFICATION Spec
SYMMETRY Symmetry
INVARIANTS TypeOK PipesOwned Isolation
CHECK_DEADLOCK FALSE
