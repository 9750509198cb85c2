CONSTANTS
    Bufs = {a, b}
    Values = {x, y}
    Junk = Junk
    InitSize = 3
    MaxSize = 4
SPECIFICATION Spec
SYMMETRY Symmetry
INVARIANTS TypeOK LengthIsContent NoWriteStall
PROPERTIES IsFifo
