CONSTANTS
    Conns = {c1, c2}
    Listener = Listener
    MaxEvents = 2
    MaxRx = 2
    RequestKinds <- AllKinds
    EdgeTriggered = TRUE
    HasConnectHook = TRUE
    JoinsAt = "connect"
    HoldsConn = TRUE
    WholeFrames = FALSE
SPECIFICATION Spec
SYMMETRY Symmetry
INVARIANTS TypeOK Ownership
CHECK_DEADLOCK FALSE
