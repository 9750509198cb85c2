CONSTANTS
    Conns = {c1}
    Listener = Listener
    MaxEvents = 10
    MaxRx = 1
    RequestKinds <- HookKinds
    EdgeTriggered = FALSE
    HasConnectHook = TRUE
    JoinsAt = "ready"
    HoldsConn = TRUE
    WholeFrames = FALSE
SPECIFICATION Spec
INVARIANTS HeldLive
CHECK_DEADLOCK FALSE
