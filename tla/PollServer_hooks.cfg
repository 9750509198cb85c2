CONSTANTS
    Conns = {c1, c2, c3}
    Listener = Listener
    MaxEvents = 2
    MaxRx = 1
    RequestKinds <- HookKinds
    EdgeTriggered = FALSE
    HasConnectHook = TRUE
    JoinsAt = "ready"
    HoldsConn = FALSE
    WholeFrames = TRUE
SPECIFICATION Spec
SYMMETRY Symmetry
INVARIANTS BatchLive GroupIsLiveWebsockets NoAbort
