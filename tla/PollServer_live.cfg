CONSTANTS
    Conns = {c1, c2}
    Listener = Listener
    MaxEvents = 10
    MaxRx = 2
    RequestKinds <- NoHookKinds
    EdgeTriggered = FALSE
    HasConnectHook = FALSE
    JoinsAt = "ready"
    HoldsConn = FALSE
    WholeFrames = TRUE
SPECIFICATION FairSpec
PROPERTIES PeerCloseFrees QueuedAccepted
