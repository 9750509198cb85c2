CONSTANTS
    Routes <- MCRoutes
    MaxTries = 2
    Heads <- MCHeads
    Digests <- MCDigests
    StatusCodes = {0, 99, 100, 104, 200, 209, 413, 511, 512, 599, 600}
SPECIFICATION Spec
INVARIANTS TypeOK ListenersPolled RouteServes KindIsMeant StatusHasMessage AcceptDecodes
 
CHECK_DEADLOCK FALSE
