CONSTANTS
    Scripts <- AllScripts
    Routes = {"/a", "/b"}
    BufferSize = 5
SPECIFICATION FairSpec
INVARIANTS TypeOK BufferBound ByteConservation FinalIsComplete FinalIsLast BodyDelivered
PROPERTIES WaitingCompletes
CHECK_DEADLOCK FALSE
