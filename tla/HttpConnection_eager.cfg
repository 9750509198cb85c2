CONSTANTS
    Scripts <- OnePost
    Routes = {"/a", "/b"}
    BufferSize = 5
SPECIFICATION FairSpec
PROPERTIES RequestCompletes
CHECK_DEADLOCK FALSE
