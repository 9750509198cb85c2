CONSTANTS
    Scripts <- AllScripts
    BufferSize = 1024
    IdleLimit = 1
    WriteSizes = {0, 125, 126, 65534, 65535}
    ShortWrites = {0, 3}
    MaxWrites = 1
SPECIFICATION Spec
INVARIANTS TypeOK ReadsWholeFrames FrameReadable
PROPERTIES PingsAnswered DeliversMessages DeliversAll
CHECK_DEADLOCK FALSE
