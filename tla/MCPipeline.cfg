CONSTANTS
    Streams = {Video}
    FlushPacket = FlushPacket
    NullPacket = NullPacket
    NoPacket = NoPacket
    Audio = Audio
    Video = Video
    Covers = {}
    File <- VideoFile
    MinFrames = 9
    OneSecond = 1
    MaxQueueSize = 1
    InfiniteBuffer = FALSE
    SeekTargets = {2}
    MaxSeeks = 2
    CodecDepth = 1
    FrameQueueSize = 1
SPECIFICATION Spec
INVARIANTS
    TypeOK
    EpochCarried
    FinishedMeansDrained
    BufferBounded
PROPERTIES
    FramesInOrder
CHECK_DEADLOCK FALSE
