CONSTANTS
    Streams = {Audio}
    FlushPacket = FlushPacket
    NullPacket = NullPacket
    NoPacket = NoPacket
    Audio = Audio
    Video = Video
    Covers = {}
    File <- AudioFile
    MinFrames = 1
    OneSecond = 1
    MaxQueueSize = 10
    InfiniteBuffer = FALSE
    SeekTargets = {2}
    MaxSeeks = 0
    CodecDepth = 1
    FrameQueueSize = 1
SPECIFICATION Spec
INVARIANTS
    ReaderNotified
CHECK_DEADLOCK FALSE
