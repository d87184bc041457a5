CONSTANTS
    Streams = {Audio, Video}
    FlushPacket = FlushPacket
    NullPacket = NullPacket
    NoPacket = NoPacket
    Audio = Audio
    Video = Video
    Covers = {Video}
    File <- CoverFile
    MinFrames = 1
    OneSecond = 1
    MaxQueueSize = 10
    InfiniteBuffer = FALSE
    SeekTargets = {2}
    MaxSeeks = 1
    CodecDepth = 1
    FrameQueueSize = 1
SPECIFICATION Spec
INVARIANTS
    CoverDecoded
    NothingLostInCodec
CHECK_DEADLOCK FALSE
