CONSTANTS
    track = track
    picture = picture
    Streams = {track, picture}
    Files <- MCFiles
    User = user
    Loop = loopThread
    MinFrames = 1
    ReadyPackets = 0
    FrameQueueSize = 1
    MaxSeeks = 1
    MaxToggles = 1
SPECIFICATION FairSpec
INVARIANTS
    TypeOK
PROPERTIES
    PausedGetsReady
    EndComes
CHECK_DEADLOCK FALSE
