CONSTANTS
    Scenes <- MCScenes
    WantedChannels = 2
    WantedRate = 48000
    FileStart = 1
    Duration = 2
    MaxEvents = 2
SPECIFICATION Spec
INVARIANTS
    TypeOK
    AliveWhenUsed
    HeldAreAlive
    SeekExecuted
    SoundUndistorted
PROPERTIES
    ClosingReturns
CHECK_DEADLOCK FALSE
