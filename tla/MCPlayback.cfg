CONSTANTS
    NaN = NaN
    None = None
    NoSync = 6
    ThresholdMin = 1
    ThresholdMax = 2
    ThresholdDup = 2
    MaxFrameDuration = 10
    FrameDuration = 2
    AudioDuration = 2
    Files <- MCFiles
    PictureQueueSize = 2
    SampleQueueSize = 1
    HwBuffer = 1
    SeekTargets = {0}
    StartTime = 3
SPECIFICATION FairSpec
INVARIANTS
    TypeOK
    FrameTimerNotAhead
    ClockIsHeard
    OldIsShort
PROPERTIES
    PauseReturns
CHECK_DEADLOCK FALSE
