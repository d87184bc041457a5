CONSTANTS
    Frames = {f1, f2}
    NoFrame = NoFrame
    MaxSize = 3
    KeepLast = TRUE
    Decoder = Decoder
    Renderer = Renderer
    Aborter = Aborter
    None = None
SPECIFICATION Spec
INVARIANTS
    TypeOK
    RingInv
    HeldFrameIntact
    NoLostFrameWake
PROPERTIES
    ImplementsFifo
    DecoderGetsSlot
CHECK_DEADLOCK FALSE
