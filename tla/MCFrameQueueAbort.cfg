CONSTANTS
    Frames = {f1}
    NoFrame = NoFrame
    MaxSize = 2
    KeepLast = TRUE
    Decoder = Decoder
    Renderer = Renderer
    Aborter = Aborter
    None = None
SPECIFICATION Spec
INVARIANTS
    AbortWakes
CHECK_DEADLOCK FALSE
