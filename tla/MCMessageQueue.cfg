CONSTANTS
    Messages = {work, state, other}
    NoMessage = NoMessage
    Posters = {reader, user}
    Loop = loopThread
    User = user
SPECIFICATION FairSpec
INVARIANTS
    TypeOK
    DistinctBehindHead
    NothingLeftBehind
PROPERTIES
    PromptWake
    IsMailbox
    Delivered
    StopReturns
CHECK_DEADLOCK FALSE
