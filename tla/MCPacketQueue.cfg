CONSTANTS
    d1 = d1
    d2 = d2
    Queues = {q1}
    Threads = {t1, t2}
    Data <- MCData
    FlushPacket = FlushPacket
    NullPacket = NullPacket
    PktSize <- MCPktSize
    PktDuration <- MCPktDuration
    MaxLen = 4
    MaxSerial = 3
SPECIFICATION Spec
INVARIANTS
    TypeOK
    CountersMatch
    EpochBoundary
    NoStarvedWaiter
