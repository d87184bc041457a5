--------------------------- MODULE MCPacketQueue ---------------------------
(* A bounded instance of PacketQueue for TLC.                              *)
EXTENDS PacketQueue

CONSTANTS d1, d2

MCData == {d1, d2}
MCPktSize == [p \in MCData \union {FlushPacket, NullPacket} |->
                IF p = d1 THEN 3 ELSE IF p = d2 THEN 2 ELSE 1]
MCPktDuration == [p \in MCData \union {FlushPacket, NullPacket} |->
                    IF p \in MCData THEN 1 ELSE 0]
=============================================================================
