------------------------------ MODULE Pipeline ------------------------------
(***************************************************************************)
(* From the file to the frame queues: the reader thread, the seek requests *)
(* of the user interface, the packet queues, the decoder threads and       *)
(* renderers that take the frames.  DataSource and Decoder describe the    *)
(* threads; they share the packet queues and continue_read_thread_.        *)
(***************************************************************************)
EXTENDS Naturals, Integers, Sequences, FiniteSets, FiniteSetsExt

CONSTANTS
    Streams,                \* the streams that are decoded
    FlushPacket, NullPacket, NoPacket,
    Audio, Video, Covers, File,
    MinFrames, OneSecond, MaxQueueSize, InfiniteBuffer,
    SeekTargets, MaxSeeks, CodecDepth, FrameQueueSize

(* A packet of the file is the position and the epoch it was read at.      *)
Data == [pos : 0 .. Len(File), epoch : 0 .. MaxSeeks]

ASSUME PipelineAssumption ==
    /\ Streams \subseteq {Audio, Video} /\ Streams # {} /\ Audio # Video
    /\ Covers \subseteq Streams \cap {Video}
    /\ FlushPacket # NullPacket /\ NoPacket \notin {FlushPacket, NullPacket}
    /\ {FlushPacket, NullPacket, NoPacket} \cap Data = {}
    /\ Len(File) \in Nat
    /\ SeekTargets \subseteq 1 .. Len(File) + 1
    /\ MinFrames \in Nat /\ OneSecond \in Nat /\ MaxQueueSize \in Nat
    /\ MaxSeeks \in Nat
    /\ InfiniteBuffer \in BOOLEAN
    /\ CodecDepth \in Nat \ {0}
    /\ FrameQueueSize \in Nat \ {0}

(* Every packet counts one byte, and the packets of the file one second.   *)
PktSize == [p \in Data \union {FlushPacket, NullPacket} |-> 1]
PktDuration ==
    [p \in Data \union {FlushPacket, NullPacket} |-> IF p \in Data THEN 1 ELSE 0]

VARIABLES
    pkts, nb_packets, size, duration, serial, abort_request, waiters,
    pkt_serial,
    rpc, left, read_asleep, filepos, targets, eof, queue_attachments_req, pkt,
    seek_req, seek_position, seek_call, seeks,
    dpc, temp_pkt, pending, finished, codec, draining, got, frames, last

Source == INSTANCE DataSource WITH
    Queues <- Streams, Threads <- Streams, MaxLen <- 0, MaxSerial <- 0
Dec == INSTANCE Decoder WITH
    Queues <- Streams, Threads <- Streams, MaxLen <- 0, MaxSerial <- 0

queueVars == <<pkts, nb_packets, size, duration, serial, abort_request,
               waiters, pkt_serial>>
decoderVars == <<dpc, temp_pkt, pending, finished, codec, draining, got,
                 frames, last>>

(* The reader's variables but for its sleep, which a decoder can end.      *)
readerOwn == <<rpc, left, filepos, targets, eof, queue_attachments_req, pkt,
               seek_req, seek_position, seek_call, seeks>>

vars == <<queueVars, readerOwn, read_asleep, decoderVars>>

-----------------------------------------------------------------------------
Init == Source!Init /\ Dec!Init

Reader == Source!ReadStreams /\ UNCHANGED decoderVars
ReaderSpuriousWake == Source!SpuriousWake /\ UNCHANGED decoderVars
User == Source!SeekCall /\ UNCHANGED decoderVars

Decoder(q) == Dec!DecodeFrame(q) /\ UNCHANGED readerOwn
DecoderSpuriousWake(q) == Dec!SpuriousWake(q) /\ UNCHANGED readerOwn
Renderer(q) == Dec!TakeFrame(q) /\ UNCHANGED readerOwn

Next ==
    \/ Reader
    \/ ReaderSpuriousWake
    \/ User
    \/ \E q \in Streams : Decoder(q) \/ DecoderSpuriousWake(q) \/ Renderer(q)

(* Threads that can run do; a codec that is asked again and again answers. *)
Fairness ==
    /\ WF_vars(Reader)
    /\ WF_vars(User /\ seek_call.todo # {})
    /\ \A q \in Streams :
          /\ WF_vars(Decoder(q))
          /\ WF_vars(Renderer(q))
          /\ SF_vars(Decoder(q) /\ dpc'[q] = "push")

Spec == Init /\ [][Next]_vars
FairSpec == Spec /\ Fairness

-----------------------------------------------------------------------------
Packets == Data \union {FlushPacket, NullPacket}
FrameType(S) == [pkt : S, serial : -1 .. MaxSeeks + 1]

(* The values the fields of DataSource and Decoder take.                   *)
TypeOK ==
    /\ nb_packets \in [Streams -> Nat]
    /\ serial \in [Streams -> 1 .. MaxSeeks + 1]
    /\ waiters \in [Streams -> SUBSET Streams]
    /\ pkt_serial \in [Streams -> -1 .. MaxSeeks + 1]
    /\ rpc \in {"seek", "flush", "mark", "sought", "attach", "attach_null",
                "need", "wait", "read", "drain", "failed", "queue", "stopped"}
    /\ left \in Seq(Streams)
    /\ read_asleep \in BOOLEAN
    /\ filepos \in 1 .. Len(File) + 1
    /\ targets \in Seq(1 .. Len(File) + 1)
    /\ eof \in BOOLEAN /\ queue_attachments_req \in BOOLEAN
    /\ seek_req \in BOOLEAN
    /\ pkt \in Data
    /\ seek_position \in 1 .. Len(File) + 1
    /\ dpc \in [Streams -> {"start", "receive", "push", "fill", "dequeue",
                            "wait", "check", "send"}]
    /\ temp_pkt \in [Streams -> Packets \union {NoPacket}]
    /\ pending \in [Streams -> (Packets \ {FlushPacket}) \union {NoPacket}]
    /\ finished \in [Streams -> 0 .. MaxSeeks + 1]
    /\ \A q \in Streams : /\ codec[q] \in Seq(Data) /\ Len(codec[q]) <= CodecDepth
                          /\ frames[q] \in Seq(FrameType(Data))
                          /\ Len(frames[q]) <= FrameQueueSize
    /\ got \in [Streams -> Data \union {NoPacket}]
-----------------------------------------------------------------------------
(* Where the packets of a serial start in the file, and which of them are  *)
(* a stream's.                                                             *)
StartOf(s) == IF s = 1 THEN 1 ELSE targets[s - 1]
PacketsFrom(q, pos) == {i \in pos .. Len(File) : File[i] = q}

(* The serial a packet read in an epoch must travel under.                 *)
Carried(p, s) == p \in Data => s = p.epoch + 1

(* A frame is never shown as belonging to a seek it was not read for: from *)
(* the reader through the queue and the codec to the frame queue, a packet *)
(* keeps the serial that was current when it was read, although serial,    *)
(* pkt_serial and the codec change hands without a common lock.            *)
EpochCarried ==
    \A q \in Streams :
        /\ \A i \in DOMAIN pkts[q] : Carried(pkts[q][i].pkt, pkts[q][i].serial)
        /\ \A i \in DOMAIN frames[q] :
              Carried(frames[q][i].pkt, frames[q][i].serial)
        /\ Carried(got[q], pkt_serial[q])
        /\ Carried(pending[q], pkt_serial[q])
        /\ dpc[q] \in {"start", "receive"} =>
              \A i \in DOMAIN codec[q] : Carried(codec[q][i], pkt_serial[q])

(* What the state machine of MediaPlayer takes IsFinished() for: when      *)
(* finished equals the queue's serial, every packet from the last seek to  *)
(* the end of the file has been decoded, and none is left on the way.      *)
FinishedMeansDrained ==
    \A q \in Streams \ Covers : finished[q] = serial[q] =>
        LET all == PacketsFrom(q, StartOf(serial[q])) IN
        /\ \A i \in DOMAIN pkts[q] : pkts[q][i].pkt \notin Data
        /\ codec[q] = <<>>
        /\ {temp_pkt[q], pending[q], got[q]} \cap Data = {}
        /\ all # {} => /\ last[q].serial = serial[q]
                       /\ last[q].pkt.pos = Max(all)

(* The same for a cover picture, which a seek queues again: its stream is  *)
(* not finished after a seek before the picture has been decoded.          *)
CoverDecoded ==
    \A q \in Streams \cap Covers :
        finished[q] = serial[q] /\ serial[q] > 1 =>
            last[q] = Dec!Frame(Source!Packet(Source!Picture, serial[q] - 1),
                                serial[q])

(* The codec is not given a packet while it drains (it would lose it): a   *)
(* null packet is only followed by a flush packet or by end of stream.     *)
NothingLostInCodec ==
    \A q \in Streams :
        dpc[q] = "send" /\ temp_pkt[q] \in Data => ~draining[q]

(* Frames leave the decoder in file order, without a gap and without a     *)
(* repetition, from the position that was sought: at a refused packet, at  *)
(* a seek in the middle of a packet, at a second end of file.              *)
FramesInOrder ==
    [][\A q \in Streams \ Covers : last'[q] # last[q] =>
         LET from == IF last'[q].serial = last[q].serial
                       THEN last[q].pkt.pos + 1
                       ELSE StartOf(last'[q].serial)
         IN  /\ last'[q].serial >= last[q].serial
             /\ last'[q].pkt.pos = Min(PacketsFrom(q, from))]_vars

(* Reading ahead stops: what is buffered passes MAX_QUEUE_SIZE by no more  *)
(* than one packet and the null packets of an end of file.                 *)
BufferBounded ==
    Source!Buffered <= MaxQueueSize + 1 + Cardinality(Streams)

(* Between its look at seek_req and its wait the reader hears no           *)
(* notification; everywhere else it comes to look, and while it sleeps the *)
(* notification of the seek has to wake it.                                *)
ComesToLook ==
    IF read_asleep THEN seek_call.todo # {}
    ELSE rpc \notin {"attach", "attach_null", "need", "wait"}

(* Liveness: a seek request that finds the reader asleep, or awake and not *)
(* yet on its way to sleep, is served, unless an I/O error stops the       *)
(* reader: it neither sleeps on after the notification nor for ever puts   *)
(* the request off.  Only a notification that falls between the look at    *)
(* the request and the wait is lost.                                       *)
SeekServed == (seek_req /\ ComesToLook) ~> (~seek_req \/ rpc = "stopped")

(* Liveness: at the end of the file each decoder finishes, unless the file *)
(* is left by a seek or the decoder sleeps over a packet.                  *)
Missed(q) == waiters[q] # {} /\ pkts[q] # <<>>
EndIsReached ==
    \A q \in Streams :
        eof ~> (finished[q] = serial[q] \/ ~eof \/ Missed(q))

(* decoder_base.h:29: read_condition notifies the reader "if decoder have  *)
(* not enough packets"; the reader does not sleep while a decoder waits.   *)
ReaderNotified ==
    read_asleep => \A q \in Streams : waiters[q] = {} \/ pkts[q] # <<>>
=============================================================================
