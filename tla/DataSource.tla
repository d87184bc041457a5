----------------------------- MODULE DataSource -----------------------------
(***************************************************************************)
(* The reader thread and the seek requests it serves:                      *)
(* src/ffplayer/data_source.{h,cc}, from OpenStreams on.                   *)
(*                                                                         *)
(* ReadStreams loops: serve a seek, queue the cover picture, go to sleep   *)
(* if the packet queues hold enough, else read a packet and queue it.      *)
(* `rpc` is where the loop is, `left` the queues a per-stream sequence of  *)
(* calls has still to visit.  `read_asleep` is the sleep on                *)
(* continue_read_thread_, whose mutex nobody else takes: a notification    *)
(* between the test of isNeedReadMore and the wait is lost.                *)
(*                                                                         *)
(* Left out: the destructor and abort_request, av_read_pause, the external *)
(* clock that a seek sets, and the DO_SOME_WORK message of each round.     *)
(*                                                                         *)
(* The file is a sequence of packets.  Each avformat_seek_file that        *)
(* succeeds opens an epoch (not a variable of the code), and a packet is   *)
(* its position and the epoch it was read in.                              *)
(***************************************************************************)
EXTENDS Naturals, Integers, Sequences, FiniteSetsExt

CONSTANTS
    Queues, Threads, Data, FlushPacket, NullPacket, PktSize, PktDuration,
    MaxLen, MaxSerial,      \* see PacketQueue
    Audio, Video,           \* the streams a player decodes
    Covers,                 \* the streams that are an attached picture
    File,                   \* the stream of each packet of the file
    MinFrames,              \* MIN_FRAMES
    OneSecond,              \* the duration a queue should exceed
    MaxQueueSize,           \* MAX_QUEUE_SIZE
    InfiniteBuffer,         \* infinite_buffer: a real-time source
    SeekTargets,            \* the positions of the file that are asked for
    MaxSeeks                \* bound on the seek requests

VARIABLES
    pkts, nb_packets, size, duration, serial, abort_request, waiters,
    pkt_serial,             \* see PacketQueue
    rpc, left, read_asleep,
    filepos,                \* the demuxer's position
    targets,                \* where each epoch starts; their number is the epoch
    eof,
    queue_attachments_req,
    pkt,                    \* the packet av_read_frame returned
    seek_req, seek_position,
    seek_call,              \* what a call of Seek has still to do
    seeks                   \* the calls of Seek that were accepted

PQ == INSTANCE PacketQueue

queueVars == <<pkts, nb_packets, size, duration, serial, abort_request,
               waiters, pkt_serial>>
seekVars == <<seek_req, seek_position, seek_call, seeks>>
fileVars == <<filepos, targets, eof, queue_attachments_req, pkt>>
readerVars == <<rpc, left, read_asleep, seekVars, fileVars>>

Epoch == Len(targets)
Picture == 0            \* the position of the cover picture
Packet(pos, epoch) == [pos |-> pos, epoch |-> epoch]
NoRead == Packet(Picture, 0)
NoCall == [todo |-> {}, target |-> 1]

IfOpened(q) == IF q \in Queues THEN <<q>> ELSE <<>>
FlushOrder == IfOpened(Audio) \o IfOpened(Video)
(* Mutant of DrainOrder: no null packet at the end of the file.            *)
DrainNothing == <<>>

DrainOrder == IfOpened(Video) \o IfOpened(Audio)

(* The decoders run from OpenStreams on: PacketQueue::Start has been       *)
(* called, so each queue holds a flush packet of serial 1.                 *)
Init ==
    /\ pkts = [q \in Queues |-> <<[pkt |-> FlushPacket, serial |-> 1]>>]
    /\ nb_packets = [q \in Queues |-> 1]
    /\ size = [q \in Queues |-> PktSize[FlushPacket]]
    /\ duration = [q \in Queues |-> PktDuration[FlushPacket]]
    /\ serial = [q \in Queues |-> 1]
    /\ abort_request = [q \in Queues |-> FALSE]
    /\ waiters = [q \in Queues |-> {}]
    /\ pkt_serial = [q \in Queues |-> -1]
    /\ rpc = "seek"
    /\ left = <<>>
    /\ read_asleep = FALSE
    /\ filepos = 1
    /\ targets = <<>>
    /\ eof = FALSE
    /\ queue_attachments_req = FALSE
    /\ pkt = NoRead
    /\ seek_req = FALSE
    /\ seek_position = 1         \* the start of the file
    /\ seek_call = NoCall
    /\ seeks = 0

Goto(from, to) == ~read_asleep /\ rpc = from /\ rpc' = to

-----------------------------------------------------------------------------
(* ProcessSeekRequest.  A target stands for the position the demuxer lands *)
(* on.                                                                     *)
NoSeek ==
    /\ ~seek_req
    /\ Goto("seek", "attach")
    /\ UNCHANGED <<queueVars, left, read_asleep, fileVars, seekVars>>

SeekFile ==
    /\ seek_req
    /\ Goto("seek", "flush")
    /\ filepos' = seek_position
    /\ targets' = Append(targets, seek_position)
    /\ left' = FlushOrder
    /\ UNCHANGED <<queueVars, read_asleep, eof, queue_attachments_req, pkt,
                   seekVars>>

SeekFails ==
    /\ seek_req
    /\ Goto("seek", "sought")
    /\ UNCHANGED <<queueVars, left, read_asleep, fileVars, seekVars>>

FlushQueue ==
    /\ Goto("flush", "mark")
    /\ PQ!Flush(Head(left))
    /\ UNCHANGED <<left, read_asleep, fileVars, seekVars>>

(* Mutant of MarkQueue: the queue is flushed, no flush packet is put.      *)
MarkForgotten ==
    /\ Goto("mark", IF Len(left) = 1 THEN "sought" ELSE "flush")
    /\ left' = Tail(left)
    /\ UNCHANGED <<queueVars, read_asleep, fileVars, seekVars>>

MarkQueue ==
    /\ Goto("mark", IF Len(left) = 1 THEN "sought" ELSE "flush")
    /\ PQ!Put(Head(left), FlushPacket)
    /\ left' = Tail(left)
    /\ UNCHANGED <<read_asleep, fileVars, seekVars>>

(* Mutant of EndSeek: the cover is not asked for.                          *)
EndSeekNoCover ==
    /\ Goto("sought", "attach")
    /\ seek_req' = FALSE
    /\ eof' = FALSE
    /\ UNCHANGED <<queueVars, left, read_asleep, filepos, targets, pkt,
                   queue_attachments_req, seek_position, seek_call, seeks>>

EndSeek ==
    /\ Goto("sought", "attach")
    /\ seek_req' = FALSE
    /\ queue_attachments_req' = TRUE
    /\ eof' = FALSE
    /\ UNCHANGED <<queueVars, left, read_asleep, filepos, targets, pkt,
                   seek_position, seek_call, seeks>>

(* ProcessAttachedPicture                                                  *)
QueuePicture ==
    /\ queue_attachments_req /\ Covers # {}
    /\ Goto("attach", "attach_null")
    /\ PQ!Put(Video, Packet(Picture, Epoch))
    /\ UNCHANGED <<left, read_asleep, fileVars, seekVars>>

QueuePictureEnd ==
    /\ Goto("attach_null", "need")
    /\ PQ!Put(Video, NullPacket)
    /\ queue_attachments_req' = FALSE
    /\ UNCHANGED <<left, read_asleep, filepos, targets, eof, pkt, seekVars>>

NoPicture ==
    /\ ~queue_attachments_req \/ Covers = {}
    /\ Goto("attach", "need")
    /\ queue_attachments_req' = FALSE
    /\ UNCHANGED <<queueVars, left, read_asleep, filepos, targets, eof, pkt,
                   seekVars>>

-----------------------------------------------------------------------------
(* stream_has_enough_packets and isNeedReadMore.  The counters are read    *)
(* one after the other without a lock, but only decrease meanwhile, and a  *)
(* read that is overtaken shows in the gap between the test and the wait.  *)
HasEnough(q) ==
    \/ abort_request[q]
    \/ q \in Covers
    \/ nb_packets[q] > MinFrames /\ (duration[q] = 0 \/ duration[q] > OneSecond)

Buffered == MapThenSumSet(LAMBDA q : size[q], Queues)

(* Mutant of NeedReadMore: MAX_QUEUE_SIZE is not tested.                   *)
NeedReadAlways == InfiniteBuffer \/ \E q \in Queues : ~HasEnough(q)

NeedReadMore ==
    \/ InfiniteBuffer
    \/ Buffered <= MaxQueueSize /\ \E q \in Queues : ~HasEnough(q)

TestQueues ==
    /\ Goto("need", IF NeedReadMore THEN "read" ELSE "wait")
    /\ UNCHANGED <<queueVars, left, read_asleep, fileVars, seekVars>>

(* continue_read_thread_->wait(lock)                                       *)
WaitForDecoders ==
    /\ Goto("wait", "seek")
    /\ read_asleep' = TRUE
    /\ UNCHANGED <<queueVars, left, fileVars, seekVars>>

(* continue_read_thread_->notify_all(), by whoever calls it.               *)
NotifyReader == read_asleep' = FALSE

SpuriousWake ==
    /\ read_asleep
    /\ NotifyReader
    /\ UNCHANGED <<queueVars, rpc, left, fileVars, seekVars>>

-----------------------------------------------------------------------------
(* ProcessReadFrame: av_read_frame returns a packet, the end of the file   *)
(* or an error.                                                            *)
ReadPacket ==
    /\ filepos <= Len(File)
    /\ Goto("read", "queue")
    /\ pkt' = Packet(filepos, Epoch)
    /\ filepos' = filepos + 1
    /\ eof' = FALSE
    /\ UNCHANGED <<queueVars, left, read_asleep, targets,
                   queue_attachments_req, seekVars>>

ReadError ==
    /\ Goto("read", "failed")
    /\ UNCHANGED <<queueVars, left, read_asleep, fileVars, seekVars>>

ReadEnd ==
    /\ filepos > Len(File)
    /\ ~eof
    /\ Goto("read", "drain")
    /\ left' = DrainOrder
    /\ UNCHANGED <<queueVars, read_asleep, fileVars, seekVars>>

PutNull ==
    /\ left # <<>>
    /\ Goto("drain", "drain")
    /\ PQ!Put(Head(left), NullPacket)
    /\ left' = Tail(left)
    /\ UNCHANGED <<read_asleep, fileVars, seekVars>>

SetEof ==
    /\ left = <<>>
    /\ Goto("drain", "failed")
    /\ eof' = TRUE
    /\ UNCHANGED <<queueVars, left, read_asleep, filepos, targets,
                   queue_attachments_req, pkt, seekVars>>

(* pb->error ends the loop.  Otherwise the reader naps for 10 ms at most,  *)
(* so that a notification makes no difference.                             *)
IoError ==
    /\ Goto("failed", "stopped")
    /\ UNCHANGED <<queueVars, left, read_asleep, fileVars, seekVars>>

Nap ==
    /\ Goto("failed", "seek")
    /\ UNCHANGED <<queueVars, left, read_asleep, fileVars, seekVars>>

(* ProcessQueuePacket: a packet of a stream nobody decodes, outside of the *)
(* play range or of a cover picture is dropped.                            *)
QueuePacket ==
    LET q == File[pkt.pos] IN
    /\ Goto("queue", "seek")
    /\ \/ q \in Queues \ Covers /\ PQ!Put(q, pkt)
       \/ q \notin Queues \ Covers /\ UNCHANGED queueVars
    /\ pkt' = NoRead
    /\ UNCHANGED <<left, read_asleep, filepos, targets, eof,
                   queue_attachments_req, seekVars>>

-----------------------------------------------------------------------------
(* Seek, on the thread of the user interface; a call is ignored while a    *)
(* request is pending.  seek_position and seek_req_ are plain fields that  *)
(* the reader thread reads: it may see the two stores in either order.     *)
Seek(target) ==
    /\ seek_call.todo = {}
    /\ ~seek_req
    /\ seeks < MaxSeeks
    /\ seek_call' = [todo |-> {"position", "request", "notify"},
                     target |-> target]
    /\ seeks' = seeks + 1
    /\ UNCHANGED <<queueVars, rpc, left, read_asleep, fileVars, seek_req,
                   seek_position>>

StorePosition ==
    /\ "position" \in seek_call.todo
    /\ seek_position' = seek_call.target
    /\ seek_call' = [seek_call EXCEPT !.todo = @ \ {"position"}]
    /\ UNCHANGED <<queueVars, rpc, left, read_asleep, fileVars, seek_req,
                   seeks>>

StoreRequest ==
    /\ "request" \in seek_call.todo
    /\ seek_req' = TRUE
    /\ seek_call' = [seek_call EXCEPT !.todo = @ \ {"request"}]
    /\ UNCHANGED <<queueVars, rpc, left, read_asleep, fileVars, seek_position,
                   seeks>>

(* Mutant of NotifySeek: nobody is notified.                               *)
NotifySeekQuietly ==
    /\ seek_call.todo = {"notify"}
    /\ seek_call' = NoCall
    /\ UNCHANGED <<queueVars, rpc, left, read_asleep, fileVars, seek_req,
                   seek_position, seeks>>

NotifySeek ==
    /\ seek_call.todo = {"notify"}
    /\ NotifyReader
    /\ seek_call' = NoCall
    /\ UNCHANGED <<queueVars, rpc, left, fileVars, seek_req, seek_position,
                   seeks>>

-----------------------------------------------------------------------------
ProcessSeekRequest ==
    NoSeek \/ SeekFile \/ SeekFails \/ FlushQueue \/ MarkQueue \/ EndSeek
ProcessAttachedPicture == QueuePicture \/ QueuePictureEnd \/ NoPicture
ProcessReadFrame ==
    ReadPacket \/ ReadError \/ ReadEnd \/ PutNull \/ SetEof \/ IoError \/ Nap

ReadStreams ==
    \/ ProcessSeekRequest
    \/ ProcessAttachedPicture
    \/ TestQueues
    \/ WaitForDecoders
    \/ ProcessReadFrame
    \/ QueuePacket

SeekCall ==
    \/ \E target \in SeekTargets : Seek(target)
    \/ StorePosition
    \/ StoreRequest
    \/ NotifySeek
=============================================================================
