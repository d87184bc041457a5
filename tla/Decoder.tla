------------------------------ MODULE Decoder -------------------------------
(***************************************************************************)
(* The decoder threads: src/ffplayer/decoder_base.{h,cc} and the           *)
(* DecodeThread loops of decoder_audio.cc and decoder_video.cc, with the   *)
(* part of PushFrame they end in.                                          *)
(*                                                                         *)
(* There is one decoder per packet queue, and its thread has the queue's   *)
(* name.  `dpc[q]` is where DecodeFrame is.  The codec is external: a      *)
(* queue of packets that turns each into one frame, in order.              *)
(*                                                                         *)
(* Left out: Abort and the tests of abort_decoder and abort_request, which *)
(* are false until the player is destroyed, the timestamps of the frames,  *)
(* and subtitles, for which StartDecoder opens no decoder.                 *)
(***************************************************************************)
EXTENDS Naturals, Integers, Sequences

CONSTANTS
    Queues, Threads, Data, FlushPacket, NullPacket, PktSize, PktDuration,
    MaxLen, MaxSerial,      \* see PacketQueue
    Video,
    NoPacket,
    CodecDepth,             \* the packets a codec takes before it refuses
    FrameQueueSize          \* max_size of the frame queue

VARIABLES
    pkts, nb_packets, size, duration, serial, abort_request, waiters,
    pkt_serial,             \* see PacketQueue
    read_asleep,            \* see DataSource
    dpc,
    temp_pkt,
    pending,                \* d->pkt while packet_pending
    finished,
    codec, draining,        \* the codec's packets; it has got a null packet
    got,                    \* the packet whose frame was received
    frames,                 \* the frame queue
    last                    \* the frame that left the decoder last

PQ == INSTANCE PacketQueue

queueVars == <<pkts, nb_packets, size, duration, serial, abort_request,
               waiters, pkt_serial>>
codecVars == <<codec, draining>>
frameVars == <<got, frames, last>>
decoderVars == <<dpc, temp_pkt, pending, finished, codecVars, frameVars>>

Frame(p, s) == [pkt |-> p, serial |-> s]

Init ==
    /\ dpc = [q \in Queues |-> "start"]
    /\ temp_pkt = [q \in Queues |-> NoPacket]
    /\ pending = [q \in Queues |-> NoPacket]
    /\ finished = [q \in Queues |-> 0]
    /\ codec = [q \in Queues |-> <<>>]
    /\ draining = [q \in Queues |-> FALSE]
    /\ got = [q \in Queues |-> NoPacket]
    /\ frames = [q \in Queues |-> <<>>]
    /\ last = [q \in Queues |-> Frame(NoPacket, -1)]

Goto(q, from, to) == dpc[q] = from /\ dpc' = [dpc EXCEPT ![q] = to]

(* continue_read_thread_->notify_all()                                     *)
NotifyQueueEmpty == read_asleep' = FALSE

Current(q) == serial[q] = pkt_serial[q]

FlushBuffers(q) ==
    /\ codec' = [codec EXCEPT ![q] = <<>>]
    /\ draining' = [draining EXCEPT ![q] = FALSE]

-----------------------------------------------------------------------------
(* The first test of DecodeFrame: no frame is asked of a codec that holds  *)
(* packets of an older serial.                                             *)
StartRound(q) ==
    /\ Goto(q, "start", IF Current(q) THEN "receive" ELSE "fill")
    /\ UNCHANGED <<queueVars, read_asleep, temp_pkt, pending, finished,
                   codecVars, frameVars>>

(* avcodec_receive_frame returns a frame, wants more packets (EAGAIN), or  *)
(* has drained (EOF).                                                      *)
ReceiveFrame(q) ==
    /\ codec[q] # <<>>
    /\ Goto(q, "receive", "push")
    /\ got' = [got EXCEPT ![q] = Head(codec[q])]
    /\ codec' = [codec EXCEPT ![q] = Tail(@)]
    /\ UNCHANGED <<queueVars, read_asleep, temp_pkt, pending, finished,
                   draining, frames, last>>

ReceiveAgain(q) ==
    /\ ~draining[q]
    /\ Goto(q, "receive", "fill")
    /\ UNCHANGED <<queueVars, read_asleep, temp_pkt, pending, finished,
                   codecVars, frameVars>>

(* Mutant of ReceiveEnd: `finished` is the queue's serial.                 *)
ReceiveEndOfQueue(q) ==
    /\ draining[q] /\ codec[q] = <<>>
    /\ Goto(q, "receive", "start")
    /\ finished' = [finished EXCEPT ![q] = serial[q]]
    /\ FlushBuffers(q)
    /\ UNCHANGED <<queueVars, read_asleep, temp_pkt, pending, frameVars>>

(* Mutant of ReceiveEnd: the codec is not flushed, the decoder goes on as  *)
(* at EAGAIN.                                                              *)
ReceiveEndKeepsCodec(q) ==
    /\ draining[q] /\ codec[q] = <<>>
    /\ Goto(q, "receive", "fill")
    /\ finished' = [finished EXCEPT ![q] = pkt_serial[q]]
    /\ UNCHANGED <<queueVars, read_asleep, temp_pkt, pending, codecVars,
                   frameVars>>

ReceiveEnd(q) ==
    /\ draining[q] /\ codec[q] = <<>>
    /\ Goto(q, "receive", "start")
    /\ finished' = [finished EXCEPT ![q] = pkt_serial[q]]
    /\ FlushBuffers(q)
    /\ UNCHANGED <<queueVars, read_asleep, temp_pkt, pending, frameVars>>

(* PushFrame with the serial of the decoder's last packet, when the frame  *)
(* queue has room; the video one may drop a late frame.                    *)
FrameDone(q) ==
    /\ Goto(q, "push", "start")
    /\ last' = [last EXCEPT ![q] = Frame(got[q], pkt_serial[q])]
    /\ got' = [got EXCEPT ![q] = NoPacket]
    /\ UNCHANGED <<queueVars, read_asleep, temp_pkt, pending, finished,
                   codecVars>>

PushFrame(q) ==
    /\ Len(frames[q]) < FrameQueueSize
    /\ frames' = [frames EXCEPT ![q] = Append(@, Frame(got[q], pkt_serial[q]))]
    /\ FrameDone(q)

DropLateFrame(q) ==
    /\ q = Video
    /\ nb_packets[q] # 0
    /\ UNCHANGED frames
    /\ FrameDone(q)

-----------------------------------------------------------------------------
(* The second loop of DecodeFrame.  The reader is notified when the queue  *)
(* is empty, then comes the packet the codec refused, if any.              *)
Fill(q) ==
    /\ IF nb_packets[q] = 0 THEN NotifyQueueEmpty ELSE UNCHANGED read_asleep
    /\ \/ /\ pending[q] # NoPacket
          /\ Goto(q, "fill", "check")
          /\ temp_pkt' = [temp_pkt EXCEPT ![q] = pending[q]]
          /\ pending' = [pending EXCEPT ![q] = NoPacket]
       \/ /\ pending[q] = NoPacket
          /\ Goto(q, "fill", "dequeue")
          /\ UNCHANGED <<temp_pkt, pending>>
    /\ UNCHANGED <<queueVars, finished, codecVars, frameVars>>

(* DequeuePacket takes the queue's mutex; a packet taken notifies the      *)
(* reader, and finding none only leads to the wait.                        *)
DequeuePacket(q) ==
    /\ q \notin waiters[q]
    /\ Goto(q, "dequeue", "check")
    /\ PQ!Take(q)
    /\ temp_pkt' = [temp_pkt EXCEPT ![q] = Head(pkts[q]).pkt]
    /\ NotifyQueueEmpty
    /\ UNCHANGED <<pending, finished, codecVars, frameVars>>

DequeueNothing(q) ==
    /\ q \notin waiters[q]
    /\ ~PQ!HasPacket(q)
    /\ Goto(q, "dequeue", "wait")
    /\ UNCHANGED <<queueVars, read_asleep, temp_pkt, pending, finished,
                   codecVars, frameVars>>

(* The mutex is taken again: the reader is notified, the thread sleeps.    *)
(* The queue is not looked at a second time.                               *)
WaitForPackets(q) ==
    /\ Goto(q, "wait", "dequeue")
    /\ NotifyQueueEmpty
    /\ PQ!Sleep(q, q)
    /\ UNCHANGED <<temp_pkt, pending, finished, codecVars, frameVars>>

SpuriousWake(q) ==
    /\ PQ!SpuriousWake(q, q)
    /\ UNCHANGED <<read_asleep, decoderVars>>

(* A packet of an older serial is dropped.                                 *)
KeepPacket(q) ==
    /\ Current(q)
    /\ Goto(q, "check", "send")
    /\ UNCHANGED <<queueVars, read_asleep, temp_pkt, pending, finished,
                   codecVars, frameVars>>

DropPacket(q) ==
    /\ ~Current(q)
    /\ Goto(q, "check", "fill")
    /\ temp_pkt' = [temp_pkt EXCEPT ![q] = NoPacket]
    /\ UNCHANGED <<queueVars, read_asleep, pending, finished, codecVars,
                   frameVars>>

-----------------------------------------------------------------------------
(* The packet goes to the codec: a flush packet empties it, a null packet  *)
(* makes it drain, a codec that is full may refuse a packet, and one that  *)
(* drains loses it.                                                        *)
Sent(q) ==
    /\ Goto(q, "send", "start")
    /\ temp_pkt' = [temp_pkt EXCEPT ![q] = NoPacket]
    /\ UNCHANGED <<queueVars, read_asleep, frameVars>>

(* Mutant of SendFlush: the codec keeps what it holds.                     *)
SendFlushKeepsCodec(q) ==
    /\ temp_pkt[q] = FlushPacket
    /\ finished' = [finished EXCEPT ![q] = 0]
    /\ UNCHANGED <<pending, codecVars>>
    /\ Sent(q)

SendFlush(q) ==
    /\ temp_pkt[q] = FlushPacket
    /\ FlushBuffers(q)
    /\ finished' = [finished EXCEPT ![q] = 0]
    /\ UNCHANGED pending
    /\ Sent(q)

SendData(q) ==
    /\ temp_pkt[q] \in Data
    /\ Len(codec[q]) < CodecDepth
    /\ codec' = [codec EXCEPT
                   ![q] = IF draining[q] THEN @ ELSE Append(@, temp_pkt[q])]
    /\ UNCHANGED <<pending, finished, draining>>
    /\ Sent(q)

(* Mutant of SendNull: the null packet is sent as a data packet.           *)
SendNullAsData(q) ==
    /\ temp_pkt[q] = NullPacket
    /\ codec' = [codec EXCEPT ![q] = Append(@, NullPacket)]
    /\ UNCHANGED <<pending, finished, draining>>
    /\ Sent(q)

SendNull(q) ==
    /\ temp_pkt[q] = NullPacket
    /\ draining' = [draining EXCEPT ![q] = TRUE]
    /\ UNCHANGED <<pending, finished, codec>>
    /\ Sent(q)

SendRefused(q) ==
    /\ temp_pkt[q] # FlushPacket
    /\ Len(codec[q]) = CodecDepth /\ ~draining[q]
    /\ pending' = [pending EXCEPT ![q] = temp_pkt[q]]
    /\ UNCHANGED <<finished, codecVars>>
    /\ Sent(q)

-----------------------------------------------------------------------------
DecodeFrame(q) ==
    \/ StartRound(q)
    \/ ReceiveFrame(q) \/ ReceiveAgain(q) \/ ReceiveEnd(q)
    \/ PushFrame(q) \/ DropLateFrame(q)
    \/ Fill(q)
    \/ DequeuePacket(q) \/ DequeueNothing(q) \/ WaitForPackets(q)
    \/ KeepPacket(q) \/ DropPacket(q)
    \/ SendFlush(q) \/ SendData(q) \/ SendNull(q) \/ SendRefused(q)

(* The renderer takes a frame.                                             *)
TakeFrame(q) ==
    /\ frames[q] # <<>>
    /\ frames' = [frames EXCEPT ![q] = Tail(@)]
    /\ UNCHANGED <<queueVars, read_asleep, dpc, temp_pkt, pending, finished,
                   codecVars, got, last>>
=============================================================================
