---------------------------- MODULE PacketQueue ----------------------------
(***************************************************************************)
(* The packet queues between the reader thread (DataSource) and the        *)
(* decoder threads: src/ffplayer/ffp_packet_queue.{h,cc}.                  *)
(*                                                                         *)
(* A player owns one PacketQueue per stream; the module describes all of   *)
(* them at once, every variable being a function on Queues.  A method body *)
(* that runs under `mutex` is one step.  `cond` is the set of the threads  *)
(* asleep on it: cond.notify_all() empties the set.  A put that fails for  *)
(* lack of memory is not modelled.                                         *)
(***************************************************************************)
EXTENDS Naturals, Integers, Sequences, SequencesExt

CONSTANTS
    Queues,        \* the packet queues of one player (audio, video, ...)
    Threads,       \* the threads that may sleep on a queue's `cond`
    Data,          \* the packets read from the file
    FlushPacket,   \* GetFlushPacket(): announces a discontinuity
    NullPacket,    \* PutNullPacket(): tells the codec to drain
    PktSize,       \* bytes a queued packet accounts for, list node included
    PktDuration,   \* AVPacket.duration
    MaxLen,        \* bound on the packets of one queue
    MaxSerial      \* bound on the flush packets put in one queue

Packets == Data \union {FlushPacket, NullPacket}

ASSUME PacketsAssumption ==
    /\ FlushPacket \notin Data
    /\ NullPacket \notin Data
    /\ FlushPacket # NullPacket
    /\ PktSize \in [Packets -> Nat]
    /\ PktDuration \in [Packets -> Nat]
    /\ MaxLen \in Nat
    /\ MaxSerial \in Nat

VARIABLES
    pkts,           \* first_pkt .. last_pkt, the linked list of MyAVPacketList
    nb_packets,     \* the three counters kept beside the list
    size,
    duration,
    serial,         \* incremented by each flush packet
    abort_request,
    waiters,        \* the threads asleep on `cond`
    pkt_serial      \* what the last packet taken reported as its serial

vars == <<pkts, nb_packets, size, duration, serial, abort_request, waiters,
          pkt_serial>>

Entry == [pkt : Packets, serial : Nat]

-----------------------------------------------------------------------------
(* PacketQueue::PacketQueue and the initial pkt_serial of a Decoder.       *)
Init ==
    /\ pkts = [q \in Queues |-> <<>>]
    /\ nb_packets = [q \in Queues |-> 0]
    /\ size = [q \in Queues |-> 0]
    /\ duration = [q \in Queues |-> 0]
    /\ serial = [q \in Queues |-> 0]
    /\ abort_request = [q \in Queues |-> TRUE]
    /\ waiters = [q \in Queues |-> {}]
    /\ pkt_serial = [q \in Queues |-> -1]

(* Mutant of Stamp: a packet carries the consumer's serial.                *)
StampOfConsumer(q, p) == pkt_serial[q]

(* The serial a packet is stamped with: a flush packet opens a new one.    *)
Stamp(q, p) == IF p = FlushPacket THEN serial[q] + 1 ELSE serial[q]

(* Put / Put_ / PutNullPacket on a queue that is not aborted.              *)
PutAccepted(q, p) ==
    /\ ~abort_request[q]
    /\ serial' = [serial EXCEPT ![q] = Stamp(q, p)]
    /\ pkts' = [pkts EXCEPT
                  ![q] = Append(@, [pkt |-> p, serial |-> Stamp(q, p)])]
    /\ nb_packets' = [nb_packets EXCEPT ![q] = @ + 1]
    /\ size' = [size EXCEPT ![q] = @ + PktSize[p]]
    /\ duration' = [duration EXCEPT ![q] = @ + PktDuration[p]]
    /\ waiters' = [waiters EXCEPT ![q] = {}]
    /\ UNCHANGED <<abort_request, pkt_serial>>

(* Put drops the packet when the queue is aborted.                         *)
Put(q, p) ==
    \/ PutAccepted(q, p)
    \/ abort_request[q] /\ UNCHANGED vars

(* Mutants of Flush: `duration = 0` forgotten; the serial starts again.    *)
FlushKeepsDuration(q) ==
    /\ pkts' = [pkts EXCEPT ![q] = <<>>]
    /\ nb_packets' = [nb_packets EXCEPT ![q] = 0]
    /\ size' = [size EXCEPT ![q] = 0]
    /\ UNCHANGED <<duration, serial, abort_request, waiters, pkt_serial>>

FlushResetsSerial(q) ==
    /\ pkts' = [pkts EXCEPT ![q] = <<>>]
    /\ nb_packets' = [nb_packets EXCEPT ![q] = 0]
    /\ size' = [size EXCEPT ![q] = 0]
    /\ duration' = [duration EXCEPT ![q] = 0]
    /\ serial' = [serial EXCEPT ![q] = 0]
    /\ UNCHANGED <<abort_request, waiters, pkt_serial>>

(* Flush drops the packets and keeps the serial.                           *)
Flush(q) ==
    /\ pkts' = [pkts EXCEPT ![q] = <<>>]
    /\ nb_packets' = [nb_packets EXCEPT ![q] = 0]
    /\ size' = [size EXCEPT ![q] = 0]
    /\ duration' = [duration EXCEPT ![q] = 0]
    /\ UNCHANGED <<serial, abort_request, waiters, pkt_serial>>

(* Mutant of Abort: nobody is notified.                                    *)
AbortQuietly(q) ==
    /\ abort_request' = [abort_request EXCEPT ![q] = TRUE]
    /\ UNCHANGED <<pkts, nb_packets, size, duration, serial, waiters,
                   pkt_serial>>

Abort(q) ==
    /\ abort_request' = [abort_request EXCEPT ![q] = TRUE]
    /\ waiters' = [waiters EXCEPT ![q] = {}]
    /\ UNCHANGED <<pkts, nb_packets, size, duration, serial, pkt_serial>>

(* The first half of Start, outside the mutex.  The second half is         *)
(* Put(q, FlushPacket).                                                    *)
StartClear(q) ==
    /\ abort_request' = [abort_request EXCEPT ![q] = FALSE]
    /\ UNCHANGED <<pkts, nb_packets, size, duration, serial, waiters,
                   pkt_serial>>

(* What DequeuePacket and Get need to return a packet ...                  *)
HasPacket(q) == ~abort_request[q] /\ pkts[q] # <<>>

(* ... and how they take it.                                               *)
Take(q) ==
    LET head == Head(pkts[q]) IN
    /\ HasPacket(q)
    /\ pkts' = [pkts EXCEPT ![q] = Tail(@)]
    /\ nb_packets' = [nb_packets EXCEPT ![q] = @ - 1]
    /\ size' = [size EXCEPT ![q] = @ - PktSize[head.pkt]]
    /\ duration' = [duration EXCEPT ![q] = @ - PktDuration[head.pkt]]
    /\ pkt_serial' = [pkt_serial EXCEPT ![q] = head.serial]
    /\ UNCHANGED <<serial, abort_request, waiters>>

(* cond.wait(lock): the thread is on `cond` before the mutex is released.  *)
Sleep(q, t) ==
    /\ waiters' = [waiters EXCEPT ![q] = @ \union {t}]
    /\ UNCHANGED <<pkts, nb_packets, size, duration, serial, abort_request,
                   pkt_serial>>

Awake(t) == \A q \in Queues : t \notin waiters[q]

(* Get with `block` set on an empty queue: the test and the wait are one   *)
(* critical section.                                                       *)
GetWait(q, t) ==
    /\ Awake(t)
    /\ ~abort_request[q]
    /\ pkts[q] = <<>>
    /\ Sleep(q, t)

(* A condition variable may wake a thread for no reason.                   *)
SpuriousWake(q, t) ==
    /\ t \in waiters[q]
    /\ waiters' = [waiters EXCEPT ![q] = @ \ {t}]
    /\ UNCHANGED <<pkts, nb_packets, size, duration, serial, abort_request,
                   pkt_serial>>

-----------------------------------------------------------------------------
Room(q, p) ==
    /\ Len(pkts[q]) < MaxLen
    /\ p = FlushPacket => serial[q] < MaxSerial

PutPacket(q) == \E p \in Packets : Room(q, p) /\ Put(q, p)

(* Start runs once, in the constructor of the queue's decoder.             *)
Start(q) == serial[q] = 0 /\ abort_request[q] /\ StartClear(q)

TakePacket(q) == (\E t \in Threads : Awake(t)) /\ Take(q)

(* Any thread calls any method, in any order.                              *)
Next ==
    \E q \in Queues :
        \/ Start(q)
        \/ PutPacket(q)
        \/ Flush(q)
        \/ Abort(q)
        \/ TakePacket(q)
        \/ \E t \in Threads : GetWait(q, t) \/ SpuriousWake(q, t)

Spec == Init /\ [][Next]_vars

-----------------------------------------------------------------------------
(* The shape of the variables of src/ffplayer/ffp_packet_queue.h.          *)
TypeOK ==
    /\ pkts \in [Queues -> Seq(Entry)]
    /\ nb_packets \in [Queues -> Int]
    /\ size \in [Queues -> Int]
    /\ duration \in [Queues -> Int]
    /\ serial \in [Queues -> Nat]
    /\ abort_request \in [Queues -> BOOLEAN]
    /\ waiters \in [Queues -> SUBSET Threads]
    /\ pkt_serial \in [Queues -> Int]

Total(f, s) == FoldLeft(LAMBDA sum, e : sum + f[e.pkt], 0, s)

NbPacketsMatch == \A q \in Queues : nb_packets[q] = Len(pkts[q])

(* The counters isNeedReadMore decides on stay those of the list through   *)
(* every mix of Put, Flush, Get and DequeuePacket.                         *)
CountersMatch ==
    /\ NbPacketsMatch
    /\ \A q \in Queues : /\ size[q] = Total(PktSize, pkts[q])
                         /\ duration[q] = Total(PktDuration, pkts[q])

SerialsBounded ==
    \A q \in Queues :
        /\ pkt_serial[q] <= serial[q]
        /\ \A i \in DOMAIN pkts[q] : /\ pkt_serial[q] <= pkts[q][i].serial
                                     /\ pkts[q][i].serial <= serial[q]

FlushSplits ==
    \A q \in Queues : \A i, j \in DOMAIN pkts[q] : i < j =>
        /\ pkts[q][i].serial <= pkts[q][j].serial
        /\ pkts[q][j].pkt = FlushPacket => pkts[q][i].serial < pkts[q][j].serial

(* The test `queue()->serial == pkt_serial` of DecodeFrame tells the       *)
(* packets put after the last flush packet from all older ones: serials    *)
(* never run backwards, along the list or for the consumer, and everything *)
(* ahead of a flush packet carries a smaller serial.                       *)
EpochBoundary == SerialsBounded /\ FlushSplits

(* A thread asleep inside Get has nothing to take and has not missed an    *)
(* abort: Get tests and waits under one lock, so no put is lost on it.     *)
NoStarvedWaiter ==
    \A q \in Queues :
        waiters[q] # {} => pkts[q] = <<>> /\ ~abort_request[q]
=============================================================================
