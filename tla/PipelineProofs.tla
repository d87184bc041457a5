--------------------------- MODULE PipelineProofs ---------------------------
(* Proofs about Pipeline: packets between the reader, the queues and the   *)
(* codecs, for any file, any seeks and any sizes.                          *)
EXTENDS Pipeline, SequenceTheorems, FiniteSetTheorems, TLAPS

AnyEntry == [pkt : Packets, serial : Int]
AnyFrame == [pkt : Data, serial : Int]
Places == {"start", "receive", "push", "fill", "dequeue", "wait", "check",
           "send"}

Shapes ==
    /\ pkts \in [Streams -> Seq(AnyEntry)]
    /\ nb_packets \in [Streams -> Int]
    /\ serial \in [Streams -> Int] /\ pkt_serial \in [Streams -> Int]
    /\ finished \in [Streams -> Int]
    /\ waiters \in [Streams -> SUBSET Streams]
    /\ abort_request = [q \in Streams |-> FALSE]
    /\ dpc \in [Streams -> Places]
    /\ temp_pkt \in [Streams -> Packets \union {NoPacket}]
    /\ pending \in [Streams -> (Packets \ {FlushPacket}) \union {NoPacket}]
    /\ codec \in [Streams -> Seq(Data)] /\ draining \in [Streams -> BOOLEAN]
    /\ got \in [Streams -> Data \union {NoPacket}]
    /\ frames \in [Streams -> Seq(AnyFrame)]

(* A packet of the queue's serial comes behind the flush packet that       *)
(* opened it: in the queue, or taken already.                              *)
Opened(q, i) ==
    pkts[q][i].serial = serial[q] /\ pkts[q][i].pkt # FlushPacket =>
        IF i = 1 THEN pkt_serial[q] = serial[q]
                 ELSE pkts[q][i - 1].serial = serial[q]

QueueKnown(q) ==
    /\ pkt_serial[q] <= serial[q]
    /\ \A i \in 1 .. Len(pkts[q]) :
          /\ pkts[q][i].serial <= serial[q]
          /\ Carried(pkts[q][i].pkt, pkts[q][i].serial)
          /\ Opened(q, i)

(* So has the last packet, but between the two calls that reopen a queue.  *)
LastNew(q) ==
    IF pkts[q] = <<>> THEN pkt_serial[q] = serial[q]
                      ELSE pkts[q][Len(pkts[q])].serial = serial[q]

EndKnown(q) == (rpc = "mark" /\ Head(left) = q) \/ LastNew(q)

(* A decoder has a packet to send only on its way to the codec, at most    *)
(* one of temp_pkt and pending, and a frame only until it is pushed.       *)
ThreadKnown(q) ==
    /\ (temp_pkt[q] # NoPacket) <=> dpc[q] \in {"check", "send"}
    /\ dpc[q] \in {"dequeue", "wait", "check", "send"} => pending[q] = NoPacket
    /\ (got[q] # NoPacket) <=> dpc[q] = "push"
    /\ Carried(temp_pkt[q], pkt_serial[q])
    /\ Carried(pending[q], pkt_serial[q])
    /\ Carried(got[q], pkt_serial[q])

(* A decoder that is past its test of the serial, or that passes it now,   *)
(* has a codec of one serial, unless it carries the flush packet; a codec  *)
(* that drains is not used before it is drained or flushed.                *)
CodecKnown(q) ==
    temp_pkt[q] # FlushPacket =>
        /\ dpc[q] \in {"start", "receive", "push", "send"}
           \/ pkt_serial[q] = serial[q]
             => \A i \in 1 .. Len(codec[q]) : Carried(codec[q][i], pkt_serial[q])
        /\ draining[q] => \/ dpc[q] \in {"start", "receive", "push"}
                          \/ dpc[q] # "send" /\ pkt_serial[q] # serial[q]

FramesKnown(q) ==
    \A i \in 1 .. Len(frames[q]) :
        Carried(frames[q][i].pkt, frames[q][i].serial)

StreamInv(q) ==
    QueueKnown(q) /\ EndKnown(q) /\ ThreadKnown(q) /\ CodecKnown(q)
    /\ FramesKnown(q)

(* The reader's own variables.  A queue that a seek has still to reach has *)
(* the serial of the epoch before.                                         *)
ReaderPlaces ==
    {"seek", "flush", "mark", "sought", "attach", "attach_null", "need", "wait",
     "read", "drain", "failed", "queue", "stopped"}
Positions == 1 .. Len(File) + 1
Calls == [todo : SUBSET {"position", "request", "notify"}, target : Positions]

ReaderShapes ==
    /\ rpc \in ReaderPlaces /\ left \in Seq(Streams)
    /\ targets \in Seq(Positions) /\ filepos \in Positions
    /\ seek_position \in Positions /\ pkt \in Data
    /\ seek_req \in BOOLEAN /\ seek_call \in Calls /\ seeks \in Nat

Left(q) == \E i \in 1 .. Len(left) : left[i] = q

EpochKnown(q) ==
    serial[q] = IF rpc \in {"flush", "mark"} /\ Left(q) THEN Len(targets)
                                                        ELSE Len(targets) + 1

(* Every epoch is a call of Seek that was accepted.                        *)
Waiting ==
    (IF "request" \in seek_call.todo THEN 1 ELSE 0)
    + (IF seek_req /\ rpc \notin {"flush", "mark", "sought"} THEN 1 ELSE 0)

SeeksKnown ==
    /\ Len(targets) + Waiting <= seeks /\ seeks <= MaxSeeks
    /\ rpc \in {"flush", "mark", "sought"} => seek_req
    /\ ~("request" \in seek_call.todo /\ seek_req)

ReaderKnown ==
    /\ rpc \in {"flush", "mark"} => left # <<>> /\ Len(targets) >= 1
    /\ \A i, j \in 1 .. Len(left) : left[i] = left[j] => i = j
    /\ rpc = "attach_null" => Covers # {}
    /\ rpc = "queue" => pkt.epoch = Len(targets)

ReaderInv ==
    /\ ReaderShapes /\ SeeksKnown /\ ReaderKnown
    /\ \A q \in Streams : EpochKnown(q)

IInv == Shapes /\ ReaderInv /\ \A q \in Streams : StreamInv(q)

LEMMA Constants ==
    /\ FlushPacket # NullPacket /\ NoPacket # FlushPacket
    /\ NoPacket # NullPacket
    /\ FlushPacket \notin Data /\ NullPacket \notin Data /\ NoPacket \notin Data
    /\ NoPacket \notin Packets /\ FlushPacket \in Packets
    /\ NullPacket \in Packets /\ Data \subseteq Packets
    /\ \A s : /\ Carried(FlushPacket, s) /\ Carried(NullPacket, s)
              /\ Carried(NoPacket, s)
  BY PipelineAssumption DEF Carried, Packets

LEMMA TailFacts ==
    ASSUME NEW S, NEW s \in Seq(S), s # <<>>
    PROVE  /\ Tail(s) \in Seq(S) /\ Len(Tail(s)) = Len(s) - 1
           /\ Len(s) \in Nat /\ Len(s) >= 1
           /\ \A i \in 1 .. Len(Tail(s)) :
                Tail(s)[i] = s[i + 1] /\ i + 1 \in 1 .. Len(s)
           /\ Head(s) = s[1] /\ 1 \in 1 .. Len(s) /\ s[1] \in S
           /\ Tail(s) = <<>> => Len(s) = 1
<1>1. /\ Tail(s) \in Seq(S) /\ Len(Tail(s)) = Len(s) - 1
      /\ Len(s) \in Nat /\ Len(s) >= 1
      /\ \A i \in 1 .. Len(Tail(s)) :
           Tail(s)[i] = s[i + 1] /\ i + 1 \in 1 .. Len(s)
      /\ Head(s) = s[1] /\ 1 \in 1 .. Len(s) /\ s[1] \in S
  OBVIOUS
<1>2. Tail(s) = <<>> => Len(Tail(s)) = 0
  BY EmptySeq
<1>3. QED
  BY <1>1, <1>2

LEMMA AppendFacts ==
    ASSUME NEW S, NEW s \in Seq(S), NEW e \in S
    PROVE  /\ Append(s, e) \in Seq(S) /\ Len(Append(s, e)) = Len(s) + 1
           /\ Len(s) \in Nat /\ Append(s, e) # <<>>
           /\ \A i \in 1 .. Len(Append(s, e)) :
                Append(s, e)[i] = IF i = Len(s) + 1 THEN e ELSE s[i]
  OBVIOUS

LEMMA Elsewhere ==
    ASSUME NEW q \in Streams, StreamInv(q),
           UNCHANGED <<pkts[q], serial[q], pkt_serial[q], dpc[q], temp_pkt[q],
                       pending[q], codec[q], draining[q], got[q], frames[q],
                       rpc, left>>
    PROVE  StreamInv(q)'
  BY DEF StreamInv, QueueKnown, Opened, EndKnown, LastNew, ThreadKnown, CodecKnown, FramesKnown

LEMMA TakeKeeps ==
    ASSUME Shapes, NEW q \in Streams, StreamInv(q), UNCHANGED <<rpc, left>>,
           Dec!DequeuePacket(q)
    PROVE  Shapes' /\ \A r \in Streams : StreamInv(r) => StreamInv(r)'
<1>1. /\ dpc[q] = "dequeue" /\ dpc' = [dpc EXCEPT ![q] = "check"]
      /\ pkts[q] # <<>>
      /\ pkts' = [pkts EXCEPT ![q] = Tail(@)]
      /\ nb_packets' = [nb_packets EXCEPT ![q] = @ - 1]
      /\ pkt_serial' = [pkt_serial EXCEPT ![q] = Head(pkts[q]).serial]
      /\ temp_pkt' = [temp_pkt EXCEPT ![q] = Head(pkts[q]).pkt]
      /\ UNCHANGED <<serial, abort_request, waiters, pending, finished, codec, draining, got,
                     frames>>
  BY DEF Dec!DequeuePacket, Dec!PQ!Take, Dec!PQ!HasPacket, Dec!Goto, Dec!codecVars, Dec!frameVars
<1>2. Shapes'
  <2>1. /\ pkts[q] \in Seq(AnyEntry) /\ Tail(pkts[q]) \in Seq(AnyEntry)
        /\ Head(pkts[q]) \in AnyEntry
    BY <1>1, TailFacts DEF Shapes
  <2>2. Head(pkts[q]).serial \in Int /\ Head(pkts[q]).pkt \in Packets
    BY <2>1 DEF AnyEntry
  <2>3. /\ pkts' \in [Streams -> Seq(AnyEntry)]
        /\ pkt_serial' \in [Streams -> Int]
        /\ nb_packets' \in [Streams -> Int]
        /\ temp_pkt' \in [Streams -> Packets \union {NoPacket}]
    BY <1>1, <2>1, <2>2 DEF Shapes
  <2>4. dpc' \in [Streams -> Places]
    BY <1>1 DEF Shapes, Places
  <2>5. QED
    BY <1>1, <2>3, <2>4 DEF Shapes
<1>3. ASSUME NEW r \in Streams, StreamInv(r), r # q
      PROVE  StreamInv(r)'
  <2>1. UNCHANGED <<pkts[r], serial[r], pkt_serial[r], dpc[r], temp_pkt[r],
                    pending[r], codec[r], draining[r], got[r], frames[r],
                    rpc, left>>
    BY <1>1, <1>3 DEF Shapes
  <2>2. QED
    BY <2>1, <1>3, Elsewhere
<1>4. /\ pkts[q] \in Seq(AnyEntry) /\ pkts[q] # <<>>
      /\ pkts'[q] = Tail(pkts[q]) /\ serial'[q] = serial[q]
      /\ pkt_serial'[q] = pkts[q][1].serial /\ temp_pkt'[q] = pkts[q][1].pkt
      /\ pkts[q][1] \in AnyEntry
      /\ dpc[q] = "dequeue" /\ dpc'[q] = "check"
      /\ serial[q] \in Int /\ pkt_serial[q] \in Int
  BY <1>1, TailFacts DEF Shapes
<1>5. /\ Len(pkts'[q]) = Len(pkts[q]) - 1 /\ Len(pkts[q]) \in Nat
      /\ 1 \in 1 .. Len(pkts[q])
      /\ \A i \in 1 .. Len(pkts'[q]) :
           pkts'[q][i] = pkts[q][i + 1] /\ i + 1 \in 1 .. Len(pkts[q])
      /\ pkts'[q] = <<>> => Len(pkts[q]) = 1
  BY <1>4, TailFacts
<1>6. QueueKnown(q)'
  <2>1. pkt_serial'[q] <= serial'[q]
    BY <1>4, <1>5 DEF StreamInv, QueueKnown
  <2>2. ASSUME NEW i \in 1 .. Len(pkts'[q])
        PROVE  /\ pkts'[q][i].serial <= serial'[q]
               /\ Carried(pkts'[q][i].pkt, pkts'[q][i].serial)
               /\ Opened(q, i)'
    <3>1. pkts'[q][i] = pkts[q][i + 1] /\ i + 1 \in 1 .. Len(pkts[q]) /\ i # 0
      BY <1>5
    <3>2. i # 1 => pkts'[q][i - 1] = pkts[q][i]
      BY <1>5
    <3>3. Opened(q, i + 1)
      BY <3>1 DEF StreamInv, QueueKnown
    <3>4. /\ pkts'[q][i].serial <= serial'[q]
          /\ Carried(pkts'[q][i].pkt, pkts'[q][i].serial)
      BY <3>1, <1>4 DEF StreamInv, QueueKnown
    <3>5. Opened(q, i)'
      <4>1. CASE i = 1
        BY <4>1, <3>1, <3>3, <1>4 DEF Opened
      <4>2. CASE i # 1
        <5>1. i + 1 # 1 /\ (i + 1) - 1 = i
          OBVIOUS
        <5>2. QED
          BY <4>2, <5>1, <3>1, <3>2, <3>3, <1>4 DEF Opened
      <4>3. QED
        BY <4>1, <4>2
    <3>6. QED
      BY <3>4, <3>5
  <2>3. QED
    BY <2>1, <2>2 DEF QueueKnown
<1>7. EndKnown(q)'
  BY <1>1, <1>4, <1>5 DEF StreamInv, EndKnown, LastNew
<1>8. /\ pending'[q] = pending[q] /\ got'[q] = got[q] /\ codec'[q] = codec[q]
      /\ draining'[q] = draining[q] /\ temp_pkt[q] = NoPacket
      /\ got[q] = NoPacket /\ pending[q] = NoPacket
      /\ temp_pkt'[q] \in Packets /\ Carried(temp_pkt'[q], pkt_serial'[q])
      /\ pkt_serial'[q] = serial'[q] /\ temp_pkt'[q] # FlushPacket =>
           pkt_serial[q] = serial[q]
  <2>1. temp_pkt'[q] \in Packets
    BY <1>4 DEF AnyEntry
  <2>2. ThreadKnown(q) /\ QueueKnown(q) /\ Opened(q, 1)
    BY <1>5 DEF StreamInv, QueueKnown
  <2>3. temp_pkt[q] = NoPacket /\ got[q] = NoPacket /\ pending[q] = NoPacket
    BY <2>2, <1>4 DEF ThreadKnown
  <2>4. /\ Carried(temp_pkt'[q], pkt_serial'[q])
        /\ pkt_serial'[q] = serial'[q] /\ temp_pkt'[q] # FlushPacket =>
             pkt_serial[q] = serial[q]
    BY <2>2, <1>4, <1>5 DEF QueueKnown, Opened
  <2>5. QED
    BY <1>1, <2>1, <2>3, <2>4
<1>9. ThreadKnown(q)' /\ CodecKnown(q)'
  <2>1. ThreadKnown(q)'
    BY <1>4, <1>8, Constants DEF ThreadKnown
  <2>2. CodecKnown(q)
    BY DEF StreamInv
  <2>3. CodecKnown(q)'
    BY <1>4, <1>8, <2>2, Constants DEF CodecKnown
  <2>4. QED
    BY <2>1, <2>3
<1>10. FramesKnown(q)'
  BY <1>1 DEF StreamInv, FramesKnown
<1>11. QED
  BY <1>2, <1>3, <1>6, <1>7, <1>9, <1>10 DEF StreamInv

(***************************************************************************)
(* The steps of a decoder that leave its queue alone.                      *)
(***************************************************************************)
QueueKept == UNCHANGED <<pkts, nb_packets, serial, pkt_serial, rpc, left>>
OthersKept(q) ==
    \A r \in Streams \ {q} :
        UNCHANGED <<dpc[r], temp_pkt[r], pending[r], codec[r], draining[r],
                    got[r], frames[r]>>

LEMMA ThreadStep ==
    ASSUME NEW q \in Streams, QueueKept, OthersKept(q),
           StreamInv(q) => (ThreadKnown(q) /\ CodecKnown(q) /\ FramesKnown(q))'
    PROVE  \A r \in Streams : StreamInv(r) => StreamInv(r)'
<1>1. ASSUME NEW r \in Streams, StreamInv(r), r # q
      PROVE  StreamInv(r)'
  <2>1. UNCHANGED <<pkts[r], serial[r], pkt_serial[r], dpc[r], temp_pkt[r],
                    pending[r], codec[r], draining[r], got[r], frames[r],
                    rpc, left>>
    BY <1>1 DEF QueueKept, OthersKept
  <2>2. QED
    BY <2>1, <1>1, Elsewhere
<1>2. QueueKnown(q) /\ EndKnown(q) => (QueueKnown(q) /\ EndKnown(q))'
  BY DEF QueueKept, QueueKnown, EndKnown, LastNew, Opened
<1>3. QED
  BY <1>1, <1>2 DEF StreamInv

LEMMA QuietKeeps ==
    ASSUME Shapes, NEW q \in Streams, UNCHANGED <<rpc, left>>,
           \/ Dec!StartRound(q) \/ Dec!ReceiveAgain(q) \/ Dec!ReceiveEnd(q)
           \/ Dec!Fill(q) \/ Dec!DequeueNothing(q) \/ Dec!WaitForPackets(q)
           \/ Dec!KeepPacket(q) \/ Dec!DropPacket(q)
    PROVE  Shapes' /\ \A r \in Streams : StreamInv(r) => StreamInv(r)'
<1> USE DEF Dec!Goto, Dec!codecVars, Dec!frameVars, Dec!queueVars, Dec!Current
<1>1. CASE Dec!StartRound(q)
  <2>1. Shapes'
    BY <1>1 DEF Dec!StartRound, Shapes, Places
  <2>2. QueueKept /\ OthersKept(q)
    BY <1>1 DEF Dec!StartRound, Shapes, QueueKept, OthersKept
  <2>3. ThreadKnown(q) /\ CodecKnown(q) => (ThreadKnown(q) /\ CodecKnown(q))'
    BY <1>1 DEF Dec!StartRound, Shapes, ThreadKnown, CodecKnown
  <2>4. FramesKnown(q) => FramesKnown(q)'
    BY <1>1 DEF Dec!StartRound, FramesKnown
  <2>5. QED
    BY <2>1, <2>2, <2>3, <2>4, ThreadStep DEF StreamInv
<1>2. CASE Dec!ReceiveAgain(q)
  <2>1. Shapes'
    BY <1>2 DEF Dec!ReceiveAgain, Shapes, Places
  <2>2. QueueKept /\ OthersKept(q)
    BY <1>2 DEF Dec!ReceiveAgain, Shapes, QueueKept, OthersKept
  <2>3. ThreadKnown(q) /\ CodecKnown(q) => (ThreadKnown(q) /\ CodecKnown(q))'
    BY <1>2 DEF Dec!ReceiveAgain, Shapes, ThreadKnown, CodecKnown
  <2>4. FramesKnown(q) => FramesKnown(q)'
    BY <1>2 DEF Dec!ReceiveAgain, FramesKnown
  <2>5. QED
    BY <2>1, <2>2, <2>3, <2>4, ThreadStep DEF StreamInv
<1>3. CASE Dec!ReceiveEnd(q)
  <2>1. Shapes'
    BY <1>3 DEF Dec!ReceiveEnd, Dec!FlushBuffers, Shapes, Places
  <2>2. QueueKept /\ OthersKept(q)
    BY <1>3 DEF Dec!ReceiveEnd, Dec!FlushBuffers, Shapes, QueueKept, OthersKept
  <2>3. ThreadKnown(q) /\ CodecKnown(q) => (ThreadKnown(q) /\ CodecKnown(q))'
    BY <1>3, EmptySeq DEF Dec!ReceiveEnd, Dec!FlushBuffers, Shapes, ThreadKnown, CodecKnown
  <2>4. FramesKnown(q) => FramesKnown(q)'
    BY <1>3 DEF Dec!ReceiveEnd, FramesKnown
  <2>5. QED
    BY <2>1, <2>2, <2>3, <2>4, ThreadStep DEF StreamInv
<1>4. CASE Dec!Fill(q)
  <2>1. Shapes'
    BY <1>4 DEF Dec!Fill, Shapes, Places
  <2>2. QueueKept /\ OthersKept(q)
    BY <1>4 DEF Dec!Fill, Shapes, QueueKept, OthersKept
  <2>3. ThreadKnown(q) /\ CodecKnown(q) => (ThreadKnown(q) /\ CodecKnown(q))'
    BY <1>4, Constants DEF Dec!Fill, Shapes, ThreadKnown, CodecKnown
  <2>4. FramesKnown(q) => FramesKnown(q)'
    BY <1>4 DEF Dec!Fill, FramesKnown
  <2>5. QED
    BY <2>1, <2>2, <2>3, <2>4, ThreadStep DEF StreamInv
<1>5. CASE Dec!DequeueNothing(q)
  <2>1. Shapes'
    BY <1>5 DEF Dec!DequeueNothing, Shapes, Places
  <2>2. QueueKept /\ OthersKept(q)
    BY <1>5 DEF Dec!DequeueNothing, Shapes, QueueKept, OthersKept
  <2>3. ThreadKnown(q) /\ CodecKnown(q) => (ThreadKnown(q) /\ CodecKnown(q))'
    BY <1>5 DEF Dec!DequeueNothing, Shapes, ThreadKnown, CodecKnown
  <2>4. FramesKnown(q) => FramesKnown(q)'
    BY <1>5 DEF Dec!DequeueNothing, FramesKnown
  <2>5. QED
    BY <2>1, <2>2, <2>3, <2>4, ThreadStep DEF StreamInv
<1>6. CASE Dec!WaitForPackets(q)
  <2>1. Shapes'
    BY <1>6 DEF Dec!WaitForPackets, Dec!PQ!Sleep, Shapes, Places
  <2>2. QueueKept /\ OthersKept(q)
    BY <1>6 DEF Dec!WaitForPackets, Dec!PQ!Sleep, Shapes, QueueKept, OthersKept
  <2>3. ThreadKnown(q) /\ CodecKnown(q) => (ThreadKnown(q) /\ CodecKnown(q))'
    BY <1>6 DEF Dec!WaitForPackets, Dec!PQ!Sleep, Shapes, ThreadKnown, CodecKnown
  <2>4. FramesKnown(q) => FramesKnown(q)'
    BY <1>6 DEF Dec!WaitForPackets, FramesKnown
  <2>5. QED
    BY <2>1, <2>2, <2>3, <2>4, ThreadStep DEF StreamInv
<1>7. CASE Dec!KeepPacket(q)
  <2>1. Shapes'
    BY <1>7 DEF Dec!KeepPacket, Shapes, Places
  <2>2. QueueKept /\ OthersKept(q)
    BY <1>7 DEF Dec!KeepPacket, Shapes, QueueKept, OthersKept
  <2>3. ThreadKnown(q) /\ CodecKnown(q) => (ThreadKnown(q) /\ CodecKnown(q))'
    BY <1>7 DEF Dec!KeepPacket, Shapes, ThreadKnown, CodecKnown
  <2>4. FramesKnown(q) => FramesKnown(q)'
    BY <1>7 DEF Dec!KeepPacket, FramesKnown
  <2>5. QED
    BY <2>1, <2>2, <2>3, <2>4, ThreadStep DEF StreamInv
<1>8. CASE Dec!DropPacket(q)
  <2>1. Shapes'
    BY <1>8 DEF Dec!DropPacket, Shapes, Places
  <2>2. QueueKept /\ OthersKept(q)
    BY <1>8 DEF Dec!DropPacket, Shapes, QueueKept, OthersKept
  <2>3. ThreadKnown(q) /\ CodecKnown(q) => (ThreadKnown(q) /\ CodecKnown(q))'
    BY <1>8, Constants DEF Dec!DropPacket, Shapes, ThreadKnown, CodecKnown
  <2>4. FramesKnown(q) => FramesKnown(q)'
    BY <1>8 DEF Dec!DropPacket, FramesKnown
  <2>5. QED
    BY <2>1, <2>2, <2>3, <2>4, ThreadStep DEF StreamInv
<1>9. QED
  BY <1>1, <1>2, <1>3, <1>4, <1>5, <1>6, <1>7, <1>8

LEMMA SendKeeps ==
    ASSUME Shapes, NEW q \in Streams, UNCHANGED <<rpc, left>>,
           \/ Dec!SendFlush(q) \/ Dec!SendNull(q) \/ Dec!SendRefused(q)
    PROVE  Shapes' /\ \A r \in Streams : StreamInv(r) => StreamInv(r)'
<1> USE DEF Dec!Goto, Dec!codecVars, Dec!frameVars, Dec!queueVars, Dec!Sent,
            Dec!FlushBuffers
<1>1. CASE Dec!SendFlush(q)
  <2>1. Shapes'
    BY <1>1, EmptySeq DEF Dec!SendFlush, Shapes, Places
  <2>2. QueueKept /\ OthersKept(q)
    BY <1>1 DEF Dec!SendFlush, Shapes, QueueKept, OthersKept
  <2>3. ThreadKnown(q) /\ CodecKnown(q) => (ThreadKnown(q) /\ CodecKnown(q))'
    BY <1>1, Constants, EmptySeq DEF Dec!SendFlush, Shapes, ThreadKnown, CodecKnown
  <2>4. FramesKnown(q) => FramesKnown(q)'
    BY <1>1 DEF Dec!SendFlush, FramesKnown
  <2>5. QED
    BY <2>1, <2>2, <2>3, <2>4, ThreadStep DEF StreamInv
<1>2. CASE Dec!SendNull(q)
  <2>1. Shapes'
    BY <1>2 DEF Dec!SendNull, Shapes, Places
  <2>2. QueueKept /\ OthersKept(q)
    BY <1>2 DEF Dec!SendNull, Shapes, QueueKept, OthersKept
  <2>3. ThreadKnown(q) /\ CodecKnown(q) => (ThreadKnown(q) /\ CodecKnown(q))'
    BY <1>2, Constants, EmptySeq DEF Dec!SendNull, Shapes, ThreadKnown, CodecKnown
  <2>4. FramesKnown(q) => FramesKnown(q)'
    BY <1>2 DEF Dec!SendNull, FramesKnown
  <2>5. QED
    BY <2>1, <2>2, <2>3, <2>4, ThreadStep DEF StreamInv
<1>3. CASE Dec!SendRefused(q)
  <2>1. Shapes'
    BY <1>3 DEF Dec!SendRefused, Shapes, Places
  <2>2. QueueKept /\ OthersKept(q)
    BY <1>3 DEF Dec!SendRefused, Shapes, QueueKept, OthersKept
  <2>3. ThreadKnown(q) /\ CodecKnown(q) => (ThreadKnown(q) /\ CodecKnown(q))'
    BY <1>3, Constants, EmptySeq DEF Dec!SendRefused, Shapes, ThreadKnown, CodecKnown
  <2>4. FramesKnown(q) => FramesKnown(q)'
    BY <1>3 DEF Dec!SendRefused, FramesKnown
  <2>5. QED
    BY <2>1, <2>2, <2>3, <2>4, ThreadStep DEF StreamInv
<1>4. QED
  BY <1>1, <1>2, <1>3

LEMMA SendDataKeeps ==
    ASSUME Shapes, NEW q \in Streams, UNCHANGED <<rpc, left>>, Dec!SendData(q)
    PROVE  Shapes' /\ \A r \in Streams : StreamInv(r) => StreamInv(r)'
<1>1. /\ temp_pkt[q] \in Data /\ dpc[q] = "send"
      /\ dpc' = [dpc EXCEPT ![q] = "start"]
      /\ temp_pkt' = [temp_pkt EXCEPT ![q] = NoPacket]
      /\ codec' = [codec EXCEPT
                     ![q] = IF draining[q] THEN @ ELSE Append(@, temp_pkt[q])]
      /\ UNCHANGED <<pkts, nb_packets, serial, abort_request, waiters, pkt_serial, pending,
                     finished, draining, got, frames>>
  BY DEF Dec!SendData, Dec!Sent, Dec!Goto, Dec!frameVars, Dec!queueVars
<1>2. /\ codec[q] \in Seq(Data) /\ Append(codec[q], temp_pkt[q]) \in Seq(Data)
      /\ Len(Append(codec[q], temp_pkt[q])) = Len(codec[q]) + 1
      /\ \A i \in 1 .. Len(Append(codec[q], temp_pkt[q])) :
           Append(codec[q], temp_pkt[q])[i] =
             IF i = Len(codec[q]) + 1 THEN temp_pkt[q] ELSE codec[q][i]
      /\ Len(codec[q]) \in Nat
  BY <1>1, AppendFacts DEF Shapes
<1>3. Shapes'
  <2>1. dpc' \in [Streams -> Places]
    BY <1>1 DEF Shapes, Places
  <2>2. codec' \in [Streams -> Seq(Data)]
    BY <1>1, <1>2 DEF Shapes
  <2>3. temp_pkt' \in [Streams -> Packets \union {NoPacket}]
    BY <1>1 DEF Shapes
  <2>4. QED
    BY <1>1, <2>1, <2>2, <2>3 DEF Shapes
<1>4. QueueKept /\ OthersKept(q)
  BY <1>1 DEF Shapes, QueueKept, OthersKept
<1>5. /\ dpc'[q] = "start" /\ temp_pkt'[q] = NoPacket
      /\ codec'[q] = IF draining[q] THEN codec[q]
                                    ELSE Append(codec[q], temp_pkt[q])
  BY <1>1 DEF Shapes
<1>6. ThreadKnown(q) /\ CodecKnown(q) => ThreadKnown(q)' /\ CodecKnown(q)'
  <2> SUFFICES ASSUME ThreadKnown(q), CodecKnown(q)
               PROVE  ThreadKnown(q)' /\ CodecKnown(q)'
    OBVIOUS
  <2>1. ThreadKnown(q)'
    BY <1>1, <1>5, Constants DEF ThreadKnown
  <2>2. /\ temp_pkt[q] # FlushPacket /\ Carried(temp_pkt[q], pkt_serial[q])
        /\ \A i \in 1 .. Len(codec[q]) : Carried(codec[q][i], pkt_serial[q])
    BY <1>1, Constants DEF ThreadKnown, CodecKnown
  <2>3. \A i \in 1 .. Len(codec'[q]) : Carried(codec'[q][i], pkt_serial'[q])
    BY <1>1, <1>2, <1>5, <2>2
  <2>4. CodecKnown(q)'
    BY <1>1, <1>5, <2>3 DEF CodecKnown
  <2>5. QED
    BY <2>1, <2>4
<1>7. FramesKnown(q) => FramesKnown(q)'
  BY <1>1 DEF FramesKnown
<1>8. QED
  BY <1>3, <1>4, <1>6, <1>7, ThreadStep DEF StreamInv

LEMMA ReceiveKeeps ==
    ASSUME Shapes, NEW q \in Streams, UNCHANGED <<rpc, left>>,
           Dec!ReceiveFrame(q)
    PROVE  Shapes' /\ \A r \in Streams : StreamInv(r) => StreamInv(r)'
<1>1. /\ dpc[q] = "receive" /\ dpc' = [dpc EXCEPT ![q] = "push"]
      /\ codec[q] # <<>>
      /\ got' = [got EXCEPT ![q] = Head(codec[q])]
      /\ codec' = [codec EXCEPT ![q] = Tail(@)]
      /\ UNCHANGED <<pkts, nb_packets, serial, abort_request, waiters, pkt_serial, temp_pkt,
                     pending, finished, draining, frames>>
  BY DEF Dec!ReceiveFrame, Dec!Goto, Dec!queueVars
<1>2. /\ codec[q] \in Seq(Data) /\ Tail(codec[q]) \in Seq(Data)
      /\ Head(codec[q]) = codec[q][1] /\ 1 \in 1 .. Len(codec[q])
      /\ codec[q][1] \in Data
      /\ \A i \in 1 .. Len(Tail(codec[q])) :
           Tail(codec[q])[i] = codec[q][i + 1] /\ i + 1 \in 1 .. Len(codec[q])
  BY <1>1, TailFacts DEF Shapes
<1>3. Shapes'
  <2>1. dpc' \in [Streams -> Places]
    BY <1>1 DEF Shapes, Places
  <2>2. codec' \in [Streams -> Seq(Data)]
    BY <1>1, <1>2 DEF Shapes
  <2>3. got' \in [Streams -> Data \union {NoPacket}]
    BY <1>1, <1>2 DEF Shapes
  <2>4. QED
    BY <1>1, <2>1, <2>2, <2>3 DEF Shapes
<1>4. QueueKept /\ OthersKept(q)
  BY <1>1 DEF Shapes, QueueKept, OthersKept
<1>5. /\ dpc'[q] = "push" /\ got'[q] = codec[q][1]
      /\ codec'[q] = Tail(codec[q])
  BY <1>1, <1>2 DEF Shapes
<1>6. ThreadKnown(q) /\ CodecKnown(q) => ThreadKnown(q)' /\ CodecKnown(q)'
  <2> SUFFICES ASSUME ThreadKnown(q), CodecKnown(q)
               PROVE  ThreadKnown(q)' /\ CodecKnown(q)'
    OBVIOUS
  <2>1. temp_pkt[q] # FlushPacket
    BY <1>1, Constants DEF ThreadKnown
  <2>2. \A i \in 1 .. Len(codec[q]) : Carried(codec[q][i], pkt_serial[q])
    BY <1>1, <2>1 DEF CodecKnown
  <2>3. ThreadKnown(q)'
    BY <1>1, <1>2, <1>5, <2>2, Constants DEF ThreadKnown
  <2>4. \A i \in 1 .. Len(codec'[q]) : Carried(codec'[q][i], pkt_serial'[q])
    BY <1>1, <1>2, <1>5, <2>2
  <2>5. CodecKnown(q)'
    BY <1>1, <1>5, <2>4 DEF CodecKnown
  <2>6. QED
    BY <2>3, <2>5
<1>7. FramesKnown(q) => FramesKnown(q)'
  BY <1>1 DEF FramesKnown
<1>8. QED
  BY <1>3, <1>4, <1>6, <1>7, ThreadStep DEF StreamInv

LEMMA FrameKeeps ==
    ASSUME Shapes, NEW q \in Streams, StreamInv(q), UNCHANGED <<rpc, left>>,
           Dec!PushFrame(q) \/ Dec!DropLateFrame(q)
    PROVE  Shapes' /\ \A r \in Streams : StreamInv(r) => StreamInv(r)'
<1> DEFINE e == [pkt |-> got[q], serial |-> pkt_serial[q]]
<1>1. /\ dpc[q] = "push" /\ dpc' = [dpc EXCEPT ![q] = "start"]
      /\ got' = [got EXCEPT ![q] = NoPacket]
      /\ frames' \in {frames, [frames EXCEPT ![q] = Append(@, e)]}
      /\ UNCHANGED <<pkts, nb_packets, serial, abort_request, waiters, pkt_serial, temp_pkt,
                     pending, finished, codec, draining>>
  BY DEF Dec!PushFrame, Dec!DropLateFrame, Dec!FrameDone, Dec!Frame, Dec!Goto,
         Dec!queueVars, Dec!codecVars
<1>2. ThreadKnown(q) /\ CodecKnown(q) /\ FramesKnown(q)
  BY DEF StreamInv
<1>3. e \in AnyFrame /\ Carried(e.pkt, e.serial)
  BY <1>1, <1>2 DEF Shapes, ThreadKnown, AnyFrame
<1>4. frames[q] \in Seq(AnyFrame)
  BY DEF Shapes
<1> HIDE DEF e
<1>5. /\ Append(frames[q], e) \in Seq(AnyFrame) /\ Len(frames[q]) \in Nat
      /\ Len(Append(frames[q], e)) = Len(frames[q]) + 1
      /\ \A i \in 1 .. Len(Append(frames[q], e)) :
           Append(frames[q], e)[i] =
             IF i = Len(frames[q]) + 1 THEN e ELSE frames[q][i]
  BY <1>3, <1>4, AppendFacts
<1>6. Shapes'
  <2>1. dpc' \in [Streams -> Places]
    BY <1>1 DEF Shapes, Places
  <2>2. frames' \in [Streams -> Seq(AnyFrame)]
    BY <1>1, <1>5 DEF Shapes
  <2>3. got' \in [Streams -> Data \union {NoPacket}]
    BY <1>1 DEF Shapes
  <2>4. QED
    BY <1>1, <2>1, <2>2, <2>3 DEF Shapes
<1>7. QueueKept /\ OthersKept(q)
  BY <1>1 DEF Shapes, QueueKept, OthersKept
<1>8. /\ dpc'[q] = "start" /\ got'[q] = NoPacket
      /\ frames'[q] \in {frames[q], Append(frames[q], e)}
  BY <1>1 DEF Shapes
<1>9. ThreadKnown(q)' /\ CodecKnown(q)'
  BY <1>1, <1>2, <1>8, Constants DEF ThreadKnown, CodecKnown
<1>10. FramesKnown(q)'
  <2>1. CASE frames'[q] = frames[q]
    BY <1>2, <2>1 DEF FramesKnown
  <2>2. CASE frames'[q] = Append(frames[q], e)
    <3> SUFFICES ASSUME NEW i \in 1 .. Len(frames'[q])
                 PROVE  Carried(frames'[q][i].pkt, frames'[q][i].serial)
      BY DEF FramesKnown
    <3>1. \/ frames'[q][i] = e
          \/ i \in 1 .. Len(frames[q]) /\ frames'[q][i] = frames[q][i]
      BY <1>5, <2>2
    <3>2. QED
      BY <1>2, <1>3, <3>1 DEF FramesKnown
  <2>3. QED
    BY <1>8, <2>1, <2>2
<1>11. QED
  BY <1>6, <1>7, <1>9, <1>10, ThreadStep

LEMMA TakeFrameKeeps ==
    ASSUME Shapes, NEW q \in Streams, UNCHANGED <<rpc, left>>,
           Dec!TakeFrame(q)
    PROVE  Shapes' /\ \A r \in Streams : StreamInv(r) => StreamInv(r)'
<1>1. /\ frames[q] # <<>> /\ frames' = [frames EXCEPT ![q] = Tail(@)]
      /\ UNCHANGED <<pkts, nb_packets, serial, abort_request, waiters, pkt_serial, dpc, got,
                     temp_pkt, pending, finished, codec, draining>>
  BY DEF Dec!TakeFrame, Dec!queueVars, Dec!codecVars
<1>2. /\ Tail(frames[q]) \in Seq(AnyFrame)
      /\ \A i \in 1 .. Len(Tail(frames[q])) :
           Tail(frames[q])[i] = frames[q][i + 1]
           /\ i + 1 \in 1 .. Len(frames[q])
  BY <1>1, TailFacts DEF Shapes
<1>3. Shapes' /\ QueueKept /\ OthersKept(q) /\ frames'[q] = Tail(frames[q])
  BY <1>1, <1>2 DEF Shapes, QueueKept, OthersKept
<1>4. FramesKnown(q) => FramesKnown(q)'
  BY <1>2, <1>3 DEF FramesKnown
<1>5. ThreadKnown(q) /\ CodecKnown(q) => (ThreadKnown(q) /\ CodecKnown(q))'
  BY <1>1 DEF ThreadKnown, CodecKnown
<1>6. QED
  BY <1>3, <1>4, <1>5, ThreadStep DEF StreamInv

(***************************************************************************)
(* The steps of the reader.  A packet may be put in a queue if its epoch   *)
(* is the queue's; flushing and marking a queue are two calls.             *)
(***************************************************************************)
DecoderKept == UNCHANGED <<pkt_serial, dpc, temp_pkt, pending, finished, codec,
                           draining, got, frames>>

LEMMA ReaderMoves ==
    ASSUME UNCHANGED <<serial, pkts>>, DecoderKept, rpc # "mark"
    PROVE  \A q \in Streams : StreamInv(q) => StreamInv(q)'
  BY DEF StreamInv, QueueKnown, Opened, EndKnown, LastNew, ThreadKnown,
         CodecKnown, FramesKnown, DecoderKept

LEMMA PutKeeps ==
    ASSUME Shapes, NEW q \in Streams, NEW p \in Packets, Source!PQ!Put(q, p),
           DecoderKept,
           p = FlushPacket \/ (Carried(p, serial[q]) /\ LastNew(q))
    PROVE  /\ Shapes'
           /\ \A r \in Streams : r # q => UNCHANGED <<pkts[r], serial[r]>>
           /\ serial'[q] = IF p = FlushPacket THEN serial[q] + 1 ELSE serial[q]
           /\ StreamInv(q) => StreamInv(q)' /\ LastNew(q)'
<1> DEFINE n == IF p = FlushPacket THEN serial[q] + 1 ELSE serial[q]
           e == [pkt |-> p, serial |-> n]
<1>1. /\ serial' = [serial EXCEPT ![q] = n]
      /\ pkts' = [pkts EXCEPT ![q] = Append(@, e)]
      /\ nb_packets' = [nb_packets EXCEPT ![q] = @ + 1]
      /\ waiters' = [waiters EXCEPT ![q] = {}]
      /\ UNCHANGED abort_request
  BY DEF Source!PQ!Put, Source!PQ!PutAccepted, Source!PQ!Stamp, Shapes
<1>2. /\ serial[q] \in Int /\ n \in Int /\ e \in AnyEntry
      /\ pkts[q] \in Seq(AnyEntry)
  <2>1. serial[q] \in Int /\ pkts[q] \in Seq(AnyEntry)
    BY DEF Shapes
  <2>2. n \in Int
    BY <2>1
  <2>3. QED
    BY <2>1, <2>2 DEF AnyEntry
<1>3. e.pkt = p /\ e.serial = n
  OBVIOUS
<1> HIDE DEF e
<1>4. /\ Append(pkts[q], e) \in Seq(AnyEntry) /\ Len(pkts[q]) \in Nat
      /\ Append(pkts[q], e) # <<>>
      /\ Len(Append(pkts[q], e)) = Len(pkts[q]) + 1
      /\ \A i \in 1 .. Len(Append(pkts[q], e)) :
           Append(pkts[q], e)[i] = IF i = Len(pkts[q]) + 1 THEN e ELSE pkts[q][i]
  BY <1>2, AppendFacts
<1>5. Shapes'
  <2>1. /\ serial' \in [Streams -> Int] /\ pkts' \in [Streams -> Seq(AnyEntry)]
        /\ nb_packets' \in [Streams -> Int]
        /\ waiters' \in [Streams -> SUBSET Streams]
    BY <1>1, <1>2, <1>4 DEF Shapes
  <2>2. QED
    BY <1>1, <2>1 DEF Shapes, DecoderKept
<1>6. /\ \A r \in Streams : r # q => UNCHANGED <<pkts[r], serial[r]>>
      /\ serial'[q] = n /\ pkts'[q] = Append(pkts[q], e)
  BY <1>1 DEF Shapes
<1>7. LastNew(q)'
  BY <1>3, <1>4, <1>6, <1>2 DEF LastNew
<1>8. ASSUME StreamInv(q)
      PROVE  StreamInv(q)'
  <2>1. pkt_serial[q] \in Int /\ pkt_serial'[q] = pkt_serial[q]
    BY DEF Shapes, DecoderKept
  <2>2. QueueKnown(q)'
    <3>1. pkt_serial'[q] <= serial'[q]
      BY <1>2, <1>6, <1>8, <2>1 DEF StreamInv, QueueKnown
    <3>2. ASSUME NEW i \in 1 .. Len(pkts'[q])
          PROVE  /\ pkts'[q][i].serial <= serial'[q]
                 /\ Carried(pkts'[q][i].pkt, pkts'[q][i].serial)
                 /\ Opened(q, i)'
      <4>1. CASE i = Len(pkts[q]) + 1
        <5>1. pkts'[q][i] = e
          BY <4>1, <1>4, <1>6
        <5>2. Opened(q, i)'
          <6>1. CASE p = FlushPacket
            BY <6>1, <5>1, <1>3 DEF Opened
          <6>2. CASE p # FlushPacket /\ Len(pkts[q]) = 0
            <7>1. pkts[q] = <<>>
              BY <6>2, <1>2, EmptySeq
            <7>2. QED
              BY <7>1, <6>2, <4>1, <1>6, <2>1 DEF Opened, LastNew
          <6>3. CASE p # FlushPacket /\ Len(pkts[q]) # 0
            <7>1. /\ pkts[q] # <<>> /\ i # 1 /\ i - 1 = Len(pkts[q])
                  /\ i - 1 \in 1 .. Len(pkts'[q])
              BY <6>3, <4>1, <1>4, <1>6, EmptySeq
            <7>2. pkts'[q][i - 1] = pkts[q][Len(pkts[q])]
              BY <7>1, <1>4, <1>6
            <7>3. QED
              BY <7>1, <7>2, <6>3, <1>6 DEF Opened, LastNew
          <6>4. QED
            BY <6>1, <6>2, <6>3
        <5>3. QED
          BY <5>1, <5>2, <1>2, <1>3, <1>6, Constants
      <4>2. CASE i # Len(pkts[q]) + 1
        <5>1. i \in 1 .. Len(pkts[q]) /\ pkts'[q][i] = pkts[q][i]
          BY <4>2, <1>4, <1>6
        <5>2. i # 1 => pkts'[q][i - 1] = pkts[q][i - 1]
          BY <5>1, <1>4, <1>6
        <5>3. /\ pkts[q][i].serial <= serial[q] /\ Opened(q, i)
              /\ Carried(pkts[q][i].pkt, pkts[q][i].serial)
              /\ pkts[q][i].serial \in Int
          <6>1. pkts[q][i] \in AnyEntry
            BY <5>1, <1>2
          <6>2. QED
            BY <5>1, <6>1, <1>8 DEF StreamInv, QueueKnown, AnyEntry
        <5>4. QED
          BY <5>1, <5>2, <5>3, <2>1, <1>2, <1>6 DEF Opened
      <4>3. QED
        BY <4>1, <4>2
    <3>3. QED
      BY <3>1, <3>2 DEF QueueKnown
  <2>3. ThreadKnown(q)' /\ FramesKnown(q)'
    BY <1>8 DEF StreamInv, ThreadKnown, FramesKnown, DecoderKept
  <2>4. CodecKnown(q)'
    <3>1. CodecKnown(q) /\ pkt_serial[q] <= serial[q]
      BY <1>8 DEF StreamInv, QueueKnown
    <3>2. n = serial[q] \/ pkt_serial[q] # n
      BY <3>1, <2>1, <1>2
    <3>3. QED
      BY <3>1, <3>2, <1>6, <2>1 DEF CodecKnown, DecoderKept
  <2>5. QED
    BY <2>2, <2>3, <2>4, <1>7 DEF StreamInv, EndKnown
<1>9. QED
  BY <1>5, <1>6, <1>7, <1>8

LEMMA PairFacts ==
    ASSUME NEW S, NEW a \in S, NEW b \in S
    PROVE  <<a>> \o <<b>> = <<a, b>>
<1> DEFINE s == Append(<<a>>, b)
           t == <<a, b>>
<1>1. <<a>> \in Seq(S) /\ Len(<<a>>) = 1 /\ <<a>>[1] = a
  OBVIOUS
<1>2. s \in Seq(S) /\ Len(s) = 2 /\ s[1] = a /\ s[2] = b
  BY <1>1, AppendProperties
<1>3. t \in Seq(S) /\ Len(t) = 2 /\ t[1] = a /\ t[2] = b
  OBVIOUS
<1>4. s = <<a>> \o <<b>>
  BY <1>1, AppendIsConcat
<1> HIDE DEF s, t
<1>5. \A i \in 1 .. Len(s) : s[i] = t[i]
  BY <1>2, <1>3
<1>6. s = t
  BY <1>2, <1>3, <1>5, SeqEqual
<1>7. QED
  BY <1>4, <1>6 DEF t

LEMMA OrderFacts ==
    /\ Source!FlushOrder \in Seq(Streams) /\ Source!FlushOrder # <<>>
    /\ Source!DrainOrder \in Seq(Streams)
    /\ \A i, j \in 1 .. Len(Source!FlushOrder) :
         Source!FlushOrder[i] = Source!FlushOrder[j] => i = j
    /\ \A i, j \in 1 .. Len(Source!DrainOrder) :
         Source!DrainOrder[i] = Source!DrainOrder[j] => i = j
    /\ \A q \in Streams :
         \E i \in 1 .. Len(Source!FlushOrder) : Source!FlushOrder[i] = q
<1> DEFINE F == Source!FlushOrder
           D == Source!DrainOrder
<1>1. CASE Audio \in Streams /\ Video \in Streams
  <2>1. F = <<Audio, Video>> /\ D = <<Video, Audio>>
    <3>4. /\ Source!IfOpened(Audio) = <<Audio>>
          /\ Source!IfOpened(Video) = <<Video>>
      BY <1>1 DEF Source!IfOpened
    <3>5. QED
      BY <1>1, <3>4, PairFacts DEF Source!FlushOrder, Source!DrainOrder
  <2>2. F[1] = Audio /\ F[2] = Video /\ Len(F) = 2
    BY <2>1
  <2>3. D[1] = Video /\ D[2] = Audio /\ Len(D) = 2
    BY <2>1
  <2>4. F \in Seq(Streams) /\ D \in Seq(Streams) /\ F # <<>>
    BY <2>1, <1>1
  <2> HIDE DEF F, D
  <2>5. /\ \A i, j \in 1 .. Len(F) : F[i] = F[j] => i = j
        /\ \A i, j \in 1 .. Len(D) : D[i] = D[j] => i = j
        /\ \A q \in Streams : \E i \in 1 .. Len(F) : F[i] = q
    BY <2>2, <2>3, PipelineAssumption
  <2>6. QED
    BY <2>4, <2>5 DEF F, D
<1>2. ASSUME NEW a \in Streams, Streams = {a}
      PROVE  F = <<a>> /\ D = <<a>>
  <2>1. <<a>> \in Seq(Streams)
    OBVIOUS
  <2>2. <<a>> \o <<>> = <<a>> /\ <<>> \o <<a>> = <<a>>
    BY <2>1, ConcatEmptySeq
  <2>3. \/ /\ a = Audio /\ Source!IfOpened(Audio) = <<a>>
           /\ Source!IfOpened(Video) = <<>>
        \/ /\ a = Video /\ Source!IfOpened(Video) = <<a>>
           /\ Source!IfOpened(Audio) = <<>>
    BY <1>2, PipelineAssumption DEF Source!IfOpened
  <2>4. QED
    BY <2>2, <2>3 DEF Source!FlushOrder, Source!DrainOrder
<1>3. ASSUME NEW a \in Streams, Streams = {a}
      PROVE  /\ F \in Seq(Streams) /\ D \in Seq(Streams) /\ F # <<>>
             /\ \A i, j \in 1 .. Len(F) : F[i] = F[j] => i = j
             /\ \A i, j \in 1 .. Len(D) : D[i] = D[j] => i = j
             /\ \A q \in Streams : \E i \in 1 .. Len(F) : F[i] = q
  <2>1. F = <<a>> /\ D = <<a>>
    BY <1>2, <1>3
  <2> HIDE DEF F, D
  <2>2. QED
    BY <2>1, <1>3
<1>4. CASE \E a \in Streams : Streams = {a}
  BY <1>3, <1>4
<1>5. QED
  BY <1>1, <1>4, PipelineAssumption

LEMMA ReaderStep ==
    ASSUME Shapes, ReaderInv, UNCHANGED queueVars, DecoderKept,
           \/ Source!NoSeek \/ Source!SeekFails \/ Source!EndSeek
           \/ Source!NoPicture \/ Source!TestQueues \/ Source!WaitForDecoders
           \/ Source!ReadError \/ Source!SetEof \/ Source!IoError \/ Source!Nap
    PROVE  Shapes' /\ ReaderInv' /\ \A r \in Streams : StreamInv(r) => StreamInv(r)'
<1>1. /\ rpc \notin {"flush", "mark"} /\ rpc' \in ReaderPlaces
      /\ rpc' \notin {"flush", "mark", "attach_null", "queue"}
      /\ rpc' = "sought" => rpc = "seek" /\ seek_req
      /\ seek_req' = seek_req \/ seek_req' = FALSE
      /\ seek_req' # seek_req => rpc = "sought"
      /\ rpc = "sought" => seek_req' = FALSE
      /\ UNCHANGED <<left, targets, filepos, seek_position, pkt, seek_call,
                     seeks>>
  BY DEF Source!NoSeek, Source!SeekFails, Source!EndSeek, Source!NoPicture,
     Source!TestQueues, Source!WaitForDecoders, Source!ReadError,
     Source!SetEof, Source!IoError, Source!Nap, Source!Goto, Source!fileVars,
     Source!seekVars, ReaderPlaces
<1>2. Shapes'
  BY DEF Shapes, queueVars, DecoderKept
<1>3. ReaderShapes'
  BY <1>1 DEF ReaderInv, ReaderShapes
<1>4. SeeksKnown'
  BY <1>1 DEF ReaderInv, SeeksKnown, Waiting, ReaderShapes
<1>5. ReaderKnown'
  BY <1>1 DEF ReaderInv, ReaderKnown
<1>6. \A q \in Streams : EpochKnown(q)'
  BY <1>1 DEF ReaderInv, EpochKnown, Left, queueVars
<1>7. \A r \in Streams : StreamInv(r) => StreamInv(r)'
  BY <1>1, ReaderMoves DEF queueVars
<1>8. QED
  BY <1>2, <1>3, <1>4, <1>5, <1>6, <1>7 DEF ReaderInv

LEMMA SeekFileKeeps ==
    ASSUME Shapes, ReaderInv, DecoderKept, Source!SeekFile
    PROVE  Shapes' /\ ReaderInv' /\ \A r \in Streams : StreamInv(r) => StreamInv(r)'
<1>1. /\ rpc = "seek" /\ rpc' = "flush" /\ seek_req
      /\ filepos' = seek_position /\ left' = Source!FlushOrder
      /\ targets' = Append(targets, seek_position)
      /\ UNCHANGED <<seek_position, pkt, seek_call, seeks, seek_req>>
      /\ UNCHANGED <<pkts, nb_packets, serial, waiters, abort_request>>
  BY DEF Source!SeekFile, Source!Goto, Source!seekVars, Source!queueVars
<1>2. /\ targets' \in Seq(Positions) /\ Len(targets') = Len(targets) + 1
      /\ Len(targets) \in Nat
  BY <1>1, AppendFacts DEF ReaderInv, ReaderShapes
<1>3. Shapes'
  BY <1>1 DEF Shapes, DecoderKept
<1>4. ReaderShapes'
  BY <1>1, <1>2, OrderFacts DEF ReaderInv, ReaderShapes, ReaderPlaces
<1>5. SeeksKnown'
  BY <1>1, <1>2 DEF ReaderInv, SeeksKnown, Waiting, ReaderShapes
<1>6. ReaderKnown'
  BY <1>1, <1>2, OrderFacts DEF ReaderInv, ReaderKnown
<1>7. \A q \in Streams : EpochKnown(q)'
  BY <1>1, <1>2, OrderFacts DEF ReaderInv, EpochKnown, Left
<1>8. \A r \in Streams : StreamInv(r) => StreamInv(r)'
  BY <1>1, ReaderMoves
<1>9. QED
  BY <1>3, <1>4, <1>5, <1>6, <1>7, <1>8 DEF ReaderInv

LEMMA ReadKeeps ==
    ASSUME Shapes, ReaderInv, DecoderKept, Source!ReadPacket \/ Source!ReadEnd
    PROVE  Shapes' /\ ReaderInv' /\ \A r \in Streams : StreamInv(r) => StreamInv(r)'
<1>1. /\ rpc = "read" /\ rpc' \in {"queue", "drain"}
      /\ UNCHANGED <<targets, seek_position, seek_call, seeks, seek_req>>
      /\ UNCHANGED <<pkts, nb_packets, serial, waiters, abort_request>>
      /\ \/ /\ rpc' = "queue" /\ pkt' = [pos |-> filepos, epoch |-> Len(targets)]
            /\ filepos <= Len(File) /\ filepos' = filepos + 1 /\ left' = left
         \/ /\ rpc' = "drain" /\ left' = Source!DrainOrder
            /\ UNCHANGED <<pkt, filepos>>
  BY DEF Source!ReadPacket, Source!ReadEnd, Source!Goto, Source!seekVars,
     Source!queueVars, Source!fileVars, Source!Packet, Source!Epoch
<1>2. Len(targets) \in Nat /\ Len(targets) <= MaxSeeks /\ filepos \in Nat
  BY PipelineAssumption DEF ReaderInv, ReaderShapes, SeeksKnown, Waiting, Positions
<1>3. Shapes'
  BY <1>1 DEF Shapes, DecoderKept
<1>4. pkt' \in Data /\ filepos' \in Positions
  BY <1>1, <1>2, PipelineAssumption DEF ReaderInv, ReaderShapes, Data, Positions
<1>5. ReaderShapes'
  BY <1>1, <1>4, OrderFacts DEF ReaderInv, ReaderShapes, ReaderPlaces
<1>6. SeeksKnown'
  BY <1>1 DEF ReaderInv, SeeksKnown, Waiting, ReaderShapes
<1>7. ReaderKnown'
  <2>1. rpc' = "queue" => pkt'.epoch = Len(targets')
    BY <1>1
  <2>2. \A i, j \in 1 .. Len(left') : left'[i] = left'[j] => i = j
    BY <1>1, OrderFacts DEF ReaderInv, ReaderKnown
  <2>3. QED
    BY <1>1, <2>1, <2>2 DEF ReaderKnown
<1>8. \A q \in Streams : EpochKnown(q)'
  BY <1>1 DEF ReaderInv, EpochKnown, Left
<1>9. \A r \in Streams : StreamInv(r) => StreamInv(r)'
  BY <1>1, ReaderMoves
<1>10. QED
  BY <1>3, <1>5, <1>6, <1>7, <1>8, <1>9 DEF ReaderInv

(***************************************************************************)
(* A packet is put while no seek is under way, so with the epoch's serial. *)
(***************************************************************************)
LEMMA FillKeeps ==
    ASSUME Shapes, ReaderInv, NEW q \in Streams, StreamInv(q),
           NEW p \in Packets, p # FlushPacket, Carried(p, Len(targets) + 1),
           rpc \notin {"flush", "mark"}, Source!PQ!Put(q, p), DecoderKept
    PROVE  /\ Shapes'
           /\ UNCHANGED serial
           /\ \A r \in Streams : StreamInv(r) => StreamInv(r)'
<1>1. serial[q] = Len(targets) + 1
  BY DEF ReaderInv, EpochKnown
<1>2. LastNew(q)
  BY DEF StreamInv, EndKnown
<1>3. /\ Shapes' /\ StreamInv(q)'
      /\ \A r \in Streams : r # q => UNCHANGED <<pkts[r], serial[r]>>
      /\ serial'[q] = serial[q]
  BY <1>1, <1>2, PutKeeps
<1>4. ASSUME NEW r \in Streams, r # q, StreamInv(r)
      PROVE  StreamInv(r)'
  BY <1>3, <1>4 DEF StreamInv, QueueKnown, Opened, EndKnown, LastNew,
     ThreadKnown, CodecKnown, FramesKnown, DecoderKept
<1>5. UNCHANGED serial
  BY <1>3 DEF Shapes
<1>6. QED
  BY <1>3, <1>4, <1>5

LEMMA PutPacketKeeps ==
    ASSUME Shapes, ReaderInv, \A r \in Streams : StreamInv(r), DecoderKept,
           \/ Source!QueuePicture \/ Source!QueuePictureEnd \/ Source!PutNull
           \/ Source!QueuePacket
    PROVE  Shapes' /\ ReaderInv' /\ \A r \in Streams : StreamInv(r)'
<1>1. /\ Len(targets) \in Nat /\ Len(targets) <= MaxSeeks
      /\ Len(File) \in Nat /\ MaxSeeks \in Nat
  BY PipelineAssumption DEF ReaderInv, ReaderShapes, SeeksKnown, Waiting, Positions
<1>2. /\ rpc \in {"attach", "attach_null", "drain", "queue"}
      /\ rpc' \in {"attach_null", "need", "drain", "seek"}
      /\ rpc' = "attach_null" => Covers # {}
      /\ UNCHANGED <<targets, filepos, seek_position, seek_call, seeks, seek_req>>
      /\ left' = left \/ (left # <<>> /\ left' = Tail(left))
      /\ pkt' \in {pkt, Source!NoRead}
  BY DEF Source!QueuePicture, Source!QueuePictureEnd, Source!PutNull,
     Source!QueuePacket, Source!Goto, Source!seekVars, Source!fileVars
<1>3. left' \in Seq(Streams)
      /\ \A i, j \in 1 .. Len(left') : left'[i] = left'[j] => i = j
  <2>1. CASE left' = left
    BY <2>1 DEF ReaderInv, ReaderShapes, ReaderKnown
  <2>2. CASE left # <<>> /\ left' = Tail(left)
    <3>1. /\ left' \in Seq(Streams)
          /\ \A i \in 1 .. Len(left') :
               left'[i] = left[i + 1] /\ i + 1 \in 1 .. Len(left)
      BY <2>2, TailFacts DEF ReaderInv, ReaderShapes
    <3>2. QED
      BY <3>1 DEF ReaderInv, ReaderKnown
  <2>3. QED
    BY <1>2, <2>1, <2>2
<1>4. Source!NoRead \in Data
  BY <1>1 DEF Source!NoRead, Source!Packet, Source!Picture, Data
<1>5. ReaderShapes'
  BY <1>2, <1>3, <1>4 DEF ReaderInv, ReaderShapes, ReaderPlaces
<1>6. SeeksKnown'
  BY <1>2 DEF ReaderInv, SeeksKnown, Waiting
<1>7. ReaderKnown'
  BY <1>2, <1>3 DEF ReaderKnown
<1>8. UNCHANGED serial => \A q \in Streams : EpochKnown(q)'
  BY <1>2 DEF ReaderInv, EpochKnown
<1>9. Shapes' /\ UNCHANGED serial /\ \A r \in Streams : StreamInv(r)'
  <2> DEFINE picture == [pos |-> 0, epoch |-> Len(targets)]
  <2> rpc \notin {"flush", "mark"}
    BY <1>2
  <2>1. CASE Source!QueuePicture
    <3>1. Source!PQ!Put(Video, picture) /\ Video \in Streams
      BY <2>1, PipelineAssumption DEF Source!QueuePicture, Source!Packet,
         Source!Picture, Source!Epoch
    <3>2. picture \in Data /\ picture.epoch = Len(targets)
      BY <1>1 DEF Data
    <3> HIDE DEF picture
    <3>3. /\ picture \in Packets /\ picture # FlushPacket
          /\ Carried(picture, Len(targets) + 1)
      BY <3>2, Constants DEF Carried
    <3>4. QED
      BY <3>1, <3>3, FillKeeps
  <2>2. CASE Source!QueuePictureEnd
    <3>1. Source!PQ!Put(Video, NullPacket) /\ Video \in Streams
      BY <2>2, PipelineAssumption DEF Source!QueuePictureEnd, Source!Goto,
         ReaderInv, ReaderKnown
    <3>2. QED
      BY <3>1, Constants, FillKeeps
  <2>3. CASE Source!PutNull
    <3>1. Source!PQ!Put(Head(left), NullPacket) /\ Head(left) \in Streams
      BY <2>3, TailFacts DEF Source!PutNull, ReaderInv, ReaderShapes
    <3>2. QED
      BY <3>1, Constants, FillKeeps
  <2>4. CASE Source!QueuePacket
    <3>1. CASE UNCHANGED queueVars
      BY <3>1, ReaderMoves DEF queueVars, Shapes, DecoderKept
    <3>2. ASSUME NEW q \in Streams, Source!PQ!Put(q, pkt)
          PROVE  Shapes' /\ UNCHANGED serial /\ \A r \in Streams : StreamInv(r)'
      <4>1. pkt \in Data /\ pkt.epoch = Len(targets)
        BY <2>4 DEF Source!QueuePacket, Source!Goto, ReaderInv, ReaderShapes,
           ReaderKnown
      <4>2. /\ pkt \in Packets /\ pkt # FlushPacket
            /\ Carried(pkt, Len(targets) + 1)
        BY <4>1, Constants DEF Carried
      <4>3. QED
        BY <3>2, <4>2, FillKeeps
    <3>3. QED
      BY <2>4, <3>1, <3>2 DEF Source!QueuePacket, Source!queueVars, queueVars
  <2>5. QED
    BY <2>1, <2>2, <2>3, <2>4
<1>10. QED
  BY <1>5, <1>6, <1>7, <1>8, <1>9 DEF ReaderInv

(***************************************************************************)
(* A seek visits each queue: Flush, then the flush packet.                 *)
(***************************************************************************)
LEMMA FlushKeeps ==
    ASSUME Shapes, ReaderInv, \A r \in Streams : StreamInv(r), DecoderKept,
           Source!FlushQueue
    PROVE  Shapes' /\ ReaderInv' /\ \A r \in Streams : StreamInv(r)'
<1>0. PICK q \in Streams : rpc = "flush" => q = Head(left)
  <2>1. rpc = "flush" => Head(left) \in Streams
    BY TailFacts DEF ReaderInv, ReaderShapes, ReaderKnown
  <2>2. QED
    BY <2>1, PipelineAssumption
<1>1. /\ rpc = "flush" /\ rpc' = "mark"
      /\ pkts' = [pkts EXCEPT ![q] = <<>>]
      /\ nb_packets' = [nb_packets EXCEPT ![q] = 0]
      /\ UNCHANGED <<serial, abort_request, waiters, left, targets, filepos,
                     seek_position, pkt, seek_call, seeks, seek_req>>
  BY <1>0 DEF Source!FlushQueue, Source!PQ!Flush, Source!Goto, Source!seekVars,
     Source!fileVars
<1>3. Shapes'
  BY <1>1 DEF Shapes, DecoderKept
<1>4. ReaderInv'
  <2>1. ReaderShapes'
    BY <1>1 DEF ReaderInv, ReaderShapes, ReaderPlaces
  <2>2. SeeksKnown' /\ ReaderKnown'
    BY <1>1 DEF ReaderInv, SeeksKnown, Waiting, ReaderKnown
  <2>3. \A r \in Streams : EpochKnown(r)'
    BY <1>1 DEF ReaderInv, EpochKnown, Left
  <2>4. QED
    BY <2>1, <2>2, <2>3 DEF ReaderInv
<1>5. ASSUME NEW r \in Streams, r # q
      PROVE  StreamInv(r)'
  <2>1. UNCHANGED <<pkts[r], serial[r]>> /\ rpc # "mark" /\ StreamInv(r)
    BY <1>1, <1>5 DEF Shapes
  <2>2. QED
    BY <2>1 DEF StreamInv, QueueKnown, Opened, EndKnown, LastNew, ThreadKnown,
       CodecKnown, FramesKnown, DecoderKept
<1>6. StreamInv(q)'
  <2>1. StreamInv(q) /\ pkts'[q] = <<>> /\ Len(pkts'[q]) = 0
    BY <1>1, EmptySeq DEF Shapes
  <2>2. QueueKnown(q)'
    BY <1>1, <2>1 DEF StreamInv, QueueKnown, DecoderKept
  <2>3. EndKnown(q)'
    BY <1>0, <1>1 DEF EndKnown
  <2>4. (ThreadKnown(q) /\ CodecKnown(q) /\ FramesKnown(q))'
    BY <1>1, <2>1 DEF StreamInv, ThreadKnown, CodecKnown, FramesKnown, DecoderKept
  <2>5. QED
    BY <2>2, <2>3, <2>4 DEF StreamInv
<1>7. QED
  BY <1>3, <1>4, <1>5, <1>6

LEMMA MarkKeeps ==
    ASSUME Shapes, ReaderInv, \A r \in Streams : StreamInv(r), DecoderKept,
           Source!MarkQueue
    PROVE  Shapes' /\ ReaderInv' /\ \A r \in Streams : StreamInv(r)'
<1>0. PICK q \in Streams : rpc = "mark" => q = Head(left)
  <2>1. rpc = "mark" => Head(left) \in Streams
    BY TailFacts DEF ReaderInv, ReaderShapes, ReaderKnown
  <2>2. QED
    BY <2>1, PipelineAssumption
<1>1. /\ rpc = "mark" /\ rpc' = (IF Len(left) = 1 THEN "sought" ELSE "flush")
      /\ Source!PQ!Put(q, FlushPacket) /\ left' = Tail(left)
      /\ UNCHANGED <<targets, filepos, seek_position, pkt, seek_call, seeks,
                     seek_req>>
  BY <1>0 DEF Source!MarkQueue, Source!Goto, Source!seekVars, Source!fileVars
<1>2. /\ left \in Seq(Streams) /\ left # <<>>
      /\ \A i, j \in 1 .. Len(left) : left[i] = left[j] => i = j
      /\ Len(targets) \in Nat /\ Len(targets) >= 1
  BY <1>1 DEF ReaderInv, ReaderShapes, ReaderKnown
<1>3. /\ q = left[1] /\ 1 \in 1 .. Len(left)
      /\ left' \in Seq(Streams) /\ Len(left') = Len(left) - 1
      /\ Len(left) \in Nat
      /\ \A i \in 1 .. Len(left') :
           left'[i] = left[i + 1] /\ i + 1 \in 1 .. Len(left)
      /\ left' = <<>> => Len(left) = 1
  BY <1>0, <1>1, <1>2, TailFacts
<1>4. /\ Shapes' /\ serial'[q] = serial[q] + 1 /\ StreamInv(q)' /\ LastNew(q)'
      /\ \A r \in Streams : r # q => UNCHANGED <<pkts[r], serial[r]>>
  BY <1>1, <1>3, Constants, PutKeeps
<1>5. ReaderInv'
  <2>1. ReaderShapes'
    BY <1>1, <1>3 DEF ReaderInv, ReaderShapes, ReaderPlaces
  <2>2. SeeksKnown'
    BY <1>1 DEF ReaderInv, SeeksKnown, Waiting
  <2>3. ReaderKnown'
    BY <1>1, <1>2, <1>3 DEF ReaderKnown
  <2>4. ASSUME NEW r \in Streams
        PROVE  EpochKnown(r)'
    <3>1. CASE r = q
      <4>1. ~Left(q)'
        BY <1>2, <1>3 DEF Left
      <4>2. serial[q] = Len(targets)
        BY <1>1, <1>3 DEF ReaderInv, EpochKnown, Left
      <4>3. QED
        BY <3>1, <4>1, <4>2, <1>1, <1>2, <1>4 DEF EpochKnown
    <3>2. CASE r # q
      <4>1. Left(r)' <=> Left(r)
        <5>1. Left(r)' => Left(r)
          BY <1>3 DEF Left
        <5>2. ASSUME NEW i \in 1 .. Len(left), left[i] = r
              PROVE  Left(r)'
          <6>1. i # 1 /\ i - 1 \in 1 .. Len(left')
            BY <1>3, <3>2, <5>2
          <6>2. left'[i - 1] = r
            BY <1>3, <5>2, <6>1
          <6>3. QED
            BY <6>1, <6>2 DEF Left
        <5>3. QED
          BY <5>1, <5>2 DEF Left
      <4>2. Len(left) = 1 => ~Left(r)
        BY <1>3, <3>2 DEF Left
      <4>3. QED
        BY <3>2, <4>1, <4>2, <1>1, <1>4 DEF ReaderInv, EpochKnown
    <3>3. QED
      BY <3>1, <3>2
  <2>5. QED
    BY <2>1, <2>2, <2>3, <2>4 DEF ReaderInv
<1>6. ASSUME NEW r \in Streams, r # q
      PROVE  StreamInv(r)'
  <2>1. UNCHANGED <<pkts[r], serial[r]>> /\ StreamInv(r)
    BY <1>4, <1>6
  <2>2. LastNew(r)
    BY <1>0, <1>1, <1>6, <2>1 DEF StreamInv, EndKnown
  <2>3. QED
    BY <2>1, <2>2 DEF StreamInv, QueueKnown, Opened, EndKnown, LastNew,
       ThreadKnown, CodecKnown, FramesKnown, DecoderKept
<1>7. QED
  BY <1>4, <1>5, <1>6

(***************************************************************************)
(* The steps of each thread, and the theorems.                             *)
(***************************************************************************)
LEMMA InitInv == Init => IInv
<1> SUFFICES ASSUME Init
             PROVE  IInv
  OBVIOUS
<1> USE DEF Init, Source!Init, Dec!Init
<1> DEFINE e == [pkt |-> FlushPacket, serial |-> 1]
<1>1. /\ e \in AnyEntry /\ <<e>> \in Seq(AnyEntry) /\ Len(<<e>>) = 1
      /\ <<e>>[1] = e /\ <<e>> # <<>>
  BY Constants DEF AnyEntry
<1>2. Source!NoRead \in Data /\ Source!NoCall \in Calls /\ 1 \in Positions
      /\ Source!NoCall.todo = {}
  BY PipelineAssumption DEF Source!NoRead, Source!Packet, Source!Picture,
     Source!NoCall, Data, Calls, Positions
<1>3. /\ Shapes
  BY <1>1, EmptySeq, Constants DEF Shapes, Places
<1>4. ReaderInv
  <2>1. ReaderShapes
    BY <1>2, EmptySeq DEF ReaderShapes, ReaderPlaces
  <2>2. Len(targets) = 0 /\ Len(left) = 0
    BY EmptySeq
  <2>3. SeeksKnown /\ ReaderKnown
    BY <1>2, <2>2, PipelineAssumption DEF SeeksKnown, Waiting, ReaderKnown
  <2>4. \A q \in Streams : EpochKnown(q)
    BY <2>2 DEF EpochKnown
  <2>5. QED
    BY <2>1, <2>3, <2>4 DEF ReaderInv
<1>5. ASSUME NEW q \in Streams
      PROVE  StreamInv(q)
  <2>1. /\ pkts[q] = <<e>> /\ serial[q] = 1 /\ pkt_serial[q] = -1
        /\ dpc[q] = "start" /\ temp_pkt[q] = NoPacket
        /\ pending[q] = NoPacket /\ got[q] = NoPacket
        /\ draining[q] = FALSE
    OBVIOUS
  <2>2. Len(codec[q]) = 0 /\ Len(frames[q]) = 0
    BY EmptySeq
  <2>3. e.pkt = FlushPacket /\ e.serial = 1
    OBVIOUS
  <2> HIDE DEF e, Init, Source!Init, Dec!Init
  <2>4. QueueKnown(q) /\ EndKnown(q)
    BY <1>1, <2>1, <2>3, Constants DEF QueueKnown, Opened, EndKnown, LastNew
  <2>5. ThreadKnown(q) /\ CodecKnown(q) /\ FramesKnown(q)
    BY <2>1, <2>2, Constants DEF ThreadKnown, CodecKnown, FramesKnown
  <2>6. QED
    BY <2>4, <2>5 DEF StreamInv
<1>6. QED
  BY <1>3, <1>4, <1>5 DEF IInv

LEMMA ReaderOwnKept ==
    ASSUME ReaderInv, UNCHANGED readerOwn, UNCHANGED serial
    PROVE  ReaderInv'
<1>1. UNCHANGED <<rpc, left, filepos, targets, pkt, seek_req, seek_position,
                  seek_call, seeks, serial>>
  BY DEF readerOwn
<1>2. ReaderShapes'
  BY <1>1 DEF ReaderInv, ReaderShapes
<1>3. SeeksKnown' /\ ReaderKnown'
  BY <1>1 DEF ReaderInv, SeeksKnown, Waiting, ReaderKnown
<1>4. \A q \in Streams : EpochKnown(q)'
  BY <1>1 DEF ReaderInv, EpochKnown, Left
<1>5. QED
  BY <1>2, <1>3, <1>4 DEF ReaderInv

LEMMA DecoderKeeps ==
    ASSUME IInv, NEW q \in Streams,
           Decoder(q) \/ DecoderSpuriousWake(q) \/ Renderer(q)
    PROVE  IInv'
<1>1. UNCHANGED readerOwn /\ UNCHANGED <<rpc, left>>
  BY DEF Decoder, DecoderSpuriousWake, Renderer, readerOwn
<1>2. Shapes' /\ (\A r \in Streams : StreamInv(r)') /\ UNCHANGED serial
  <2> USE DEF IInv
  <2>1. CASE Dec!DequeuePacket(q)
    BY <1>1, <2>1, TakeKeeps DEF Dec!DequeuePacket, Dec!PQ!Take
  <2>2. CASE \/ Dec!StartRound(q) \/ Dec!ReceiveAgain(q) \/ Dec!ReceiveEnd(q)
             \/ Dec!Fill(q) \/ Dec!DequeueNothing(q) \/ Dec!WaitForPackets(q)
             \/ Dec!KeepPacket(q) \/ Dec!DropPacket(q)
    <3>1. UNCHANGED serial
      BY <2>2 DEF Dec!StartRound, Dec!ReceiveAgain, Dec!ReceiveEnd, Dec!Fill,
         Dec!DequeueNothing, Dec!WaitForPackets, Dec!KeepPacket,
         Dec!DropPacket, Dec!queueVars, Dec!PQ!Sleep
    <3>2. QED
      BY <1>1, <2>2, <3>1, QuietKeeps
  <2>3. CASE \/ Dec!SendFlush(q) \/ Dec!SendNull(q) \/ Dec!SendRefused(q)
    <3>1. UNCHANGED serial
      BY <2>3 DEF Dec!SendFlush, Dec!SendNull, Dec!SendRefused, Dec!Sent,
         Dec!queueVars
    <3>2. QED
      BY <1>1, <2>3, <3>1, SendKeeps
  <2>4. CASE Dec!SendData(q)
    BY <1>1, <2>4, SendDataKeeps DEF Dec!SendData, Dec!Sent, Dec!queueVars
  <2>5. CASE Dec!ReceiveFrame(q)
    BY <1>1, <2>5, ReceiveKeeps DEF Dec!ReceiveFrame, Dec!queueVars
  <2>6. CASE Dec!PushFrame(q) \/ Dec!DropLateFrame(q)
    BY <1>1, <2>6, FrameKeeps DEF Dec!PushFrame, Dec!DropLateFrame,
       Dec!FrameDone, Dec!queueVars
  <2>7. CASE Renderer(q)
    BY <1>1, <2>7, TakeFrameKeeps DEF Renderer, Dec!TakeFrame, Dec!queueVars
  <2>8. CASE DecoderSpuriousWake(q)
    <3>1. /\ waiters' = [waiters EXCEPT ![q] = @ \ {q}]
          /\ UNCHANGED <<pkts, nb_packets, serial, pkt_serial, abort_request,
                         dpc, temp_pkt, pending, finished, codec, draining,
                         got, frames>>
      BY <2>8 DEF DecoderSpuriousWake, Dec!SpuriousWake, Dec!PQ!SpuriousWake,
         Dec!decoderVars, Dec!codecVars, Dec!frameVars
    <3>2. Shapes'
      BY <3>1 DEF Shapes
    <3>3. \A r \in Streams : StreamInv(r)'
      BY <1>1, <3>1, Elsewhere
    <3>4. QED
      BY <3>1, <3>2, <3>3
  <2>9. QED
    BY <2>1, <2>2, <2>3, <2>4, <2>5, <2>6, <2>7, <2>8
       DEF Decoder, Dec!DecodeFrame
<1>3. QED
  BY <1>1, <1>2, ReaderOwnKept DEF IInv

LEMMA UserKeeps ==
    ASSUME IInv, User
    PROVE  IInv'
<1>1. UNCHANGED queueVars /\ DecoderKept
      /\ UNCHANGED <<rpc, left, targets, filepos, pkt>>
  BY DEF User, Source!SeekCall, Source!Seek, Source!StorePosition,
     Source!StoreRequest, Source!NotifySeek, Source!queueVars, queueVars,
     Source!fileVars, decoderVars, DecoderKept
<1>2. Shapes' /\ \A r \in Streams : StreamInv(r)'
  <2>1. Shapes'
    BY <1>1 DEF IInv, Shapes, queueVars, DecoderKept
  <2>2. \A r \in Streams : StreamInv(r)'
    BY <1>1, Elsewhere DEF IInv, queueVars, DecoderKept
  <2>3. QED
    BY <2>1, <2>2
<1> DEFINE steps == {"position", "request", "notify"}
<1>3. /\ seek_call.todo \in SUBSET steps /\ seek_call.target \in Positions
      /\ seek_call = [todo |-> seek_call.todo, target |-> seek_call.target]
      /\ Source!NoCall \in Calls /\ Source!NoCall.todo = {}
  BY PipelineAssumption DEF IInv, ReaderInv, ReaderShapes, Calls,
     Source!NoCall, Positions
<1>4. ReaderShapes' /\ SeeksKnown'
  <2> USE DEF IInv, ReaderInv
  <2>1. ASSUME NEW target \in SeekTargets, Source!Seek(target)
        PROVE  ReaderShapes' /\ SeeksKnown'
    <3>1. /\ seek_call.todo = {} /\ ~seek_req /\ seeks < MaxSeeks
          /\ seek_call' = [todo |-> steps, target |-> target]
          /\ seeks' = seeks + 1 /\ UNCHANGED <<seek_req, seek_position>>
      BY <2>1 DEF Source!Seek
    <3>2. seek_call' \in Calls /\ "request" \in seek_call'.todo
      BY <3>1, PipelineAssumption DEF Calls, Positions
    <3>3. ReaderShapes'
      BY <1>1, <3>1, <3>2 DEF ReaderShapes
    <3>4. SeeksKnown'
      BY <1>1, <3>1, <3>2, PipelineAssumption DEF ReaderShapes, SeeksKnown, Waiting
    <3>5. QED
      BY <3>3, <3>4
  <2>2. CASE Source!StorePosition
    <3>1. /\ seek_position' = seek_call.target /\ UNCHANGED <<seek_req, seeks>>
          /\ seek_call' = [seek_call EXCEPT !.todo = @ \ {"position"}]
      BY <2>2 DEF Source!StorePosition
    <3>2. /\ seek_call' \in Calls
          /\ "request" \in seek_call'.todo <=> "request" \in seek_call.todo
      BY <1>3, <3>1 DEF Calls
    <3>3. ReaderShapes'
      BY <1>1, <1>3, <3>1, <3>2 DEF ReaderShapes
    <3>4. SeeksKnown'
      BY <1>1, <3>1, <3>2 DEF SeeksKnown, Waiting
    <3>5. QED
      BY <3>3, <3>4
  <2>3. CASE Source!StoreRequest
    <3>1. /\ "request" \in seek_call.todo /\ seek_req' = TRUE
          /\ UNCHANGED <<seek_position, seeks>>
          /\ seek_call' = [seek_call EXCEPT !.todo = @ \ {"request"}]
      BY <2>3 DEF Source!StoreRequest
    <3>2. seek_call' \in Calls /\ "request" \notin seek_call'.todo
      BY <1>3, <3>1 DEF Calls
    <3>3. ReaderShapes'
      BY <1>1, <3>1, <3>2 DEF ReaderShapes
    <3>4. SeeksKnown'
      BY <1>1, <3>1, <3>2 DEF ReaderShapes, SeeksKnown, Waiting
    <3>5. QED
      BY <3>3, <3>4
  <2>4. CASE Source!NotifySeek
    <3>1. /\ seek_call.todo = {"notify"} /\ seek_call' = Source!NoCall
          /\ UNCHANGED <<seek_req, seek_position, seeks>>
      BY <2>4 DEF Source!NotifySeek
    <3>2. ReaderShapes'
      BY <1>1, <1>3, <3>1 DEF ReaderShapes
    <3>3. SeeksKnown'
      BY <1>1, <1>3, <3>1 DEF SeeksKnown, Waiting
    <3>4. QED
      BY <3>2, <3>3
  <2>5. QED
    BY <2>1, <2>2, <2>3, <2>4 DEF User, Source!SeekCall
<1>6. ReaderKnown' /\ \A q \in Streams : EpochKnown(q)'
  BY <1>1 DEF IInv, ReaderInv, ReaderKnown, EpochKnown, Left, queueVars
<1>7. QED
  BY <1>2, <1>4, <1>6 DEF IInv, ReaderInv

LEMMA ReaderKeepsDecoder == Reader => DecoderKept
<1>1. Source!ReadStreams => UNCHANGED pkt_serial
  BY DEF Source!ReadStreams, Source!ProcessSeekRequest, Source!NoSeek,
     Source!SeekFile, Source!SeekFails, Source!FlushQueue,
     Source!MarkQueue, Source!EndSeek, Source!ProcessAttachedPicture,
     Source!QueuePicture, Source!QueuePictureEnd, Source!NoPicture,
     Source!TestQueues, Source!WaitForDecoders, Source!ProcessReadFrame,
     Source!ReadPacket, Source!ReadError, Source!ReadEnd, Source!PutNull,
     Source!SetEof, Source!IoError, Source!Nap, Source!QueuePacket,
     Source!queueVars, Source!PQ!Put, Source!PQ!PutAccepted,
     Source!PQ!Flush, Source!PQ!vars
<1>2. QED
  BY <1>1 DEF Reader, decoderVars, DecoderKept

LEMMA ReaderKeeps ==
    ASSUME IInv, Reader \/ ReaderSpuriousWake
    PROVE  IInv'
<1> USE DEF IInv
<1>1. CASE ReaderSpuriousWake
  <2>1. UNCHANGED queueVars /\ DecoderKept /\ UNCHANGED readerOwn
    BY <1>1 DEF ReaderSpuriousWake, Source!SpuriousWake, Source!queueVars,
       Source!fileVars, Source!seekVars, queueVars, decoderVars, DecoderKept,
       readerOwn
  <2>2. Shapes'
    BY <2>1 DEF Shapes, queueVars, DecoderKept
  <2>3. ReaderInv'
    BY <2>1, ReaderOwnKept DEF queueVars
  <2>4. \A r \in Streams : StreamInv(r)'
    BY <2>1, Elsewhere DEF queueVars, DecoderKept, readerOwn
  <2>5. QED
    BY <2>2, <2>3, <2>4
<1>2. CASE Reader
  <2>1. DecoderKept
    BY <1>2, ReaderKeepsDecoder
  <2>2. CASE \/ Source!NoSeek \/ Source!SeekFails \/ Source!EndSeek
             \/ Source!NoPicture \/ Source!TestQueues
             \/ Source!WaitForDecoders \/ Source!ReadError \/ Source!SetEof
             \/ Source!IoError \/ Source!Nap
    <3>1. UNCHANGED queueVars
      BY <2>2 DEF Source!NoSeek, Source!SeekFails, Source!EndSeek,
         Source!NoPicture, Source!TestQueues, Source!WaitForDecoders,
         Source!ReadError, Source!SetEof, Source!IoError, Source!Nap,
         Source!queueVars, queueVars
    <3>2. QED
      BY <2>1, <2>2, <3>1, ReaderStep
  <2>3. CASE Source!SeekFile
    BY <2>1, <2>3, SeekFileKeeps
  <2>4. CASE Source!ReadPacket \/ Source!ReadEnd
    BY <2>1, <2>4, ReadKeeps
  <2>5. CASE \/ Source!QueuePicture \/ Source!QueuePictureEnd
             \/ Source!PutNull \/ Source!QueuePacket
    BY <2>1, <2>5, PutPacketKeeps
  <2>6. CASE Source!FlushQueue
    BY <2>1, <2>6, FlushKeeps
  <2>7. CASE Source!MarkQueue
    BY <2>1, <2>7, MarkKeeps
  <2>8. QED
    BY <1>2, <2>2, <2>3, <2>4, <2>5, <2>6, <2>7
       DEF Reader, Source!ReadStreams, Source!ProcessSeekRequest,
           Source!ProcessAttachedPicture, Source!ProcessReadFrame
<1>3. QED
  BY <1>1, <1>2

LEMMA NextInv == IInv /\ [Next]_vars => IInv'
<1> SUFFICES ASSUME IInv, [Next]_vars
             PROVE  IInv'
  OBVIOUS
<1>1. CASE Next
  BY <1>1, ReaderKeeps, UserKeeps, DecoderKeeps DEF Next
<1>2. CASE UNCHANGED vars
  <2>1. UNCHANGED queueVars /\ DecoderKept /\ UNCHANGED readerOwn
    BY <1>2 DEF vars, queueVars, decoderVars, DecoderKept
  <2>2. Shapes'
    BY <2>1 DEF IInv, Shapes, queueVars, DecoderKept
  <2>3. ReaderInv'
    BY <2>1, ReaderOwnKept DEF IInv, queueVars
  <2>4. \A r \in Streams : StreamInv(r)'
    BY <2>1, Elsewhere DEF IInv, queueVars, DecoderKept, readerOwn
  <2>5. QED
    BY <2>2, <2>3, <2>4 DEF IInv
<1>3. QED
  BY <1>1, <1>2

(* The invariant that the proofs of this module rest on, for any file,    *)
(* seeks and sizes: where each packet is and under which serial.          *)
THEOREM InductiveCorrect == Spec => []IInv
  BY InitInv, NextInv, PTL DEF Spec

(***************************************************************************)
(* A packet and its frame keep the serial that was current when the packet *)
(* was read, whatever the file, the seeks and the sizes of the queues.     *)
(***************************************************************************)
THEOREM EpochCorrect == Spec => []EpochCarried
<1>1. IInv => EpochCarried
  <2> SUFFICES ASSUME IInv, NEW q \in Streams
               PROVE  /\ \A i \in DOMAIN pkts[q] :
                           Carried(pkts[q][i].pkt, pkts[q][i].serial)
                      /\ \A i \in DOMAIN frames[q] :
                           Carried(frames[q][i].pkt, frames[q][i].serial)
                      /\ Carried(got[q], pkt_serial[q])
                      /\ Carried(pending[q], pkt_serial[q])
                      /\ dpc[q] \in {"start", "receive"} =>
                           \A i \in DOMAIN codec[q] :
                             Carried(codec[q][i], pkt_serial[q])
    BY DEF EpochCarried
  <2>1. StreamInv(q)
    BY DEF IInv
  <2>2. /\ DOMAIN pkts[q] = 1 .. Len(pkts[q])
        /\ DOMAIN frames[q] = 1 .. Len(frames[q])
        /\ DOMAIN codec[q] = 1 .. Len(codec[q])
    BY DEF IInv, Shapes
  <2>3. dpc[q] \in {"start", "receive"} => temp_pkt[q] # FlushPacket
    BY <2>1, Constants DEF StreamInv, ThreadKnown
  <2>4. QED
    BY <2>1, <2>2, <2>3 DEF StreamInv, QueueKnown, ThreadKnown, CodecKnown,
       FramesKnown
<1>2. QED
  BY <1>1, InductiveCorrect, PTL

(***************************************************************************)
(* A codec that drains is given no packet, which it would lose.            *)
(***************************************************************************)
THEOREM CodecCorrect == Spec => []NothingLostInCodec
<1>1. IInv => NothingLostInCodec
  BY Constants DEF IInv, StreamInv, CodecKnown, NothingLostInCodec
<1>2. QED
  BY <1>1, InductiveCorrect, PTL

(***************************************************************************)
(* The types follow, with what the fields count and how far they go.       *)
(***************************************************************************)
Counted(q) ==
    /\ nb_packets[q] = Len(pkts[q])
    /\ \A i \in 1 .. Len(pkts[q]) : pkts[q][i].serial >= 0
    /\ pkt_serial[q] >= -1
    /\ temp_pkt[q] # NoPacket \/ pending[q] # NoPacket \/ draining[q] =>
          pkt_serial[q] >= 0
    /\ finished[q] >= 0 /\ finished[q] <= serial[q]
    /\ Len(codec[q]) <= CodecDepth /\ Len(frames[q]) <= FrameQueueSize

Flags ==
    /\ read_asleep \in BOOLEAN
    /\ eof \in BOOLEAN /\ queue_attachments_req \in BOOLEAN

LEMMA CountedElsewhere ==
    ASSUME NEW q \in Streams, Counted(q),
           UNCHANGED <<nb_packets[q], pkts[q], pkt_serial[q], serial[q],
                       temp_pkt[q], pending[q], draining[q], finished[q], codec[q],
                       frames[q]>>
    PROVE  Counted(q)'
  BY DEF Counted

LEMMA PutCounts ==
    ASSUME Shapes, NEW q \in Streams, NEW p \in Packets,
           Source!PQ!Put(q, p), DecoderKept, EpochKnown(q), ReaderShapes,
           \A r \in Streams : Counted(r)
    PROVE  \A r \in Streams : Counted(r)'
<1> DEFINE n == IF p = FlushPacket THEN serial[q] + 1 ELSE serial[q]
           e == [pkt |-> p, serial |-> n]
<1>1. /\ serial' = [serial EXCEPT ![q] = n]
      /\ pkts' = [pkts EXCEPT ![q] = Append(@, e)]
      /\ nb_packets' = [nb_packets EXCEPT ![q] = @ + 1]
  BY DEF Source!PQ!Put, Source!PQ!PutAccepted, Source!PQ!Stamp, Shapes
<1>2. serial[q] \in Int /\ serial[q] >= 0 /\ pkts[q] \in Seq(AnyEntry)
      /\ finished[q] \in Int /\ Len(targets) \in Nat
  BY DEF Shapes, EpochKnown, ReaderShapes
<1>3. n \in Int /\ n >= serial[q] /\ e.serial = n
  BY <1>2
<1>4. e \in AnyEntry
  BY <1>3 DEF AnyEntry
<1> HIDE DEF e, n
<1>5. /\ Len(pkts[q]) \in Nat
      /\ Len(Append(pkts[q], e)) = Len(pkts[q]) + 1
      /\ \A i \in 1 .. Len(Append(pkts[q], e)) :
           Append(pkts[q], e)[i] = IF i = Len(pkts[q]) + 1 THEN e ELSE pkts[q][i]
  BY <1>2, <1>4, AppendFacts
<1>6. /\ serial'[q] = n /\ pkts'[q] = Append(pkts[q], e)
      /\ nb_packets'[q] = nb_packets[q] + 1
      /\ \A r \in Streams : r # q =>
           UNCHANGED <<nb_packets[r], pkts[r], serial[r]>>
  BY <1>1 DEF Shapes
<1>7. \A i \in 1 .. Len(pkts'[q]) : pkts'[q][i].serial >= 0
  <2> SUFFICES ASSUME NEW i \in 1 .. Len(pkts'[q])
               PROVE  pkts'[q][i].serial >= 0
    OBVIOUS
  <2>1. CASE i = Len(pkts[q]) + 1
    BY <2>1, <1>2, <1>3, <1>5, <1>6
  <2>2. CASE i # Len(pkts[q]) + 1
    <3>1. i \in 1 .. Len(pkts[q]) /\ pkts'[q][i] = pkts[q][i]
      BY <2>2, <1>5, <1>6
    <3>2. QED
      BY <3>1 DEF Counted
  <2>3. QED
    BY <2>1, <2>2
<1>8. Counted(q)'
  BY <1>2, <1>3, <1>5, <1>6, <1>7 DEF Counted, DecoderKept
<1>9. ASSUME NEW r \in Streams, r # q
      PROVE  Counted(r)'
  BY <1>6, <1>9, CountedElsewhere DEF DecoderKept
<1>10. QED
  BY <1>8, <1>9

LEMMA ReaderCounts ==
    ASSUME IInv, Reader, Flags, \A r \in Streams : Counted(r)
    PROVE  Flags' /\ \A r \in Streams : Counted(r)'
<1>1. DecoderKept
  BY ReaderKeepsDecoder
<1>2. Flags'
  <2>1. /\ read_asleep' \in {read_asleep, TRUE}
        /\ eof' \in {eof, TRUE, FALSE}
        /\ queue_attachments_req' \in {queue_attachments_req, TRUE, FALSE}
    <3>1. CASE Source!ProcessSeekRequest
      BY <3>1 DEF Source!ProcessSeekRequest, Source!NoSeek, Source!SeekFile,
         Source!SeekFails, Source!FlushQueue, Source!MarkQueue,
         Source!EndSeek, Source!fileVars
    <3>2. CASE Source!ProcessAttachedPicture
      BY <3>2 DEF Source!ProcessAttachedPicture, Source!QueuePicture,
         Source!QueuePictureEnd, Source!NoPicture, Source!fileVars
    <3>3. CASE Source!TestQueues \/ Source!WaitForDecoders \/ Source!QueuePacket
      BY <3>3 DEF Source!TestQueues, Source!WaitForDecoders,
         Source!QueuePacket, Source!fileVars
    <3>4. CASE Source!ProcessReadFrame
      BY <3>4 DEF Source!ProcessReadFrame, Source!ReadPacket,
         Source!ReadError, Source!ReadEnd, Source!PutNull, Source!SetEof,
         Source!IoError, Source!Nap, Source!fileVars
    <3>5. QED
      BY <3>1, <3>2, <3>3, <3>4 DEF Reader, Source!ReadStreams
  <2>2. QED
    BY <2>1 DEF Flags
<1>3. ASSUME NEW q \in Streams, NEW p \in Packets, Source!PQ!Put(q, p)
      PROVE  \A r \in Streams : Counted(r)'
  BY <1>1, <1>3, PutCounts DEF IInv, ReaderInv
<1>4. CASE UNCHANGED queueVars
  <2>1. UNCHANGED <<nb_packets, pkts, pkt_serial, serial, temp_pkt, pending,
                    draining, finished, codec, frames>>
    BY <1>1, <1>4 DEF queueVars, DecoderKept
  <2>2. QED
    BY <2>1, <1>2, CountedElsewhere
<1>5. ASSUME NEW q \in Streams, Source!PQ!Flush(q)
      PROVE  \A r \in Streams : Counted(r)'
  <2>1. /\ pkts' = [pkts EXCEPT ![q] = <<>>]
        /\ nb_packets' = [nb_packets EXCEPT ![q] = 0] /\ UNCHANGED serial
    BY <1>5 DEF Source!PQ!Flush
  <2>2. pkts'[q] = <<>> /\ Len(pkts'[q]) = 0 /\ nb_packets'[q] = 0
    BY <2>1, EmptySeq DEF IInv, Shapes
  <2>3. Counted(q)'
    BY <1>1, <2>1, <2>2 DEF Counted, DecoderKept
  <2>4. ASSUME NEW r \in Streams, r # q
        PROVE  Counted(r)'
    <3>1. UNCHANGED <<pkts[r], nb_packets[r]>>
      BY <2>1, <2>4 DEF IInv, Shapes
    <3>2. QED
      BY <1>1, <2>1, <3>1, CountedElsewhere DEF DecoderKept
  <2>5. QED
    BY <2>3, <2>4
<1>6. \/ UNCHANGED queueVars
      \/ \E q \in Streams, p \in Packets : Source!PQ!Put(q, p)
      \/ \E q \in Streams : Source!PQ!Flush(q)
  <2> USE DEF IInv, ReaderInv, ReaderShapes, ReaderKnown
  <2>1. CASE Source!FlushQueue
    BY <2>1, TailFacts DEF Source!FlushQueue, Source!Goto
  <2>2. CASE Source!MarkQueue
    BY <2>2, TailFacts, Constants DEF Source!MarkQueue, Source!Goto
  <2>3. CASE Source!PutNull
    BY <2>3, TailFacts, Constants DEF Source!PutNull
  <2>4. CASE Source!QueuePicture \/ Source!QueuePictureEnd
    <3>1. Video \in Streams
      BY <2>4, PipelineAssumption DEF Source!QueuePicture,
         Source!QueuePictureEnd, Source!Goto
    <3>2. Source!Packet(Source!Picture, Source!Epoch) \in Data
      BY PipelineAssumption DEF Source!Packet, Source!Picture, Source!Epoch,
         Data, SeeksKnown, Waiting
    <3>3. QED
      BY <2>4, <3>1, <3>2, Constants DEF Source!QueuePicture, Source!QueuePictureEnd
  <2>5. CASE Source!QueuePacket
    BY <2>5, Constants DEF Source!QueuePacket, Source!queueVars, queueVars
  <2>6. CASE \/ Source!NoSeek \/ Source!SeekFails \/ Source!EndSeek
             \/ Source!NoPicture \/ Source!TestQueues
             \/ Source!WaitForDecoders \/ Source!ReadError \/ Source!SetEof
             \/ Source!IoError \/ Source!Nap \/ Source!SeekFile
             \/ Source!ReadPacket \/ Source!ReadEnd
    BY <2>6 DEF Source!NoSeek, Source!SeekFails, Source!EndSeek,
       Source!NoPicture, Source!TestQueues, Source!WaitForDecoders,
       Source!ReadError, Source!SetEof, Source!IoError, Source!Nap,
       Source!SeekFile, Source!ReadPacket, Source!ReadEnd, Source!queueVars,
       queueVars
  <2>7. QED
    BY <2>1, <2>2, <2>3, <2>4, <2>5, <2>6
       DEF Reader, Source!ReadStreams, Source!ProcessSeekRequest,
           Source!ProcessAttachedPicture, Source!ProcessReadFrame
<1>7. QED
  BY <1>2, <1>3, <1>4, <1>5, <1>6

OthersCount(q) ==
    \A r \in Streams : r # q =>
        UNCHANGED <<nb_packets[r], pkts[r], pkt_serial[r], serial[r],
                    temp_pkt[r], pending[r], draining[r], finished[r],
                    codec[r], frames[r]>>

LEMMA OthersCounted ==
    ASSUME NEW q \in Streams, OthersCount(q), \A r \in Streams : Counted(r),
           Counted(q)'
    PROVE  \A r \in Streams : Counted(r)'
  BY CountedElsewhere DEF OthersCount

(* What the other steps of a decoder do to what is counted.                *)
Moved(q) ==
    /\ UNCHANGED <<pkts, nb_packets, pkt_serial, serial>>
    /\ temp_pkt'[q] \in {NoPacket, temp_pkt[q], pending[q]}
    /\ pending'[q] \in {NoPacket, temp_pkt[q], pending[q]}
    /\ draining'[q] => draining[q] \/ temp_pkt[q] # NoPacket
    /\ \/ finished'[q] \in {finished[q], 0}
       \/ finished'[q] = pkt_serial[q] /\ draining[q]

LEMMA MovedCounts ==
    ASSUME IInv, NEW q \in Streams, Counted(q), Moved(q),
           Len(codec'[q]) <= CodecDepth, Len(frames'[q]) <= FrameQueueSize
    PROVE  Counted(q)'
<1>1. /\ serial[q] \in Int /\ pkt_serial[q] \in Int /\ finished[q] \in Int
      /\ Len(targets) \in Nat /\ pkt_serial[q] <= serial[q]
      /\ serial[q] \in {Len(targets), Len(targets) + 1}
  BY DEF IInv, Shapes, StreamInv, QueueKnown, ReaderInv, ReaderShapes, EpochKnown
<1>2. /\ finished'[q] >= 0 /\ finished'[q] <= serial[q]
  BY <1>1 DEF Moved, Counted
<1>3. temp_pkt'[q] # NoPacket \/ pending'[q] # NoPacket \/ draining'[q] =>
        pkt_serial[q] >= 0
  BY DEF Moved, Counted
<1>4. QED
  BY <1>2, <1>3 DEF Moved, Counted

LEMMA DecoderCounts ==
    ASSUME IInv, NEW q \in Streams, Flags, \A r \in Streams : Counted(r),
           Decoder(q) \/ DecoderSpuriousWake(q) \/ Renderer(q)
    PROVE  Flags' /\ \A r \in Streams : Counted(r)'
<1> USE DEF Dec!Goto, Dec!codecVars, Dec!frameVars, Dec!queueVars
<1>0. Shapes
  BY DEF IInv
<1>9. UNCHANGED <<eof, queue_attachments_req>>
  BY DEF Decoder, DecoderSpuriousWake, Renderer, readerOwn
<1>1. CASE Dec!DequeuePacket(q)
  <2>1. /\ pkts[q] # <<>> /\ pkts' = [pkts EXCEPT ![q] = Tail(@)]
        /\ nb_packets' = [nb_packets EXCEPT ![q] = @ - 1]
        /\ pkt_serial' = [pkt_serial EXCEPT ![q] = Head(pkts[q]).serial]
        /\ temp_pkt' = [temp_pkt EXCEPT ![q] = Head(pkts[q]).pkt]
        /\ read_asleep' = FALSE /\ UNCHANGED <<eof, queue_attachments_req>>
        /\ UNCHANGED <<serial, pending, finished, codec, draining, frames>>
    BY <1>1, <1>9 DEF Dec!DequeuePacket, Dec!PQ!Take, Dec!PQ!HasPacket,
       Dec!NotifyQueueEmpty
  <2>2. /\ pkts'[q] = Tail(pkts[q]) /\ nb_packets'[q] = nb_packets[q] - 1
        /\ pkt_serial'[q] = Head(pkts[q]).serial
        /\ pkts[q] \in Seq(AnyEntry) /\ pkts[q] # <<>>
    BY <2>1, <1>0 DEF Shapes
  <2>3. /\ Len(Tail(pkts[q])) = Len(pkts[q]) - 1
        /\ Head(pkts[q]) = pkts[q][1] /\ pkts[q][1] \in AnyEntry
        /\ 1 \in 1 .. Len(pkts[q]) /\ Len(pkts[q]) \in Nat
        /\ \A i \in 1 .. Len(Tail(pkts[q])) :
             Tail(pkts[q])[i] = pkts[q][i + 1] /\ i + 1 \in 1 .. Len(pkts[q])
    BY <2>2, TailFacts
  <2>4. pkt_serial'[q] >= 0 /\ \A i \in 1 .. Len(pkts'[q]) : pkts'[q][i].serial >= 0
    BY <2>2, <2>3 DEF Counted
  <2>5. pkt_serial'[q] \in Int
    BY <2>2, <2>3 DEF AnyEntry
  <2>6. Counted(q)'
    <3>1. nb_packets'[q] = Len(pkts'[q])
      BY <2>2, <2>3 DEF Counted
    <3>2. QED
      BY <2>1, <2>4, <2>5, <3>1 DEF Counted
  <2>7. OthersCount(q)
    BY <2>1, <1>0 DEF OthersCount, Shapes
  <2>8. Flags'
    BY <2>1 DEF Flags
  <2>9. QED
    BY <2>6, <2>7, <2>8, OthersCounted
<1>2. CASE \/ Dec!StartRound(q) \/ Dec!ReceiveAgain(q)
           \/ Dec!DequeueNothing(q) \/ Dec!WaitForPackets(q)
           \/ Dec!KeepPacket(q) \/ DecoderSpuriousWake(q)
  <2>1. /\ UNCHANGED <<pkts, nb_packets, pkt_serial, serial, temp_pkt, pending,
                       draining, finished, codec, frames>>
        /\ read_asleep' \in {read_asleep, FALSE}
    BY <1>2 DEF Dec!StartRound, Dec!ReceiveAgain, Dec!DequeueNothing,
       Dec!WaitForPackets, Dec!KeepPacket, DecoderSpuriousWake,
       Dec!SpuriousWake, Dec!PQ!SpuriousWake, Dec!PQ!Sleep,
       Dec!NotifyQueueEmpty, Dec!decoderVars
  <2>2. QED
    BY <2>1, <1>9, CountedElsewhere DEF Flags
<1>3. CASE Dec!ReceiveEnd(q) \/ Dec!Fill(q) \/ Dec!DropPacket(q)
  <2>1. Moved(q) /\ OthersCount(q)
    <3>1. CASE Dec!ReceiveEnd(q)
      BY <3>1, <1>0 DEF Dec!ReceiveEnd, Dec!FlushBuffers, Shapes, Moved,
         OthersCount
    <3>2. CASE Dec!Fill(q)
      BY <3>2, <1>0 DEF Dec!Fill, Shapes, Moved, OthersCount
    <3>3. CASE Dec!DropPacket(q)
      BY <3>3, <1>0 DEF Dec!DropPacket, Shapes, Moved, OthersCount
    <3>4. QED
      BY <1>3, <3>1, <3>2, <3>3
  <2>2. codec'[q] \in {codec[q], <<>>} /\ frames'[q] = frames[q]
    BY <1>3, <1>0 DEF Dec!ReceiveEnd, Dec!Fill, Dec!DropPacket,
       Dec!FlushBuffers, Shapes
  <2>3. read_asleep' \in {read_asleep, FALSE}
    BY <1>3 DEF Dec!ReceiveEnd, Dec!Fill, Dec!DropPacket, Dec!NotifyQueueEmpty
  <2>4. Len(codec'[q]) <= CodecDepth /\ Len(frames'[q]) <= FrameQueueSize
    BY <2>2, EmptySeq, PipelineAssumption DEF Counted
  <2>5. QED
    BY <2>1, <2>3, <2>4, <1>9, MovedCounts, OthersCounted DEF Flags
<1>4. CASE \/ Dec!SendFlush(q) \/ Dec!SendNull(q) \/ Dec!SendRefused(q)
           \/ Dec!SendData(q)
  <2>1. Moved(q) /\ OthersCount(q)
    <3>1. CASE Dec!SendFlush(q)
      BY <3>1, <1>0 DEF Dec!SendFlush, Dec!Sent, Dec!FlushBuffers, Shapes,
         Moved, OthersCount
    <3>2. CASE Dec!SendNull(q)
      BY <3>2, <1>0, Constants DEF Dec!SendNull, Dec!Sent, Shapes, Moved,
         OthersCount
    <3>3. CASE Dec!SendRefused(q)
      BY <3>3, <1>0 DEF Dec!SendRefused, Dec!Sent, Shapes, Moved, OthersCount
    <3>4. CASE Dec!SendData(q)
      BY <3>4, <1>0 DEF Dec!SendData, Dec!Sent, Shapes, Moved, OthersCount
    <3>5. QED
      BY <1>4, <3>1, <3>2, <3>3, <3>4
  <2>2. /\ frames'[q] = frames[q]
        /\ \/ codec'[q] \in {codec[q], <<>>}
           \/ /\ codec'[q] = Append(codec[q], temp_pkt[q])
              /\ temp_pkt[q] \in Data /\ Len(codec[q]) < CodecDepth
    BY <1>4, <1>0 DEF Dec!SendFlush, Dec!SendNull, Dec!SendRefused,
       Dec!SendData, Dec!Sent, Dec!FlushBuffers, Shapes
  <2>3. UNCHANGED read_asleep
    BY <1>4 DEF Dec!SendFlush, Dec!SendNull, Dec!SendRefused, Dec!SendData,
       Dec!Sent
  <2>4. Len(codec'[q]) <= CodecDepth /\ Len(frames'[q]) <= FrameQueueSize
    <3>1. codec[q] \in Seq(Data)
      BY <1>0 DEF Shapes
    <3>2. temp_pkt[q] \in Data =>
            Len(Append(codec[q], temp_pkt[q])) = Len(codec[q]) + 1
      BY <3>1, AppendProperties
    <3>3. QED
      BY <2>2, <3>1, <3>2, EmptySeq, PipelineAssumption DEF Counted
  <2>5. QED
    BY <2>1, <2>3, <2>4, <1>9, MovedCounts, OthersCounted DEF Flags
<1>5. CASE \/ Dec!ReceiveFrame(q) \/ Dec!PushFrame(q) \/ Dec!DropLateFrame(q)
           \/ Renderer(q)
  <2>1. Moved(q) /\ OthersCount(q) /\ UNCHANGED read_asleep
    BY <1>5, <1>0 DEF Dec!ReceiveFrame, Dec!PushFrame, Dec!DropLateFrame,
       Dec!FrameDone, Renderer, Dec!TakeFrame, Shapes, Moved, OthersCount
  <2>2. /\ \/ codec'[q] = codec[q]
           \/ codec[q] # <<>> /\ codec'[q] = Tail(codec[q])
        /\ \/ frames'[q] = frames[q]
           \/ frames[q] # <<>> /\ frames'[q] = Tail(frames[q])
           \/ /\ frames'[q] = Append(frames[q], Dec!Frame(got[q], pkt_serial[q]))
              /\ Len(frames[q]) < FrameQueueSize /\ dpc[q] = "push"
    BY <1>5, <1>0 DEF Dec!ReceiveFrame, Dec!PushFrame, Dec!DropLateFrame,
       Dec!FrameDone, Renderer, Dec!TakeFrame, Shapes
  <2>3. Len(codec'[q]) <= CodecDepth
    <3>1. /\ codec[q] \in Seq(Data) /\ Len(codec[q]) <= CodecDepth
          /\ Len(codec[q]) \in Nat /\ CodecDepth \in Nat
      BY <1>0, PipelineAssumption DEF Shapes, Counted
    <3>2. codec[q] # <<>> => Len(Tail(codec[q])) = Len(codec[q]) - 1
      BY <3>1, TailFacts
    <3>3. CASE codec'[q] = codec[q]
      BY <3>1, <3>3
    <3>4. CASE codec[q] # <<>> /\ codec'[q] = Tail(codec[q])
      <4>1. Len(codec'[q]) = Len(codec[q]) - 1
        BY <3>2, <3>4
      <4>2. QED
        BY <3>1, <4>1
    <3>5. QED
      BY <2>2, <3>3, <3>4
  <2>4. Len(frames'[q]) <= FrameQueueSize
    <3>1. /\ frames[q] \in Seq(AnyFrame)
          /\ Len(frames[q]) <= FrameQueueSize
          /\ Len(frames[q]) \in Nat /\ FrameQueueSize \in Nat
      BY <1>0, PipelineAssumption DEF Shapes, Counted
    <3>2. frames[q] # <<>> => Len(Tail(frames[q])) = Len(frames[q]) - 1
      BY <3>1, TailFacts
    <3>3. ASSUME NEW e \in AnyFrame
          PROVE  Len(Append(frames[q], e)) = Len(frames[q]) + 1
      BY <3>1, AppendProperties
    <3>4. Len(frames[q]) < FrameQueueSize /\ dpc[q] = "push" =>
            Len(Append(frames[q], Dec!Frame(got[q], pkt_serial[q])))
              <= FrameQueueSize
      <4>1. dpc[q] = "push" => Dec!Frame(got[q], pkt_serial[q]) \in AnyFrame
        BY <1>0 DEF Shapes, IInv, StreamInv, ThreadKnown, Dec!Frame, AnyFrame
      <4>2. QED
        BY <3>1, <3>3, <4>1
    <3>5. CASE frames'[q] = frames[q]
      BY <3>1, <3>5
    <3>6. CASE frames[q] # <<>> /\ frames'[q] = Tail(frames[q])
      <4>1. Len(frames'[q]) = Len(frames[q]) - 1
        BY <3>2, <3>6
      <4>2. QED
        BY <3>1, <4>1
    <3>7. QED
      BY <2>2, <3>4, <3>5, <3>6
  <2>5. QED
    BY <2>1, <2>3, <2>4, <1>9, MovedCounts, OthersCounted DEF Flags
<1>6. QED
  BY <1>1, <1>2, <1>3, <1>4, <1>5 DEF Decoder, Dec!DecodeFrame

LEMMA UserCounts ==
    ASSUME User \/ ReaderSpuriousWake, Flags, \A r \in Streams : Counted(r)
    PROVE  Flags' /\ \A r \in Streams : Counted(r)'
<1>1. /\ UNCHANGED <<pkts, nb_packets, pkt_serial, serial, temp_pkt, pending,
                     draining, finished, codec, frames>>
      /\ UNCHANGED <<eof, queue_attachments_req>>
      /\ read_asleep' \in {read_asleep, FALSE}
  BY DEF User, ReaderSpuriousWake, Source!SpuriousWake, Source!NotifyReader,
     Source!SeekCall, Source!Seek, Source!StorePosition, Source!StoreRequest,
     Source!NotifySeek, Source!queueVars, Source!fileVars, decoderVars
<1>2. QED
  BY <1>1, CountedElsewhere DEF Flags

LEMMA InitCounts == Init => Flags /\ \A q \in Streams : Counted(q)
<1> SUFFICES ASSUME Init
             PROVE  Flags /\ \A q \in Streams : Counted(q)
  OBVIOUS
<1> USE DEF Init, Source!Init, Dec!Init
<1>1. Flags
  BY DEF Flags
<1>2. ASSUME NEW q \in Streams
      PROVE  Counted(q)
  <2> DEFINE e == [pkt |-> FlushPacket, serial |-> 1]
  <2>1. /\ pkts[q] = <<e>> /\ nb_packets[q] = 1 /\ pkt_serial[q] = -1
        /\ serial[q] = 1 /\ temp_pkt[q] = NoPacket /\ pending[q] = NoPacket
        /\ draining[q] = FALSE /\ finished[q] = 0
    OBVIOUS
  <2>2. Len(codec[q]) = 0 /\ Len(frames[q]) = 0
    BY EmptySeq
  <2>3. e.serial = 1
    OBVIOUS
  <2> HIDE DEF e, Init, Source!Init, Dec!Init
  <2>4. Len(<<e>>) = 1 /\ <<e>>[1] = e
    OBVIOUS
  <2>5. QED
    BY <2>1, <2>2, <2>3, <2>4, PipelineAssumption DEF Counted
<1>3. QED
  BY <1>1, <1>2

(***************************************************************************)
(* The fields of DataSource and Decoder have the types the model gives     *)
(* them: no count runs below zero, no codec or frame queue beyond its      *)
(* size, and no serial beyond the seeks that were accepted.                *)
(***************************************************************************)
THEOREM TypeCorrect == Spec => []TypeOK
<1> DEFINE Counts == Flags /\ \A q \in Streams : Counted(q)
<1>1. Init => Counts
  BY InitCounts
<1>2. IInv /\ Counts /\ [Next]_vars => Counts'
  <2> SUFFICES ASSUME IInv, Counts, [Next]_vars
               PROVE  Counts'
    OBVIOUS
  <2>1. CASE Next
    BY <2>1, ReaderCounts, UserCounts, DecoderCounts DEF Next
  <2>2. CASE UNCHANGED vars
    <3>1. /\ UNCHANGED <<pkts, nb_packets, pkt_serial, serial, temp_pkt,
                         pending, draining, finished, codec, frames>>
          /\ UNCHANGED <<eof, queue_attachments_req, read_asleep>>
      BY <2>2 DEF vars, queueVars, readerOwn, decoderVars
    <3>2. QED
      BY <3>1, CountedElsewhere DEF Flags
  <2>3. QED
    BY <2>1, <2>2
<1>3. IInv /\ Counts => TypeOK
  <2> SUFFICES ASSUME IInv, Counts
               PROVE  TypeOK
    OBVIOUS
  <2>1. Shapes /\ ReaderShapes
    BY DEF IInv, ReaderInv
  <2>2. Len(targets) \in Nat /\ Len(targets) <= MaxSeeks /\ MaxSeeks \in Nat
    BY <2>1, PipelineAssumption DEF IInv, ReaderInv, ReaderShapes, SeeksKnown,
       Waiting
  <2>3. ASSUME NEW q \in Streams
        PROVE  /\ nb_packets[q] \in Nat /\ serial[q] \in 1 .. MaxSeeks + 1
               /\ pkt_serial[q] \in -1 .. MaxSeeks + 1
               /\ finished[q] \in 0 .. MaxSeeks + 1
    <3>1. /\ serial[q] \in Int /\ pkt_serial[q] \in Int /\ finished[q] \in Int
          /\ Len(pkts[q]) \in Nat
      BY <2>1 DEF Shapes
    <3>2. serial[q] >= 1 /\ serial[q] <= MaxSeeks + 1
      BY <2>2, <3>1 DEF IInv, ReaderInv, EpochKnown, ReaderKnown
    <3>3. pkt_serial[q] <= serial[q]
      BY DEF IInv, StreamInv, QueueKnown
    <3>4. QED
      BY <2>2, <3>1, <3>2, <3>3 DEF Counted
  <2>4. ASSUME NEW q \in Streams
        PROVE  frames[q] \in Seq(FrameType(Data))
    <3>1. frames[q] \in Seq(AnyFrame) /\ FramesKnown(q)
      BY <2>1 DEF Shapes, IInv, StreamInv
    <3>2. ASSUME NEW i \in 1 .. Len(frames[q])
          PROVE  frames[q][i] \in FrameType(Data)
      <4>1. frames[q][i] \in AnyFrame
        BY <3>1
      <4>2. /\ frames[q][i].pkt \in Data
            /\ frames[q][i].serial = frames[q][i].pkt.epoch + 1
        BY <3>1, <4>1 DEF FramesKnown, Carried, AnyFrame
      <4>3. frames[q][i].pkt.epoch \in 0 .. MaxSeeks
        BY <4>2 DEF Data
      <4>4. frames[q][i].serial \in -1 .. MaxSeeks + 1
        BY <4>2, <4>3, <2>2
      <4>5. QED
        BY <4>1, <4>2, <4>4 DEF FrameType, AnyFrame
    <3>3. QED
      BY <3>1, <3>2
  <2>5. /\ nb_packets \in [Streams -> Nat]
        /\ serial \in [Streams -> 1 .. MaxSeeks + 1]
        /\ pkt_serial \in [Streams -> -1 .. MaxSeeks + 1]
        /\ finished \in [Streams -> 0 .. MaxSeeks + 1]
    BY <2>1, <2>3 DEF Shapes
  <2>6. QED
    BY <2>1, <2>4, <2>5 DEF TypeOK, Shapes, ReaderShapes, Places, Flags,
       Counted, ReaderPlaces, Positions
<1>4. QED
  BY <1>1, <1>2, <1>3, InductiveCorrect, PTL DEF Spec

(***************************************************************************)
(* Nothing is skipped.  On its way a packet has the place of its position; *)
(* a flush packet is where its seek starts, a null packet is the end of    *)
(* the file.  Every packet or frame of a serial follows the one before it: *)
(* no packet of its stream lies between the two.                           *)
(***************************************************************************)
Start(t, s) == IF s = 1 THEN 1 ELSE t[s - 1]
Place(t, p, s) ==
    IF p \in Data THEN p.pos
    ELSE IF p = FlushPacket THEN Start(t, s) - 1 ELSE Len(File)

Gap(q, a, b) == \A i \in a + 1 .. b - 1 : File[i] # q
Follows(q, a, p) ==
    /\ p \in Data => /\ a < p.pos /\ p.pos <= Len(File) /\ File[p.pos] = q
                     /\ Gap(q, a, p.pos)
    /\ p = NullPacket => Gap(q, a, Len(File) + 1)

(* A decoder that has shown the stream up to place a holds the packet g    *)
(* and the codec's packets c, and then tp or pd; it is over when the codec *)
(* has got a null packet, and done when it has given everything back.      *)
AfterGot(a, g) == IF g = NoPacket THEN a ELSE g.pos
AfterCodec(a, g, c) == IF c = <<>> THEN AfterGot(a, g) ELSE c[Len(c)].pos
AfterDrain(a, g, c, over) ==
    IF over THEN Len(File) ELSE AfterCodec(a, g, c)
InCodec(q, a, g, c) ==
    \A i \in 1 .. Len(c) :
        Follows(q, IF i = 1 THEN AfterGot(a, g) ELSE c[i - 1].pos, c[i])
Chained(q, a, g, c, over, done, tp, pd) ==
    /\ Follows(q, a, g)
    /\ InCodec(q, a, g, c)
    /\ over => Gap(q, AfterCodec(a, g, c), Len(File) + 1)
    /\ done => over /\ c = <<>> /\ g = NoPacket
    /\ Follows(q, AfterDrain(a, g, c, over), tp)
    /\ Follows(q, AfterDrain(a, g, c, over), pd)

Shown(q) ==
    IF last[q].serial = pkt_serial[q] THEN last[q].pkt.pos
                                      ELSE Start(targets, pkt_serial[q]) - 1
Done(q) == finished[q] = pkt_serial[q]
Over(q) == draining[q] \/ Done(q)
Drained(q) == AfterDrain(Shown(q), got[q], codec[q], Over(q))
Taken(q) ==
    IF temp_pkt[q] # NoPacket THEN Place(targets, temp_pkt[q], pkt_serial[q])
    ELSE IF pending[q] # NoPacket THEN Place(targets, pending[q], pkt_serial[q])
    ELSE Drained(q)
EntryPlace(q, i) == Place(targets, pkts[q][i].pkt, pkts[q][i].serial)
Queued(q) == IF pkts[q] = <<>> THEN Taken(q) ELSE EntryPlace(q, Len(pkts[q]))

Current(q) == pkt_serial[q] = serial[q]
Live(q) == /\ pkt_serial[q] >= 1
           /\ dpc[q] \in {"start", "receive", "push", "send"} \/ Current(q)

DecoderChain(q) ==
    Live(q) /\ temp_pkt[q] # FlushPacket =>
        Chained(q, Shown(q), got[q], codec[q], Over(q), Done(q), temp_pkt[q],
                pending[q])
QueueChain(q) ==
    /\ Current(q) /\ pkts[q] # <<>> => Follows(q, Taken(q), pkts[q][1].pkt)
    /\ \A i \in 1 .. Len(pkts[q]) : i # 1 /\ pkts[q][i].serial = serial[q] =>
          Follows(q, EntryPlace(q, i - 1), pkts[q][i].pkt)

(* Behind a null packet come only null packets.                            *)
NullHeld(q) ==
    /\ Current(q) /\ temp_pkt[q] # FlushPacket
    /\ Over(q) \/ temp_pkt[q] = NullPacket \/ pending[q] = NullPacket
NullsLast(q) ==
    /\ \A i, j \in 1 .. Len(pkts[q]) :
         i < j /\ pkts[q][i].pkt = NullPacket /\ pkts[q][i].serial = serial[q]
           => pkts[q][j].pkt = NullPacket
    /\ NullHeld(q) => \A j \in 1 .. Len(pkts[q]) : pkts[q][j].pkt = NullPacket

(* Serials only grow, and a flush packet starts a larger one.              *)
LastKnown(q) ==
    \/ last[q].serial = -1
    \/ /\ last[q].serial >= 1 /\ last[q].pkt \in Data
       /\ last[q].pkt.pos \in PacketsFrom(q, Start(targets, last[q].serial))
ThreadSerials(q) ==
    /\ pkt_serial[q] = -1 \/ pkt_serial[q] >= 1
    /\ last[q].serial <= pkt_serial[q]
    /\ finished[q] = 0 \/ finished[q] <= pkt_serial[q]
    /\ temp_pkt[q] = FlushPacket =>
         last[q].serial < pkt_serial[q] /\ finished[q] # pkt_serial[q]
QueueSerials(q) ==
    \A i \in 1 .. Len(pkts[q]) :
      /\ pkts[q][i].serial >= 1 /\ pkt_serial[q] <= pkts[q][i].serial
      /\ pkts[q][i].pkt = FlushPacket => pkt_serial[q] < pkts[q][i].serial
      /\ \A j \in 1 .. Len(pkts[q]) : i < j =>
           /\ pkts[q][i].serial <= pkts[q][j].serial
           /\ pkts[q][j].pkt = FlushPacket =>
                pkts[q][i].serial < pkts[q][j].serial

(* What the reader puts next follows what it put last.                     *)
Coming == IF rpc = "queue" THEN pkt.pos ELSE filepos
ReaderChain(q) ==
    ~(rpc \in {"flush", "mark"} /\ Left(q)) =>
        Queued(q) < Coming /\ Gap(q, Queued(q), Coming)
ReaderAt ==
    /\ rpc \in {"flush", "mark"} => filepos = targets[Len(targets)]
    /\ rpc = "drain" => filepos = Len(File) + 1
    /\ rpc = "queue" => filepos = pkt.pos + 1 /\ pkt.pos >= 1

LastShape == last \in [Streams -> [pkt : Data \union {NoPacket}, serial : Int]]
ThreadChain(q) ==
    DecoderChain(q) /\ LastKnown(q) /\ ThreadSerials(q)
StreamChain(q) ==
    ThreadChain(q) /\ QueueChain(q) /\ NullsLast(q) /\ QueueSerials(q)
Whole == Streams \ Covers
ChainInv ==
    /\ LastShape /\ ReaderAt
    /\ \A q \in Whole : StreamChain(q) /\ ReaderChain(q)

LEMMA FollowsFacts ==
    ASSUME NEW q, NEW a
    PROVE  Follows(q, a, NoPacket) /\ Follows(q, a, FlushPacket)
  BY Constants DEF Follows

LEMMA NothingBehindEnd ==
    ASSUME NEW q, NEW p \in Data
    PROVE  ~Follows(q, Len(File), p)
  BY PipelineAssumption DEF Follows, Data

LEMMA ChainReceive ==
    ASSUME NEW q, NEW a, NEW c \in Seq(Data), c # <<>>, NEW over, NEW done,
           NEW tp, NEW pd, Chained(q, a, NoPacket, c, over, done, tp, pd)
    PROVE  /\ Chained(q, a, c[1], Tail(c), over, done, tp, pd)
           /\ AfterDrain(a, c[1], Tail(c), over) = AfterDrain(a, NoPacket, c, over)
<1>1. /\ Tail(c) \in Seq(Data) /\ Len(Tail(c)) = Len(c) - 1
      /\ Len(c) \in Nat /\ 1 \in 1 .. Len(c) /\ c[1] \in Data
      /\ \A i \in 1 .. Len(Tail(c)) :
           Tail(c)[i] = c[i + 1] /\ i + 1 \in 1 .. Len(c)
      /\ Tail(c) = <<>> => Len(c) = 1
  BY TailFacts
<1>2. c[1] # NoPacket
  BY <1>1, Constants
<1>3. AfterCodec(a, c[1], Tail(c)) = AfterCodec(a, NoPacket, c)
  <2>1. CASE Tail(c) = <<>>
    BY <1>1, <1>2, <2>1 DEF AfterCodec, AfterGot
  <2>2. CASE Tail(c) # <<>>
    <3>1. Len(Tail(c)) \in 1 .. Len(Tail(c))
      BY <1>1, <2>2, EmptySeq
    <3>2. Tail(c)[Len(Tail(c))] = c[Len(c)]
      BY <1>1, <3>1
    <3>3. QED
      BY <2>2, <3>2 DEF AfterCodec
  <2>3. QED
    BY <2>1, <2>2
<1>4. Follows(q, a, c[1])
  BY <1>1 DEF Chained, InCodec, AfterGot
<1>5. InCodec(q, a, c[1], Tail(c))
  <2> SUFFICES ASSUME NEW i \in 1 .. Len(Tail(c))
               PROVE  Follows(q, IF i = 1 THEN AfterGot(a, c[1]) ELSE Tail(c)[i - 1].pos,
                              Tail(c)[i])
    BY DEF InCodec
  <2>1. /\ Tail(c)[i] = c[i + 1] /\ i + 1 \in 1 .. Len(c) /\ i + 1 # 1
        /\ (i + 1) - 1 = i
    BY <1>1
  <2>2. Follows(q, c[i].pos, c[i + 1])
    BY <2>1 DEF Chained, InCodec
  <2>3. i # 1 => Tail(c)[i - 1] = c[i]
    BY <1>1
  <2>4. QED
    BY <2>1, <2>2, <2>3, <1>2 DEF AfterGot
<1>6. QED
  BY <1>3, <1>4, <1>5 DEF Chained, AfterDrain

LEMMA ChainPush ==
    ASSUME NEW q, NEW a, NEW g \in Data, NEW c, NEW over, NEW done,
           NEW tp, NEW pd, Chained(q, a, g, c, over, done, tp, pd)
    PROVE  /\ Chained(q, g.pos, NoPacket, c, over, done, tp, pd)
           /\ AfterDrain(g.pos, NoPacket, c, over) = AfterDrain(a, g, c, over)
<1>1. AfterGot(g.pos, NoPacket) = AfterGot(a, g) /\ g # NoPacket
  BY Constants DEF AfterGot
<1>2. AfterCodec(g.pos, NoPacket, c) = AfterCodec(a, g, c)
  BY <1>1 DEF AfterCodec
<1>3. QED
  BY <1>1, <1>2, FollowsFacts DEF Chained, AfterDrain, InCodec

LEMMA ChainSwap ==
    ASSUME NEW q, NEW a, NEW g, NEW c, NEW over, NEW done, NEW tp, NEW pd,
           Chained(q, a, g, c, over, done, tp, pd)
    PROVE  Chained(q, a, g, c, over, done, pd, tp)
  BY DEF Chained

LEMMA ChainDone ==
    ASSUME NEW q, NEW a, NEW done, NEW tp, NEW pd,
           Chained(q, a, NoPacket, <<>>, TRUE, done, tp, pd)
    PROVE  Chained(q, a, NoPacket, <<>>, TRUE, TRUE, tp, pd)
  BY DEF Chained

LEMMA ChainNull ==
    ASSUME NEW q, NEW a, NEW g, NEW c, NEW over, NEW done,
           Chained(q, a, g, c, over, done, NullPacket, NoPacket)
    PROVE  Chained(q, a, g, c, TRUE, done, NoPacket, NoPacket)
<1>1. over \/ ~over
  OBVIOUS
<1>2. Gap(q, AfterCodec(a, g, c), Len(File) + 1)
  BY <1>1 DEF Chained, AfterDrain, Follows
<1>3. QED
  BY <1>2, FollowsFacts DEF Chained

LEMMA ChainSend ==
    ASSUME NEW q, NEW a, NEW g, NEW c \in Seq(Data), NEW over, NEW done,
           NEW p \in Data, Chained(q, a, g, c, over, done, p, NoPacket)
    PROVE  /\ Chained(q, a, g, Append(c, p), over, done, NoPacket, NoPacket)
           /\ AfterDrain(a, g, Append(c, p), over) = p.pos
<1>1. ~over
  BY NothingBehindEnd DEF Chained, AfterDrain
<1>2. /\ Append(c, p) \in Seq(Data) /\ Len(Append(c, p)) = Len(c) + 1
      /\ Len(c) \in Nat /\ Append(c, p) # <<>>
      /\ \A i \in 1 .. Len(Append(c, p)) :
           Append(c, p)[i] = IF i = Len(c) + 1 THEN p ELSE c[i]
  BY AppendFacts
<1>3. AfterCodec(a, g, Append(c, p)) = p.pos
  BY <1>2 DEF AfterCodec
<1>4. Follows(q, AfterCodec(a, g, c), p) /\ InCodec(q, a, g, c)
  BY <1>1 DEF Chained, AfterDrain
<1>5. InCodec(q, a, g, Append(c, p))
  <2> SUFFICES ASSUME NEW i \in 1 .. Len(Append(c, p))
               PROVE  Follows(q, IF i = 1 THEN AfterGot(a, g)
                                          ELSE Append(c, p)[i - 1].pos,
                              Append(c, p)[i])
    BY DEF InCodec
  <2>1. CASE i = Len(c) + 1
    <3>1. Append(c, p)[i] = p
      BY <2>1, <1>2
    <3>2. CASE Len(c) = 0
      <4>1. c = <<>>
        BY <3>2, EmptySeq
      <4>2. QED
        BY <4>1, <3>1, <3>2, <2>1, <1>4 DEF AfterCodec
    <3>3. CASE Len(c) # 0
      <4>1. c # <<>> /\ i # 1 /\ Append(c, p)[i - 1] = c[Len(c)]
        BY <3>3, <2>1, <1>2, EmptySeq
      <4>2. QED
        BY <4>1, <3>1, <1>4 DEF AfterCodec
    <3>4. QED
      BY <3>2, <3>3
  <2>2. CASE i # Len(c) + 1
    <3>1. /\ i \in 1 .. Len(c) /\ Append(c, p)[i] = c[i]
          /\ i # 1 => Append(c, p)[i - 1] = c[i - 1]
      BY <2>2, <1>2
    <3>2. QED
      BY <3>1, <1>4 DEF InCodec
  <2>3. QED
    BY <2>1, <2>2
<1>6. QED
  BY <1>1, <1>3, <1>5, FollowsFacts DEF Chained, AfterDrain

(***************************************************************************)
(* The steps of a decoder.  While its serial is the queue's, none but      *)
(* taking a packet changes what the queue's first packet follows.          *)
(***************************************************************************)
LEMMA SerialAtLeastOne ==
    ASSUME IInv, NEW q \in Streams
    PROVE  /\ serial[q] >= 1 /\ serial[q] \in Int /\ pkt_serial[q] \in Int
           /\ pkt_serial[q] <= serial[q] /\ serial[q] <= Len(targets) + 1
           /\ Len(targets) \in Nat
<1>1. /\ serial[q] \in Int /\ pkt_serial[q] \in Int
      /\ targets \in Seq(Positions)
  BY DEF IInv, Shapes, ReaderInv, ReaderShapes
<1>2. /\ rpc \in {"flush", "mark"} => Len(targets) >= 1
      /\ EpochKnown(q) /\ pkt_serial[q] <= serial[q]
  BY DEF IInv, ReaderInv, ReaderKnown, StreamInv, QueueKnown
<1>3. Len(targets) \in Nat
  BY <1>1
<1>4. QED
  BY <1>1, <1>2, <1>3 DEF EpochKnown

LEMMA StartIsPosition ==
    ASSUME IInv, NEW s \in Int, s >= 1, s <= Len(targets) + 1
    PROVE  Start(targets, s) \in Positions
<1>1. targets \in Seq(Positions) /\ 1 \in Positions /\ Len(targets) \in Nat
  BY PipelineAssumption DEF IInv, ReaderInv, ReaderShapes, Positions
<1>2. s # 1 => s - 1 \in 1 .. Len(targets)
  BY <1>1
<1>3. QED
  BY <1>1, <1>2 DEF Start

LEMMA ChainElsewhere ==
    ASSUME NEW q \in Streams, StreamChain(q), ReaderChain(q),
           UNCHANGED <<pkts[q], serial[q], pkt_serial[q], temp_pkt[q],
                       pending[q], finished[q], codec[q], draining[q], got[q],
                       last[q], targets, rpc, left, filepos, pkt>>,
           Live(q)' => Live(q)
    PROVE  StreamChain(q)' /\ ReaderChain(q)'
<1>1. /\ Shown(q)' = Shown(q) /\ Over(q)' = Over(q) /\ Done(q)' = Done(q)
      /\ Current(q)' = Current(q)
  BY DEF Shown, Over, Done, Current
<1>2. Taken(q)' = Taken(q)
  BY <1>1 DEF Taken, Drained
<1>3. Queued(q)' = Queued(q)
  BY <1>2 DEF Queued, EntryPlace
<1>4. DecoderChain(q)'
  BY <1>1 DEF StreamChain, ThreadChain, DecoderChain
<1>5. QueueChain(q)' /\ NullsLast(q)' /\ QueueSerials(q)'
  BY <1>1, <1>2 DEF StreamChain, QueueChain, NullsLast, NullHeld, EntryPlace, QueueSerials
<1>6. LastKnown(q)' /\ ThreadSerials(q)'
  BY DEF StreamChain, ThreadChain, LastKnown, ThreadSerials
<1>7. ReaderChain(q)'
  BY <1>3 DEF ReaderChain, Left, Coming
<1>8. QED
  BY <1>4, <1>5, <1>6, <1>7 DEF StreamChain, ThreadChain

ChainQuiet == UNCHANGED <<pkts, serial, pkt_serial, targets, rpc, left, filepos,
                          pkt>>

LEMMA ChainStep ==
    ASSUME IInv, NEW q \in Streams, StreamChain(q), ReaderChain(q), ChainQuiet,
           ThreadChain(q)', Current(q) => Taken(q)' = Taken(q),
           NullHeld(q)' => NullHeld(q)
    PROVE  StreamChain(q)' /\ ReaderChain(q)'
<1>1. Current(q)' = Current(q)
  BY DEF Current, ChainQuiet
<1>2. QueueChain(q)'
  BY <1>1 DEF StreamChain, QueueChain, EntryPlace, ChainQuiet
<1>3. NullsLast(q)' /\ QueueSerials(q)'
  BY DEF StreamChain, NullsLast, QueueSerials, ChainQuiet
<1>4. ReaderChain(q)'
  <2>1. CASE pkts[q] = <<>> /\ ~Current(q)
    <3>1. rpc = "mark" /\ Head(left) = q /\ left # <<>> /\ left \in Seq(Streams)
      BY <2>1 DEF IInv, StreamInv, EndKnown, LastNew, Current, ReaderInv,
         ReaderKnown, ReaderShapes
    <3>2. Left(q)
      BY <3>1, TailFacts DEF Left
    <3>3. QED
      BY <3>1, <3>2 DEF ReaderChain, Left, ChainQuiet
  <2>2. CASE ~(pkts[q] = <<>> /\ ~Current(q))
    <3>1. Queued(q)' = Queued(q)
      BY <2>2 DEF Queued, EntryPlace, ChainQuiet
    <3>2. QED
      BY <3>1 DEF ReaderChain, Left, Coming, ChainQuiet
  <2>3. QED
    BY <2>1, <2>2
<1>5. QED
  BY <1>2, <1>3, <1>4 DEF StreamChain

ThreadOthers(q) ==
    \A r \in Streams : r # q =>
        UNCHANGED <<dpc[r], temp_pkt[r], pending[r], finished[r], codec[r],
                    draining[r], got[r], last[r]>>

LEMMA ChainOthers ==
    ASSUME NEW q \in Streams, NEW r \in Whole, r # q, StreamChain(r),
           ReaderChain(r), ThreadOthers(q),
           UNCHANGED <<pkts[r], serial[r], pkt_serial[r], targets, rpc, left,
                       filepos, pkt>>
    PROVE  StreamChain(r)' /\ ReaderChain(r)'
<1>1. r \in Streams /\ (Live(r)' => Live(r))
  BY DEF Whole, ThreadOthers, Live, Current
<1>2. QED
  BY <1>1, ChainElsewhere DEF ThreadOthers

(* The steps that only move on.                                            *)
LEMMA ChainMoves ==
    ASSUME IInv, NEW q \in Streams, StreamChain(q), ReaderChain(q), ChainQuiet,
           \/ Dec!StartRound(q) \/ Dec!ReceiveAgain(q) \/ Dec!DequeueNothing(q)
           \/ Dec!WaitForPackets(q) \/ Dec!KeepPacket(q)
    PROVE  StreamChain(q)' /\ ReaderChain(q)'
<1>1. UNCHANGED <<temp_pkt, pending, finished, codec, draining, got, last>>
  BY DEF Dec!StartRound, Dec!ReceiveAgain, Dec!DequeueNothing,
     Dec!WaitForPackets, Dec!KeepPacket, Dec!codecVars, Dec!frameVars
<1>2. Live(q)' => Live(q)
  BY DEF IInv, Shapes, Dec!StartRound, Dec!ReceiveAgain, Dec!DequeueNothing,
     Dec!WaitForPackets, Dec!KeepPacket, Dec!Goto, Dec!Current, Live, Current, ChainQuiet
<1>3. QED
  BY <1>1, <1>2, ChainElsewhere DEF ChainQuiet

LEMMA ChainReceives ==
    ASSUME IInv, NEW q \in Streams, StreamChain(q), ReaderChain(q), ChainQuiet,
           Dec!ReceiveFrame(q)
    PROVE  StreamChain(q)' /\ ReaderChain(q)'
<1>1. /\ codec[q] # <<>> /\ dpc[q] = "receive" /\ dpc'[q] = "push"
      /\ got'[q] = Head(codec[q]) /\ codec'[q] = Tail(codec[q])
      /\ codec[q] \in Seq(Data)
      /\ UNCHANGED <<temp_pkt, pending, finished, draining, last>>
  BY DEF IInv, Shapes, Dec!ReceiveFrame, Dec!Goto
<1>2. Head(codec[q]) = codec[q][1] /\ codec[q][1] \in Data
  BY <1>1, TailFacts
<1>3. got[q] = NoPacket /\ temp_pkt[q] = NoPacket
  BY <1>1 DEF IInv, StreamInv, ThreadKnown
<1>4. /\ Shown(q)' = Shown(q) /\ Over(q)' = Over(q) /\ Done(q)' = Done(q)
      /\ Current(q)' = Current(q)
      /\ Live(q)' => Live(q)
  BY <1>1 DEF Shown, Over, Done, Current, Live, ChainQuiet
<1>5. Live(q) => /\ Chained(q, Shown(q), codec[q][1], Tail(codec[q]), Over(q),
                            Done(q), temp_pkt[q], pending[q])
                 /\ AfterDrain(Shown(q), codec[q][1], Tail(codec[q]), Over(q))
                      = Drained(q)
  BY <1>1, <1>3, Constants, ChainReceive
     DEF StreamChain, ThreadChain, DecoderChain, Drained
<1>6. DecoderChain(q)'
  BY <1>1, <1>2, <1>4, <1>5 DEF DecoderChain
<1>7. ThreadChain(q)'
  BY <1>1, <1>6 DEF StreamChain, ThreadChain, LastKnown, ThreadSerials, ChainQuiet
<1>8. ASSUME Current(q)
      PROVE  Taken(q)' = Taken(q)
  <2>1. Live(q)
    BY <1>1, <1>8, SerialAtLeastOne DEF Live, Current
  <2>2. QED
    BY <1>1, <1>2, <1>4, <1>5, <2>1 DEF Taken, Drained, ChainQuiet
<1>9. NullHeld(q)' => NullHeld(q)
  BY <1>1, <1>4 DEF NullHeld
<1>10. QED
  BY <1>7, <1>8, <1>9, ChainStep

LEMMA ChainEnds ==
    ASSUME IInv, NEW q \in Streams, StreamChain(q), ReaderChain(q), ChainQuiet,
           Dec!ReceiveEnd(q)
    PROVE  StreamChain(q)' /\ ReaderChain(q)'
<1>1. /\ codec[q] = <<>> /\ draining[q] /\ dpc[q] = "receive"
      /\ codec'[q] = <<>> /\ draining'[q] = FALSE
      /\ finished'[q] = pkt_serial[q]
      /\ UNCHANGED <<temp_pkt, pending, got, last>>
  BY DEF IInv, Shapes, Dec!ReceiveEnd, Dec!Goto, Dec!FlushBuffers, Dec!frameVars
<1>2. got[q] = NoPacket /\ temp_pkt[q] = NoPacket
  BY <1>1 DEF IInv, StreamInv, ThreadKnown
<1>3. /\ Shown(q)' = Shown(q) /\ Over(q) /\ Over(q)' /\ Done(q)'
      /\ Live(q)' => Live(q)
  BY <1>1 DEF Shown, Over, Done, Current, Live, ChainQuiet
<1>4. Live(q) => Chained(q, Shown(q), NoPacket, <<>>, TRUE, TRUE, temp_pkt[q],
                         pending[q])
  <2>1. ASSUME Live(q)
        PROVE  Chained(q, Shown(q), NoPacket, <<>>, Over(q), Done(q), temp_pkt[q],
                       pending[q])
    BY <1>1, <1>2, <2>1, Constants DEF StreamChain, ThreadChain, DecoderChain
  <2>2. QED
    BY <2>1, <1>3 DEF Chained, AfterDrain
<1>5. DecoderChain(q)'
  <2> SUFFICES ASSUME Live(q)'
               PROVE  Chained(q, Shown(q), NoPacket, <<>>, Over(q)', Done(q)',
                              temp_pkt[q], pending[q])
    BY <1>1, <1>2, <1>3 DEF DecoderChain
  <2>1. QED
    BY <1>3, <1>4 DEF Chained, AfterDrain
<1>6. ThreadChain(q)'
  BY <1>1, <1>2, <1>5, Constants, SerialAtLeastOne
     DEF StreamChain, ThreadChain, LastKnown, ThreadSerials, ChainQuiet
<1>7. Drained(q)' = Drained(q)
  BY <1>3 DEF Drained, AfterDrain
<1>8. Taken(q)' = Taken(q)
  BY <1>1, <1>7 DEF Taken, ChainQuiet
<1>9. NullHeld(q)' => NullHeld(q)
  BY <1>1, <1>3 DEF NullHeld, Current, ChainQuiet
<1>10. QED
  BY <1>6, <1>8, <1>9, ChainStep

LEMMA ChainFills ==
    ASSUME IInv, NEW q \in Streams, StreamChain(q), ReaderChain(q), ChainQuiet,
           Dec!Fill(q)
    PROVE  StreamChain(q)' /\ ReaderChain(q)'
<1>1. /\ dpc[q] = "fill" /\ dpc'[q] \in {"check", "dequeue"}
      /\ \/ temp_pkt'[q] = pending[q] /\ pending'[q] = NoPacket
         \/ UNCHANGED <<temp_pkt, pending>>
      /\ UNCHANGED <<finished, codec, draining, got, last>>
  BY DEF IInv, Shapes, Dec!Fill, Dec!Goto, Dec!codecVars, Dec!frameVars
<1>2. temp_pkt[q] = NoPacket /\ pending[q] # FlushPacket
  BY <1>1, Constants DEF IInv, Shapes, StreamInv, ThreadKnown
<1>3. /\ Shown(q)' = Shown(q) /\ Over(q)' = Over(q) /\ Done(q)' = Done(q)
      /\ Current(q)' = Current(q) /\ Drained(q)' = Drained(q)
      /\ Live(q)' => Live(q)
  BY <1>1 DEF Shown, Over, Done, Current, Live, Drained, ChainQuiet
<1>4. DecoderChain(q)'
  BY <1>1, <1>2, <1>3, Constants, ChainSwap
     DEF StreamChain, ThreadChain, DecoderChain
<1>5. ThreadChain(q)'
  BY <1>1, <1>2, <1>4, Constants DEF StreamChain, ThreadChain, LastKnown, ThreadSerials, ChainQuiet
<1>6. Taken(q)' = Taken(q)
  BY <1>1, <1>2, <1>3 DEF Taken, ChainQuiet
<1>7. NullHeld(q)' => NullHeld(q)
  BY <1>1, <1>2, <1>3, Constants DEF NullHeld
<1>8. QED
  BY <1>5, <1>6, <1>7, ChainStep

LEMMA ChainDrops ==
    ASSUME IInv, NEW q \in Streams, StreamChain(q), ReaderChain(q), ChainQuiet,
           Dec!DropPacket(q)
    PROVE  StreamChain(q)' /\ ReaderChain(q)'
<1>1. /\ serial[q] # pkt_serial[q] /\ dpc'[q] = "fill"
      /\ temp_pkt'[q] = NoPacket
      /\ UNCHANGED <<pending, finished, codec, draining, got, last>>
  BY DEF IInv, Shapes, Dec!DropPacket, Dec!Goto, Dec!codecVars, Dec!frameVars,
     Dec!Current
<1>2. ~Live(q)' /\ ~Current(q) /\ ~Current(q)'
  BY <1>1 DEF Live, Current, ChainQuiet
<1>3. ThreadChain(q)'
  BY <1>1, <1>2, Constants
     DEF StreamChain, ThreadChain, DecoderChain, LastKnown, ThreadSerials, ChainQuiet
<1>4. QED
  BY <1>2, <1>3, ChainStep DEF NullHeld

LEMMA ChainSends ==
    ASSUME IInv, LastShape, NEW q \in Streams, StreamChain(q), ReaderChain(q),
           ChainQuiet,
           Dec!SendFlush(q) \/ Dec!SendData(q) \/ Dec!SendNull(q) \/ Dec!SendRefused(q)
    PROVE  StreamChain(q)' /\ ReaderChain(q)'
<1> USE DEF Dec!Sent, Dec!codecVars, Dec!frameVars
<1>1. /\ dpc[q] = "send" /\ dpc'[q] = "start" /\ temp_pkt'[q] = NoPacket
      /\ UNCHANGED <<got, last>>
      /\ codec[q] \in Seq(Data)
  BY DEF IInv, Shapes, Dec!SendFlush, Dec!SendData, Dec!SendNull,
     Dec!SendRefused, Dec!Goto
<1>2. pending[q] = NoPacket /\ got[q] = NoPacket
  BY <1>1 DEF IInv, StreamInv, ThreadKnown
<1>3. /\ Shown(q)' = Shown(q) /\ Current(q)' = Current(q)
      /\ Live(q)' => Live(q)
      /\ Current(q) => Live(q)
  BY <1>1, SerialAtLeastOne DEF Shown, Current, Live, ChainQuiet
<1>4. /\ LastKnown(q)'
      /\ finished'[q] \in {0, finished[q]} => ThreadSerials(q)'
  BY <1>1, Constants DEF StreamChain, ThreadChain, LastKnown, ThreadSerials,
     ChainQuiet
<1>5. CASE Dec!SendFlush(q)
  <2>1. /\ temp_pkt[q] = FlushPacket /\ codec'[q] = <<>>
        /\ draining'[q] = FALSE /\ finished'[q] = 0
        /\ UNCHANGED pending
    BY <1>5 DEF Dec!SendFlush, Dec!FlushBuffers, IInv, Shapes
  <2>2. Live(q)' => ~Done(q)' /\ ~Over(q)'
    BY <2>1 DEF Live, Over, Done, ChainQuiet
  <2>3. DecoderChain(q)'
    <3> SUFFICES ASSUME Live(q)'
                 PROVE  Chained(q, Shown(q), NoPacket, <<>>, Over(q)', Done(q)',
                                NoPacket, NoPacket)
      BY <1>1, <1>2, <1>3, <2>1 DEF DecoderChain
    <3>1. Len(<<>>) = 0
      BY EmptySeq
    <3>2. QED
      BY <2>2, <3>1, FollowsFacts DEF Chained, InCodec
  <2>4. ASSUME Current(q)
        PROVE  Taken(q)' = Taken(q)
    <3>1. Shown(q) = Start(targets, pkt_serial[q]) - 1
      <4>1. last[q].serial < pkt_serial[q] /\ pkt_serial[q] \in Int
        BY <2>1, SerialAtLeastOne DEF StreamChain, ThreadChain, ThreadSerials
      <4>2. last[q].serial \in Int
        BY DEF LastShape
      <4>3. QED
        BY <4>1, <4>2 DEF Shown
    <3>2. Taken(q) = Start(targets, pkt_serial[q]) - 1
      BY <2>1, Constants DEF Taken, Place
    <3>3. Live(q)'
      BY <1>1, <1>3, <2>4 DEF Live, ChainQuiet
    <3>4. QED
      BY <1>1, <1>2, <1>3, <2>1, <2>2, <3>1, <3>2, <3>3
         DEF Taken, Drained, AfterDrain, AfterCodec, AfterGot
  <2>5. ~NullHeld(q)'
    <3>1. NullHeld(q)' => Live(q)'
      BY <1>1, <1>3 DEF NullHeld, Live, ChainQuiet
    <3>2. QED
      BY <1>1, <1>2, <2>1, <2>2, <3>1, Constants DEF NullHeld
  <2>6. QED
    BY <1>4, <2>1, <2>3, <2>4, <2>5, ChainStep DEF ThreadChain
<1>6. CASE Dec!SendData(q)
  <2>1. /\ temp_pkt[q] \in Data /\ UNCHANGED <<pending, finished, draining>>
        /\ codec'[q] = IF draining[q] THEN codec[q] ELSE Append(codec[q], temp_pkt[q])
    BY <1>6 DEF Dec!SendData, IInv, Shapes
  <2>2. Over(q)' = Over(q) /\ Done(q)' = Done(q)
    BY <2>1 DEF Over, Done, ChainQuiet
  <2>3. ASSUME Live(q)
        PROVE  /\ ~Over(q)
               /\ Chained(q, Shown(q), got[q], Append(codec[q], temp_pkt[q]), Over(q),
                          Done(q), NoPacket, NoPacket)
               /\ AfterDrain(Shown(q), got[q], Append(codec[q], temp_pkt[q]), Over(q))
                    = temp_pkt[q].pos
    <3>1. Chained(q, Shown(q), got[q], codec[q], Over(q), Done(q), temp_pkt[q],
                  NoPacket)
      <4>1. Live(q) /\ temp_pkt[q] # FlushPacket /\ pending[q] = NoPacket
        BY <1>2, <2>1, <2>3, Constants
      <4>2. QED
        BY <4>1 DEF StreamChain, ThreadChain, DecoderChain
    <3>2. ~Over(q)
      BY <3>1, <2>1, NothingBehindEnd DEF Chained, AfterDrain
    <3>3. QED
      BY <3>1, <3>2, <1>1, <2>1, ChainSend
  <2>4. ASSUME Live(q)
        PROVE  codec'[q] = Append(codec[q], temp_pkt[q])
    <3>1. ~draining[q]
      BY <2>3, <2>4 DEF Over
    <3>2. QED
      BY <3>1, <2>1
  <2>5. DecoderChain(q)'
    <3> SUFFICES ASSUME Live(q)'
                 PROVE  Chained(q, Shown(q)', got'[q], codec'[q], Over(q)', Done(q)',
                                temp_pkt'[q], pending'[q])
      BY DEF DecoderChain
    <3>1. Live(q)
      BY <1>3
    <3>2. codec'[q] = Append(codec[q], temp_pkt[q])
      BY <2>4, <3>1
    <3>3. pending'[q] = NoPacket /\ got'[q] = got[q]
      BY <1>1, <1>2, <2>1
    <3>4. Chained(q, Shown(q), got[q], Append(codec[q], temp_pkt[q]), Over(q),
                  Done(q), NoPacket, NoPacket)
      BY <2>3, <3>1
    <3>5. QED
      BY <1>1, <1>3, <2>2, <3>2, <3>3, <3>4
  <2>6. ASSUME Current(q)
        PROVE  Taken(q)' = Taken(q)
    BY <2>6, <1>1, <1>2, <1>3, <2>1, <2>2, <2>3, <2>4, Constants
       DEF Taken, Drained, Place
  <2>7. NullHeld(q)' => NullHeld(q)
    BY <1>1, <1>2, <1>3, <2>1, <2>2, Constants DEF NullHeld
  <2>8. QED
    BY <1>4, <2>1, <2>5, <2>6, <2>7, ChainStep DEF ThreadChain
<1>7. CASE Dec!SendNull(q)
  <2>1. /\ temp_pkt[q] = NullPacket /\ UNCHANGED <<pending, finished, codec>>
        /\ draining'[q] = TRUE
    BY <1>7 DEF Dec!SendNull, IInv, Shapes
  <2>2. Over(q)' = TRUE /\ Done(q)' = Done(q)
    <3>1. Over(q)' /\ Done(q)' = Done(q)
      BY <2>1 DEF Over, Done, ChainQuiet
    <3>2. Over(q)' \in BOOLEAN
      BY Zenon DEF Over, Done
    <3>3. QED
      BY <3>1, <3>2
  <2>3. DecoderChain(q)'
    <3> SUFFICES ASSUME Live(q)'
                 PROVE  Chained(q, Shown(q), got[q], codec[q], TRUE, Done(q),
                                NoPacket, NoPacket)
      BY <1>1, <1>2, <1>3, <2>1, <2>2 DEF DecoderChain
    <3>1. Live(q) /\ NullPacket # FlushPacket
      BY <1>3, Constants
    <3>2. Chained(q, Shown(q), got[q], codec[q], Over(q), Done(q), NullPacket,
                  NoPacket)
      BY <1>2, <2>1, <3>1 DEF StreamChain, ThreadChain, DecoderChain
    <3>3. QED
      BY <3>2, ChainNull
  <2>4. Taken(q)' = Taken(q)
    BY <1>1, <1>2, <2>1, <2>2, Constants DEF Taken, Drained, AfterDrain, Place
  <2>5. NullHeld(q)' => NullHeld(q)
    BY <1>3, <2>1, Constants DEF NullHeld
  <2>6. QED
    BY <1>4, <2>1, <2>3, <2>4, <2>5, ChainStep DEF ThreadChain
<1>8. CASE Dec!SendRefused(q)
  <2>1. /\ temp_pkt[q] # FlushPacket /\ pending'[q] = temp_pkt[q]
        /\ UNCHANGED <<finished, codec, draining>>
    BY <1>8 DEF Dec!SendRefused, IInv, Shapes
  <2>2. Over(q)' = Over(q) /\ Done(q)' = Done(q)
    BY <2>1 DEF Over, Done, ChainQuiet
  <2>3. DecoderChain(q)'
    BY <1>1, <1>2, <1>3, <2>1, <2>2, Constants, ChainSwap
       DEF StreamChain, ThreadChain, DecoderChain
  <2>4. Drained(q)' = Drained(q)
    BY <1>1, <1>3, <2>1, <2>2 DEF Drained
  <2>5. Taken(q)' = Taken(q)
    BY <1>1, <1>2, <2>1, <2>4 DEF Taken, ChainQuiet
  <2>6. NullHeld(q)' => NullHeld(q)
    BY <1>1, <1>3, <2>1, <2>2, Constants DEF NullHeld
  <2>7. QED
    BY <1>4, <2>1, <2>3, <2>5, <2>6, ChainStep DEF ThreadChain
<1>9. QED
  BY <1>5, <1>6, <1>7, <1>8

(* A frame leaves the decoder.                                             *)
LEMMA ChainPushes ==
    ASSUME IInv, LastShape, NEW q \in Whole, StreamChain(q), ReaderChain(q),
           ChainQuiet, Dec!FrameDone(q)
    PROVE  /\ StreamChain(q)' /\ ReaderChain(q)' /\ LastShape'
           /\ got[q] \in Data /\ Follows(q, Shown(q), got[q])
           /\ last'[q].serial = pkt_serial[q] /\ last'[q].pkt = got[q]
           /\ pkt_serial[q] >= 1
<1>0. q \in Streams
  BY DEF Whole
<1> DEFINE f == [pkt |-> got[q], serial |-> pkt_serial[q]]
<1>1. /\ dpc[q] = "push" /\ dpc'[q] = "start"
      /\ last' = [last EXCEPT ![q] = f] /\ got'[q] = NoPacket
      /\ UNCHANGED <<temp_pkt, pending, finished, codec, draining>>
  BY <1>0 DEF IInv, Shapes, Dec!FrameDone, Dec!Goto, Dec!Frame, Dec!codecVars
<1>2. /\ got[q] \in Data /\ temp_pkt[q] = NoPacket
      /\ Carried(got[q], pkt_serial[q]) /\ pkt_serial[q] \in Int
  BY <1>0, <1>1 DEF IInv, Shapes, StreamInv, ThreadKnown
<1>3. LastShape' /\ last'[q].pkt = got[q] /\ last'[q].serial = pkt_serial[q]
  BY <1>0, <1>1, <1>2 DEF LastShape
<1>4. pkt_serial[q] >= 1 /\ Live(q) /\ Live(q)'
  <2>1. pkt_serial[q] = got[q].epoch + 1 /\ got[q].epoch \in Nat
    BY <1>2 DEF Carried, Data
  <2>2. QED
    BY <1>1, <2>1 DEF Live, ChainQuiet
<1>5. Chained(q, Shown(q), got[q], codec[q], Over(q), Done(q), temp_pkt[q],
              pending[q])
  BY <1>2, <1>4, Constants DEF StreamChain, ThreadChain, DecoderChain
<1>6. Follows(q, Shown(q), got[q])
  BY <1>5 DEF Chained
<1>7. Shown(q)' = got[q].pos
  BY <1>3 DEF Shown, ChainQuiet
<1>8. Over(q)' = Over(q) /\ Done(q)' = Done(q)
  BY <1>1 DEF Over, Done, ChainQuiet
<1>9. /\ Chained(q, got[q].pos, NoPacket, codec[q], Over(q), Done(q), temp_pkt[q],
                 pending[q])
      /\ AfterDrain(got[q].pos, NoPacket, codec[q], Over(q)) = Drained(q)
  BY <1>2, <1>5, ChainPush DEF Drained
<1>10. DecoderChain(q)'
  BY <1>1, <1>7, <1>8, <1>9 DEF DecoderChain
<1>11. LastKnown(q)'
  <2>1. /\ Shown(q) < got[q].pos /\ got[q].pos <= Len(File)
        /\ File[got[q].pos] = q /\ got[q].pos \in Int
    BY <1>2, <1>6 DEF Follows, Data
  <2>2. Start(targets, pkt_serial[q]) \in Int
    BY <1>0, <1>2, <1>4, StartIsPosition, SerialAtLeastOne DEF Positions
  <2>3. Start(targets, pkt_serial[q]) <= got[q].pos
    <3>1. CASE last[q].serial = pkt_serial[q]
      <4>1. last[q].pkt.pos \in Int /\ Start(targets, pkt_serial[q]) <= last[q].pkt.pos
        BY <1>4, <2>2, <3>1 DEF StreamChain, ThreadChain, LastKnown, PacketsFrom
      <4>2. Shown(q) = last[q].pkt.pos
        BY <3>1 DEF Shown
      <4>3. QED
        BY <2>1, <2>2, <4>1, <4>2
    <3>2. CASE last[q].serial # pkt_serial[q]
      BY <2>1, <2>2, <3>2 DEF Shown
    <3>3. QED
      BY <3>1, <3>2
  <2>4. got[q].pos \in PacketsFrom(q, Start(targets, pkt_serial[q]))
    BY <2>1, <2>2, <2>3, PipelineAssumption DEF PacketsFrom
  <2>5. QED
    BY <1>2, <1>3, <1>4, <2>4 DEF LastKnown, ChainQuiet
<1>12. ThreadSerials(q)'
  BY <1>1, <1>2, <1>3, Constants DEF StreamChain, ThreadChain, ThreadSerials, ChainQuiet
<1>13. Drained(q)' = Drained(q)
  BY <1>1, <1>7, <1>8, <1>9 DEF Drained
<1>14. Taken(q)' = Taken(q)
  BY <1>1, <1>13 DEF Taken, ChainQuiet
<1>15. NullHeld(q)' => NullHeld(q)
  BY <1>1, <1>8 DEF NullHeld, Current, ChainQuiet
<1>16. StreamChain(q)' /\ ReaderChain(q)'
  BY <1>0, <1>10, <1>11, <1>12, <1>14, <1>15, ChainStep DEF ThreadChain
<1>17. QED
  BY <1>2, <1>3, <1>4, <1>6, <1>16

(* A packet is taken.                                                      *)
LEMMA ChainTakes ==
    ASSUME IInv, IInv', LastShape, NEW q \in Streams, StreamChain(q),
           ReaderChain(q), UNCHANGED <<targets, rpc, left, filepos, pkt>>,
           Dec!DequeuePacket(q)
    PROVE  StreamChain(q)' /\ ReaderChain(q)'
<1>1. /\ dpc[q] = "dequeue" /\ dpc'[q] = "check"
      /\ pkts[q] # <<>> /\ pkts[q] \in Seq(AnyEntry)
      /\ pkts'[q] = Tail(pkts[q])
      /\ pkt_serial'[q] = Head(pkts[q]).serial
      /\ temp_pkt'[q] = Head(pkts[q]).pkt
      /\ UNCHANGED <<serial, pending, finished, codec, draining, got, last>>
  BY DEF IInv, Shapes, Dec!DequeuePacket, Dec!PQ!Take, Dec!PQ!HasPacket,
     Dec!Goto, Dec!codecVars, Dec!frameVars
<1> DEFINE n == Len(pkts[q])
<1>2. /\ Len(pkts'[q]) = n - 1 /\ n \in Nat /\ n >= 1 /\ 1 \in 1 .. n
      /\ \A i \in 1 .. Len(pkts'[q]) :
           pkts'[q][i] = pkts[q][i + 1] /\ i + 1 \in 1 .. n
      /\ pkts'[q] = <<>> => n = 1
      /\ Head(pkts[q]) = pkts[q][1] /\ pkts[q][1] \in AnyEntry
  BY <1>1, TailFacts
<1>3. /\ pkt_serial'[q] = pkts[q][1].serial /\ temp_pkt'[q] = pkts[q][1].pkt
      /\ temp_pkt'[q] \in Packets /\ pkt_serial'[q] \in Int
  BY <1>1, <1>2 DEF AnyEntry
<1>4. temp_pkt[q] = NoPacket /\ got[q] = NoPacket /\ pending[q] = NoPacket
  BY <1>1 DEF IInv, StreamInv, ThreadKnown
<1>5. /\ pkt_serial'[q] >= 1 /\ pkt_serial[q] <= pkt_serial'[q]
      /\ pkt_serial'[q] <= serial[q]
      /\ temp_pkt'[q] = FlushPacket => pkt_serial[q] < pkt_serial'[q]
      /\ temp_pkt'[q] # FlushPacket /\ pkt_serial'[q] = serial[q] =>
           pkt_serial[q] = serial[q]
  <2>1. QueueSerials(q) /\ QueueKnown(q)
    BY DEF StreamChain, IInv, StreamInv
  <2>2. Opened(q, 1) /\ pkts[q][1].serial <= serial[q]
    BY <1>2, <2>1 DEF QueueKnown
  <2>3. QED
    BY <1>2, <1>3, <2>1, <2>2 DEF QueueSerials, Opened
<1>6. /\ last[q].serial \in Int /\ finished[q] \in Int /\ pkt_serial[q] \in Int
      /\ serial[q] \in Int
  BY DEF LastShape, IInv, Shapes
<1>7. LastKnown(q)' /\ ThreadSerials(q)'
  <2>1. LastKnown(q)'
    BY <1>1 DEF StreamChain, ThreadChain, LastKnown
  <2>2. QED
    BY <2>1, <1>1, <1>3, <1>5, <1>6 DEF StreamChain, ThreadChain, ThreadSerials
<1>8. ASSUME Current(q)', temp_pkt'[q] # FlushPacket
      PROVE  /\ Current(q) /\ Live(q) /\ pkt_serial'[q] = pkt_serial[q]
             /\ Shown(q)' = Shown(q) /\ Over(q)' = Over(q) /\ Done(q)' = Done(q)
             /\ Drained(q)' = Drained(q) /\ Taken(q) = Drained(q)
  <2>1. pkt_serial'[q] = pkt_serial[q] /\ Current(q) /\ Live(q)
    BY <1>1, <1>5, <1>6, <1>8 DEF Current, Live
  <2>2. Shown(q)' = Shown(q) /\ Over(q)' = Over(q) /\ Done(q)' = Done(q)
    BY <1>1, <2>1 DEF Shown, Over, Done
  <2>3. Drained(q)' = Drained(q) /\ Taken(q) = Drained(q)
    BY <1>1, <1>4, <2>2 DEF Drained, Taken
  <2>4. QED
    BY <2>1, <2>2, <2>3
<1>9. Live(q)' => Current(q)'
  BY <1>1 DEF Live
<1>10. DecoderChain(q)'
  <2> SUFFICES ASSUME Live(q)', temp_pkt'[q] # FlushPacket
               PROVE  Chained(q, Shown(q)', got[q], codec[q], Over(q)', Done(q)',
                              temp_pkt'[q], pending[q])
    BY <1>1 DEF DecoderChain
  <2>1. Current(q)' /\ Current(q) /\ Live(q)
    BY <1>8, <1>9
  <2>2. Chained(q, Shown(q), got[q], codec[q], Over(q), Done(q), NoPacket,
                NoPacket)
    BY <1>4, <2>1, Constants DEF StreamChain, ThreadChain, DecoderChain
  <2>3. Follows(q, Drained(q), temp_pkt'[q])
    BY <1>1, <1>3, <1>8, <2>1 DEF StreamChain, QueueChain
  <2>4. Chained(q, Shown(q), got[q], codec[q], Over(q), Done(q), temp_pkt'[q],
                pending[q])
    BY <1>4, <2>2, <2>3 DEF Chained, Drained
  <2>5. QED
    BY <2>1, <2>4, <1>8
<1>11. Taken(q)' = EntryPlace(q, 1)
  BY <1>1, <1>3, Constants DEF Taken, EntryPlace
<1>12. QueueChain(q)'
  <2>1. ASSUME Current(q)', pkts'[q] # <<>>
        PROVE  Follows(q, Taken(q)', pkts'[q][1].pkt)
    <3>1. /\ pkts'[q][1] = pkts[q][2] /\ 2 \in 1 .. n /\ 2 # 1 /\ 2 - 1 = 1
          /\ 1 < 2
      BY <1>1, <1>2, <2>1, EmptySeq
    <3>2. pkts[q][1].serial <= pkts[q][2].serial /\ pkts[q][2].serial <= serial[q]
      <4>1. QueueSerials(q) /\ QueueKnown(q)
        BY DEF StreamChain, IInv, StreamInv
      <4>2. pkts[q][2].serial <= serial[q]
        BY <3>1, <4>1 DEF QueueKnown
      <4>3. pkts[q][1].serial <= pkts[q][2].serial
        BY <1>2, <3>1, <4>1 DEF QueueSerials
      <4>4. QED
        BY <4>2, <4>3
    <3>3. pkts[q][2].serial \in Int
      <4>1. pkts[q][2] \in AnyEntry
        BY <1>1, <3>1
      <4>2. QED
        BY <4>1 DEF AnyEntry
    <3>4. pkts[q][2].serial = serial[q]
      BY <1>1, <1>3, <1>6, <2>1, <3>2, <3>3 DEF Current
    <3>5. Follows(q, EntryPlace(q, 1), pkts[q][2].pkt)
      BY <3>1, <3>4 DEF StreamChain, QueueChain
    <3>6. QED
      BY <3>1, <3>5, <1>11
  <2>2. ASSUME NEW i \in 1 .. Len(pkts'[q]), i # 1, pkts'[q][i].serial = serial'[q]
        PROVE  Follows(q, EntryPlace(q, i - 1)', pkts'[q][i].pkt)
    <3>1. /\ pkts'[q][i] = pkts[q][i + 1] /\ i + 1 \in 1 .. n /\ i + 1 # 1
          /\ (i + 1) - 1 = i
      BY <1>2, <2>2
    <3>5. pkts'[q][i - 1] = pkts[q][i]
      <4>1. i - 1 \in 1 .. Len(pkts'[q]) /\ (i - 1) + 1 = i
        BY <1>2, <2>2
      <4>2. QED
        BY <1>2, <4>1
    <3>2. Follows(q, EntryPlace(q, i), pkts[q][i + 1].pkt)
      BY <1>1, <2>2, <3>1 DEF StreamChain, QueueChain
    <3>3. EntryPlace(q, i - 1)' = EntryPlace(q, i)
      BY <3>5 DEF EntryPlace
    <3>4. QED
      BY <3>1, <3>2, <3>3
  <2>3. QED
    BY <2>1, <2>2 DEF QueueChain
<1>13. NullsLast(q)'
  <2>1. \A i, j \in 1 .. n :
           i < j /\ pkts[q][i].pkt = NullPacket /\ pkts[q][i].serial = serial[q]
             => pkts[q][j].pkt = NullPacket
    BY DEF StreamChain, NullsLast
  <2>2. ASSUME NEW i \in 1 .. Len(pkts'[q]), NEW j \in 1 .. Len(pkts'[q]), i < j,
               pkts'[q][i].pkt = NullPacket, pkts'[q][i].serial = serial'[q]
        PROVE  pkts'[q][j].pkt = NullPacket
    <3>1. i + 1 < j + 1
      BY <2>2
    <3>2. QED
      BY <1>1, <1>2, <2>1, <2>2, <3>1
  <2>3. ASSUME NullHeld(q)', NEW j \in 1 .. Len(pkts'[q])
        PROVE  pkts'[q][j].pkt = NullPacket
    <3>1. pkts'[q][j] = pkts[q][j + 1] /\ j + 1 \in 1 .. n /\ 1 < j + 1
      BY <1>2
    <3>2. Current(q)' /\ temp_pkt'[q] # FlushPacket
      BY <2>3 DEF NullHeld
    <3>3. CASE temp_pkt'[q] = NullPacket
      <4>1. pkts[q][1].serial = serial[q]
        BY <1>1, <1>3, <3>2 DEF Current
      <4>2. QED
        BY <1>2, <1>3, <2>1, <3>1, <3>3, <4>1
    <3>4. CASE temp_pkt'[q] # NullPacket
      <4>1. Over(q)' /\ Current(q)
        BY <1>1, <1>4, <1>8, <2>3, <3>2, <3>4, Constants DEF NullHeld
      <4>2. NullHeld(q)
        BY <4>1, <1>4, <1>8, <3>2, Constants DEF NullHeld
      <4>3. QED
        BY <3>1, <4>2 DEF StreamChain, NullsLast
    <3>5. QED
      BY <3>3, <3>4
  <2>4. QED
    BY <2>2, <2>3 DEF NullsLast
<1>14. QueueSerials(q)'
  <2> SUFFICES ASSUME NEW i \in 1 .. Len(pkts'[q])
               PROVE  /\ pkts'[q][i].serial >= 1
                      /\ pkt_serial'[q] <= pkts'[q][i].serial
                      /\ pkts'[q][i].pkt = FlushPacket =>
                           pkt_serial'[q] < pkts'[q][i].serial
                      /\ \A j \in 1 .. Len(pkts'[q]) : i < j =>
                           /\ pkts'[q][i].serial <= pkts'[q][j].serial
                           /\ pkts'[q][j].pkt = FlushPacket =>
                                pkts'[q][i].serial < pkts'[q][j].serial
    BY DEF QueueSerials
  <2>1. pkts'[q][i] = pkts[q][i + 1] /\ i + 1 \in 1 .. n /\ 1 < i + 1
    BY <1>2
  <2>2. /\ pkts[q][i + 1].serial >= 1
        /\ pkts[q][1].serial <= pkts[q][i + 1].serial
        /\ pkts[q][i + 1].pkt = FlushPacket =>
             pkts[q][1].serial < pkts[q][i + 1].serial
    BY <1>2, <2>1 DEF StreamChain, QueueSerials
  <2>3. ASSUME NEW j \in 1 .. Len(pkts'[q]), i < j
        PROVE  /\ pkts[q][i + 1].serial <= pkts[q][j + 1].serial
               /\ pkts[q][j + 1].pkt = FlushPacket =>
                    pkts[q][i + 1].serial < pkts[q][j + 1].serial
               /\ pkts'[q][j] = pkts[q][j + 1]
    <3>1. pkts'[q][j] = pkts[q][j + 1] /\ j + 1 \in 1 .. n /\ i + 1 < j + 1
      BY <1>2, <2>3
    <3>2. QED
      BY <2>1, <3>1 DEF StreamChain, QueueSerials
  <2>4. QED
    BY <1>3, <2>1, <2>2, <2>3
<1>15. ReaderChain(q)'
  <2>1. Queued(q)' = Queued(q)
    <3>1. CASE pkts'[q] = <<>>
      <4>1. n = 1
        BY <1>2, <3>1
      <4>2. Queued(q) = EntryPlace(q, 1) /\ Queued(q)' = Taken(q)'
        BY <1>1, <3>1, <4>1 DEF Queued
      <4>3. QED
        BY <4>2, <1>11
    <3>2. CASE pkts'[q] # <<>>
      <4>1. Len(pkts'[q]) \in 1 .. Len(pkts'[q])
        BY <1>1, <1>2, <3>2, EmptySeq
      <4>2. pkts'[q][Len(pkts'[q])] = pkts[q][n]
        BY <1>2, <4>1
      <4>3. Queued(q)' = EntryPlace(q, Len(pkts[q]))
        BY <3>2, <4>2 DEF Queued, EntryPlace
      <4>4. QED
        BY <1>1, <4>3 DEF Queued
    <3>3. QED
      BY <3>1, <3>2
  <2>2. QED
    BY <2>1 DEF ReaderChain, Left, Coming
<1>16. QED
  BY <1>7, <1>10, <1>12, <1>13, <1>14, <1>15 DEF StreamChain, ThreadChain

LEMMA ChainDecoder ==
    ASSUME IInv, IInv', ChainInv, NEW q \in Streams,
           Decoder(q) \/ DecoderSpuriousWake(q) \/ Renderer(q)
    PROVE  ChainInv'
<1> USE DEF Dec!Goto, Dec!codecVars, Dec!frameVars, Dec!queueVars
<1>0. Shapes /\ LastShape
  BY DEF IInv, ChainInv
<1>1. UNCHANGED <<targets, rpc, left, filepos, pkt>>
  BY DEF Decoder, DecoderSpuriousWake, Renderer, readerOwn
<1>2. ReaderAt'
  BY <1>1 DEF ChainInv, ReaderAt
<1>3. ASSUME LastShape', ThreadOthers(q),
             \A r \in Streams : r # q =>
               UNCHANGED <<pkts[r], serial[r], pkt_serial[r]>>,
             q \in Whole => StreamChain(q)' /\ ReaderChain(q)'
      PROVE  ChainInv'
  <2>1. ASSUME NEW r \in Whole, r # q
        PROVE  StreamChain(r)' /\ ReaderChain(r)'
    <3>1. r \in Streams /\ StreamChain(r) /\ ReaderChain(r)
      BY <2>1 DEF Whole, ChainInv
    <3>2. QED
      BY <1>1, <1>3, <2>1, <3>1, ChainOthers
  <2>2. QED
    BY <1>2, <1>3, <2>1 DEF ChainInv
<1>4. q \in Whole => StreamChain(q) /\ ReaderChain(q)
  BY DEF ChainInv
<1>5. CASE Dec!DequeuePacket(q)
  <2>1. /\ pkts' = [pkts EXCEPT ![q] = Tail(@)]
        /\ pkt_serial' = [pkt_serial EXCEPT ![q] = Head(pkts[q]).serial]
        /\ temp_pkt' = [temp_pkt EXCEPT ![q] = Head(pkts[q]).pkt]
        /\ dpc' = [dpc EXCEPT ![q] = "check"]
        /\ UNCHANGED <<serial, pending, finished, codec, draining, got, last>>
    BY <1>5 DEF Dec!DequeuePacket, Dec!PQ!Take
  <2>2. LastShape'
    BY <1>0, <2>1 DEF LastShape
  <2>3. /\ ThreadOthers(q)
        /\ \A r \in Streams : r # q =>
             UNCHANGED <<pkts[r], serial[r], pkt_serial[r]>>
    BY <1>0, <2>1 DEF ThreadOthers, Shapes
  <2>4. QED
    BY <1>0, <1>1, <1>3, <1>4, <1>5, <2>2, <2>3, ChainTakes
<1>6. CASE \/ Dec!StartRound(q) \/ Dec!ReceiveAgain(q) \/ Dec!DequeueNothing(q)
           \/ Dec!WaitForPackets(q) \/ Dec!KeepPacket(q)
  <2>1. /\ UNCHANGED <<pkts, serial, pkt_serial, temp_pkt, pending, finished,
                       codec, draining, got, last>>
        /\ \E p \in Places : dpc' = [dpc EXCEPT ![q] = p]
    BY <1>6 DEF Dec!StartRound, Dec!ReceiveAgain, Dec!DequeueNothing,
       Dec!WaitForPackets, Dec!KeepPacket, Dec!PQ!Sleep, Places
  <2>2. LastShape' /\ ThreadOthers(q)
    BY <1>0, <2>1 DEF LastShape, ThreadOthers, Shapes
  <2>3. q \in Whole => StreamChain(q)' /\ ReaderChain(q)'
    BY <1>1, <1>4, <1>6, <2>1, ChainMoves DEF ChainQuiet
  <2>4. QED
    BY <1>3, <2>1, <2>2, <2>3
<1>7. CASE \/ Dec!ReceiveFrame(q) \/ Dec!ReceiveEnd(q) \/ Dec!Fill(q)
           \/ Dec!DropPacket(q)
  <2>1. UNCHANGED <<pkts, serial, pkt_serial, last>>
    BY <1>7 DEF Dec!ReceiveFrame, Dec!ReceiveEnd, Dec!Fill, Dec!DropPacket
  <2>2. LastShape'
    BY <1>0, <2>1 DEF LastShape
  <2>3. ThreadOthers(q)
    <3>1. CASE Dec!ReceiveFrame(q)
      BY <1>0, <3>1 DEF Dec!ReceiveFrame, ThreadOthers, Shapes
    <3>2. CASE Dec!ReceiveEnd(q)
      BY <1>0, <3>2 DEF Dec!ReceiveEnd, Dec!FlushBuffers, ThreadOthers, Shapes
    <3>3. CASE Dec!Fill(q)
      BY <1>0, <3>3 DEF Dec!Fill, ThreadOthers, Shapes
    <3>4. CASE Dec!DropPacket(q)
      BY <1>0, <3>4 DEF Dec!DropPacket, ThreadOthers, Shapes
    <3>5. QED
      BY <1>7, <3>1, <3>2, <3>3, <3>4
  <2>4. q \in Whole => StreamChain(q)' /\ ReaderChain(q)'
    BY <1>1, <1>4, <1>7, <2>1, ChainReceives, ChainEnds, ChainFills, ChainDrops
       DEF ChainQuiet
  <2>5. QED
    BY <1>3, <2>1, <2>2, <2>3, <2>4
<1>8. CASE \/ Dec!SendFlush(q) \/ Dec!SendData(q) \/ Dec!SendNull(q)
           \/ Dec!SendRefused(q)
  <2> USE DEF Dec!Sent
  <2>1. UNCHANGED <<pkts, serial, pkt_serial, last>>
    BY <1>8 DEF Dec!SendFlush, Dec!SendData, Dec!SendNull, Dec!SendRefused
  <2>2. LastShape'
    BY <1>0, <2>1 DEF LastShape
  <2>3. ThreadOthers(q)
    <3>1. CASE Dec!SendFlush(q)
      BY <1>0, <3>1 DEF Dec!SendFlush, Dec!FlushBuffers, ThreadOthers, Shapes
    <3>2. CASE Dec!SendData(q)
      BY <1>0, <3>2 DEF Dec!SendData, ThreadOthers, Shapes
    <3>3. CASE Dec!SendNull(q)
      BY <1>0, <3>3 DEF Dec!SendNull, ThreadOthers, Shapes
    <3>4. CASE Dec!SendRefused(q)
      BY <1>0, <3>4 DEF Dec!SendRefused, ThreadOthers, Shapes
    <3>5. QED
      BY <1>8, <3>1, <3>2, <3>3, <3>4
  <2>4. q \in Whole => StreamChain(q)' /\ ReaderChain(q)'
    <3>1. ChainQuiet
      BY <1>1, <2>1 DEF ChainQuiet
    <3>2. QED
      BY <1>0, <1>4, <1>8, <3>1, ChainSends
  <2>5. QED
    BY <1>3, <2>1, <2>2, <2>3, <2>4
<1>9. CASE Dec!PushFrame(q) \/ Dec!DropLateFrame(q)
  <2> DEFINE f == [pkt |-> got[q], serial |-> pkt_serial[q]]
  <2>1. /\ Dec!FrameDone(q) /\ UNCHANGED <<pkts, serial, pkt_serial>>
        /\ dpc[q] = "push" /\ dpc' = [dpc EXCEPT ![q] = "start"]
        /\ last' = [last EXCEPT ![q] = f] /\ got' = [got EXCEPT ![q] = NoPacket]
        /\ UNCHANGED <<temp_pkt, pending, finished, codec, draining>>
    BY <1>9 DEF Dec!PushFrame, Dec!DropLateFrame, Dec!FrameDone, Dec!Frame
  <2>2. LastShape'
    <3>1. got[q] \in Data \union {NoPacket} /\ pkt_serial[q] \in Int
      BY <1>0 DEF Shapes
    <3>2. QED
      BY <1>0, <2>1, <3>1 DEF LastShape
  <2>3. ThreadOthers(q)
    BY <1>0, <2>1 DEF ThreadOthers, Shapes, LastShape
  <2>4. q \in Whole => StreamChain(q)' /\ ReaderChain(q)'
    BY <1>0, <1>1, <1>4, <2>1, ChainPushes DEF ChainQuiet
  <2>5. QED
    BY <1>3, <2>1, <2>2, <2>3, <2>4
<1>10. CASE DecoderSpuriousWake(q) \/ Renderer(q)
  <2>1. UNCHANGED <<pkts, serial, pkt_serial, dpc, temp_pkt, pending, finished,
                    codec, draining, got, last>>
    BY <1>10 DEF DecoderSpuriousWake, Dec!SpuriousWake, Dec!PQ!SpuriousWake,
       Dec!decoderVars, Renderer, Dec!TakeFrame
  <2>2. LastShape' /\ ThreadOthers(q) /\ (Live(q)' => Live(q))
    BY <1>0, <2>1 DEF LastShape, ThreadOthers, Live, Current
  <2>3. q \in Whole => StreamChain(q)' /\ ReaderChain(q)'
    BY <1>1, <1>4, <2>1, <2>2, ChainElsewhere
  <2>4. QED
    BY <1>3, <2>1, <2>2, <2>3
<1>11. QED
  BY <1>5, <1>6, <1>7, <1>8, <1>9, <1>10 DEF Decoder, Dec!DecodeFrame

(***************************************************************************)
(* The steps of the reader.  What it puts follows the end of the queue.    *)
(***************************************************************************)
SameStarts ==
    \A s \in 1 .. Len(targets) + 1 : Start(targets', s) = Start(targets, s)

LEMMA ChainKept ==
    ASSUME IInv, LastShape, NEW q \in Whole, StreamChain(q), SameStarts,
           DecoderKept, UNCHANGED <<last, pkts[q], serial[q]>>
    PROVE  StreamChain(q)' /\ (LastNew(q) => Queued(q)' = Queued(q))
<1>1. /\ q \in Streams /\ serial[q] \in Int /\ pkt_serial[q] \in Int
      /\ pkt_serial[q] <= serial[q] /\ serial[q] >= 1
      /\ serial[q] <= Len(targets) + 1 /\ Len(targets) \in Nat
      /\ pkts[q] \in Seq(AnyEntry) /\ last[q].serial \in Int
  BY SerialAtLeastOne DEF Whole, IInv, Shapes, LastShape
<1>2. /\ Done(q)' = Done(q) /\ Over(q)' = Over(q) /\ Current(q)' = Current(q)
      /\ Live(q)' = Live(q)
  BY DEF Done, Over, Current, Live, DecoderKept
<1>3. pkt_serial[q] >= 1 => Shown(q)' = Shown(q)
  BY <1>1 DEF Shown, SameStarts, DecoderKept
<1>4. pkt_serial[q] >= 1 => Taken(q)' = Taken(q)
  <2> SUFFICES ASSUME pkt_serial[q] >= 1
               PROVE  Taken(q)' = Taken(q)
    OBVIOUS
  <2>1. Start(targets', pkt_serial[q]) = Start(targets, pkt_serial[q])
    BY <1>1 DEF SameStarts
  <2>2. Drained(q)' = Drained(q)
    BY <1>2, <1>3 DEF Drained, DecoderKept
  <2>3. QED
    BY <2>1, <2>2 DEF Taken, Place, DecoderKept
<1>5. ASSUME NEW i \in 1 .. Len(pkts[q])
      PROVE  EntryPlace(q, i)' = EntryPlace(q, i)
  <2>1. pkts[q][i].serial >= 1 /\ pkts[q][i].serial <= serial[q]
    BY <1>1 DEF StreamChain, QueueSerials, IInv, StreamInv, QueueKnown
  <2>2. pkts[q][i].serial \in Int
    <3>1. pkts[q][i] \in AnyEntry
      BY <1>1
    <3>2. QED
      BY <3>1 DEF AnyEntry
  <2>3. Start(targets', pkts[q][i].serial) = Start(targets, pkts[q][i].serial)
    BY <1>1, <2>1, <2>2 DEF SameStarts
  <2>4. QED
    BY <2>3 DEF EntryPlace, Place
<1>6. DecoderChain(q)'
  BY <1>2, <1>3 DEF StreamChain, ThreadChain, DecoderChain, DecoderKept, Live
<1>7. LastKnown(q)' /\ ThreadSerials(q)'
  <2>1. last[q].serial <= pkt_serial[q]
    BY DEF StreamChain, ThreadChain, ThreadSerials
  <2>2. last[q].serial >= 1 =>
          Start(targets', last[q].serial) = Start(targets, last[q].serial)
    BY <1>1, <2>1 DEF SameStarts
  <2>3. LastKnown(q)'
    BY <2>2 DEF StreamChain, ThreadChain, LastKnown
  <2>4. QED
    BY <2>3 DEF StreamChain, ThreadChain, ThreadSerials, DecoderKept
<1>8. QueueChain(q)'
  <2>1. ASSUME Current(q)', pkts'[q] # <<>>
        PROVE  Follows(q, Taken(q)', pkts'[q][1].pkt)
    <3>1. Current(q) /\ pkt_serial[q] >= 1 /\ pkts[q] # <<>>
      BY <1>1, <1>2, <2>1 DEF Current
    <3>2. QED
      BY <1>4, <3>1 DEF StreamChain, QueueChain
  <2>2. ASSUME NEW i \in 1 .. Len(pkts'[q]), i # 1, pkts'[q][i].serial = serial'[q]
        PROVE  Follows(q, EntryPlace(q, i - 1)', pkts'[q][i].pkt)
    <3>1. i - 1 \in 1 .. Len(pkts[q]) /\ i \in 1 .. Len(pkts[q])
      BY <1>1, <2>2
    <3>2. EntryPlace(q, i - 1)' = EntryPlace(q, i - 1)
      BY <1>5, <3>1
    <3>3. QED
      BY <2>2, <3>1, <3>2 DEF StreamChain, QueueChain
  <2>3. QED
    BY <2>1, <2>2 DEF QueueChain
<1>9. NullsLast(q)' /\ QueueSerials(q)'
  BY <1>2 DEF StreamChain, NullsLast, NullHeld, QueueSerials, DecoderKept
<1>10. ASSUME LastNew(q)
       PROVE  Queued(q)' = Queued(q)
  <2>1. CASE pkts[q] = <<>>
    BY <1>1, <1>4, <1>10, <2>1 DEF LastNew, Queued
  <2>2. CASE pkts[q] # <<>>
    <3>1. Len(pkts[q]) \in 1 .. Len(pkts[q])
      BY <1>1, <2>2, EmptySeq
    <3>2. EntryPlace(q, Len(pkts[q]))' = EntryPlace(q, Len(pkts[q]))
      BY <1>5, <3>1
    <3>3. QED
      BY <2>2, <3>2 DEF Queued
  <2>3. QED
    BY <2>1, <2>2
<1>11. QED
  BY <1>6, <1>7, <1>8, <1>9, <1>10 DEF StreamChain, ThreadChain

LEMMA HeldIsEnd ==
    ASSUME IInv, NEW q \in Streams, StreamChain(q), NullHeld(q)
    PROVE  Taken(q) = Len(File)
<1>1. /\ Current(q) /\ temp_pkt[q] # FlushPacket
      /\ Over(q) \/ temp_pkt[q] = NullPacket \/ pending[q] = NullPacket
  BY DEF NullHeld
<1>2. Live(q)
  BY <1>1, SerialAtLeastOne DEF Live, Current
<1>3. Chained(q, Shown(q), got[q], codec[q], Over(q), Done(q), temp_pkt[q],
              pending[q])
  BY <1>1, <1>2 DEF StreamChain, ThreadChain, DecoderChain
<1>4. /\ temp_pkt[q] \in Data \union {NullPacket, NoPacket}
      /\ pending[q] \in Data \union {NullPacket, NoPacket}
      /\ temp_pkt[q] # NoPacket => pending[q] = NoPacket
  BY <1>1 DEF IInv, Shapes, StreamInv, ThreadKnown, Packets
<1>5. Over(q) => temp_pkt[q] \notin Data /\ pending[q] \notin Data
  BY <1>3, NothingBehindEnd DEF Chained, AfterDrain
<1>6. CASE temp_pkt[q] = NullPacket
  BY <1>6, Constants DEF Taken, Place
<1>7. CASE temp_pkt[q] # NullPacket /\ pending[q] = NullPacket
  <2>1. temp_pkt[q] = NoPacket
    BY <1>4, <1>7, Constants
  <2>2. QED
    BY <2>1, <1>7, Constants DEF Taken, Place
<1>8. CASE temp_pkt[q] # NullPacket /\ pending[q] # NullPacket
  <2>1. Over(q) /\ temp_pkt[q] = NoPacket /\ pending[q] = NoPacket
    BY <1>1, <1>4, <1>5, <1>8
  <2>2. QED
    BY <2>1 DEF Taken, Drained, AfterDrain
<1>9. QED
  BY <1>6, <1>7, <1>8

LEMMA ChainPut ==
    ASSUME IInv, LastShape, NEW q \in Whole, NEW p \in Data \union {NullPacket},
           Source!PQ!Put(q, p), DecoderKept, UNCHANGED <<last, targets>>,
           StreamChain(q), LastNew(q), Follows(q, Queued(q), p)
    PROVE  /\ StreamChain(q)'
           /\ Queued(q)' = IF p \in Data THEN p.pos ELSE Len(File)
<1> DEFINE e == [pkt |-> p, serial |-> serial[q]]
           n == Len(pkts[q])
<1>0. q \in Streams /\ p # FlushPacket
  BY Constants DEF Whole
<1>1. /\ UNCHANGED serial /\ pkts' = [pkts EXCEPT ![q] = Append(@, e)]
      /\ serial[q] \in Int /\ pkts[q] \in Seq(AnyEntry) /\ e \in AnyEntry
      /\ pkt_serial[q] \in Int /\ pkt_serial[q] <= serial[q] /\ serial[q] >= 1
      /\ UNCHANGED pkt_serial
  <2>1. serial[q] \in Int /\ pkts[q] \in Seq(AnyEntry)
    BY <1>0 DEF IInv, Shapes
  <2>2. serial' = [serial EXCEPT ![q] = serial[q]] /\ pkts' = [pkts EXCEPT ![q] = Append(@, e)]
    BY <1>0 DEF Source!PQ!Put, Source!PQ!PutAccepted, Source!PQ!Stamp, IInv,
       Shapes
  <2>3. UNCHANGED serial
    BY <2>2 DEF IInv, Shapes
  <2>4. e \in AnyEntry
    BY <2>1, Constants DEF AnyEntry
  <2>5. QED
    BY <1>0, <2>1, <2>2, <2>3, <2>4, SerialAtLeastOne DEF DecoderKept
<1>2. e.pkt = p /\ e.serial = serial[q]
  OBVIOUS
<1> HIDE DEF e
<1>3. /\ pkts'[q] = Append(pkts[q], e) /\ Len(pkts'[q]) = n + 1
      /\ pkts'[q] # <<>> /\ n \in Nat
      /\ \A i \in 1 .. n : i \in 1 .. Len(pkts'[q]) /\ pkts'[q][i] = pkts[q][i]
      /\ pkts'[q][n + 1] = e
      /\ \A i \in 1 .. Len(pkts'[q]) : i \in 1 .. n \/ i = n + 1
      /\ pkts[q] = <<>> <=> n = 0
  <2>1. pkts'[q] = Append(pkts[q], e)
    BY <1>0, <1>1 DEF IInv, Shapes
  <2>2. /\ Len(pkts'[q]) = n + 1 /\ pkts'[q] # <<>> /\ n \in Nat
        /\ \A i \in 1 .. n + 1 :
             pkts'[q][i] = IF i = n + 1 THEN e ELSE pkts[q][i]
    BY <1>1, <2>1, AppendFacts
  <2>3. pkts[q] = <<>> <=> n = 0
    BY <1>1, EmptySeq
  <2>4. QED
    BY <2>1, <2>2, <2>3
<1> HIDE DEF n
<1>4. \A i \in 1 .. n : pkts[q][i].serial <= serial[q] /\ pkts[q][i].serial \in Int
  <2>1. \A i \in 1 .. n : pkts[q][i] \in AnyEntry
    BY <1>1 DEF n
  <2>2. QED
    BY <2>1, <1>0 DEF IInv, StreamInv, QueueKnown, AnyEntry, n
<1>5. /\ Done(q)' = Done(q) /\ Over(q)' = Over(q) /\ Current(q)' = Current(q)
      /\ Live(q)' = Live(q) /\ Shown(q)' = Shown(q)
  BY <1>1 DEF Done, Over, Current, Live, DecoderKept, Shown
<1>6. Taken(q)' = Taken(q)
  BY <1>5 DEF Taken, Drained, DecoderKept
<1>7. ThreadChain(q)'
  <2>1. DecoderChain(q)'
    BY <1>5 DEF StreamChain, ThreadChain, DecoderChain, DecoderKept
  <2>2. LastKnown(q)' /\ ThreadSerials(q)'
    BY DEF StreamChain, ThreadChain, LastKnown, ThreadSerials, DecoderKept
  <2>3. QED
    BY <2>1, <2>2 DEF ThreadChain
<1>8. QueueChain(q)'
  <2>1. ASSUME Current(q)'
        PROVE  Follows(q, Taken(q)', pkts'[q][1].pkt)
    <3>1. CASE n = 0
      <4>1. pkts'[q][1] = e /\ Queued(q) = Taken(q)
        BY <1>3, <3>1 DEF Queued
      <4>2. QED
        BY <4>1, <1>2, <1>6
    <3>2. CASE n # 0
      <4>1. pkts'[q][1] = pkts[q][1] /\ pkts[q] # <<>>
        BY <1>3, <3>2
      <4>2. QED
        BY <4>1, <1>5, <1>6, <2>1 DEF StreamChain, QueueChain
    <3>3. QED
      BY <3>1, <3>2
  <2>2. ASSUME NEW i \in 1 .. Len(pkts'[q]), i # 1, pkts'[q][i].serial = serial'[q]
        PROVE  Follows(q, EntryPlace(q, i - 1)', pkts'[q][i].pkt)
    <3>1. i - 1 \in 1 .. n
      BY <1>3, <2>2
    <3>2. EntryPlace(q, i - 1)' = EntryPlace(q, i - 1)
      BY <1>3, <3>1 DEF EntryPlace
    <3>3. CASE i \in 1 .. n
      BY <1>1, <1>3, <2>2, <3>2, <3>3 DEF StreamChain, QueueChain, n
    <3>4. CASE i = n + 1
      <4>1. i - 1 = n /\ pkts[q] # <<>> /\ pkts'[q][i] = e
        BY <1>3, <2>2, <3>4
      <4>2. EntryPlace(q, i - 1) = Queued(q)
        BY <4>1 DEF Queued, n
      <4>3. QED
        BY <3>2, <4>1, <4>2, <1>2
    <3>5. QED
      BY <1>3, <3>3, <3>4
  <2>3. QED
    BY <2>1, <2>2 DEF QueueChain
<1>9. NullsLast(q)'
  <2>0. NullsLast(q)
    BY DEF StreamChain
  <2>1. p \in Data => Queued(q) # Len(File)
    BY NothingBehindEnd
  <2>2. n # 0 => /\ pkts[q][n].serial = serial[q] /\ n \in 1 .. n
                 /\ pkts[q][n].pkt = NullPacket => Queued(q) = Len(File)
    <3> SUFFICES ASSUME n # 0
                 PROVE  /\ pkts[q][n].serial = serial[q] /\ n \in 1 .. n
                        /\ pkts[q][n].pkt = NullPacket => Queued(q) = Len(File)
      OBVIOUS
    <3>1. pkts[q] # <<>> /\ n \in 1 .. n
      BY <1>3
    <3>2. pkts[q][n].serial = serial[q] /\ Queued(q) = EntryPlace(q, n)
      BY <3>1 DEF LastNew, Queued, n
    <3>3. QED
      BY <3>1, <3>2, Constants DEF EntryPlace, Place
  <2>3. ASSUME NEW i \in 1 .. n, pkts[q][i].pkt = NullPacket,
               pkts[q][i].serial = serial[q]
        PROVE  p = NullPacket
    <3>1. n # 0 /\ n \in 1 .. n /\ (i = n \/ i < n)
      BY <1>3
    <3>2. pkts[q][n].pkt = NullPacket
      BY <2>0, <2>3, <3>1 DEF NullsLast, n
    <3>3. QED
      BY <2>1, <2>2, <3>1, <3>2
  <2>4. ASSUME NullHeld(q)
        PROVE  p = NullPacket
    <3>1. CASE n = 0
      <4>1. Queued(q) = Len(File)
        BY <1>0, <1>3, <2>4, <3>1, HeldIsEnd DEF Queued
      <4>2. QED
        BY <2>1, <4>1
    <3>2. CASE n # 0
      <4>1. pkts[q][n].pkt = NullPacket
        BY <2>0, <2>2, <2>4, <3>2 DEF NullsLast, n
      <4>2. QED
        BY <2>1, <2>2, <3>2, <4>1
    <3>3. QED
      BY <3>1, <3>2
  <2>5. NullHeld(q)' = NullHeld(q)
    BY <1>5 DEF NullHeld, DecoderKept
  <2>6. ASSUME NEW i \in 1 .. Len(pkts'[q]), NEW j \in 1 .. Len(pkts'[q]), i < j,
               pkts'[q][i].pkt = NullPacket, pkts'[q][i].serial = serial'[q]
        PROVE  pkts'[q][j].pkt = NullPacket
    <3>1. i \in 1 .. n /\ pkts'[q][i] = pkts[q][i]
      BY <1>3, <2>6
    <3>2. CASE j = n + 1
      BY <1>1, <1>2, <1>3, <2>3, <2>6, <3>1, <3>2
    <3>3. CASE j \in 1 .. n
      BY <1>1, <1>3, <2>0, <2>6, <3>1, <3>3 DEF NullsLast, n
    <3>4. QED
      BY <1>3, <3>2, <3>3
  <2>7. ASSUME NullHeld(q)', NEW j \in 1 .. Len(pkts'[q])
        PROVE  pkts'[q][j].pkt = NullPacket
    <3>1. CASE j = n + 1
      BY <1>2, <1>3, <2>4, <2>5, <2>7, <3>1
    <3>2. CASE j \in 1 .. n
      BY <1>3, <2>0, <2>5, <2>7, <3>2 DEF NullsLast, n
    <3>3. QED
      BY <1>3, <3>1, <3>2
  <2>8. QED
    BY <2>6, <2>7 DEF NullsLast
<1>10. QueueSerials(q)'
  <2>0. QueueSerials(q)
    BY DEF StreamChain
  <2> SUFFICES ASSUME NEW i \in 1 .. Len(pkts'[q])
               PROVE  /\ pkts'[q][i].serial >= 1
                      /\ pkt_serial'[q] <= pkts'[q][i].serial
                      /\ pkts'[q][i].pkt = FlushPacket =>
                           pkt_serial'[q] < pkts'[q][i].serial
                      /\ \A j \in 1 .. Len(pkts'[q]) : i < j =>
                           /\ pkts'[q][i].serial <= pkts'[q][j].serial
                           /\ pkts'[q][j].pkt = FlushPacket =>
                                pkts'[q][i].serial < pkts'[q][j].serial
    BY DEF QueueSerials
  <2>1. CASE i = n + 1
    BY <1>0, <1>1, <1>2, <1>3, <2>1
  <2>2. CASE i \in 1 .. n
    <3>1. /\ pkts[q][i].serial >= 1 /\ pkt_serial[q] <= pkts[q][i].serial
          /\ pkts[q][i].pkt = FlushPacket => pkt_serial[q] < pkts[q][i].serial
          /\ pkts'[q][i] = pkts[q][i]
      BY <1>3, <2>0, <2>2 DEF QueueSerials, n
    <3>2. ASSUME NEW j \in 1 .. Len(pkts'[q]), i < j
          PROVE  /\ pkts'[q][i].serial <= pkts'[q][j].serial
                 /\ pkts'[q][j].pkt = FlushPacket =>
                      pkts'[q][i].serial < pkts'[q][j].serial
      <4>1. CASE j \in 1 .. n
        BY <1>3, <2>0, <2>2, <3>1, <3>2, <4>1 DEF QueueSerials, n
      <4>2. CASE j = n + 1
        BY <1>0, <1>2, <1>3, <1>4, <2>2, <3>1, <4>2
      <4>3. QED
        BY <1>3, <4>1, <4>2
    <3>3. QED
      BY <1>1, <3>1, <3>2
  <2>3. QED
    BY <1>3, <2>1, <2>2
<1>11. Queued(q)' = IF p \in Data THEN p.pos ELSE Len(File)
  <2>1. Queued(q)' = Place(targets', e.pkt, e.serial)
    BY <1>3 DEF Queued, EntryPlace
  <2>2. QED
    BY <2>1, <1>0, <1>2 DEF Place
<1>12. QED
  BY <1>7, <1>8, <1>9, <1>10, <1>11 DEF StreamChain

LEMMA QueuedIsPlace ==
    ASSUME IInv, NEW q \in Streams, StreamChain(q), LastNew(q)
    PROVE  Queued(q) \in Int
<1>1. ASSUME NEW p \in Packets, NEW s \in Int, s >= 1, s <= Len(targets) + 1
      PROVE  Place(targets, p, s) \in Int
  <2>1. Start(targets, s) \in Int /\ Len(File) \in Int
    BY <1>1, StartIsPosition, PipelineAssumption DEF Positions
  <2>2. QED
    BY <2>1 DEF Place, Data
<1>2. /\ pkts[q] \in Seq(AnyEntry) /\ codec[q] \in Seq(Data)
      /\ got[q] \in Data \union {NoPacket}
      /\ temp_pkt[q] \in Packets \union {NoPacket}
      /\ pending[q] \in Packets \union {NoPacket}
  BY DEF IInv, Shapes
<1>3. /\ serial[q] \in Int /\ serial[q] >= 1 /\ serial[q] <= Len(targets) + 1
  BY SerialAtLeastOne
<1>4. CASE pkts[q] = <<>>
  <2>1. pkt_serial[q] = serial[q]
    BY <1>4 DEF LastNew
  <2>2. Shown(q) \in Int
    <3>1. Start(targets, pkt_serial[q]) \in Int
      BY <1>3, <2>1, StartIsPosition DEF Positions
    <3>2. last[q].serial = pkt_serial[q] => last[q].pkt \in Data
      BY <1>3, <2>1 DEF StreamChain, ThreadChain, LastKnown
    <3>3. QED
      BY <3>1, <3>2 DEF Shown, Data
  <2>3. Drained(q) \in Int
    <3>1. codec[q] # <<>> => codec[q][Len(codec[q])] \in Data
      BY <1>2, EmptySeq
    <3>2. QED
      BY <1>2, <2>2, <3>1, PipelineAssumption
         DEF Drained, AfterDrain, AfterCodec, AfterGot, Data
  <2>4. QED
    BY <1>1, <1>2, <1>3, <1>4, <2>1, <2>3 DEF Queued, Taken
<1>5. CASE pkts[q] # <<>>
  <2>1. pkts[q][Len(pkts[q])] \in AnyEntry
    BY <1>2, <1>5, EmptySeq
  <2>2. pkts[q][Len(pkts[q])].serial = serial[q]
    BY <1>5 DEF LastNew
  <2>3. QED
    BY <1>1, <1>3, <1>5, <2>1, <2>2 DEF Queued, EntryPlace, AnyEntry
<1>6. QED
  BY <1>4, <1>5

LEMMA NewPacketFollows ==
    ASSUME IInv, ChainInv, rpc = "queue", File[pkt.pos] \in Whole
    PROVE  Follows(File[pkt.pos], Queued(File[pkt.pos]), pkt)
<1> DEFINE q == File[pkt.pos]
<1>1. Queued(q) < pkt.pos /\ Gap(q, Queued(q), pkt.pos)
  BY DEF ChainInv, ReaderChain, Coming
<1>2. filepos = pkt.pos + 1 /\ filepos \in Positions /\ pkt \in Data
  BY DEF ChainInv, ReaderAt, IInv, ReaderInv, ReaderShapes
<1>3. pkt.pos <= Len(File) /\ pkt # NullPacket
  BY <1>2, Constants, PipelineAssumption DEF Positions, Data
<1>4. QED
  BY <1>1, <1>2, <1>3 DEF Follows

LEMMA LastNewUnlessSought ==
    ASSUME IInv, NEW q \in Streams, ~(rpc \in {"flush", "mark"} /\ Left(q))
    PROVE  LastNew(q)
<1>1. rpc = "mark" => left # <<>> /\ left \in Seq(Streams)
  BY DEF IInv, ReaderInv, ReaderKnown, ReaderShapes
<1>2. rpc = "mark" => Left(Head(left))
  BY <1>1, TailFacts DEF Left
<1>3. QED
  BY <1>2 DEF IInv, StreamInv, EndKnown

(* The steps that leave the queues alone.                                  *)
LEMMA ReaderMovesChain ==
    ASSUME IInv, ChainInv, DecoderKept, UNCHANGED <<last, pkts, serial, targets>>,
           rpc \notin {"flush", "mark"}, rpc' \notin {"flush", "mark"},
           Coming' = Coming, ReaderAt'
    PROVE  ChainInv'
<1>1. SameStarts /\ LastShape /\ LastShape'
  BY DEF SameStarts, ChainInv, LastShape
<1>2. ASSUME NEW q \in Whole
      PROVE  StreamChain(q)' /\ ReaderChain(q)'
  <2>1. q \in Streams /\ StreamChain(q) /\ ReaderChain(q) /\ LastNew(q)
    BY LastNewUnlessSought DEF Whole, ChainInv
  <2>2. StreamChain(q)' /\ Queued(q)' = Queued(q)
    BY <1>1, <2>1, ChainKept
  <2>3. QED
    BY <2>1, <2>2 DEF ReaderChain
<1>3. QED
  BY <1>1, <1>2 DEF ChainInv

LEMMA QuietReaderChain ==
    ASSUME IInv, ChainInv, DecoderKept, UNCHANGED last,
           \/ Source!NoSeek \/ Source!SeekFails \/ Source!EndSeek
           \/ Source!NoPicture \/ Source!TestQueues \/ Source!WaitForDecoders
           \/ Source!ReadError \/ Source!SetEof \/ Source!IoError \/ Source!Nap
           \/ Source!ReadPacket \/ Source!ReadEnd
    PROVE  ChainInv'
<1>1. /\ UNCHANGED <<pkts, serial, targets>>
      /\ rpc \notin {"flush", "mark", "queue"} /\ rpc' \notin {"flush", "mark"}
      /\ \/ rpc' \notin {"queue", "drain"} /\ filepos' = filepos
         \/ rpc' = "drain" /\ filepos' = filepos /\ filepos > Len(File)
         \/ /\ rpc' = "queue" /\ filepos' = filepos + 1
            /\ pkt' = [pos |-> filepos, epoch |-> Len(targets)]
  BY DEF Source!NoSeek, Source!SeekFails, Source!EndSeek, Source!NoPicture,
     Source!TestQueues, Source!WaitForDecoders, Source!ReadError,
     Source!SetEof, Source!IoError, Source!Nap, Source!ReadPacket,
     Source!ReadEnd, Source!Goto, Source!fileVars, Source!queueVars,
     Source!Packet, Source!Epoch
<1>2. filepos \in 1 .. Len(File) + 1 /\ Len(File) \in Nat
  BY PipelineAssumption DEF IInv, ReaderInv, ReaderShapes, Positions
<1>3. Coming' = Coming
  BY <1>1 DEF Coming
<1>4. ReaderAt'
  BY <1>1, <1>2 DEF ReaderAt
<1>5. QED
  BY <1>1, <1>3, <1>4, ReaderMovesChain

LEMMA SeekFileChain ==
    ASSUME IInv, ChainInv, DecoderKept, UNCHANGED last, Source!SeekFile
    PROVE  ChainInv'
<1>1. /\ rpc' = "flush" /\ left' = Source!FlushOrder
      /\ filepos' = seek_position /\ targets' = Append(targets, seek_position)
      /\ UNCHANGED <<pkts, serial>>
  BY DEF Source!SeekFile, Source!Goto, Source!queueVars
<1>2. /\ targets \in Seq(Positions) /\ seek_position \in Positions
      /\ LastShape /\ LastShape'
  BY DEF IInv, ReaderInv, ReaderShapes, ChainInv, LastShape
<1>3. /\ Len(targets') = Len(targets) + 1 /\ Len(targets) \in Nat
      /\ \A i \in 1 .. Len(targets) + 1 :
           targets'[i] = IF i = Len(targets) + 1 THEN seek_position ELSE targets[i]
  BY <1>1, <1>2, AppendFacts
<1>4. SameStarts
  <2> SUFFICES ASSUME NEW s \in 1 .. Len(targets) + 1, s # 1
               PROVE  targets'[s - 1] = targets[s - 1]
    BY DEF SameStarts, Start
  <2>1. s - 1 \in 1 .. Len(targets) + 1 /\ s - 1 # Len(targets) + 1
    BY <1>3
  <2>2. QED
    BY <1>3, <2>1
<1>5. ReaderAt'
  BY <1>1, <1>3 DEF ReaderAt
<1>6. ASSUME NEW q \in Whole
      PROVE  StreamChain(q)' /\ ReaderChain(q)'
  <2>1. StreamChain(q)'
    BY <1>1, <1>2, <1>4, ChainKept DEF ChainInv
  <2>2. Left(q)'
    BY <1>1, OrderFacts DEF Left, Whole
  <2>3. QED
    BY <1>1, <2>1, <2>2 DEF ReaderChain
<1>7. QED
  BY <1>2, <1>5, <1>6 DEF ChainInv

(* A packet is put while no seek is under way.                             *)
LEMMA PutMovesChain ==
    ASSUME IInv, ChainInv, DecoderKept, UNCHANGED <<last, targets>>,
           rpc \notin {"flush", "mark"}, rpc' \notin {"flush", "mark"},
           NEW q \in Streams, NEW p \in Data \union {NullPacket},
           Source!PQ!Put(q, p),
           q \in Whole => Follows(q, Queued(q), p),
           ReaderAt',
           \A r \in Whole : r # q =>
              Queued(r) < Coming' /\ Gap(r, Queued(r), Coming'),
           LET a == IF p \in Data THEN p.pos ELSE Len(File) IN
           q \in Whole => a < Coming' /\ Gap(q, a, Coming')
    PROVE  ChainInv'
<1>1. SameStarts /\ LastShape /\ LastShape'
  BY DEF SameStarts, ChainInv, LastShape
<1>2. ASSUME NEW r \in Whole, r # q
      PROVE  StreamChain(r)' /\ ReaderChain(r)'
  <2>1. r \in Streams /\ StreamChain(r) /\ LastNew(r)
    BY LastNewUnlessSought DEF Whole, ChainInv
  <2>2. UNCHANGED <<pkts[r], serial[r]>>
    BY <1>2, <2>1 DEF IInv, Shapes, Source!PQ!Put, Source!PQ!PutAccepted
  <2>3. StreamChain(r)' /\ Queued(r)' = Queued(r)
    BY <1>1, <2>1, <2>2, ChainKept
  <2>4. QED
    BY <1>2, <2>3 DEF ReaderChain
<1>3. ASSUME q \in Whole
      PROVE  StreamChain(q)' /\ ReaderChain(q)'
  <2>1. StreamChain(q) /\ LastNew(q)
    BY <1>3, LastNewUnlessSought DEF ChainInv
  <2>2. /\ StreamChain(q)'
        /\ Queued(q)' = IF p \in Data THEN p.pos ELSE Len(File)
    BY <1>1, <1>3, <2>1, ChainPut
  <2>3. QED
    BY <1>3, <2>2 DEF ReaderChain
<1>4. QED
  BY <1>1, <1>2, <1>3 DEF ChainInv

LEMMA PutsChain ==
    ASSUME IInv, ChainInv, DecoderKept, UNCHANGED last,
           \/ Source!QueuePicture \/ Source!QueuePictureEnd \/ Source!PutNull
           \/ Source!QueuePacket
    PROVE  ChainInv'
<1>0. /\ Len(File) \in Nat /\ filepos \in Int /\ pkt \in Data /\ pkt.pos \in Int
      /\ left \in Seq(Streams)
  BY PipelineAssumption DEF IInv, ReaderInv, ReaderShapes, Positions, Data
<1>00. \A r \in Whole : rpc \notin {"flush", "mark"} =>
          Queued(r) < Coming /\ Gap(r, Queued(r), Coming)
  BY DEF ChainInv, ReaderChain
<1>1. CASE Source!QueuePicture \/ Source!QueuePictureEnd
  <2>1. /\ rpc \in {"attach", "attach_null"} /\ rpc' \in {"attach_null", "need"}
        /\ UNCHANGED <<targets, filepos, pkt>> /\ Covers # {}
        /\ \E p \in Data \union {NullPacket} : Source!PQ!Put(Video, p)
    <3>1. Source!Packet(Source!Picture, Source!Epoch) \in Data
      BY PipelineAssumption DEF Source!Packet, Source!Picture, Source!Epoch,
         Data, IInv, ReaderInv, ReaderShapes, SeeksKnown, Waiting
    <3>2. rpc = "attach_null" => Covers # {}
      BY DEF IInv, ReaderInv, ReaderKnown
    <3>3. QED
      BY <1>1, <3>1, <3>2 DEF Source!QueuePicture, Source!QueuePictureEnd,
         Source!Goto, Source!fileVars
  <2>2. Video \in Streams /\ Video \notin Whole
    BY <2>1, PipelineAssumption DEF Whole
  <2>3. Coming' = Coming /\ ReaderAt'
    BY <2>1 DEF Coming, ReaderAt
  <2>4. QED
    BY <1>00, <2>1, <2>2, <2>3, PutMovesChain
<1>2. CASE Source!PutNull
  <2>1. /\ rpc = "drain" /\ rpc' = "drain" /\ left # <<>>
        /\ UNCHANGED <<targets, filepos, pkt>>
        /\ Source!PQ!Put(Head(left), NullPacket)
    BY <1>2 DEF Source!PutNull, Source!Goto, Source!fileVars
  <2>2. PICK q \in Streams : q = Head(left)
    BY <1>0, <2>1, TailFacts
  <2>3. Coming = Len(File) + 1 /\ Coming' = Coming /\ ReaderAt'
    BY <2>1 DEF Coming, ReaderAt, ChainInv
  <2>4. q \in Whole => Follows(q, Queued(q), NullPacket)
    BY <1>00, <2>1, <2>3, Constants DEF Follows
  <2>5. Len(File) < Coming' /\ Gap(q, Len(File), Coming')
    BY <1>0, <2>3 DEF Gap
  <2>6. /\ Source!PQ!Put(q, NullPacket) /\ NullPacket \notin Data
        /\ NullPacket \in Data \union {NullPacket}
    BY <2>1, <2>2, Constants
  <2>7. \A r \in Whole : r # q =>
          Queued(r) < Coming' /\ Gap(r, Queued(r), Coming')
    BY <1>00, <2>1, <2>3
  <2>8. QED
    BY <2>1, <2>3, <2>4, <2>5, <2>6, <2>7, PutMovesChain
<1>3. CASE Source!QueuePacket
  <2> DEFINE q == File[pkt.pos]
  <2>1. /\ rpc = "queue" /\ rpc' = "seek" /\ UNCHANGED <<targets, filepos>>
        /\ \/ q \in Streams \ Covers /\ Source!PQ!Put(q, pkt)
           \/ q \notin Streams \ Covers /\ UNCHANGED <<pkts, serial>>
    BY <1>3 DEF Source!QueuePacket, Source!Goto, Source!queueVars
  <2>2. /\ Coming = pkt.pos /\ Coming' = pkt.pos + 1 /\ ReaderAt'
        /\ filepos = pkt.pos + 1
    BY <2>1 DEF Coming, ReaderAt, ChainInv
  <2>3. ASSUME NEW r \in Whole, r # q
        PROVE  Queued(r) < Coming' /\ Gap(r, Queued(r), Coming')
    <3>1. Queued(r) < pkt.pos /\ Gap(r, Queued(r), pkt.pos)
      BY <1>00, <2>1, <2>2
    <3>2. Queued(r) \in Int
      BY <2>1, QueuedIsPlace, LastNewUnlessSought DEF Whole, ChainInv
    <3>3. QED
      BY <1>0, <2>2, <2>3, <3>1, <3>2 DEF Gap
  <2>4. CASE q \in Streams \ Covers /\ Source!PQ!Put(q, pkt)
    <3>1. Follows(q, Queued(q), pkt) /\ q \in Whole
      BY <2>1, <2>4, NewPacketFollows DEF Whole
    <3>2. pkt.pos < Coming' /\ Gap(q, pkt.pos, Coming')
      BY <1>0, <2>2 DEF Gap
    <3>3. QED
      BY <1>0, <2>1, <2>2, <2>3, <2>4, <3>1, <3>2, PutMovesChain
  <2>5. CASE q \notin Streams \ Covers /\ UNCHANGED <<pkts, serial>>
    <3>1. SameStarts /\ LastShape /\ LastShape'
      BY <2>1 DEF SameStarts, ChainInv, LastShape
    <3>2. ASSUME NEW r \in Whole
          PROVE  StreamChain(r)' /\ ReaderChain(r)'
      <4>1. r \in Streams /\ StreamChain(r) /\ LastNew(r) /\ r # q
        BY <2>1, <2>5, LastNewUnlessSought DEF Whole, ChainInv
      <4>2. StreamChain(r)' /\ Queued(r)' = Queued(r)
        BY <2>5, <3>1, <4>1, ChainKept
      <4>3. QED
        BY <2>3, <4>1, <4>2 DEF ReaderChain
    <3>3. QED
      BY <2>2, <3>1, <3>2 DEF ChainInv
  <2>6. QED
    BY <2>1, <2>4, <2>5
<1>4. QED
  BY <1>1, <1>2, <1>3

(* A seek flushes a queue and marks it.  In between, its end is nowhere.   *)
LEMMA FlushChain ==
    ASSUME IInv, ChainInv, DecoderKept, UNCHANGED last, Source!FlushQueue
    PROVE  ChainInv'
<1>1. /\ rpc = "flush" /\ left # <<>> /\ left \in Seq(Streams)
  BY DEF Source!FlushQueue, Source!Goto, IInv, ReaderInv, ReaderShapes,
     ReaderKnown
<1>2. PICK q \in Streams : q = Head(left)
  BY <1>1, TailFacts
<1>3. /\ rpc' = "mark" /\ pkts' = [pkts EXCEPT ![q] = <<>>]
      /\ UNCHANGED <<serial, left, targets, filepos, pkt>>
  BY <1>2 DEF Source!FlushQueue, Source!PQ!Flush, Source!Goto, Source!fileVars
<1>4. Left(q)'
  BY <1>1, <1>2, <1>3, TailFacts DEF Left
<1>5. SameStarts /\ LastShape /\ LastShape' /\ ReaderAt'
  BY <1>1, <1>3 DEF SameStarts, ChainInv, LastShape, ReaderAt
<1>6. ASSUME NEW r \in Whole, r # q
      PROVE  StreamChain(r)' /\ ReaderChain(r)'
  <2>1. r \in Streams /\ StreamChain(r) /\ ReaderChain(r)
    BY DEF Whole, ChainInv
  <2>2. UNCHANGED <<pkts[r], serial[r]>>
    BY <1>3, <1>6, <2>1 DEF IInv, Shapes
  <2>3. StreamChain(r)' /\ (LastNew(r) => Queued(r)' = Queued(r))
    BY <1>5, <2>1, <2>2, ChainKept
  <2>4. Left(r)' = Left(r) /\ Coming' = Coming
    BY <1>1, <1>3 DEF Left, Coming
  <2>5. ~Left(r) => LastNew(r)
    BY <2>1, LastNewUnlessSought
  <2>6. QED
    BY <1>1, <1>3, <2>1, <2>3, <2>4, <2>5 DEF ReaderChain
<1>7. ASSUME q \in Whole
      PROVE  StreamChain(q)' /\ ReaderChain(q)'
  <2>1. StreamChain(q)
    BY <1>7 DEF ChainInv
  <2>2. pkts'[q] = <<>> /\ Len(pkts'[q]) = 0
    BY <1>3, EmptySeq DEF IInv, Shapes
  <2>3. /\ Shown(q)' = Shown(q) /\ Over(q)' = Over(q) /\ Done(q)' = Done(q)
        /\ Live(q)' = Live(q)
    BY <1>3 DEF Shown, Over, Done, Live, Current, DecoderKept
  <2>4. DecoderChain(q)'
    BY <2>1, <2>3 DEF StreamChain, ThreadChain, DecoderChain, DecoderKept
  <2>5. LastKnown(q)' /\ ThreadSerials(q)'
    BY <1>3, <2>1 DEF StreamChain, ThreadChain, LastKnown, ThreadSerials, DecoderKept
  <2>6. QueueChain(q)' /\ NullsLast(q)' /\ QueueSerials(q)'
    BY <2>2 DEF QueueChain, NullsLast, QueueSerials
  <2>7. ReaderChain(q)'
    BY <1>3, <1>4 DEF ReaderChain
  <2>8. QED
    BY <2>4, <2>5, <2>6, <2>7 DEF StreamChain, ThreadChain
<1>8. QED
  BY <1>5, <1>6, <1>7 DEF ChainInv

(* The flush packet opens a serial that is larger than all before it, and  *)
(* stands just before the position that was sought.                        *)
LEMMA ChainMark ==
    ASSUME IInv, LastShape, NEW q \in Whole, Source!PQ!Put(q, FlushPacket),
           DecoderKept, UNCHANGED <<last, targets>>, StreamChain(q),
           serial[q] = Len(targets), Len(targets) >= 1
    PROVE  StreamChain(q)' /\ Queued(q)' = targets[Len(targets)] - 1
<1> DEFINE e == [pkt |-> FlushPacket, serial |-> serial[q] + 1]
           n == Len(pkts[q])
<1>0. q \in Streams
  BY DEF Whole
<1>1. /\ serial'[q] = serial[q] + 1 /\ pkts'[q] = Append(pkts[q], e)
      /\ serial[q] \in Int /\ pkts[q] \in Seq(AnyEntry) /\ e \in AnyEntry
      /\ pkt_serial[q] \in Int /\ pkt_serial[q] <= serial[q]
      /\ UNCHANGED pkt_serial
  <2>1. serial[q] \in Int /\ pkts[q] \in Seq(AnyEntry)
    BY <1>0 DEF IInv, Shapes
  <2>2. serial'[q] = serial[q] + 1 /\ pkts'[q] = Append(pkts[q], e)
    BY <1>0 DEF Source!PQ!Put, Source!PQ!PutAccepted, Source!PQ!Stamp, IInv,
       Shapes
  <2>3. e \in AnyEntry
    BY <2>1, Constants DEF AnyEntry
  <2>4. QED
    BY <1>0, <2>1, <2>2, <2>3, SerialAtLeastOne DEF DecoderKept
<1>2. e.pkt = FlushPacket /\ e.serial = serial[q] + 1
  OBVIOUS
<1> HIDE DEF e
<1>3. /\ Len(pkts'[q]) = n + 1 /\ pkts'[q] # <<>> /\ n \in Nat
      /\ \A i \in 1 .. n : i \in 1 .. Len(pkts'[q]) /\ pkts'[q][i] = pkts[q][i]
      /\ pkts'[q][n + 1] = e
      /\ \A i \in 1 .. Len(pkts'[q]) : i \in 1 .. n \/ i = n + 1
  <2>1. /\ Len(pkts'[q]) = n + 1 /\ pkts'[q] # <<>> /\ n \in Nat
        /\ \A i \in 1 .. n + 1 :
             pkts'[q][i] = IF i = n + 1 THEN e ELSE pkts[q][i]
    BY <1>1, AppendFacts
  <2>2. QED
    BY <2>1
<1> HIDE DEF n
<1>4. \A i \in 1 .. n : pkts[q][i].serial <= serial[q] /\ pkts[q][i].serial \in Int
  <2>1. \A i \in 1 .. n : pkts[q][i] \in AnyEntry
    BY <1>1 DEF n
  <2>2. QED
    BY <2>1, <1>0 DEF IInv, StreamInv, QueueKnown, AnyEntry, n
<1>5. /\ Done(q)' = Done(q) /\ Over(q)' = Over(q) /\ Shown(q)' = Shown(q)
      /\ ~Current(q)' /\ (Live(q)' => Live(q))
  BY <1>1 DEF Done, Over, Current, Live, DecoderKept, Shown
<1>6. ThreadChain(q)'
  <2>1. DecoderChain(q)'
    BY <1>5 DEF StreamChain, ThreadChain, DecoderChain, DecoderKept
  <2>2. LastKnown(q)' /\ ThreadSerials(q)'
    BY DEF StreamChain, ThreadChain, LastKnown, ThreadSerials, DecoderKept
  <2>3. QED
    BY <2>1, <2>2 DEF ThreadChain
<1>7. \A i \in 1 .. Len(pkts'[q]) :
        pkts'[q][i].serial = serial'[q] => i = n + 1 /\ pkts'[q][i] = e
  BY <1>1, <1>3, <1>4
<1>8. QueueChain(q)'
  <2>1. ASSUME NEW i \in 1 .. Len(pkts'[q]), pkts'[q][i].serial = serial'[q]
        PROVE  Follows(q, EntryPlace(q, i - 1)', pkts'[q][i].pkt)
    BY <1>2, <1>7, <2>1, FollowsFacts
  <2>2. QED
    BY <1>5, <2>1 DEF QueueChain
<1>9. NullsLast(q)'
  <2>1. ASSUME NEW i \in 1 .. Len(pkts'[q]), pkts'[q][i].serial = serial'[q]
        PROVE  pkts'[q][i].pkt # NullPacket
    BY <1>2, <1>7, <2>1, Constants
  <2>2. ~NullHeld(q)'
    BY <1>5 DEF NullHeld
  <2>3. QED
    BY <2>1, <2>2 DEF NullsLast
<1>10. QueueSerials(q)'
  <2>0. QueueSerials(q)
    BY DEF StreamChain
  <2> SUFFICES ASSUME NEW i \in 1 .. Len(pkts'[q])
               PROVE  /\ pkts'[q][i].serial >= 1
                      /\ pkt_serial'[q] <= pkts'[q][i].serial
                      /\ pkts'[q][i].pkt = FlushPacket =>
                           pkt_serial'[q] < pkts'[q][i].serial
                      /\ \A j \in 1 .. Len(pkts'[q]) : i < j =>
                           /\ pkts'[q][i].serial <= pkts'[q][j].serial
                           /\ pkts'[q][j].pkt = FlushPacket =>
                                pkts'[q][i].serial < pkts'[q][j].serial
    BY DEF QueueSerials
  <2>1. CASE i = n + 1
    BY <1>1, <1>2, <1>3, <2>1
  <2>2. CASE i \in 1 .. n
    <3>1. /\ pkts[q][i].serial >= 1 /\ pkt_serial[q] <= pkts[q][i].serial
          /\ pkts[q][i].pkt = FlushPacket => pkt_serial[q] < pkts[q][i].serial
          /\ pkts'[q][i] = pkts[q][i]
      BY <1>3, <2>0, <2>2 DEF QueueSerials, n
    <3>2. ASSUME NEW j \in 1 .. Len(pkts'[q]), i < j
          PROVE  /\ pkts'[q][i].serial <= pkts'[q][j].serial
                 /\ pkts'[q][j].pkt = FlushPacket =>
                      pkts'[q][i].serial < pkts'[q][j].serial
      <4>1. CASE j \in 1 .. n
        BY <1>3, <2>0, <2>2, <3>1, <3>2, <4>1 DEF QueueSerials, n
      <4>2. CASE j = n + 1
        BY <1>1, <1>2, <1>3, <1>4, <2>2, <3>1, <4>2
      <4>3. QED
        BY <1>3, <4>1, <4>2
    <3>3. QED
      BY <1>1, <3>1, <3>2
  <2>3. QED
    BY <1>3, <2>1, <2>2
<1>11. Queued(q)' = targets[Len(targets)] - 1
  <2>1. Queued(q)' = Place(targets, e.pkt, e.serial)
    BY <1>3 DEF Queued, EntryPlace
  <2>2. Len(targets) + 1 # 1 /\ (Len(targets) + 1) - 1 = Len(targets)
    BY <1>1
  <2>3. QED
    BY <2>1, <2>2, <1>2, Constants DEF Place, Start
<1>12. QED
  BY <1>6, <1>8, <1>9, <1>10, <1>11 DEF StreamChain

LEMMA MarkChain ==
    ASSUME IInv, ChainInv, DecoderKept, UNCHANGED last, Source!MarkQueue
    PROVE  ChainInv'
<1>1. /\ rpc = "mark" /\ left # <<>> /\ left \in Seq(Streams)
      /\ \A i, j \in 1 .. Len(left) : left[i] = left[j] => i = j
      /\ Len(targets) \in Nat /\ Len(targets) >= 1
      /\ filepos = targets[Len(targets)] /\ filepos \in Int
  BY DEF Source!MarkQueue, Source!Goto, IInv, ReaderInv, ReaderShapes,
     ReaderKnown, ChainInv, ReaderAt, Positions
<1>2. PICK q \in Streams : q = Head(left)
  BY <1>1, TailFacts
<1>3. /\ rpc' = (IF Len(left) = 1 THEN "sought" ELSE "flush")
      /\ Source!PQ!Put(q, FlushPacket) /\ left' = Tail(left)
      /\ UNCHANGED <<targets, filepos, pkt>>
  BY <1>2 DEF Source!MarkQueue, Source!Goto, Source!fileVars
<1>4. /\ q = left[1] /\ 1 \in 1 .. Len(left)
      /\ Len(left') = Len(left) - 1 /\ Len(left) \in Nat
      /\ \A i \in 1 .. Len(left') :
           left'[i] = left[i + 1] /\ i + 1 \in 1 .. Len(left)
  BY <1>1, <1>2, <1>3, TailFacts
<1>5. SameStarts /\ LastShape /\ LastShape' /\ ReaderAt'
  BY <1>1, <1>3 DEF SameStarts, ChainInv, LastShape, ReaderAt
<1>6. Coming = filepos /\ Coming' = filepos
  BY <1>1, <1>3 DEF Coming
<1>7. ASSUME NEW r \in Whole, r # q
      PROVE  StreamChain(r)' /\ ReaderChain(r)'
  <2>1. r \in Streams /\ StreamChain(r) /\ ReaderChain(r)
    BY DEF Whole, ChainInv
  <2>2. UNCHANGED <<pkts[r], serial[r]>>
    BY <1>3, <1>7, <2>1 DEF IInv, Shapes, Source!PQ!Put, Source!PQ!PutAccepted
  <2>3. StreamChain(r)' /\ (LastNew(r) => Queued(r)' = Queued(r))
    BY <1>5, <2>1, <2>2, ChainKept
  <2>4. Left(r) => Left(r)'
    <3> SUFFICES ASSUME NEW i \in 1 .. Len(left), left[i] = r
                 PROVE  Left(r)'
      BY DEF Left
    <3>1. i # 1 /\ i - 1 \in 1 .. Len(left')
      BY <1>4, <1>7
    <3>2. left'[i - 1] = r
      BY <1>4, <3>1
    <3>3. QED
      BY <3>1, <3>2 DEF Left
  <2>5. Len(left) = 1 => ~Left(r)
    BY <1>4, <1>7 DEF Left
  <2>6. ~Left(r) => LastNew(r)
    BY <2>1, LastNewUnlessSought
  <2>7. QED
    BY <1>1, <1>3, <1>6, <2>1, <2>3, <2>4, <2>5, <2>6 DEF ReaderChain
<1>8. ASSUME q \in Whole
      PROVE  StreamChain(q)' /\ ReaderChain(q)'
  <2>1. StreamChain(q) /\ EpochKnown(q) /\ Left(q)
    BY <1>4, <1>8 DEF ChainInv, IInv, ReaderInv, Left
  <2>2. serial[q] = Len(targets)
    BY <1>1, <2>1 DEF EpochKnown
  <2>3. StreamChain(q)' /\ Queued(q)' = filepos - 1
    BY <1>1, <1>3, <1>5, <1>8, <2>1, <2>2, ChainMark
  <2>4. filepos - 1 < filepos /\ Gap(q, filepos - 1, filepos)
    BY <1>1 DEF Gap
  <2>5. QED
    BY <1>6, <2>3, <2>4 DEF ReaderChain
<1>9. QED
  BY <1>5, <1>7, <1>8 DEF ChainInv

LEMMA ChainStands ==
    ASSUME ChainInv, DecoderKept,
           UNCHANGED <<pkts, serial, last, rpc, left, filepos, targets, pkt>>
    PROVE  ChainInv'
<1>1. ASSUME NEW q \in Whole
      PROVE  StreamChain(q)' /\ ReaderChain(q)'
  <2>1. q \in Streams /\ StreamChain(q) /\ ReaderChain(q) /\ Live(q)' = Live(q)
    BY DEF Whole, ChainInv, DecoderKept, Live, Current
  <2>2. QED
    BY <2>1, ChainElsewhere DEF DecoderKept
<1>2. LastShape' /\ ReaderAt'
  BY DEF ChainInv, LastShape, ReaderAt
<1>3. QED
  BY <1>1, <1>2 DEF ChainInv

LEMMA ReaderKeepsChain ==
    ASSUME IInv, ChainInv, Reader
    PROVE  ChainInv'
<1>1. DecoderKept /\ UNCHANGED last
  BY ReaderKeepsDecoder DEF Reader, decoderVars
<1>2. QED
  BY <1>1, QuietReaderChain, SeekFileChain, PutsChain, FlushChain, MarkChain
     DEF Reader, Source!ReadStreams, Source!ProcessSeekRequest,
         Source!ProcessAttachedPicture, Source!ProcessReadFrame

LEMMA InitChain == Init => ChainInv
<1> SUFFICES ASSUME Init
             PROVE  ChainInv
  OBVIOUS
<1> USE DEF Init, Source!Init, Dec!Init
<1> DEFINE e == [pkt |-> FlushPacket, serial |-> 1]
<1>1. /\ Len(<<e>>) = 1 /\ <<e>>[1] = e /\ <<e>> # <<>>
      /\ e.pkt = FlushPacket /\ e.serial = 1
  OBVIOUS
<1>2. LastShape /\ ReaderAt
  BY DEF LastShape, ReaderAt, Dec!Frame
<1>3. ASSUME NEW q \in Whole
      PROVE  StreamChain(q) /\ ReaderChain(q)
  <2>1. /\ pkts[q] = <<e>> /\ serial[q] = 1 /\ pkt_serial[q] = -1
        /\ temp_pkt[q] = NoPacket /\ finished[q] = 0
        /\ last[q] = Dec!Frame(NoPacket, -1) /\ rpc = "seek" /\ filepos = 1
    BY <1>3 DEF Whole
  <2>2. last[q].serial = -1
    BY <2>1 DEF Dec!Frame
  <2> HIDE DEF e, Init, Source!Init, Dec!Init
  <2>3. DecoderChain(q) /\ LastKnown(q) /\ ThreadSerials(q)
    BY <2>1, <2>2, Constants DEF DecoderChain, Live, LastKnown, ThreadSerials
  <2>4. ~Current(q) /\ Len(pkts[q]) = 1 /\ pkts[q][1] = e
    BY <1>1, <2>1 DEF Current
  <2>5. QueueChain(q) /\ NullsLast(q) /\ QueueSerials(q)
    BY <1>1, <2>1, <2>4, Constants
       DEF QueueChain, NullsLast, NullHeld, QueueSerials
  <2>6. Queued(q) = 0
    BY <1>1, <2>1, <2>4, Constants DEF Queued, EntryPlace, Place, Start
  <2>7. ReaderChain(q)
    BY <2>1, <2>6 DEF ReaderChain, Coming, Gap
  <2>8. QED
    BY <2>3, <2>5, <2>7 DEF StreamChain, ThreadChain
<1>4. QED
  BY <1>2, <1>3 DEF ChainInv

LEMMA NextChain == IInv /\ IInv' /\ ChainInv /\ [Next]_vars => ChainInv'
<1> SUFFICES ASSUME IInv, IInv', ChainInv, [Next]_vars
             PROVE  ChainInv'
  OBVIOUS
<1>1. CASE Reader
  BY <1>1, ReaderKeepsChain
<1>2. CASE ReaderSpuriousWake \/ User \/ UNCHANGED vars
  <2>1. UNCHANGED <<pkts, serial, pkt_serial, rpc, left, filepos, targets, pkt>>
    BY <1>2 DEF ReaderSpuriousWake, Source!SpuriousWake, User,
       Source!SeekCall, Source!Seek, Source!StorePosition,
       Source!StoreRequest, Source!NotifySeek, Source!queueVars,
       Source!fileVars, vars, queueVars, readerOwn
  <2>2. DecoderKept /\ UNCHANGED last
    BY <1>2, <2>1 DEF ReaderSpuriousWake, User, vars, decoderVars, DecoderKept
  <2>3. QED
    BY <2>1, <2>2, ChainStands
<1>3. CASE \E q \in Streams :
             Decoder(q) \/ DecoderSpuriousWake(q) \/ Renderer(q)
  BY <1>3, ChainDecoder
<1>4. QED
  BY <1>1, <1>2, <1>3 DEF Next

(* Between the file and the frame queue no packet is lost or repeated.     *)
THEOREM ChainCorrect == Spec => []ChainInv
  BY InductiveCorrect, InitChain, NextChain, PTL DEF Spec

(* The largest and the smallest of a set of integers.                     *)
LEMMA MaxIs ==
    ASSUME NEW S \in SUBSET Int, NEW x \in S, \A y \in S : y <= x
    PROVE  Max(S) = x
<1>1. \A y \in S : x >= y
  OBVIOUS
<1>2. Max(S) \in S /\ \A y \in S : Max(S) >= y
  BY <1>1, Zenon DEF Max
<1>3. PICK m \in S : m = Max(S)
  BY <1>2
<1>4. m >= x /\ x >= m /\ m \in Int /\ x \in Int
  BY <1>1, <1>2, <1>3
<1>5. QED
  BY <1>3, <1>4

LEMMA MinIs ==
    ASSUME NEW S \in SUBSET Int, NEW x \in S, \A y \in S : x <= y
    PROVE  Min(S) = x
<1>1. \A y \in S : x <= y
  OBVIOUS
<1>2. Min(S) \in S /\ \A y \in S : Min(S) <= y
  BY <1>1, Zenon DEF Min
<1>3. PICK m \in S : m = Min(S)
  BY <1>2
<1>4. m <= x /\ x <= m /\ m \in Int /\ x \in Int
  BY <1>1, <1>2, <1>3
<1>5. QED
  BY <1>3, <1>4

(***************************************************************************)
(* A decoder that has finished the queue's serial has decoded all of its   *)
(* stream from the last seek to the end of the file.                       *)
(***************************************************************************)
THEOREM DrainedCorrect == Spec => []FinishedMeansDrained
<1>1. IInv /\ ChainInv => FinishedMeansDrained
  <2> SUFFICES ASSUME IInv, ChainInv, NEW q \in Whole, finished[q] = serial[q]
               PROVE  LET all == PacketsFrom(q, StartOf(serial[q])) IN
                      /\ \A i \in DOMAIN pkts[q] : pkts[q][i].pkt \notin Data
                      /\ codec[q] = <<>>
                      /\ {temp_pkt[q], pending[q], got[q]} \cap Data = {}
                      /\ all # {} => /\ last[q].serial = serial[q]
                                     /\ last[q].pkt.pos = Max(all)
    BY DEF FinishedMeansDrained, Whole
  <2> DEFINE all == PacketsFrom(q, StartOf(serial[q]))
  <2>1. /\ q \in Streams /\ StreamChain(q) /\ ThreadSerials(q)
        /\ LastKnown(q) /\ DecoderChain(q) /\ NullsLast(q)
    BY DEF Whole, ChainInv, StreamChain, ThreadChain
  <2>2. /\ serial[q] >= 1 /\ serial[q] \in Int /\ pkt_serial[q] \in Int
        /\ pkt_serial[q] <= serial[q] /\ finished[q] \in Int
        /\ last[q].serial \in Int /\ serial[q] <= Len(targets) + 1
    BY <2>1, SerialAtLeastOne DEF IInv, Shapes, ChainInv, LastShape
  <2>3. pkt_serial[q] = serial[q] /\ temp_pkt[q] # FlushPacket
    BY <2>1, <2>2 DEF ThreadSerials
  <2>4. Current(q) /\ Live(q) /\ Done(q) /\ Over(q) /\ NullHeld(q)
    BY <2>2, <2>3 DEF Current, Live, Done, Over, NullHeld
  <2>5. Chained(q, Shown(q), got[q], codec[q], Over(q), Done(q), temp_pkt[q],
                pending[q])
    BY <2>1, <2>3, <2>4 DEF DecoderChain
  <2>6. codec[q] = <<>> /\ got[q] = NoPacket
    BY <2>4, <2>5 DEF Chained
  <2>7. temp_pkt[q] \notin Data /\ pending[q] \notin Data
    BY <2>4, <2>5, NothingBehindEnd DEF Chained, AfterDrain
  <2>8. \A i \in DOMAIN pkts[q] : pkts[q][i].pkt \notin Data
    <3>1. DOMAIN pkts[q] = 1 .. Len(pkts[q])
      BY <2>1 DEF IInv, Shapes
    <3>2. QED
      BY <2>1, <2>4, <3>1, Constants DEF NullsLast
  <2>9. Gap(q, Shown(q), Len(File) + 1)
    BY <2>4, <2>5, <2>6 DEF Chained, AfterCodec, AfterGot
  <2>10. StartOf(serial[q]) = Start(targets, serial[q])
    BY DEF StartOf, Start
  <2>11. StartOf(serial[q]) \in Int /\ Len(File) \in Nat
    BY <2>2, <2>10, StartIsPosition, PipelineAssumption DEF Positions
  <2>12. ASSUME last[q].serial # serial[q]
         PROVE  all = {}
    <3>1. Shown(q) = StartOf(serial[q]) - 1
      BY <2>3, <2>10, <2>12 DEF Shown
    <3>2. QED
      BY <2>9, <2>11, <3>1 DEF Gap, PacketsFrom
  <2>13. ASSUME last[q].serial = serial[q]
         PROVE  last[q].pkt.pos = Max(all)
    <3>1. last[q].pkt.pos \in all
      BY <2>1, <2>2, <2>10, <2>13 DEF LastKnown
    <3>2. Shown(q) = last[q].pkt.pos
      BY <2>3, <2>13 DEF Shown
    <3>3. all \in SUBSET Int
      BY <2>11 DEF PacketsFrom
    <3>4. \A i \in all : i <= last[q].pkt.pos
      BY <2>9, <2>11, <3>1, <3>2, <3>3 DEF Gap, PacketsFrom
    <3>5. QED
      BY <3>1, <3>3, <3>4, MaxIs
  <2>14. QED
    BY <2>6, <2>7, <2>8, <2>12, <2>13, Constants
<1>2. QED
  BY <1>1, InductiveCorrect, ChainCorrect, PTL

(* Which step puts a frame into the queue, and which frame.               *)
LEMMA OthersShow ==
    ASSUME IInv, ChainInv, [Next]_vars, NEW q \in Streams, last'[q] # last[q]
    PROVE  /\ Dec!PushFrame(q) \/ Dec!DropLateFrame(q)
           /\ UNCHANGED readerOwn
<1>1. LastShape
  BY DEF ChainInv
<1>2. PICK r \in Streams : Decoder(r) /\ ~UNCHANGED last
  BY DEF Next, vars, Reader, ReaderSpuriousWake, User, decoderVars,
     DecoderSpuriousWake, Dec!SpuriousWake, Dec!decoderVars, Dec!frameVars,
     Renderer, Dec!TakeFrame
<1>3. /\ Dec!PushFrame(r) \/ Dec!DropLateFrame(r)
      /\ UNCHANGED readerOwn
  BY <1>2 DEF Decoder, Dec!DecodeFrame, Dec!StartRound, Dec!ReceiveFrame,
     Dec!ReceiveAgain, Dec!ReceiveEnd, Dec!Fill, Dec!DequeuePacket,
     Dec!DequeueNothing, Dec!WaitForPackets, Dec!KeepPacket, Dec!DropPacket,
     Dec!SendFlush, Dec!SendData, Dec!SendNull, Dec!SendRefused, Dec!Sent,
     Dec!frameVars
<1>4. last' = [last EXCEPT ![r] = Dec!Frame(got[r], pkt_serial[r])]
  BY <1>3 DEF Dec!PushFrame, Dec!DropLateFrame, Dec!FrameDone
<1>5. r = q
  BY <1>1, <1>4 DEF LastShape
<1>6. QED
  BY <1>3, <1>5

(***************************************************************************)
(* The frames of a stream leave its decoder in the order of the file,      *)
(* without a gap and without a repetition, from the position sought.       *)
(***************************************************************************)
THEOREM OrderCorrect == Spec => FramesInOrder
<1> DEFINE InOrder(q) ==
      LET from == IF last'[q].serial = last[q].serial
                    THEN last[q].pkt.pos + 1
                    ELSE StartOf(last'[q].serial)
      IN  /\ last'[q].serial >= last[q].serial
          /\ last'[q].pkt.pos = Min(PacketsFrom(q, from))
<1>1. ASSUME IInv, ChainInv, [Next]_vars, NEW q \in Whole, last'[q] # last[q]
      PROVE  InOrder(q)
  <2>1. q \in Streams /\ StreamChain(q) /\ ReaderChain(q) /\ LastShape
    BY <1>1 DEF Whole, ChainInv
  <2>2. Dec!FrameDone(q) /\ UNCHANGED readerOwn
    BY <1>1, <2>1, OthersShow DEF Dec!PushFrame, Dec!DropLateFrame
  <2>3. ChainQuiet
    BY <2>2 DEF ChainQuiet, Dec!FrameDone, Dec!queueVars, readerOwn
  <2>4. /\ got[q] \in Data /\ Follows(q, Shown(q), got[q])
        /\ last'[q].serial = pkt_serial[q] /\ last'[q].pkt = got[q]
        /\ pkt_serial[q] >= 1
    BY <1>1, <2>1, <2>2, <2>3, ChainPushes
  <2>5. last[q].serial <= pkt_serial[q] /\ LastKnown(q)
    BY <2>1 DEF StreamChain, ThreadChain, ThreadSerials
  <2>6. /\ pkt_serial[q] \in Int /\ last[q].serial \in Int
        /\ pkt_serial[q] <= Len(targets) + 1 /\ Len(targets) \in Nat
    <3>1. /\ serial[q] \in Int /\ pkt_serial[q] \in Int
          /\ pkt_serial[q] <= serial[q] /\ serial[q] <= Len(targets) + 1
          /\ Len(targets) \in Nat
      BY <1>1, <2>1, SerialAtLeastOne
    <3>2. last[q].serial \in Int
      BY <2>1 DEF LastShape
    <3>3. QED
      BY <3>1, <3>2
  <2> DEFINE from == IF last'[q].serial = last[q].serial
                       THEN last[q].pkt.pos + 1
                       ELSE StartOf(last'[q].serial)
  <2>7. from \in Int /\ Shown(q) = from - 1
    <3>1. CASE last[q].serial = pkt_serial[q]
      <4>1. last[q].pkt \in Data
        BY <2>4, <2>5, <3>1 DEF LastKnown
      <4>2. QED
        BY <2>4, <3>1, <4>1 DEF Shown, Data
    <3>2. CASE last[q].serial # pkt_serial[q]
      <4>1. Start(targets, pkt_serial[q]) \in Int
        BY <1>1, <2>4, <2>6, StartIsPosition DEF Positions
      <4>2. StartOf(pkt_serial[q]) = Start(targets, pkt_serial[q])
        BY DEF StartOf, Start
      <4>3. QED
        BY <2>4, <3>2, <4>1, <4>2 DEF Shown
    <3>3. QED
      BY <3>1, <3>2
  <2> HIDE DEF from
  <2>8. /\ got[q].pos \in Int /\ Len(File) \in Nat
        /\ from - 1 < got[q].pos /\ got[q].pos <= Len(File)
        /\ File[got[q].pos] = q /\ Gap(q, from - 1, got[q].pos)
    BY <2>4, <2>7, PipelineAssumption DEF Follows, Data
  <2>9. got[q].pos \in PacketsFrom(q, from)
    BY <2>7, <2>8 DEF PacketsFrom
  <2>10. PacketsFrom(q, from) \in SUBSET Int
    BY <2>7 DEF PacketsFrom
  <2>11. \A i \in PacketsFrom(q, from) : got[q].pos <= i
    BY <2>7, <2>8, <2>10 DEF PacketsFrom, Gap
  <2>12. got[q].pos = Min(PacketsFrom(q, from))
    BY <2>9, <2>10, <2>11, MinIs
  <2>13. QED
    BY <2>4, <2>5, <2>6, <2>12 DEF from
<1>2. IInv /\ ChainInv /\ [Next]_vars =>
        [\A q \in Streams \ Covers : last'[q] # last[q] => InOrder(q)]_vars
  BY <1>1 DEF Whole
<1>3. QED
  BY <1>2, InductiveCorrect, ChainCorrect, PTL DEF Spec, FramesInOrder

(***************************************************************************)
(* What is buffered.  With at most two streams the sum of isNeedReadMore   *)
(* is one or two sizes.                                                    *)
(***************************************************************************)
In(q) == IF q \in Streams THEN 1 ELSE 0
Both(f) == (IF Audio \in Streams THEN f[Audio] ELSE 0)
           + (IF Video \in Streams THEN f[Video] ELSE 0)
Limit == MaxQueueSize + In(Audio) + In(Video)

LEMMA SumIsBoth ==
    ASSUME size \in [Streams -> Int]
    PROVE  Source!Buffered = Both(size)
<1> DEFINE it == CHOOSE g : g = [S \in SUBSET Streams |->
                    IF S = {} THEN 0
                    ELSE size[CHOOSE x \in S : TRUE]
                         + g[S \ {CHOOSE x \in S : TRUE}]]
           h == [S \in SUBSET Streams |->
                    (IF Audio \in S THEN size[Audio] ELSE 0)
                    + (IF Video \in S THEN size[Video] ELSE 0)]
<1>1. Source!Buffered = it[Streams]
  BY DEF Source!Buffered, Source!MapThenSumSet, Source!MapThenFoldSet
<1>2. \A S \in SUBSET Streams : S # {} => (CHOOSE x \in S : TRUE) \in S
  OBVIOUS
<1>3. \A S \in SUBSET Streams : \A x \in S : h[S] = size[x] + h[S \ {x}]
  <2> SUFFICES ASSUME NEW S \in SUBSET Streams, NEW x \in S
               PROVE  h[S] = size[x] + h[S \ {x}]
    OBVIOUS
  <2>1. S \ {x} \in SUBSET Streams /\ x \in {Audio, Video} /\ Audio # Video
    BY PipelineAssumption
  <2>2. size[x] \in Int /\ (Audio \in S => size[Audio] \in Int)
        /\ (Video \in S => size[Video] \in Int)
    OBVIOUS
  <2>3. CASE x = Audio
    <3>1. /\ Audio \in S /\ Audio \notin S \ {x}
          /\ Video \in S <=> Video \in S \ {x}
      BY <2>1, <2>3
    <3>2. QED
      BY <2>1, <2>2, <2>3, <3>1
  <2>4. CASE x = Video
    <3>1. /\ Video \in S /\ Video \notin S \ {x}
          /\ Audio \in S <=> Audio \in S \ {x}
      BY <2>1, <2>4
    <3>2. QED
      BY <2>1, <2>2, <2>4, <3>1
  <2>5. QED
    BY <2>1, <2>3, <2>4
<1>4. h[{}] = 0
  OBVIOUS
<1>5. h = [S \in SUBSET Streams |->
             IF S = {} THEN 0
             ELSE size[CHOOSE x \in S : TRUE] + h[S \ {CHOOSE x \in S : TRUE}]]
  <2>1. ASSUME NEW S \in SUBSET Streams
        PROVE  h[S] = IF S = {} THEN 0
                      ELSE size[CHOOSE x \in S : TRUE]
                           + h[S \ {CHOOSE x \in S : TRUE}]
    <3> HIDE DEF h
    <3>1. QED
      BY <1>2, <1>3, <1>4
  <2>2. QED
    BY <2>1
<1>6. it = [S \in SUBSET Streams |->
              IF S = {} THEN 0
              ELSE size[CHOOSE x \in S : TRUE] + it[S \ {CHOOSE x \in S : TRUE}]]
  <2> HIDE DEF h
  <2>1. QED
    BY <1>5, Zenon
<1> HIDE DEF it
<1>7. \A S \in SUBSET Streams : S # {} =>
        \E x \in S : it[S] = size[x] + it[S \ {x}]
  BY <1>2, <1>6
<1>8. it[{}] = 0 /\ {} \in SUBSET Streams
  BY <1>6
<1>9. \A x \in Streams : it[{x}] = size[x]
  <2> SUFFICES ASSUME NEW x \in Streams
               PROVE  it[{x}] = size[x]
    OBVIOUS
  <2>1. PICK y \in {x} : it[{x}] = size[y] + it[{x} \ {y}]
    BY <1>7
  <2>2. y = x /\ {x} \ {y} = {} /\ size[x] \in Int
    BY <2>1
  <2>3. it[{x} \ {y}] = 0
    BY <1>8, <2>2, Zenon
  <2>4. it[{x}] = size[x] + 0
    BY <2>1, <2>2, <2>3, Zenon
  <2>5. QED
    BY <2>2, <2>4
<1>10. it[Streams] = Both(size)
  <2>1. Streams \subseteq {Audio, Video} /\ Streams # {} /\ Audio # Video
    BY PipelineAssumption
  <2>2. CASE Audio \notin Streams
    <3>1. Streams = {Video} /\ Video \in Streams /\ size[Video] \in Int
      BY <2>1, <2>2
    <3>2. it[{Video}] = size[Video]
      BY <1>9, <3>1
    <3>3. QED
      BY <2>2, <3>1, <3>2 DEF Both
  <2>3. CASE Video \notin Streams
    <3>1. Streams = {Audio} /\ Audio \in Streams /\ size[Audio] \in Int
      BY <2>1, <2>3
    <3>2. it[{Audio}] = size[Audio]
      BY <1>9, <3>1
    <3>3. QED
      BY <2>3, <3>1, <3>2 DEF Both
  <2>4. CASE Audio \in Streams /\ Video \in Streams
    <3>1. PICK x \in Streams : it[Streams] = size[x] + it[Streams \ {x}]
      BY <1>7, <2>1
    <3>2. /\ x = Audio => Streams \ {x} = {Video}
          /\ x = Video => Streams \ {x} = {Audio}
          /\ x \in {Audio, Video}
      BY <2>1, <2>4
    <3>3. /\ it[{Audio}] = size[Audio] /\ it[{Video}] = size[Video]
          /\ size[Audio] \in Int /\ size[Video] \in Int
      BY <1>9, <2>4
    <3>4. \/ it[Streams] = size[Audio] + size[Video]
          \/ it[Streams] = size[Video] + size[Audio]
      BY <3>1, <3>2, <3>3, Zenon
    <3>5. QED
      BY <2>4, <3>3, <3>4 DEF Both
  <2>5. QED
    BY <2>2, <2>3, <2>4
<1>11. QED
  BY <1>1, <1>10

LEMMA CountStreams == In(Audio) + In(Video) = Cardinality(Streams)
<1>1. /\ Streams \subseteq {Audio, Video} /\ Streams # {} /\ Audio # Video
  BY PipelineAssumption
<1>2. \A x : Cardinality({x}) = 1 /\ IsFiniteSet({x})
  BY FS_Singleton
<1>3. CASE Audio \in Streams /\ Video \in Streams
  <2>1. Streams = {Audio} \union {Video} /\ Video \notin {Audio}
    BY <1>1, <1>3
  <2>2. Cardinality({Audio} \union {Video}) = Cardinality({Audio}) + 1
    BY <1>2, <2>1, FS_AddElement
  <2>3. QED
    BY <1>2, <1>3, <2>1, <2>2 DEF In
<1>4. CASE Audio \notin Streams
  <2>1. Streams = {Video}
    BY <1>1, <1>4
  <2>2. In(Video) = 1 /\ In(Audio) = 0
    BY <1>4, <2>1 DEF In
  <2>3. Cardinality(Streams) = 1
    BY <1>2, <2>1
  <2>4. QED
    BY <2>2, <2>3
<1>5. CASE Video \notin Streams
  <2>1. Streams = {Audio} /\ In(Audio) = 1 /\ In(Video) = 0
    BY <1>1, <1>5 DEF In
  <2>2. QED
    BY <1>2, <2>1
<1>6. QED
  BY <1>3, <1>4, <1>5

(***************************************************************************)
(* The reader tests what is buffered before it reads, a seek empties one   *)
(* queue after the other, and a decoder only takes packets away.           *)
(***************************************************************************)
Sized == size \in [Streams -> Int] /\ \A q \in Streams : size[q] = Len(pkts[q])
ReadBound ==
    /\ rpc \notin {"flush", "mark"} => Both(size) <= Limit
    /\ rpc \in {"read", "queue"} => Both(size) <= MaxQueueSize
    /\ rpc = "drain" => Both(size) + Len(left) <= Limit
SeekBound ==
    rpc \in {"flush", "mark"} =>
      /\ (\A q \in Streams : Left(q)) => Both(size) <= Limit
      /\ \A q \in Streams : size[q] <= Limit /\ (~Left(q) => size[q] <= 1)
      /\ rpc = "mark" => size[Head(left)] = 0
SizeInv == Sized /\ ReadBound /\ SeekBound

LEMMA LimitFacts ==
    /\ MaxQueueSize \in Nat /\ Limit \in Int
    /\ In(Audio) \in {0, 1} /\ In(Video) \in {0, 1}
    /\ Limit = MaxQueueSize + In(Audio) + In(Video)
    /\ In(Audio) + In(Video) >= 1
  BY PipelineAssumption DEF Limit, In

LEMMA BothFacts ==
    ASSUME NEW f \in [Streams -> Int], NEW g \in [Streams -> Int]
    PROVE  /\ Both(f) \in Int
           /\ (\A q \in Streams : f[q] <= g[q]) => Both(f) <= Both(g)
           /\ (\A q \in Streams : 0 <= f[q]) =>
                \A q \in Streams : f[q] <= Both(f)
           /\ (\A q \in Streams : f[q] <= 1) => Both(f) <= In(Audio) + In(Video)
           /\ \A b \in Int, r \in Streams :
                f[r] <= 1 /\ b >= 0 /\ (\A q \in Streams : f[q] <= b) =>
                  Both(f) <= b + 1
           /\ \A r \in Streams, d \in Int :
                g[r] = f[r] + d /\ (\A q \in Streams : q # r => g[q] = f[q]) =>
                  Both(g) = Both(f) + d
<1>1. /\ Streams \subseteq {Audio, Video} /\ Audio # Video /\ Streams # {}
      /\ Audio \in Streams => f[Audio] \in Int /\ g[Audio] \in Int
      /\ Video \in Streams => f[Video] \in Int /\ g[Video] \in Int
  BY PipelineAssumption
<1>2. /\ Both(f) \in Int
      /\ (\A q \in Streams : f[q] <= g[q]) => Both(f) <= Both(g)
  BY <1>1 DEF Both
<1>3. /\ (\A q \in Streams : 0 <= f[q]) => \A q \in Streams : f[q] <= Both(f)
      /\ (\A q \in Streams : f[q] <= 1) => Both(f) <= In(Audio) + In(Video)
  BY <1>1 DEF Both, In
<1>4. ASSUME NEW b \in Int, NEW r \in Streams, f[r] <= 1, b >= 0,
             \A q \in Streams : f[q] <= b
      PROVE  Both(f) <= b + 1
  BY <1>1, <1>4 DEF Both
<1>5. ASSUME NEW r \in Streams, NEW d \in Int, g[r] = f[r] + d,
             \A q \in Streams : q # r => g[q] = f[q]
      PROVE  Both(g) = Both(f) + d
  <2>1. CASE r = Audio
    BY <1>1, <1>5, <2>1 DEF Both
  <2>2. CASE r = Video
    BY <1>1, <1>5, <2>2 DEF Both
  <2>3. QED
    BY <1>1, <2>1, <2>2
<1>6. QED
  BY <1>2, <1>3, <1>4, <1>5

LEMMA SizeSmaller ==
    ASSUME IInv, IInv', SizeInv, Sized', UNCHANGED <<rpc, left>>,
           \A q \in Streams : size'[q] <= size[q]
    PROVE  SizeInv'
<1>1. /\ size \in [Streams -> Int] /\ size' \in [Streams -> Int]
      /\ left \in Seq(Streams)
  BY DEF SizeInv, Sized, IInv, ReaderInv, ReaderShapes
<1>2. Both(size') <= Both(size) /\ Both(size') \in Int /\ Both(size) \in Int
  BY <1>1, BothFacts
<1>3. Len(left) \in Nat /\ Limit \in Int /\ MaxQueueSize \in Int
  BY <1>1, LimitFacts
<1>4. ReadBound'
  BY <1>2, <1>3 DEF SizeInv, ReadBound
<1>5. \A q \in Streams : Left(q)' = Left(q)
  BY DEF Left
<1>6. \A q \in Streams : size'[q] \in Nat /\ size[q] \in Nat
  <2>1. \A q \in Streams : pkts[q] \in Seq(AnyEntry) /\ pkts'[q] \in Seq(AnyEntry)
    BY DEF IInv, Shapes
  <2>2. \A q \in Streams : Len(pkts[q]) \in Nat /\ Len(pkts'[q]) \in Nat
    BY <2>1, LenProperties
  <2>3. \A q \in Streams : size'[q] = Len(pkts'[q]) /\ size[q] = Len(pkts[q])
    BY DEF SizeInv, Sized
  <2>4. QED
    BY <2>2, <2>3
<1>7. rpc = "mark" => Head(left) \in Streams
  BY <1>1, TailFacts DEF IInv, ReaderInv, ReaderKnown
<1>8. SeekBound'
  BY <1>1, <1>2, <1>3, <1>5, <1>6, <1>7 DEF SizeInv, SeekBound
<1>9. QED
  BY <1>4, <1>8 DEF SizeInv

LEMMA SizesAreNat ==
    ASSUME Shapes, Sized
    PROVE  /\ size \in [Streams -> Nat] /\ size \in [Streams -> Int]
           /\ \A q \in Streams : Len(pkts[q]) \in Nat /\ pkts[q] \in Seq(AnyEntry)
<1>1. \A q \in Streams : pkts[q] \in Seq(AnyEntry)
  BY DEF Shapes
<1>2. \A q \in Streams : Len(pkts[q]) \in Nat
  BY <1>1, LenProperties
<1>3. QED
  BY <1>1, <1>2 DEF Sized

LEMMA PutSizes ==
    ASSUME Shapes, Sized, NEW q \in Streams, NEW p \in Packets, Source!PQ!Put(q, p)
    PROVE  /\ Sized' /\ Both(size') = Both(size) + 1
           /\ size'[q] = size[q] + 1
           /\ \A r \in Streams : r # q => size'[r] = size[r]
<1>1. PktSize[p] = 1
  BY DEF PktSize, Packets
<1>2. \E e : e \in AnyEntry /\ pkts' = [pkts EXCEPT ![q] = Append(@, e)]
  <2> DEFINE n == Source!PQ!Stamp(q, p)
             e == [pkt |-> p, serial |-> n]
  <2>1. n \in Int
    BY DEF Shapes, Source!PQ!Stamp
  <2>2. e \in AnyEntry
    <3> HIDE DEF n
    <3>1. QED
      BY <2>1 DEF AnyEntry
  <2>3. pkts' = [pkts EXCEPT ![q] = Append(@, e)]
    BY DEF Source!PQ!Put, Source!PQ!PutAccepted, Shapes
  <2>4. QED
    BY <2>2, <2>3, Zenon
<1>3. size' = [size EXCEPT ![q] = @ + 1]
  BY <1>1 DEF Source!PQ!Put, Source!PQ!PutAccepted, Shapes
<1>4. /\ size \in [Streams -> Int]
      /\ Len(pkts[q]) \in Nat /\ pkts[q] \in Seq(AnyEntry)
  BY SizesAreNat
<1>5. PICK e \in AnyEntry : pkts' = [pkts EXCEPT ![q] = Append(@, e)]
  BY <1>2
<1>6. Len(pkts'[q]) = Len(pkts[q]) + 1 /\ \A r \in Streams : r # q => pkts'[r] = pkts[r]
  BY <1>4, <1>5, AppendFacts DEF Shapes
<1>7. /\ size' \in [Streams -> Int] /\ size'[q] = size[q] + 1
      /\ \A r \in Streams : r # q => size'[r] = size[r]
  BY <1>3, <1>4
<1>8. Sized'
  BY <1>6, <1>7 DEF Sized
<1>9. Both(size') = Both(size) + 1
  BY <1>4, <1>7, BothFacts
<1>10. QED
  BY <1>7, <1>8, <1>9

LEMMA FlushSizes ==
    ASSUME Shapes, Sized, NEW q \in Streams, Source!PQ!Flush(q)
    PROVE  /\ Sized' /\ size'[q] = 0
           /\ \A r \in Streams : r # q => size'[r] = size[r]
<1>1. /\ pkts' = [pkts EXCEPT ![q] = <<>>] /\ size' = [size EXCEPT ![q] = 0]
  BY DEF Source!PQ!Flush
<1>2. size \in [Streams -> Int]
  BY SizesAreNat
<1>3. /\ size' \in [Streams -> Int] /\ size'[q] = 0 /\ pkts'[q] = <<>>
      /\ \A r \in Streams : r # q => size'[r] = size[r] /\ pkts'[r] = pkts[r]
  BY <1>1, <1>2 DEF Shapes
<1>4. Len(pkts'[q]) = 0
  BY <1>3, EmptySeq
<1>5. QED
  BY <1>3, <1>4 DEF Sized

LEMMA TakeSizes ==
    ASSUME Shapes, Sized, NEW q \in Streams, Dec!PQ!Take(q)
    PROVE  Sized' /\ \A r \in Streams : size'[r] <= size[r]
<1>1. /\ pkts[q] # <<>> /\ pkts' = [pkts EXCEPT ![q] = Tail(@)]
      /\ size' = [size EXCEPT ![q] = @ - PktSize[Head(pkts[q]).pkt]]
  BY DEF Dec!PQ!Take, Dec!PQ!HasPacket
<1>2. size \in [Streams -> Int] /\ pkts[q] \in Seq(AnyEntry)
  BY SizesAreNat
<1>3. /\ Head(pkts[q]) \in AnyEntry /\ Len(Tail(pkts[q])) = Len(pkts[q]) - 1
      /\ Len(pkts[q]) \in Nat
  BY <1>1, <1>2, TailFacts
<1>4. Head(pkts[q]).pkt \in Packets
  BY <1>3 DEF AnyEntry
<1>5. PktSize[Head(pkts[q]).pkt] = 1
  BY <1>4 DEF PktSize, Packets
<1>6. /\ size' \in [Streams -> Int] /\ size'[q] = size[q] - 1
      /\ pkts'[q] = Tail(pkts[q])
      /\ \A r \in Streams : r # q => size'[r] = size[r] /\ pkts'[r] = pkts[r]
  BY <1>1, <1>2, <1>5 DEF Shapes
<1>7. Sized'
  BY <1>3, <1>6 DEF Sized
<1>8. \A r \in Streams : size'[r] <= size[r]
  BY <1>2, <1>6
<1>9. QED
  BY <1>7, <1>8

LEMMA DrainIsShort ==
    /\ Source!DrainOrder \in Seq(Streams)
    /\ Len(Source!DrainOrder) = In(Audio) + In(Video)
<1>1. \A q \in {Audio, Video} :
        Source!IfOpened(q) \in Seq(Streams) /\ Len(Source!IfOpened(q)) = In(q)
  <2> SUFFICES ASSUME NEW q \in {Audio, Video}
               PROVE  /\ Source!IfOpened(q) \in Seq(Streams)
                      /\ Len(Source!IfOpened(q)) = In(q)
    OBVIOUS
  <2>1. CASE q \in Streams
    <3>1. Source!IfOpened(q) = <<q>>
      BY <2>1 DEF Source!IfOpened
    <3>2. <<q>> \in Seq(Streams) /\ Len(<<q>>) = 1
      BY <2>1
    <3>3. QED
      BY <2>1, <3>1, <3>2 DEF In
  <2>2. CASE q \notin Streams
    <3>1. Source!IfOpened(q) = <<>>
      BY <2>2 DEF Source!IfOpened
    <3>2. QED
      BY <2>2, <3>1, EmptySeq DEF In
  <2>3. QED
    BY <2>1, <2>2
<1>2. Len(Source!DrainOrder) = In(Video) + In(Audio)
  BY <1>1, ConcatProperties DEF Source!DrainOrder
<1>3. QED
  BY <1>2, OrderFacts, LimitFacts

LEMMA ReaderRests ==
    ASSUME IInv, SizeInv, UNCHANGED <<pkts, size>>, ~InfiniteBuffer,
           \/ Source!NoSeek \/ Source!SeekFails \/ Source!EndSeek
           \/ Source!NoPicture \/ Source!TestQueues \/ Source!WaitForDecoders
           \/ Source!ReadPacket \/ Source!ReadError \/ Source!SetEof
           \/ Source!IoError \/ Source!Nap
    PROVE  SizeInv'
<1>1. /\ rpc \notin {"flush", "mark"}
      /\ rpc' \notin {"flush", "mark", "drain"}
      /\ rpc' \in {"read", "queue"} =>
            rpc = "read" \/ (rpc = "need" /\ Source!NeedReadMore)
  BY DEF Source!NoSeek, Source!SeekFails, Source!EndSeek, Source!NoPicture,
     Source!TestQueues, Source!WaitForDecoders, Source!ReadPacket,
     Source!ReadError, Source!SetEof, Source!IoError, Source!Nap, Source!Goto
<1>2. size \in [Streams -> Int]
  BY DEF SizeInv, Sized
<1>3. Source!NeedReadMore => Both(size) <= MaxQueueSize
  BY <1>2, SumIsBoth DEF Source!NeedReadMore
<1>4. Sized'
  BY DEF SizeInv, Sized
<1>5. ReadBound'
  BY <1>1, <1>3 DEF SizeInv, ReadBound
<1>6. SeekBound'
  BY <1>1 DEF SeekBound
<1>7. QED
  BY <1>4, <1>5, <1>6 DEF SizeInv

LEMMA ReadEndSizes ==
    ASSUME IInv, SizeInv, UNCHANGED <<pkts, size>>, Source!ReadEnd
    PROVE  SizeInv'
<1>1. rpc = "read" /\ rpc' = "drain" /\ left' = Source!DrainOrder
  BY DEF Source!ReadEnd, Source!Goto
<1>2. size \in [Streams -> Int] /\ Both(size) \in Int
  BY BothFacts DEF SizeInv, Sized
<1>3. Sized'
  BY DEF SizeInv, Sized
<1>4. ReadBound'
  BY <1>1, <1>2, DrainIsShort, LimitFacts DEF SizeInv, ReadBound
<1>5. SeekBound'
  BY <1>1 DEF SeekBound
<1>6. QED
  BY <1>3, <1>4, <1>5 DEF SizeInv

LEMMA SeekFileSizes ==
    ASSUME IInv, SizeInv, UNCHANGED <<pkts, size>>, Source!SeekFile
    PROVE  SizeInv'
<1>1. /\ rpc = "seek" /\ rpc' = "flush" /\ left' = Source!FlushOrder
  BY DEF Source!SeekFile, Source!Goto
<1>2. \A q \in Streams : Left(q)'
  BY <1>1, OrderFacts DEF Left
<1>3. size \in [Streams -> Int] /\ \A q \in Streams : 0 <= size[q]
  BY SizesAreNat DEF IInv, SizeInv
<1>4. Both(size) \in Int /\ \A q \in Streams : size[q] <= Both(size)
  BY <1>3, BothFacts
<1>5. Both(size) <= Limit
  BY <1>1 DEF SizeInv, ReadBound
<1>6. \A q \in Streams : size[q] <= Limit
  BY <1>3, <1>4, <1>5, LimitFacts
<1>7. Sized' /\ ReadBound' /\ SeekBound'
  BY <1>1, <1>2, <1>5, <1>6 DEF SizeInv, Sized, ReadBound, SeekBound
<1>8. QED
  BY <1>7 DEF SizeInv

LEMMA FlushQueueSizes ==
    ASSUME IInv, SizeInv, Source!FlushQueue
    PROVE  SizeInv'
<1>1. /\ rpc = "flush" /\ rpc' = "mark" /\ left' = left
      /\ Source!PQ!Flush(Head(left))
  BY DEF Source!FlushQueue, Source!Goto
<1>2. PICK h \in Streams : h = Head(left)
  BY <1>1, TailFacts DEF IInv, ReaderInv, ReaderShapes, ReaderKnown
<1>3. /\ Sized' /\ size'[h] = 0
      /\ \A r \in Streams : r # h => size'[r] = size[r]
  BY <1>1, <1>2, FlushSizes DEF IInv, SizeInv
<1>4. /\ size \in [Streams -> Nat] /\ size \in [Streams -> Int]
      /\ size' \in [Streams -> Int]
  BY <1>3, SizesAreNat DEF IInv, SizeInv, Sized
<1>5. \A q \in Streams : size'[q] <= size[q]
  BY <1>3, <1>4
<1>6. Both(size') <= Both(size) /\ Both(size') \in Int /\ Both(size) \in Int
  BY <1>4, <1>5, BothFacts
<1>7. \A q \in Streams : Left(q)' = Left(q)
  BY <1>1 DEF Left
<1>8. ReadBound'
  BY <1>1 DEF ReadBound
<1>9. /\ (\A q \in Streams : Left(q)) => Both(size) <= Limit
      /\ \A q \in Streams : size[q] <= Limit /\ (~Left(q) => size[q] <= 1)
  BY <1>1 DEF SizeInv, SeekBound
<1>10. SeekBound'
  <2>1. (\A q \in Streams : Left(q)') => Both(size') <= Limit
    BY <1>6, <1>7, <1>9, LimitFacts
  <2>2. \A q \in Streams : size'[q] <= Limit /\ (~Left(q)' => size'[q] <= 1)
    BY <1>4, <1>5, <1>7, <1>9, LimitFacts
  <2>3. size'[Head(left')] = 0
    BY <1>1, <1>2, <1>3
  <2>4. QED
    BY <2>1, <2>2, <2>3 DEF SeekBound
<1>11. QED
  BY <1>3, <1>8, <1>10 DEF SizeInv

LEMMA MarkQueueSizes ==
    ASSUME IInv, SizeInv, Source!MarkQueue
    PROVE  SizeInv'
<1>1. /\ rpc = "mark" /\ rpc' = (IF Len(left) = 1 THEN "sought" ELSE "flush")
      /\ left' = Tail(left) /\ Source!PQ!Put(Head(left), FlushPacket)
  BY DEF Source!MarkQueue, Source!Goto
<1>2. left \in Seq(Streams) /\ left # <<>>
      /\ \A i, j \in 1 .. Len(left) : left[i] = left[j] => i = j
  BY <1>1 DEF IInv, ReaderInv, ReaderShapes, ReaderKnown
<1>3. PICK h \in Streams : h = Head(left)
  BY <1>2, TailFacts
<1>4. /\ Sized' /\ size'[h] = size[h] + 1
      /\ \A r \in Streams : r # h => size'[r] = size[r]
  BY <1>1, <1>3, PutSizes, Constants DEF IInv, SizeInv
<1>5. /\ size \in [Streams -> Int] /\ size' \in [Streams -> Int]
  BY <1>4 DEF SizeInv, Sized
<1>6. /\ \A q \in Streams : size[q] <= Limit /\ (~Left(q) => size[q] <= 1)
      /\ size[h] = 0
  BY <1>1, <1>3 DEF SizeInv, SeekBound
<1>7. size'[h] = 1
  BY <1>4, <1>6
<1>8. /\ Tail(left) \in Seq(Streams) /\ Len(Tail(left)) = Len(left) - 1
      /\ Len(left) \in Nat /\ Len(left) >= 1 /\ left[1] = h
      /\ \A i \in 1 .. Len(Tail(left)) :
           Tail(left)[i] = left[i + 1] /\ i + 1 \in 1 .. Len(left)
  BY <1>2, <1>3, TailFacts
<1>9. \A q \in Streams : Left(q)' <=> (Left(q) /\ q # h)
  <2> SUFFICES ASSUME NEW q \in Streams
               PROVE  Left(q)' <=> (Left(q) /\ q # h)
    OBVIOUS
  <2>1. ASSUME NEW i \in 1 .. Len(Tail(left)), Tail(left)[i] = q
        PROVE  Left(q) /\ q # h
    <3>1. left[i + 1] = q /\ i + 1 \in 1 .. Len(left) /\ i + 1 # 1
      BY <1>8, <2>1
    <3>2. 1 \in 1 .. Len(left)
      BY <1>8
    <3>3. QED
      BY <1>2, <1>8, <3>1, <3>2 DEF Left
  <2>2. ASSUME NEW i \in 1 .. Len(left), left[i] = q, q # h
        PROVE  \E j \in 1 .. Len(Tail(left)) : Tail(left)[j] = q
    <3>1. i # 1
      BY <1>8, <2>2
    <3>2. i - 1 \in 1 .. Len(Tail(left)) /\ (i - 1) + 1 = i
      BY <1>8, <3>1
    <3>3. QED
      BY <1>8, <2>2, <3>2
  <2>3. QED
    BY <1>1, <2>1, <2>2 DEF Left
<1>10. ReadBound'
  <2>1. CASE Len(left) = 1
    <3>1. \A q \in Streams : Left(q) => q = h
      BY <1>8, <2>1 DEF Left
    <3>2. \A q \in Streams : size'[q] <= 1
      BY <1>4, <1>6, <1>7, <3>1
    <3>3. Both(size') <= In(Audio) + In(Video) /\ Both(size') \in Int
      BY <1>5, <3>2, BothFacts
    <3>4. Both(size') <= Limit
      BY <3>3, LimitFacts
    <3>5. QED
      BY <1>1, <2>1, <3>4 DEF ReadBound
  <2>2. CASE Len(left) # 1
    BY <1>1, <2>2 DEF ReadBound
  <2>3. QED
    BY <2>1, <2>2
<1>11. SeekBound'
  <2>1. ~ \A q \in Streams : Left(q)'
    BY <1>9
  <2>2. \A q \in Streams : size'[q] <= Limit /\ (~Left(q)' => size'[q] <= 1)
    BY <1>4, <1>5, <1>6, <1>7, <1>9, LimitFacts
  <2>3. rpc' # "mark"
    BY <1>1
  <2>4. QED
    BY <2>1, <2>2, <2>3 DEF SeekBound
<1>12. QED
  BY <1>4, <1>10, <1>11 DEF SizeInv

LEMMA PutNullSizes ==
    ASSUME IInv, SizeInv, Source!PutNull
    PROVE  SizeInv'
<1>1. /\ rpc = "drain" /\ rpc' = "drain" /\ left # <<>>
      /\ left' = Tail(left) /\ Source!PQ!Put(Head(left), NullPacket)
  BY DEF Source!PutNull, Source!Goto
<1>2. left \in Seq(Streams)
  BY DEF IInv, ReaderInv, ReaderShapes
<1>3. PICK h \in Streams : h = Head(left)
  BY <1>1, <1>2, TailFacts
<1>4. Sized' /\ Both(size') = Both(size) + 1
  BY <1>1, <1>3, PutSizes, Constants DEF IInv, SizeInv
<1>5. Len(left') = Len(left) - 1 /\ Len(left) \in Nat
  BY <1>1, <1>2, TailFacts
<1>6. Both(size) \in Int /\ Both(size) + Len(left) <= Limit
      /\ Both(size) <= Limit
  BY <1>1, BothFacts DEF SizeInv, Sized, ReadBound
<1>7. Both(size') + Len(left') <= Limit
  BY <1>4, <1>5, <1>6, LimitFacts
<1>8. Both(size') <= Limit
  BY <1>4, <1>5, <1>6, <1>7, LimitFacts, TailFacts, <1>1, <1>2
<1>9. ReadBound' /\ SeekBound'
  BY <1>1, <1>7, <1>8 DEF ReadBound, SeekBound
<1>10. QED
  BY <1>4, <1>9 DEF SizeInv

LEMMA QueuePacketSizes ==
    ASSUME IInv, SizeInv, Source!QueuePacket
    PROVE  SizeInv'
<1>1. /\ rpc = "queue" /\ rpc' = "seek"
      /\ \/ \E q \in Streams : Source!PQ!Put(q, pkt)
         \/ UNCHANGED <<pkts, size>>
  BY DEF Source!QueuePacket, Source!Goto, Source!queueVars
<1>2. Both(size) \in Int /\ Both(size) <= MaxQueueSize
  BY <1>1, BothFacts DEF SizeInv, Sized, ReadBound
<1>3. Sized' /\ Both(size') \in {Both(size), Both(size) + 1}
  <2>1. ASSUME NEW q \in Streams, Source!PQ!Put(q, pkt)
        PROVE  Sized' /\ Both(size') \in {Both(size), Both(size) + 1}
    <3>1. pkt \in Packets
      BY Constants DEF IInv, ReaderInv, ReaderShapes
    <3>2. QED
      BY <2>1, <3>1, PutSizes DEF IInv, SizeInv
  <2>2. CASE UNCHANGED <<pkts, size>>
    BY <2>2 DEF SizeInv, Sized
  <2>3. QED
    BY <1>1, <2>1, <2>2
<1>4. Both(size') <= Limit
  BY <1>2, <1>3, LimitFacts
<1>5. ReadBound' /\ SeekBound'
  BY <1>1, <1>4 DEF ReadBound, SeekBound
<1>6. QED
  BY <1>3, <1>5 DEF SizeInv

LEMMA NoPictureQueued ==
    ASSUME IInv, Covers = {}
    PROVE  ~(Source!QueuePicture \/ Source!QueuePictureEnd)
  BY DEF Source!QueuePicture, Source!QueuePictureEnd, Source!Goto, IInv,
     ReaderInv, ReaderKnown

LEMMA ReaderSizes ==
    ASSUME IInv, SizeInv, Reader, ~InfiniteBuffer, Covers = {}
    PROVE  SizeInv'
<1>1. CASE \/ Source!NoSeek \/ Source!SeekFails \/ Source!EndSeek
           \/ Source!NoPicture \/ Source!TestQueues \/ Source!WaitForDecoders
           \/ Source!ReadPacket \/ Source!ReadError \/ Source!SetEof
           \/ Source!IoError \/ Source!Nap
  <2>1. UNCHANGED <<pkts, size>>
    BY <1>1 DEF Source!NoSeek, Source!SeekFails, Source!EndSeek,
       Source!NoPicture, Source!TestQueues, Source!WaitForDecoders,
       Source!ReadPacket, Source!ReadError, Source!SetEof, Source!IoError,
       Source!Nap, Source!queueVars
  <2>2. QED
    BY <1>1, <2>1, ReaderRests
<1>2. CASE Source!ReadEnd \/ Source!SeekFile
  <2>1. UNCHANGED <<pkts, size>>
    BY <1>2 DEF Source!ReadEnd, Source!SeekFile, Source!queueVars
  <2>2. QED
    BY <1>2, <2>1, ReadEndSizes, SeekFileSizes
<1>3. CASE Source!FlushQueue
  BY <1>3, FlushQueueSizes
<1>4. CASE Source!MarkQueue
  BY <1>4, MarkQueueSizes
<1>5. CASE Source!PutNull
  BY <1>5, PutNullSizes
<1>6. CASE Source!QueuePacket
  BY <1>6, QueuePacketSizes
<1>7. QED
  BY <1>1, <1>2, <1>3, <1>4, <1>5, <1>6, NoPictureQueued
     DEF Reader, Source!ReadStreams, Source!ProcessSeekRequest,
         Source!ProcessAttachedPicture, Source!ProcessReadFrame

LEMMA OthersSizes ==
    ASSUME IInv, IInv', SizeInv,
           \/ ReaderSpuriousWake \/ User
           \/ \E q \in Streams : Decoder(q) \/ DecoderSpuriousWake(q) \/ Renderer(q)
    PROVE  SizeInv'
<1>1. UNCHANGED <<rpc, left>>
  BY DEF ReaderSpuriousWake, User, Decoder, DecoderSpuriousWake, Renderer,
     readerOwn, Source!SpuriousWake, Source!SeekCall, Source!Seek,
     Source!StorePosition, Source!StoreRequest, Source!NotifySeek
<1>2. \/ UNCHANGED <<pkts, size>>
      \/ \E q \in Streams : Dec!PQ!Take(q)
  <2>1. CASE ReaderSpuriousWake \/ User
    BY <2>1 DEF ReaderSpuriousWake, User, Source!SpuriousWake,
       Source!SeekCall, Source!Seek, Source!StorePosition,
       Source!StoreRequest, Source!NotifySeek, Source!queueVars
  <2>2. ASSUME NEW q \in Streams, DecoderSpuriousWake(q) \/ Renderer(q)
        PROVE  UNCHANGED <<pkts, size>>
    BY <2>2 DEF DecoderSpuriousWake, Renderer, Dec!SpuriousWake,
       Dec!PQ!SpuriousWake, Dec!TakeFrame, Dec!queueVars
  <2>3. ASSUME NEW q \in Streams, Decoder(q)
        PROVE  UNCHANGED <<pkts, size>> \/ Dec!PQ!Take(q)
    BY <2>3 DEF Decoder, Dec!DecodeFrame, Dec!StartRound, Dec!ReceiveFrame,
       Dec!ReceiveAgain, Dec!ReceiveEnd, Dec!PushFrame, Dec!DropLateFrame,
       Dec!FrameDone, Dec!Fill, Dec!DequeuePacket, Dec!DequeueNothing,
       Dec!WaitForPackets, Dec!PQ!Sleep, Dec!KeepPacket, Dec!DropPacket,
       Dec!SendFlush, Dec!SendData, Dec!SendNull, Dec!SendRefused, Dec!Sent,
       Dec!queueVars
  <2>4. QED
    BY <2>1, <2>2, <2>3
<1>3. Sized' /\ \A r \in Streams : size'[r] <= size[r]
  <2>1. CASE UNCHANGED <<pkts, size>>
    BY <2>1 DEF SizeInv, Sized
  <2>2. ASSUME NEW q \in Streams, Dec!PQ!Take(q)
        PROVE  Sized' /\ \A r \in Streams : size'[r] <= size[r]
    BY <2>2, TakeSizes DEF IInv, SizeInv
  <2>3. QED
    BY <1>2, <2>1, <2>2
<1>4. QED
  BY <1>1, <1>3, SizeSmaller

LEMMA NextSizes ==
    ASSUME IInv, IInv', SizeInv, [Next]_vars, ~InfiniteBuffer, Covers = {}
    PROVE  SizeInv'
<1>1. CASE Next
  BY <1>1, ReaderSizes, OthersSizes DEF Next
<1>2. CASE UNCHANGED vars
  BY <1>2 DEF vars, queueVars, readerOwn, SizeInv, Sized, ReadBound, SeekBound,
     Left
<1>3. QED
  BY <1>1, <1>2

LEMMA InitSizes == Init => SizeInv
<1> SUFFICES ASSUME Init
             PROVE  SizeInv
  OBVIOUS
<1>1. /\ size = [q \in Streams |-> PktSize[FlushPacket]] /\ rpc = "seek"
      /\ pkts = [q \in Streams |-> <<[pkt |-> FlushPacket, serial |-> 1]>>]
  BY DEF Init, Source!Init
<1>2. size = [q \in Streams |-> 1]
  BY <1>1 DEF PktSize
<1>3. \A q \in Streams : size[q] = 1 /\ Len(pkts[q]) = 1
  BY <1>1, <1>2
<1>4. size \in [Streams -> Int]
  BY <1>2
<1>5. Both(size) <= In(Audio) + In(Video) /\ Both(size) \in Int
  BY <1>3, <1>4, BothFacts
<1>6. Both(size) <= Limit
  BY <1>5, LimitFacts
<1>7. QED
  BY <1>1, <1>3, <1>4, <1>6 DEF SizeInv, Sized, ReadBound, SeekBound

(***************************************************************************)
(* What is buffered stays bounded: isNeedReadMore is tested before every   *)
(* read, so MAX_QUEUE_SIZE is passed by one packet at most, by the null    *)
(* packets of an end of file, or by the flush packets of a seek.  Not for  *)
(* a real-time source, which is read without end, and not with a cover     *)
(* picture, which each seek that fails queues once more.                   *)
(***************************************************************************)
THEOREM BufferCorrect ==
    ASSUME ~InfiniteBuffer, Covers = {}
    PROVE  Spec => []BufferBounded
<1>1. Init => SizeInv
  BY InitSizes
<1>2. IInv /\ IInv' /\ SizeInv /\ [Next]_vars => SizeInv'
  BY NextSizes
<1>3. IInv /\ SizeInv => BufferBounded
  <2> SUFFICES ASSUME IInv, SizeInv
               PROVE  BufferBounded
    OBVIOUS
  <2>1. size \in [Streams -> Int] /\ Both(size) \in Int
    BY BothFacts DEF SizeInv, Sized
  <2>2. Both(size) <= Limit + 1
    <3>1. CASE Both(size) <= Limit
      BY <2>1, <3>1, LimitFacts
    <3>2. CASE ~(Both(size) <= Limit)
      <4>1. rpc \in {"flush", "mark"}
        BY <3>2 DEF SizeInv, ReadBound
      <4>2. \A q \in Streams : size[q] <= Limit /\ (~Left(q) => size[q] <= 1)
        BY <4>1 DEF SizeInv, SeekBound
      <4>3. PICK r \in Streams : ~Left(r)
        BY <3>2, <4>1 DEF SizeInv, SeekBound
      <4>4. Limit >= 0 /\ Limit \in Int
        BY LimitFacts
      <4>5. QED
        BY <2>1, <4>2, <4>3, <4>4, BothFacts
    <3>3. QED
      BY <3>1, <3>2
  <2>3. Limit + 1 = MaxQueueSize + 1 + Cardinality(Streams)
    BY LimitFacts, CountStreams
  <2>4. QED
    BY <2>1, <2>2, <2>3, SumIsBoth DEF BufferBounded
<1>4. QED
  BY <1>1, <1>2, <1>3, InductiveCorrect, PTL DEF Spec

(***************************************************************************)
(* A cover picture.  It is queued once for each serial behind the first,   *)
(* ahead of its null packet, and a failed seek queues both once more.      *)
(***************************************************************************)
PictureFrame(q) ==
    [pkt |-> [pos |-> 0, epoch |-> serial[q] - 1], serial |-> serial[q]]

(* The decoder is in the queue's serial and has taken the picture of it.   *)
Pictured(q) ==
    \/ temp_pkt[q] \in Data \/ pending[q] \in Data \/ got[q] \in Data
    \/ codec[q] # <<>>
    \/ last[q] = PictureFrame(q)
AtPicture(q) == Current(q) /\ temp_pkt[q] # FlushPacket /\ Pictured(q)

(* A cover's stream has no packet but the picture.                         *)
PicturesQueued(q) ==
    \A i \in 1 .. Len(pkts[q]) :
        pkts[q][i].pkt \in Data => pkts[q][i].pkt.pos = 0
PicturesHeld(q) ==
    /\ \A i \in 1 .. Len(codec[q]) : codec[q][i].pos = 0
    /\ temp_pkt[q] \in Data => temp_pkt[q].pos = 0
    /\ pending[q] \in Data => pending[q].pos = 0
    /\ got[q] \in Data => got[q].pos = 0

SerialsGrow(q) ==
    /\ \A i \in 1 .. Len(pkts[q]) : pkt_serial[q] <= pkts[q][i].serial
    /\ \A i, j \in 1 .. Len(pkts[q]) :
          i < j => pkts[q][i].serial <= pkts[q][j].serial

(* No null packet comes right behind the flush packet of its serial.       *)
PictureFirst(q) ==
    serial[q] > 1 =>
        \A i \in 1 .. Len(pkts[q]) :
            pkts[q][i].pkt = NullPacket /\ pkts[q][i].serial = serial[q] =>
                IF i = 1 THEN AtPicture(q) ELSE pkts[q][i - 1].pkt # FlushPacket

(* So a decoder that has a null packet, or that drains, has had a picture. *)
NullBehind(q) ==
    /\ draining[q] => pending[q] = NoPacket
    /\ /\ serial[q] > 1 /\ Current(q) /\ temp_pkt[q] # FlushPacket
       /\ draining[q] \/ temp_pkt[q] = NullPacket \/ pending[q] = NullPacket
       => Pictured(q)

CoverDone(q) ==
    /\ finished[q] <= serial[q]
    /\ serial[q] > 1 /\ finished[q] = serial[q] =>
         Current(q) /\ last[q] = PictureFrame(q)

(* Where the reader is when the next null packet could come first.         *)
Asked ==
    rpc \in {"flush", "mark", "sought"}
    \/ (rpc = "attach" /\ queue_attachments_req)
EndsBehind(q) ==
    serial[q] > 1 =>
        IF pkts[q] = <<>> THEN AtPicture(q)
                          ELSE pkts[q][Len(pkts[q])].pkt # FlushPacket

CoverThread(q) == PicturesHeld(q) /\ NullBehind(q) /\ CoverDone(q)
CoverQueue(q) == PicturesQueued(q) /\ SerialsGrow(q) /\ PictureFirst(q)
CoverStream(q) ==
    CoverThread(q) /\ CoverQueue(q) /\ (Asked \/ EndsBehind(q))
CoverInv == \A q \in Covers : CoverStream(q)

LEMMA PictureStays ==
    ASSUME NEW q \in Streams,
           UNCHANGED <<serial[q], pkt_serial[q], temp_pkt[q], pending[q],
                       codec[q], got[q], last[q]>>
    PROVE  /\ Pictured(q)' = Pictured(q) /\ AtPicture(q)' = AtPicture(q)
           /\ Current(q)' = Current(q)
<1>1. Pictured(q)' = Pictured(q)
  BY DEF Pictured, PictureFrame
<1>2. QED
  BY <1>1 DEF AtPicture, Current

LEMMA CoverSame ==
    ASSUME NEW q \in Streams, CoverStream(q), Asked => Asked',
           UNCHANGED <<pkts[q], serial[q], pkt_serial[q], temp_pkt[q],
                       pending[q], finished[q], codec[q], draining[q], got[q],
                       last[q]>>
    PROVE  CoverStream(q)'
<1>1. /\ Pictured(q)' = Pictured(q) /\ AtPicture(q)' = AtPicture(q)
      /\ Current(q)' = Current(q)
  BY PictureStays
<1>2. CoverThread(q)'
  BY <1>1 DEF CoverStream, CoverThread, PicturesHeld, NullBehind, CoverDone,
     PictureFrame
<1>3. CoverQueue(q)'
  BY <1>1 DEF CoverStream, CoverQueue, PicturesQueued, SerialsGrow,
     PictureFirst
<1>4. EndsBehind(q) => EndsBehind(q)'
  BY <1>1 DEF EndsBehind
<1>5. QED
  BY <1>2, <1>3, <1>4 DEF CoverStream

(* The steps of a decoder between two packets it takes.                    *)
LEMMA CoverWorks ==
    ASSUME NEW q \in Streams, CoverStream(q), Asked' = Asked,
           UNCHANGED <<pkts[q], serial[q], pkt_serial[q]>>,
           CoverThread(q)', AtPicture(q) => AtPicture(q)'
    PROVE  CoverStream(q)'
<1>1. CoverQueue(q)'
  BY DEF CoverStream, CoverQueue, PicturesQueued, SerialsGrow, PictureFirst
<1>2. EndsBehind(q) => EndsBehind(q)'
  BY DEF EndsBehind
<1>3. QED
  BY <1>1, <1>2 DEF CoverStream

CoverQuiet(q) ==
    UNCHANGED <<pkts[q], serial[q], pkt_serial[q], rpc, queue_attachments_req>>

LEMMA CoverReceives ==
    ASSUME IInv, NEW q \in Streams, CoverStream(q), CoverQuiet(q),
           Dec!ReceiveFrame(q)
    PROVE  CoverStream(q)'
<1>1. /\ codec[q] \in Seq(Data) /\ codec[q] # <<>>
      /\ got'[q] = Head(codec[q]) /\ codec'[q] = Tail(codec[q])
      /\ UNCHANGED <<temp_pkt[q], pending[q], finished[q], draining[q], last[q]>>
  BY DEF IInv, Shapes, Dec!ReceiveFrame, Dec!frameVars
<1>2. /\ Head(codec[q]) = codec[q][1] /\ codec[q][1] \in Data
      /\ 1 \in 1 .. Len(codec[q])
      /\ \A i \in 1 .. Len(codec'[q]) :
           codec'[q][i] = codec[q][i + 1] /\ i + 1 \in 1 .. Len(codec[q])
  BY <1>1, TailFacts
<1>3. PicturesHeld(q)'
  BY <1>1, <1>2 DEF CoverStream, CoverThread, PicturesHeld
<1>4. Pictured(q)' /\ Current(q)' = Current(q)
  BY <1>1, <1>2 DEF Pictured, Current, CoverQuiet
<1>5. NullBehind(q)' /\ CoverDone(q)'
  BY <1>1, <1>4 DEF CoverStream, CoverThread, NullBehind, CoverDone,
     PictureFrame, CoverQuiet
<1>6. AtPicture(q) => AtPicture(q)'
  BY <1>1, <1>4 DEF AtPicture
<1>7. QED
  BY <1>3, <1>5, <1>6, CoverWorks DEF CoverThread, CoverQuiet, Asked

(* A codec is drained of the picture before it reports the end.            *)
LEMMA CoverEnds ==
    ASSUME IInv, NEW q \in Streams, CoverStream(q), CoverQuiet(q),
           Dec!ReceiveEnd(q)
    PROVE  CoverStream(q)'
<1>1. /\ dpc[q] = "receive" /\ draining[q] /\ codec[q] = <<>>
      /\ finished'[q] = pkt_serial[q] /\ codec'[q] = <<>> /\ ~draining'[q]
      /\ UNCHANGED <<temp_pkt[q], pending[q], got[q], last[q]>>
  BY DEF IInv, Shapes, Dec!ReceiveEnd, Dec!FlushBuffers, Dec!Goto,
     Dec!frameVars
<1>2. /\ temp_pkt[q] = NoPacket /\ got[q] = NoPacket
      /\ pkt_serial[q] <= serial[q]
  BY <1>1 DEF IInv, StreamInv, ThreadKnown, QueueKnown
<1>3. pending[q] = NoPacket
  BY <1>1 DEF CoverStream, CoverThread, NullBehind
<1>4. /\ Pictured(q)' = Pictured(q) /\ AtPicture(q)' = AtPicture(q)
      /\ Current(q)' = Current(q)
  BY <1>1, PictureStays DEF CoverQuiet
<1>5. PicturesHeld(q)'
  BY <1>1 DEF CoverStream, CoverThread, PicturesHeld
<1>6. NullBehind(q)'
  BY <1>1, <1>2, <1>3, Constants DEF NullBehind
<1>7. serial[q] > 1 /\ Current(q) => last[q] = PictureFrame(q)
  <2>1. serial[q] > 1 /\ Current(q) => Pictured(q)
    BY <1>1, <1>2, Constants DEF CoverStream, CoverThread, NullBehind
  <2>2. QED
    BY <2>1, <1>1, <1>2, <1>3, Constants DEF Pictured
<1>8. CoverDone(q)'
  BY <1>1, <1>2, <1>4, <1>7 DEF CoverDone, Current, PictureFrame, CoverQuiet
<1>9. QED
  BY <1>4, <1>5, <1>6, <1>8, CoverWorks DEF CoverThread, CoverQuiet, Asked

LEMMA CoverPushes ==
    ASSUME IInv, LastShape, NEW q \in Streams, CoverStream(q), CoverQuiet(q),
           Dec!FrameDone(q)
    PROVE  CoverStream(q)'
<1>1. /\ dpc[q] = "push" /\ got'[q] = NoPacket
      /\ last'[q] = [pkt |-> got[q], serial |-> pkt_serial[q]]
      /\ UNCHANGED <<temp_pkt[q], pending[q], finished[q], codec[q],
                     draining[q]>>
  BY DEF IInv, Shapes, LastShape, Dec!FrameDone, Dec!Frame, Dec!Goto,
     Dec!codecVars
<1>2. /\ got[q] \in Data /\ Carried(got[q], pkt_serial[q])
      /\ pkt_serial[q] \in Int /\ serial[q] \in Int
  BY <1>1 DEF IInv, Shapes, StreamInv, ThreadKnown
<1>3. got[q].pos = 0 /\ pkt_serial[q] = got[q].epoch + 1
  BY <1>2 DEF CoverStream, CoverThread, PicturesHeld, Carried
<1>4. got[q] = [pos |-> 0, epoch |-> pkt_serial[q] - 1]
  <2>1. got[q] = [pos |-> got[q].pos, epoch |-> got[q].epoch]
    BY <1>2 DEF Data
  <2>2. got[q].epoch \in Int
    BY <1>2, PipelineAssumption DEF Data
  <2>3. got[q].epoch = pkt_serial[q] - 1
    BY <1>2, <1>3, <2>2
  <2>4. QED
    BY <1>3, <2>1, <2>3
<1>5. Current(q)' = Current(q)
  BY DEF Current, CoverQuiet
<1>6. Current(q) => last'[q] = PictureFrame(q)' /\ Pictured(q)'
  BY <1>1, <1>4 DEF Current, PictureFrame, Pictured, CoverQuiet
<1>7. PicturesHeld(q)'
  BY <1>1, Constants DEF CoverStream, CoverThread, PicturesHeld
<1>8. NullBehind(q)' /\ CoverDone(q)'
  BY <1>1, <1>5, <1>6 DEF CoverStream, CoverThread, NullBehind, CoverDone,
     CoverQuiet
<1>9. AtPicture(q) => AtPicture(q)'
  BY <1>1, <1>5, <1>6 DEF AtPicture
<1>10. QED
  BY <1>7, <1>8, <1>9, CoverWorks DEF CoverThread, CoverQuiet, Asked

(* A packet that was refused is held again.                                *)
LEMMA CoverFills ==
    ASSUME IInv, NEW q \in Streams, CoverStream(q), CoverQuiet(q),
           Dec!Fill(q)
    PROVE  CoverStream(q)'
<1>1. /\ dpc[q] = "fill"
      /\ \/ /\ temp_pkt'[q] = pending[q] /\ pending'[q] = NoPacket
         \/ UNCHANGED <<temp_pkt[q], pending[q]>>
      /\ UNCHANGED <<finished[q], codec[q], draining[q], got[q], last[q]>>
  BY DEF IInv, Shapes, Dec!Fill, Dec!Goto, Dec!codecVars, Dec!frameVars
<1>2. temp_pkt[q] = NoPacket /\ pending[q] # FlushPacket
  BY <1>1, Constants DEF IInv, Shapes, StreamInv, ThreadKnown
<1>3. /\ Pictured(q)' = Pictured(q) /\ Current(q)' = Current(q)
      /\ temp_pkt'[q] # FlushPacket
  BY <1>1, <1>2, Constants DEF Pictured, PictureFrame, Current, CoverQuiet
<1>4. PicturesHeld(q)'
  BY <1>1, <1>2, Constants DEF CoverStream, CoverThread, PicturesHeld
<1>5. NullBehind(q)' /\ CoverDone(q)'
  BY <1>1, <1>2, <1>3, Constants DEF CoverStream, CoverThread, NullBehind,
     CoverDone, PictureFrame, CoverQuiet
<1>6. AtPicture(q) => AtPicture(q)'
  BY <1>3 DEF AtPicture
<1>7. QED
  BY <1>4, <1>5, <1>6, CoverWorks DEF CoverThread, CoverQuiet, Asked

LEMMA CoverDrops ==
    ASSUME IInv, NEW q \in Streams, CoverStream(q), CoverQuiet(q),
           Dec!DropPacket(q)
    PROVE  CoverStream(q)'
<1>1. /\ ~Current(q) /\ temp_pkt'[q] = NoPacket
      /\ UNCHANGED <<pending[q], finished[q], codec[q], draining[q], got[q],
                     last[q]>>
  BY DEF IInv, Shapes, Dec!DropPacket, Dec!Current, Current, Dec!codecVars,
     Dec!frameVars
<1>2. ~Current(q)' /\ ~AtPicture(q)
  BY <1>1 DEF Current, AtPicture, CoverQuiet
<1>3. PicturesHeld(q)' /\ NullBehind(q)' /\ CoverDone(q)'
  BY <1>1, <1>2, Constants DEF CoverStream, CoverThread, PicturesHeld,
     NullBehind, CoverDone, CoverQuiet
<1>4. QED
  BY <1>2, <1>3, CoverWorks DEF CoverThread, CoverQuiet, Asked

LEMMA CoverSends ==
    ASSUME IInv, NEW q \in Streams, CoverStream(q), CoverQuiet(q),
           \/ Dec!SendFlush(q) \/ Dec!SendData(q) \/ Dec!SendNull(q)
           \/ Dec!SendRefused(q)
    PROVE  CoverStream(q)'
<1>1. /\ dpc[q] = "send" /\ temp_pkt'[q] = NoPacket
      /\ UNCHANGED <<got[q], last[q]>>
  BY DEF IInv, Shapes, Dec!SendFlush, Dec!SendData, Dec!SendNull,
     Dec!SendRefused, Dec!Sent, Dec!Goto, Dec!frameVars
<1>2. /\ pending[q] = NoPacket /\ got[q] = NoPacket
      /\ temp_pkt[q] # FlushPacket => ~draining[q]
      /\ codec[q] \in Seq(Data) /\ serial[q] >= 1 /\ serial[q] \in Int
  BY <1>1, SerialAtLeastOne DEF IInv, Shapes, StreamInv, ThreadKnown, CodecKnown
<1>3. Current(q)' = Current(q)
  BY DEF Current, CoverQuiet
<1>4. CASE Dec!SendFlush(q)
  <2>1. /\ temp_pkt[q] = FlushPacket /\ codec'[q] = <<>> /\ ~draining'[q]
        /\ finished'[q] = 0 /\ pending'[q] = pending[q]
    BY <1>4 DEF IInv, Shapes, Dec!SendFlush, Dec!FlushBuffers
  <2>2. NullBehind(q)' /\ ~AtPicture(q)
    BY <1>1, <1>2, <2>1, Constants DEF NullBehind, AtPicture
  <2>3. PicturesHeld(q)'
    BY <1>1, <1>2, <2>1, Constants DEF PicturesHeld
  <2>4. CoverDone(q)'
    BY <1>2, <2>1 DEF CoverDone, CoverQuiet
  <2>5. QED
    BY <2>2, <2>3, <2>4, CoverWorks DEF CoverThread, CoverQuiet, Asked
<1>5. CASE Dec!SendData(q)
  <2>1. /\ temp_pkt[q] \in Data /\ temp_pkt[q] # FlushPacket
        /\ codec'[q] = Append(codec[q], temp_pkt[q])
        /\ UNCHANGED <<pending[q], finished[q], draining[q]>>
    BY <1>2, <1>5, Constants DEF IInv, Shapes, Dec!SendData
  <2>2. /\ codec'[q] # <<>>
        /\ \A i \in 1 .. Len(codec'[q]) :
             \/ codec'[q][i] = temp_pkt[q]
             \/ (i \in 1 .. Len(codec[q]) /\ codec'[q][i] = codec[q][i])
    <3>1. /\ codec'[q] # <<>> /\ Len(codec'[q]) = Len(codec[q]) + 1
          /\ Len(codec[q]) \in Nat
          /\ \A i \in 1 .. Len(codec'[q]) :
               codec'[q][i] = IF i = Len(codec[q]) + 1 THEN temp_pkt[q]
                                                      ELSE codec[q][i]
      BY <1>2, <2>1, AppendFacts
    <3>2. ASSUME NEW i \in 1 .. Len(codec'[q]), i # Len(codec[q]) + 1
          PROVE  i \in 1 .. Len(codec[q])
      BY <3>1, <3>2
    <3>3. QED
      BY <3>1, <3>2
  <2>3. PicturesHeld(q)'
    BY <1>1, <2>1, <2>2, Constants DEF CoverStream, CoverThread, PicturesHeld
  <2>4. Pictured(q)'
    BY <2>2 DEF Pictured
  <2>5. NullBehind(q)' /\ CoverDone(q)'
    BY <1>1, <1>2, <1>3, <2>1, <2>4 DEF CoverStream, CoverThread, NullBehind,
       CoverDone, PictureFrame, CoverQuiet
  <2>6. AtPicture(q) => AtPicture(q)'
    BY <1>1, <1>3, <2>4, Constants DEF AtPicture
  <2>7. QED
    BY <2>3, <2>5, <2>6, CoverWorks DEF CoverThread, CoverQuiet, Asked
<1>6. CASE Dec!SendNull(q)
  <2>1. /\ temp_pkt[q] = NullPacket
        /\ UNCHANGED <<pending[q], finished[q], codec[q]>>
    BY <1>6 DEF IInv, Shapes, Dec!SendNull
  <2>2. Pictured(q)' = Pictured(q)
    BY <1>1, <2>1, Constants DEF Pictured, PictureFrame, CoverQuiet
  <2>3. PicturesHeld(q)'
    BY <1>1, <2>1, Constants DEF CoverStream, CoverThread, PicturesHeld
  <2>4. NullBehind(q)' /\ CoverDone(q)'
    BY <1>1, <1>2, <1>3, <2>1, <2>2, Constants DEF CoverStream, CoverThread,
       NullBehind, CoverDone, PictureFrame, CoverQuiet
  <2>5. AtPicture(q) => AtPicture(q)'
    BY <1>1, <1>3, <2>2, Constants DEF AtPicture
  <2>6. QED
    BY <2>3, <2>4, <2>5, CoverWorks DEF CoverThread, CoverQuiet, Asked
<1>7. CASE Dec!SendRefused(q)
  <2>1. /\ temp_pkt[q] # FlushPacket /\ pending'[q] = temp_pkt[q]
        /\ UNCHANGED <<finished[q], codec[q], draining[q]>>
    BY <1>7 DEF IInv, Shapes, Dec!SendRefused, Dec!codecVars
  <2>2. Pictured(q)' = Pictured(q)
    BY <1>1, <1>2, <2>1, Constants DEF Pictured, PictureFrame, CoverQuiet
  <2>3. PicturesHeld(q)'
    BY <1>1, <2>1, Constants DEF CoverStream, CoverThread, PicturesHeld
  <2>4. NullBehind(q)' /\ CoverDone(q)'
    BY <1>1, <1>2, <1>3, <2>1, <2>2, Constants DEF CoverStream, CoverThread,
       NullBehind, CoverDone, PictureFrame, CoverQuiet
  <2>5. AtPicture(q) => AtPicture(q)'
    BY <1>1, <1>3, <2>2, Constants DEF AtPicture
  <2>6. QED
    BY <2>3, <2>4, <2>5, CoverWorks DEF CoverThread, CoverQuiet, Asked
<1>8. QED
  BY <1>4, <1>5, <1>6, <1>7

LEMMA CoverTakes ==
    ASSUME IInv, NEW q \in Streams, CoverStream(q), UNCHANGED rpc,
           UNCHANGED queue_attachments_req, Dec!DequeuePacket(q)
    PROVE  CoverStream(q)'
<1>1. /\ dpc[q] = "dequeue" /\ pkts[q] # <<>> /\ pkts[q] \in Seq(AnyEntry)
      /\ pkts'[q] = Tail(pkts[q])
      /\ pkt_serial'[q] = Head(pkts[q]).serial
      /\ temp_pkt'[q] = Head(pkts[q]).pkt
      /\ UNCHANGED <<serial, pending, finished, codec, draining, got, last>>
  BY DEF IInv, Shapes, Dec!DequeuePacket, Dec!PQ!Take, Dec!PQ!HasPacket,
     Dec!Goto, Dec!codecVars, Dec!frameVars
<1> DEFINE n == Len(pkts[q])
<1>2. /\ Len(pkts'[q]) = n - 1 /\ n \in Nat /\ n >= 1 /\ 1 \in 1 .. n
      /\ \A i \in 1 .. Len(pkts'[q]) :
           pkts'[q][i] = pkts[q][i + 1] /\ i + 1 \in 1 .. n
      /\ pkts'[q] = <<>> => n = 1
      /\ Head(pkts[q]) = pkts[q][1] /\ pkts[q][1] \in AnyEntry
  BY <1>1, TailFacts
<1>3. /\ pkt_serial'[q] = pkts[q][1].serial /\ temp_pkt'[q] = pkts[q][1].pkt
      /\ temp_pkt'[q] \in Packets /\ pkt_serial'[q] \in Int
      /\ serial[q] \in Int /\ pkt_serial[q] \in Int
  BY <1>1, <1>2, SerialAtLeastOne DEF AnyEntry
<1>4. temp_pkt[q] = NoPacket /\ got[q] = NoPacket /\ pending[q] = NoPacket
  BY <1>1 DEF IInv, StreamInv, ThreadKnown
<1>5. QueueKnown(q)
  BY DEF IInv, StreamInv
<1>6. /\ CoverQueue(q) /\ CoverThread(q)
      /\ pkt_serial[q] <= pkts[q][1].serial /\ pkts[q][1].serial <= serial[q]
  BY <1>2, <1>5 DEF CoverStream, CoverQueue, SerialsGrow, QueueKnown
<1>7. temp_pkt'[q] = NullPacket /\ pkt_serial'[q] = serial[q] /\ serial[q] > 1
        => Pictured(q)'
  <2>1. SUFFICES ASSUME temp_pkt'[q] = NullPacket, pkt_serial'[q] = serial[q],
                        serial[q] > 1
                 PROVE  Pictured(q)'
    OBVIOUS
  <2>2. Pictured(q)
    BY <1>2, <1>3, <1>6, <2>1 DEF CoverQueue, PictureFirst, AtPicture
  <2>3. codec[q] # <<>> \/ last[q] = PictureFrame(q)
    BY <1>4, <2>2, Constants DEF Pictured
  <2>4. QED
    BY <1>1, <2>3 DEF Pictured, PictureFrame
<1>8. pkt_serial'[q] = serial[q] /\ serial[q] > 1 /\ temp_pkt'[q] # FlushPacket
        => AtPicture(q)'
  <2>1. SUFFICES ASSUME pkt_serial'[q] = serial[q], serial[q] > 1,
                        temp_pkt'[q] # FlushPacket
                 PROVE  AtPicture(q)'
    OBVIOUS
  <2>2. temp_pkt'[q] = NullPacket \/ temp_pkt'[q] \in Data
    BY <1>3, <2>1 DEF Packets
  <2>3. Pictured(q)'
    <3>1. temp_pkt'[q] \in Data => Pictured(q)'
      BY DEF Pictured
    <3>2. QED
      BY <1>7, <2>1, <2>2, <3>1
  <2>4. Current(q)'
    BY <1>1, <2>1 DEF Current
  <2>5. QED
    BY <2>1, <2>3, <2>4 DEF AtPicture
<1>9. CoverThread(q)'
  <2>1. PicturesHeld(q)'
    BY <1>1, <1>2, <1>3, <1>4, <1>6, Constants
       DEF CoverThread, PicturesHeld, CoverQueue, PicturesQueued
  <2>2. NullBehind(q)'
    BY <1>1, <1>4, <1>8, Constants DEF NullBehind, Current, AtPicture
  <2>3. CoverDone(q)'
    BY <1>1, <1>3, <1>6 DEF CoverThread, CoverDone, Current, PictureFrame
  <2>4. QED
    BY <2>1, <2>2, <2>3 DEF CoverThread
<1>10. CoverQueue(q)'
  <2>1. PicturesQueued(q)'
    <3>1. PicturesQueued(q)
      BY <1>6 DEF CoverQueue
    <3>2. ASSUME NEW i \in 1 .. Len(pkts'[q]), pkts'[q][i].pkt \in Data
          PROVE  pkts'[q][i].pkt.pos = 0
      <4>1. pkts'[q][i] = pkts[q][i + 1] /\ i + 1 \in 1 .. Len(pkts[q])
        BY <1>2
      <4>2. QED
        BY <3>1, <3>2, <4>1 DEF PicturesQueued
    <3>3. QED
      BY <3>2 DEF PicturesQueued
  <2>2. SerialsGrow(q)'
    <3>1. SerialsGrow(q)
      BY <1>6 DEF CoverQueue
    <3>2. ASSUME NEW i \in 1 .. Len(pkts'[q])
          PROVE  /\ pkt_serial'[q] <= pkts'[q][i].serial
                 /\ \A j \in 1 .. Len(pkts'[q]) :
                      i < j => pkts'[q][i].serial <= pkts'[q][j].serial
      <4>1. 1 < i + 1 /\ i + 1 \in 1 .. n /\ pkts'[q][i] = pkts[q][i + 1]
        BY <1>2
      <4>2. \A j \in 1 .. Len(pkts'[q]) :
               i < j => i + 1 < j + 1 /\ j + 1 \in 1 .. n
                        /\ pkts'[q][j] = pkts[q][j + 1]
        BY <1>2
      <4>3. pkt_serial'[q] <= pkts'[q][i].serial
        BY <1>2, <1>3, <3>1, <4>1 DEF SerialsGrow
      <4>4. QED
        BY <3>1, <4>1, <4>2, <4>3 DEF SerialsGrow
    <3>3. QED
      BY <3>2 DEF SerialsGrow
  <2>3. ASSUME serial[q] > 1, NEW i \in 1 .. Len(pkts'[q]),
               pkts'[q][i].pkt = NullPacket, pkts'[q][i].serial = serial[q]
        PROVE  IF i = 1 THEN AtPicture(q)' ELSE pkts'[q][i - 1].pkt # FlushPacket
    <3>0. i # 1 => i - 1 \in 1 .. Len(pkts'[q]) /\ (i - 1) + 1 = i
      BY <1>2
    <3>00. i # 1 => pkts'[q][i - 1] = pkts[q][i]
      BY <1>2, <3>0
    <3>1. /\ pkts'[q][i] = pkts[q][i + 1] /\ i + 1 \in 1 .. n
          /\ (i + 1) - 1 = i /\ i + 1 # 1
          /\ i # 1 => pkts'[q][i - 1] = pkts[q][i]
      BY <1>2, <3>00
    <3>2. pkts[q][i].pkt # FlushPacket
      BY <1>6, <2>3, <3>1 DEF CoverQueue, PictureFirst
    <3>3. i = 1 => pkts[q][1].serial = serial[q]
      <4>1. Opened(q, i + 1)
        BY <1>5, <3>1 DEF QueueKnown
      <4>2. QED
        BY <2>3, <3>1, <4>1, Constants DEF Opened
    <3>4. QED
      BY <1>3, <1>8, <2>3, <3>1, <3>2, <3>3
  <2>4. PictureFirst(q)'
    BY <1>1, <2>3 DEF PictureFirst
  <2>5. QED
    BY <2>1, <2>2, <2>4 DEF CoverQueue
<1>11. Asked' \/ EndsBehind(q)'
  <2>1. CASE Asked
    BY <2>1 DEF Asked
  <2>2. CASE ~Asked
    <3>1. EndsBehind(q) /\ LastNew(q)
      BY <2>2 DEF CoverStream, Asked, IInv, StreamInv, EndKnown
    <3>2. CASE pkts'[q] = <<>>
      <4>1. n = 1 /\ pkts[q][1].serial = serial[q]
        BY <1>1, <1>2, <3>1, <3>2 DEF LastNew
      <4>2. serial[q] > 1 => pkts[q][1].pkt # FlushPacket
        BY <1>1, <3>1, <4>1 DEF EndsBehind
      <4>3. QED
        BY <1>1, <1>3, <1>8, <3>2, <4>1, <4>2 DEF EndsBehind
    <3>3. CASE pkts'[q] # <<>>
      <4>1. Len(pkts'[q]) # 0
        BY <1>1, <1>2, <3>3
      <4>2. pkts'[q][Len(pkts'[q])] = pkts[q][n]
        BY <1>2, <4>1
      <4>3. QED
        BY <1>1, <3>1, <3>3, <4>2 DEF EndsBehind
    <3>4. QED
      BY <3>2, <3>3
  <2>3. QED
    BY <2>1, <2>2
<1>12. QED
  BY <1>9, <1>10, <1>11 DEF CoverStream

LEMMA CoverDecoder ==
    ASSUME IInv, LastShape, CoverInv, NEW q \in Streams,
           Decoder(q) \/ DecoderSpuriousWake(q) \/ Renderer(q)
    PROVE  CoverInv'
<1> USE DEF Dec!Goto, Dec!codecVars, Dec!frameVars, Dec!queueVars
<1>0. Shapes /\ Covers \subseteq Streams
  BY PipelineAssumption DEF IInv
<1>1. UNCHANGED <<rpc, queue_attachments_req>>
  BY DEF Decoder, DecoderSpuriousWake, Renderer, readerOwn
<1>00. ASSUME ~Dec!DequeuePacket(q)
      PROVE  UNCHANGED <<pkts, serial, pkt_serial>>
  BY <1>00 DEF Decoder, DecoderSpuriousWake, Renderer, Dec!DecodeFrame,
     Dec!StartRound, Dec!ReceiveFrame, Dec!ReceiveAgain, Dec!ReceiveEnd,
     Dec!PushFrame, Dec!DropLateFrame, Dec!FrameDone, Dec!Fill,
     Dec!DequeueNothing, Dec!WaitForPackets, Dec!PQ!Sleep, Dec!KeepPacket,
     Dec!DropPacket, Dec!SendFlush, Dec!SendData, Dec!SendNull,
     Dec!SendRefused, Dec!Sent, Dec!SpuriousWake, Dec!PQ!SpuriousWake,
     Dec!TakeFrame
<1>2. ASSUME NEW r \in Covers, r # q
      PROVE  UNCHANGED <<pkts[r], serial[r], pkt_serial[r], temp_pkt[r],
                         pending[r], finished[r], codec[r], draining[r],
                         got[r], last[r]>>
  <2>1. r \in Streams
    BY <1>0
  <2>2. CASE Dec!DequeuePacket(q)
    BY <1>0, <1>2, <2>1, <2>2
       DEF Shapes, Dec!DequeuePacket, Dec!PQ!Take
  <2>3. CASE ~Dec!DequeuePacket(q)
    <3>2. UNCHANGED <<temp_pkt[r], pending[r], finished[r], codec[r],
                      draining[r], got[r], last[r]>>
      BY <1>0, <1>2, <2>1, <2>3
         DEF Shapes, LastShape, Decoder, DecoderSpuriousWake, Renderer, Dec!DecodeFrame,
         Dec!StartRound, Dec!ReceiveFrame, Dec!ReceiveAgain, Dec!ReceiveEnd,
         Dec!FlushBuffers, Dec!decoderVars,
         Dec!PushFrame, Dec!DropLateFrame, Dec!FrameDone, Dec!Fill,
         Dec!DequeueNothing, Dec!WaitForPackets, Dec!KeepPacket,
         Dec!DropPacket, Dec!SendFlush, Dec!SendData, Dec!SendNull,
         Dec!SendRefused, Dec!Sent, Dec!SpuriousWake, Dec!TakeFrame
    <3>3. QED
      BY <1>00, <2>3, <3>2
  <2>4. QED
    BY <2>2, <2>3
<1>3. ASSUME NEW r \in Covers, r # q
      PROVE  CoverStream(r)'
  BY <1>0, <1>1, <1>2, <1>3, CoverSame DEF CoverInv, Asked
<1>4. ASSUME q \in Covers
      PROVE  CoverStream(q)'
  <2>1. CoverStream(q)
    BY <1>4 DEF CoverInv
  <2>2. CASE Dec!DequeuePacket(q)
    BY <1>1, <2>1, <2>2, CoverTakes
  <2>3. CASE ~Dec!DequeuePacket(q)
    <3>1. CoverQuiet(q)
      BY <1>00, <1>1, <2>3 DEF CoverQuiet
    <3>2. CASE \/ Dec!StartRound(q) \/ Dec!ReceiveAgain(q)
               \/ Dec!DequeueNothing(q) \/ Dec!WaitForPackets(q)
               \/ Dec!KeepPacket(q) \/ Dec!SpuriousWake(q) \/ Dec!TakeFrame(q)
      <4>1. UNCHANGED <<temp_pkt, pending, finished, codec, draining, got,
                        last>>
        BY <3>2 DEF Dec!StartRound, Dec!ReceiveAgain, Dec!DequeueNothing,
           Dec!WaitForPackets, Dec!KeepPacket, Dec!SpuriousWake,
           Dec!TakeFrame, Dec!decoderVars
      <4>2. QED
        BY <1>1, <2>1, <3>1, <4>1, CoverSame DEF CoverQuiet, Asked
    <3>3. CASE Dec!PushFrame(q) \/ Dec!DropLateFrame(q)
      <4>1. Dec!FrameDone(q)
        BY <3>3 DEF Dec!PushFrame, Dec!DropLateFrame
      <4>2. QED
        BY <2>1, <3>1, <4>1, CoverPushes
    <3>4. QED
      BY <2>1, <2>3, <3>1, <3>2, <3>3, CoverReceives, CoverEnds, CoverFills,
         CoverDrops, CoverSends
         DEF Decoder, DecoderSpuriousWake, Renderer, Dec!DecodeFrame
  <2>4. QED
    BY <2>2, <2>3
<1>5. QED
  BY <1>3, <1>4 DEF CoverInv

(* A picture goes in at any time, a null packet only behind one.           *)
LEMMA CoverPuts ==
    ASSUME IInv, DecoderKept, UNCHANGED last, NEW q \in Streams,
           CoverStream(q), NEW p \in Data \union {NullPacket},
           Source!PQ!Put(q, p), p \in Data => p.pos = 0,
           p = NullPacket => EndsBehind(q)
    PROVE  CoverStream(q)'
<1> DEFINE n == Len(pkts[q])
           e == [pkt |-> p, serial |-> serial[q]]
<1>1. /\ pkts'[q] = Append(pkts[q], e) /\ serial'[q] = serial[q]
      /\ pkts[q] \in Seq(AnyEntry) /\ e \in AnyEntry
      /\ e.pkt = p /\ e.serial = serial[q] /\ p # FlushPacket
      /\ serial[q] \in Int /\ pkt_serial[q] \in Int
  BY Constants DEF IInv, Shapes, Source!PQ!Put, Source!PQ!PutAccepted,
     Source!PQ!Stamp, AnyEntry
<1> HIDE DEF e
<1>2. /\ Len(pkts'[q]) = n + 1 /\ n \in Nat /\ pkts'[q] # <<>>
      /\ \A i \in 1 .. Len(pkts'[q]) :
           pkts'[q][i] = IF i = n + 1 THEN e ELSE pkts[q][i]
  BY <1>1, AppendFacts
<1>3. /\ UNCHANGED <<serial[q], pkt_serial[q], temp_pkt[q], pending[q],
                     finished[q], codec[q], draining[q], got[q], last[q]>>
      /\ Pictured(q)' = Pictured(q) /\ AtPicture(q)' = AtPicture(q)
      /\ Current(q)' = Current(q)
  <2>1. UNCHANGED <<serial[q], pkt_serial[q], temp_pkt[q], pending[q],
                    finished[q], codec[q], draining[q], got[q], last[q]>>
    BY <1>1 DEF DecoderKept
  <2>2. QED
    BY <2>1, PictureStays
<1>4. \A i \in 1 .. Len(pkts'[q]) : i # n + 1 => i \in 1 .. n
  BY <1>2
<1>5. CoverThread(q)'
  BY <1>3 DEF CoverStream, CoverThread, PicturesHeld, NullBehind, CoverDone,
     PictureFrame
<1>6. PicturesQueued(q)'
  BY <1>1, <1>2, <1>4 DEF CoverStream, CoverQueue, PicturesQueued
<1>7. SerialsGrow(q)'
  <2>1. SerialsGrow(q) /\ QueueKnown(q)
    BY DEF CoverStream, CoverQueue, IInv, StreamInv
  <2>2. \A i \in 1 .. n : pkts[q][i].serial \in Int
    <3>1. \A i \in 1 .. n : pkts[q][i] \in AnyEntry
      BY <1>1
    <3>2. QED
      BY <3>1 DEF AnyEntry
  <2>3. ASSUME NEW i \in 1 .. Len(pkts'[q])
        PROVE  pkt_serial'[q] <= pkts'[q][i].serial
    BY <1>1, <1>2, <1>3, <1>4, <2>1 DEF SerialsGrow, QueueKnown
  <2>4. ASSUME NEW i \in 1 .. Len(pkts'[q]), NEW j \in 1 .. Len(pkts'[q]),
               i < j
        PROVE  pkts'[q][i].serial <= pkts'[q][j].serial
    <3>1. i \in 1 .. n /\ pkts'[q][i] = pkts[q][i]
      BY <1>2, <2>4
    <3>2. CASE j = n + 1
      BY <1>1, <1>2, <2>1, <3>1, <3>2 DEF QueueKnown
    <3>3. CASE j # n + 1
      BY <1>2, <1>4, <2>1, <2>4, <3>1, <3>3 DEF SerialsGrow
    <3>4. QED
      BY <3>2, <3>3
  <2>5. QED
    BY <2>3, <2>4 DEF SerialsGrow
<1>8. PictureFirst(q)'
  <2>1. ASSUME serial[q] > 1, NEW i \in 1 .. Len(pkts'[q]),
               pkts'[q][i].pkt = NullPacket, pkts'[q][i].serial = serial[q]
        PROVE  IF i = 1 THEN AtPicture(q) ELSE pkts'[q][i - 1].pkt # FlushPacket
    <3>1. i # 1 => i - 1 \in 1 .. n /\ i - 1 \in 1 .. Len(pkts'[q])
                   /\ i - 1 # n + 1
      BY <1>2
    <3>2. i # 1 => pkts'[q][i - 1] = pkts[q][i - 1]
      BY <1>2, <3>1
    <3>3. CASE i = n + 1
      <4>1. EndsBehind(q)
        BY <1>1, <1>2, <2>1, <3>3
      <4>2. CASE pkts[q] = <<>>
        <5>1. i = 1
          BY <3>3, <4>2
        <5>2. QED
          BY <2>1, <4>1, <4>2, <5>1 DEF EndsBehind
      <4>3. CASE pkts[q] # <<>>
        <5>1. i # 1 /\ i - 1 = n
          BY <1>1, <1>2, <3>3, <4>3, EmptySeq
        <5>2. QED
          BY <2>1, <3>2, <4>1, <4>3, <5>1 DEF EndsBehind
      <4>4. QED
        BY <4>2, <4>3
    <3>4. CASE i # n + 1
      <4>1. i \in 1 .. n /\ pkts'[q][i] = pkts[q][i]
        BY <1>2, <1>4, <3>4
      <4>2. QED
        BY <2>1, <3>2, <4>1 DEF CoverStream, CoverQueue, PictureFirst
    <3>5. QED
      BY <3>3, <3>4
  <2>2. QED
    BY <1>3, <2>1 DEF PictureFirst
<1>9. EndsBehind(q)'
  <2>1. pkts'[q][Len(pkts'[q])].pkt # FlushPacket
    BY <1>1, <1>2
  <2>2. QED
    BY <1>2, <2>1 DEF EndsBehind
<1>10. QED
  BY <1>5, <1>6, <1>7, <1>8, <1>9 DEF CoverStream, CoverQueue

LEMMA CoverFlushed ==
    ASSUME IInv, DecoderKept, UNCHANGED last, NEW q \in Streams,
           CoverStream(q), Asked', Source!PQ!Flush(q)
    PROVE  CoverStream(q)'
<1>1. /\ pkts'[q] = <<>> /\ Len(pkts'[q]) = 0
      /\ UNCHANGED <<serial[q], pkt_serial[q], temp_pkt[q], pending[q],
                     finished[q], codec[q], draining[q], got[q], last[q]>>
  BY DEF IInv, Shapes, Source!PQ!Flush, DecoderKept
<1>2. Pictured(q)' = Pictured(q) /\ Current(q)' = Current(q)
  BY <1>1, PictureStays
<1>3. CoverThread(q)'
  BY <1>1, <1>2 DEF CoverStream, CoverThread, PicturesHeld, NullBehind,
     CoverDone, PictureFrame
<1>4. CoverQueue(q)'
  BY <1>1 DEF CoverQueue, PicturesQueued, SerialsGrow, PictureFirst
<1>5. QED
  BY <1>3, <1>4 DEF CoverStream

(* A flush packet opens a serial of which the queue has nothing yet.       *)
LEMMA CoverMarked ==
    ASSUME IInv, DecoderKept, UNCHANGED last, NEW q \in Streams,
           CoverStream(q), Asked', Source!PQ!Put(q, FlushPacket)
    PROVE  CoverStream(q)'
<1> DEFINE n == Len(pkts[q])
           e == [pkt |-> FlushPacket, serial |-> serial[q] + 1]
<1>1. /\ pkts'[q] = Append(pkts[q], e) /\ serial'[q] = serial[q] + 1
      /\ pkts[q] \in Seq(AnyEntry) /\ e \in AnyEntry
      /\ e.pkt = FlushPacket /\ e.serial = serial[q] + 1
      /\ serial[q] \in Int /\ pkt_serial[q] \in Int
      /\ finished[q] \in Int
  <2>1. /\ pkts[q] \in Seq(AnyEntry) /\ serial[q] \in Int
        /\ pkt_serial[q] \in Int /\ finished[q] \in Int
        /\ serial \in [Streams -> Int] /\ pkts \in [Streams -> Seq(AnyEntry)]
        /\ ~abort_request[q]
    BY DEF IInv, Shapes
  <2>2. /\ serial' = [serial EXCEPT ![q] = serial[q] + 1]
        /\ pkts' = [pkts EXCEPT ![q] = Append(pkts[q], e)]
    BY <2>1 DEF Source!PQ!Put, Source!PQ!PutAccepted, Source!PQ!Stamp
  <2>3. serial[q] + 1 \in Int
    BY <2>1
  <2>4. e \in AnyEntry
    BY <2>3, Constants DEF AnyEntry
  <2>5. QED
    BY <2>1, <2>2, <2>4
<1> HIDE DEF e
<1>2. /\ Len(pkts'[q]) = n + 1 /\ n \in Nat
      /\ \A i \in 1 .. Len(pkts'[q]) :
           pkts'[q][i] = IF i = n + 1 THEN e ELSE pkts[q][i]
  BY <1>1, AppendFacts
<1>3. UNCHANGED <<pkt_serial[q], temp_pkt[q], pending[q], finished[q], codec[q],
                  draining[q], got[q], last[q]>>
  BY DEF DecoderKept
<1>4. QueueKnown(q) /\ SerialsGrow(q)
  BY DEF IInv, StreamInv, CoverStream, CoverQueue
<1>5. \A i \in 1 .. n : pkts[q][i].serial \in Int
  <2>1. \A i \in 1 .. n : pkts[q][i] \in AnyEntry
    BY <1>1
  <2>2. QED
    BY <2>1 DEF AnyEntry
<1>6. ~Current(q)'
  BY <1>1, <1>3, <1>4 DEF Current, QueueKnown
<1>7. CoverThread(q)'
  <2>1. PicturesHeld(q)' /\ NullBehind(q)'
    BY <1>3, <1>6 DEF CoverStream, CoverThread, PicturesHeld, NullBehind
  <2>2. CoverDone(q)'
    BY <1>1, <1>3 DEF CoverStream, CoverThread, CoverDone
  <2>3. QED
    BY <2>1, <2>2 DEF CoverThread
<1>8. PicturesQueued(q)'
  <2>1. ASSUME NEW i \in 1 .. Len(pkts'[q]), pkts'[q][i].pkt \in Data
        PROVE  pkts'[q][i].pkt.pos = 0
    <3>1. i \in 1 .. n /\ pkts'[q][i] = pkts[q][i]
      BY <1>1, <1>2, <2>1, Constants
    <3>2. QED
      BY <2>1, <3>1 DEF CoverStream, CoverQueue, PicturesQueued
  <2>2. QED
    BY <2>1 DEF PicturesQueued
<1>9. SerialsGrow(q)'
  <2>1. ASSUME NEW i \in 1 .. Len(pkts'[q])
        PROVE  pkt_serial'[q] <= pkts'[q][i].serial
    BY <1>1, <1>2, <1>3, <1>4 DEF SerialsGrow, QueueKnown
  <2>2. ASSUME NEW i \in 1 .. Len(pkts'[q]), NEW j \in 1 .. Len(pkts'[q]),
               i < j
        PROVE  pkts'[q][i].serial <= pkts'[q][j].serial
    <3>1. i \in 1 .. n /\ pkts'[q][i] = pkts[q][i]
      BY <1>2, <2>2
    <3>2. CASE j = n + 1
      BY <1>1, <1>2, <1>4, <1>5, <3>1, <3>2 DEF QueueKnown
    <3>3. CASE j # n + 1
      BY <1>2, <1>4, <2>2, <3>1, <3>3 DEF SerialsGrow
    <3>4. QED
      BY <3>2, <3>3
  <2>3. QED
    BY <2>1, <2>2 DEF SerialsGrow
<1>10. PictureFirst(q)'
  <2>1. ASSUME NEW i \in 1 .. Len(pkts'[q]), pkts'[q][i].pkt = NullPacket
        PROVE  pkts'[q][i].serial # serial'[q]
    <3>1. i \in 1 .. n /\ pkts'[q][i] = pkts[q][i]
      BY <1>1, <1>2, <2>1, Constants
    <3>2. QED
      BY <1>1, <1>4, <1>5, <3>1 DEF QueueKnown
  <2>2. QED
    BY <2>1 DEF PictureFirst
<1>11. QED
  BY <1>7, <1>8, <1>9, <1>10 DEF CoverStream, CoverQueue

LEMMA CoverStands ==
    ASSUME CoverInv, DecoderKept, UNCHANGED <<last, pkts, serial>>,
           Covers # {} /\ Asked => Asked'
    PROVE  CoverInv'
<1>1. ASSUME NEW q \in Covers
      PROVE  CoverStream(q)'
  <2>1. q \in Streams /\ (Asked => Asked') /\ CoverStream(q)
    BY PipelineAssumption DEF CoverInv
  <2>2. QED
    BY <2>1, CoverSame DEF DecoderKept
<1>2. QED
  BY <1>1 DEF CoverInv

(* A call of the queue that the reader makes changes that queue only.      *)
LEMMA CoverElsewhere ==
    ASSUME IInv, CoverInv, DecoderKept, UNCHANGED last, NEW h \in Streams,
           \/ \E p \in Packets : Source!PQ!Put(h, p)
           \/ Source!PQ!Flush(h),
           Asked => Asked',
           h \in Covers => CoverStream(h)'
    PROVE  CoverInv'
<1>1. ASSUME NEW q \in Covers, q # h
      PROVE  CoverStream(q)'
  <2>1. q \in Streams /\ CoverStream(q)
    BY PipelineAssumption DEF CoverInv
  <2>2. UNCHANGED <<pkts[q], serial[q]>>
    BY <1>1, <2>1 DEF IInv, Shapes, Source!PQ!Put, Source!PQ!PutAccepted,
       Source!PQ!Flush, Source!PQ!vars
  <2>3. QED
    BY <2>1, <2>2, CoverSame DEF DecoderKept
<1>2. QED
  BY <1>1 DEF CoverInv

LEMMA ReaderKeepsCover ==
    ASSUME IInv, CoverInv, Reader
    PROVE  CoverInv'
<1> USE DEF Source!Goto, Source!fileVars, Source!queueVars
<1>1. DecoderKept /\ UNCHANGED last
  BY ReaderKeepsDecoder DEF Reader, decoderVars
<1>2. /\ left \in Seq(Streams)
      /\ rpc \in {"flush", "mark"} => left # <<>>
      /\ rpc = "attach_null" => Covers # {}
  BY DEF IInv, ReaderInv, ReaderShapes, ReaderKnown
<1>3. Covers # {} => Video \in Streams /\ Covers = {Video}
  BY PipelineAssumption
<1>4. CASE \/ Source!NoSeek \/ Source!SeekFile \/ Source!SeekFails
           \/ Source!EndSeek \/ Source!NoPicture \/ Source!TestQueues
           \/ Source!WaitForDecoders \/ Source!ReadPacket \/ Source!ReadError
           \/ Source!ReadEnd \/ Source!SetEof \/ Source!IoError \/ Source!Nap
  <2>1. UNCHANGED <<pkts, serial>>
    BY <1>4 DEF Source!NoSeek, Source!SeekFile, Source!SeekFails,
       Source!EndSeek, Source!NoPicture, Source!TestQueues,
       Source!WaitForDecoders, Source!ReadPacket, Source!ReadError,
       Source!ReadEnd, Source!SetEof, Source!IoError, Source!Nap
  <2>2. Covers # {} /\ Asked => Asked'
    BY <1>4 DEF Asked, Source!NoSeek, Source!SeekFile, Source!SeekFails,
       Source!EndSeek, Source!NoPicture, Source!TestQueues,
       Source!WaitForDecoders, Source!ReadPacket, Source!ReadError,
       Source!ReadEnd, Source!SetEof, Source!IoError, Source!Nap
  <2>3. QED
    BY <1>1, <2>1, <2>2, CoverStands
<1>5. CASE Source!FlushQueue
  <2>1. rpc = "flush" /\ rpc' = "mark" /\ Source!PQ!Flush(Head(left))
    BY <1>5 DEF Source!FlushQueue
  <2>2. PICK h \in Streams : h = Head(left)
    BY <1>2, <2>1, TailFacts
  <2>3. Asked' /\ Source!PQ!Flush(h)
    BY <2>1, <2>2 DEF Asked
  <2>4. h \in Covers => CoverStream(h)'
    BY <1>1, <2>3, CoverFlushed DEF CoverInv
  <2>5. QED
    BY <1>1, <2>3, <2>4, CoverElsewhere
<1>6. CASE Source!MarkQueue
  <2>1. /\ rpc = "mark" /\ rpc' \in {"sought", "flush"}
        /\ Source!PQ!Put(Head(left), FlushPacket)
    BY <1>6 DEF Source!MarkQueue
  <2>2. PICK h \in Streams : h = Head(left)
    BY <1>2, <2>1, TailFacts
  <2>3. Asked' /\ Source!PQ!Put(h, FlushPacket)
    BY <2>1, <2>2 DEF Asked
  <2>4. h \in Covers => CoverStream(h)'
    BY <1>1, <2>3, CoverMarked DEF CoverInv
  <2>5. QED
    BY <1>1, <2>3, <2>4, Constants, CoverElsewhere
<1>7. CASE Source!QueuePicture
  <2>1. /\ rpc' = "attach_null" /\ Covers # {}
        /\ Source!PQ!Put(Video, Source!Packet(Source!Picture, Source!Epoch))
    BY <1>7 DEF Source!QueuePicture
  <2>2. PICK p \in Data : p = Source!Packet(Source!Picture, Source!Epoch)
    <3>1. Source!Packet(Source!Picture, Source!Epoch) \in Data
      BY PipelineAssumption DEF Source!Packet, Source!Picture, Source!Epoch,
         Data, IInv, ReaderInv, ReaderShapes, SeeksKnown, Waiting
    <3>2. QED
      BY <3>1
  <2>3. p.pos = 0
    BY <2>2 DEF Source!Packet, Source!Picture
  <2>4. /\ Source!PQ!Put(Video, p) /\ p \in Data \union {NullPacket}
        /\ p \in Packets /\ p # NullPacket
    BY <2>1, <2>2, Constants
  <2>5. Video \in Streams /\ CoverStream(Video)
    BY <1>3, <2>1 DEF CoverInv
  <2>6. CoverStream(Video)'
    BY <1>1, <2>3, <2>4, <2>5, CoverPuts
  <2>7. QED
    BY <1>3, <2>1, <2>6 DEF CoverInv
<1>8. CASE Source!QueuePictureEnd
  <2>1. rpc = "attach_null" /\ Source!PQ!Put(Video, NullPacket)
    BY <1>8 DEF Source!QueuePictureEnd
  <2>2. Video \in Streams /\ CoverStream(Video) /\ Covers = {Video}
    BY <1>2, <1>3, <2>1 DEF CoverInv
  <2>3. EndsBehind(Video)
    BY <2>1, <2>2 DEF CoverStream, Asked
  <2>4. CoverStream(Video)'
    BY <1>1, <2>1, <2>2, <2>3, Constants, CoverPuts
  <2>5. QED
    BY <2>2, <2>4 DEF CoverInv
<1>9. CASE Source!PutNull
  <2>1. /\ rpc = "drain" /\ left # <<>>
        /\ Source!PQ!Put(Head(left), NullPacket)
    BY <1>9 DEF Source!PutNull
  <2>2. PICK h \in Streams : h = Head(left)
    BY <1>2, <2>1, TailFacts
  <2>3. Source!PQ!Put(h, NullPacket) /\ ~Asked
    BY <2>1, <2>2 DEF Asked
  <2>4. h \in Covers => CoverStream(h) /\ EndsBehind(h)
    BY <2>3 DEF CoverInv, CoverStream
  <2>5. h \in Covers => CoverStream(h)'
    BY <1>1, <2>3, <2>4, Constants, CoverPuts
  <2>6. QED
    BY <1>1, <2>3, <2>5, Constants, CoverElsewhere
<1>10. CASE Source!QueuePacket
  <2>1. /\ rpc = "queue"
        /\ \/ \E h \in Streams \ Covers : Source!PQ!Put(h, pkt)
           \/ UNCHANGED <<pkts, serial>>
    BY <1>10 DEF Source!QueuePacket
  <2>2. ~Asked /\ pkt \in Packets
    BY <2>1, Constants DEF Asked, IInv, ReaderInv, ReaderShapes
  <2>3. CASE \E h \in Streams \ Covers : Source!PQ!Put(h, pkt)
    BY <1>1, <2>2, <2>3, CoverElsewhere
  <2>4. CASE UNCHANGED <<pkts, serial>>
    BY <1>1, <2>2, <2>4, CoverStands
  <2>5. QED
    BY <2>1, <2>3, <2>4
<1>11. QED
  BY <1>4, <1>5, <1>6, <1>7, <1>8, <1>9, <1>10
     DEF Reader, Source!ReadStreams, Source!ProcessSeekRequest,
         Source!ProcessAttachedPicture, Source!ProcessReadFrame

LEMMA InitCover == Init => CoverInv
<1> SUFFICES ASSUME Init, NEW q \in Covers
             PROVE  CoverStream(q)
  BY DEF CoverInv
<1> DEFINE e == [pkt |-> FlushPacket, serial |-> 1]
<1>1. q \in Streams
  BY PipelineAssumption
<1>2. /\ pkts[q] = <<e>> /\ serial[q] = 1 /\ pkt_serial[q] = -1
      /\ temp_pkt[q] = NoPacket /\ pending[q] = NoPacket
      /\ got[q] = NoPacket /\ codec[q] = <<>> /\ finished[q] = 0
      /\ ~draining[q]
  BY <1>1 DEF Init, Source!Init, Dec!Init
<1>3. /\ Len(<<e>>) = 1 /\ <<e>>[1] = e /\ e.pkt = FlushPacket
      /\ e.serial = 1
  OBVIOUS
<1> HIDE DEF e
<1>4. Len(pkts[q]) = 1 /\ pkts[q][1] = e
  BY <1>2, <1>3
<1>5. CoverThread(q)
  <2>1. \A i \in 1 .. Len(codec[q]) : codec[q][i].pos = 0
    BY <1>2, EmptySeq
  <2>2. PicturesHeld(q)
    BY <1>2, <2>1, Constants DEF PicturesHeld
  <2>3. NullBehind(q) /\ CoverDone(q)
    BY <1>2 DEF NullBehind, CoverDone
  <2>4. QED
    BY <2>2, <2>3 DEF CoverThread
<1>6. CoverQueue(q)
  BY <1>2, <1>3, <1>4, Constants DEF CoverQueue, PicturesQueued, SerialsGrow,
     PictureFirst
<1>7. EndsBehind(q)
  BY <1>2 DEF EndsBehind
<1>8. QED
  BY <1>5, <1>6, <1>7 DEF CoverStream

LEMMA NextCover == IInv /\ ChainInv /\ CoverInv /\ [Next]_vars => CoverInv'
<1> SUFFICES ASSUME IInv, ChainInv, CoverInv, [Next]_vars
             PROVE  CoverInv'
  OBVIOUS
<1>1. CASE Reader
  BY <1>1, ReaderKeepsCover
<1>2. CASE ReaderSpuriousWake \/ User \/ UNCHANGED vars
  <2>1. /\ UNCHANGED <<pkts, serial, pkt_serial>>
        /\ UNCHANGED <<rpc, queue_attachments_req>>
    BY <1>2 DEF ReaderSpuriousWake, Source!SpuriousWake, User,
       Source!SeekCall, Source!Seek, Source!StorePosition,
       Source!StoreRequest, Source!NotifySeek, Source!queueVars,
       Source!fileVars, vars, queueVars, readerOwn
  <2>2. DecoderKept /\ UNCHANGED last
    BY <1>2, <2>1 DEF ReaderSpuriousWake, User, vars, decoderVars, DecoderKept
  <2>3. QED
    BY <2>1, <2>2, CoverStands DEF Asked
<1>3. CASE \E q \in Streams :
             Decoder(q) \/ DecoderSpuriousWake(q) \/ Renderer(q)
  BY <1>3, CoverDecoder DEF ChainInv
<1>4. QED
  BY <1>1, <1>2, <1>3 DEF Next

(* CoverDecoded of Pipeline: a decoder reports that it has finished a      *)
(* cover's stream after a seek only once the picture that the seek queued  *)
(* again has left it.                                                      *)
THEOREM CoverCorrect == Spec => []CoverDecoded
<1>1. IInv /\ CoverInv => CoverDecoded
  <2>1. SUFFICES ASSUME CoverInv, NEW q \in Covers, finished[q] = serial[q],
                        serial[q] > 1
                 PROVE  last[q] = Dec!Frame(Source!Packet(Source!Picture,
                                                  serial[q] - 1), serial[q])
    BY DEF CoverDecoded
  <2>2. last[q] = PictureFrame(q)
    BY <2>1 DEF CoverInv, CoverStream, CoverThread, CoverDone
  <2>3. QED
    BY <2>2 DEF PictureFrame, Dec!Frame, Source!Packet, Source!Picture
<1>2. QED
  BY <1>1, InductiveCorrect, ChainCorrect, InitCover, NextCover, PTL DEF Spec
=============================================================================
