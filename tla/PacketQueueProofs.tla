------------------------- MODULE PacketQueueProofs -------------------------
(* Proofs about PacketQueue for every set of queues, threads and packets   *)
(* and for every bound.                                                    *)
EXTENDS PacketQueue, WellFoundedInduction, TLAPS

(***************************************************************************)
(* A packet is one of Packets, so every stamp is a serial of the queue.    *)
(***************************************************************************)
LEMMA StampType ==
    ASSUME NEW q \in Queues, NEW p \in Packets, TypeOK
    PROVE  /\ Stamp(q, p) \in Nat
           /\ serial[q] <= Stamp(q, p)
           /\ p = FlushPacket => serial[q] < Stamp(q, p)
BY DEF Stamp, TypeOK

(***************************************************************************)
(* A counter that one queue changes by an integer stays a counter for      *)
(* every queue: the += and -= of Put and Get.                              *)
(***************************************************************************)
LEMMA CounterType ==
    ASSUME NEW f \in [Queues -> Int], NEW q \in Queues, NEW n \in Int
    PROVE  /\ [f EXCEPT ![q] = @ + n] \in [Queues -> Int]
           /\ [f EXCEPT ![q] = @ - n] \in [Queues -> Int]
<1>1. f[q] + n \in Int /\ f[q] - n \in Int
  OBVIOUS
<1>2. QED
  BY <1>1

(***************************************************************************)
(* The variables keep their types: no method of PacketQueue breaks the     *)
(* shape of the list or of the counters.                                   *)
(***************************************************************************)
THEOREM TypeCorrect == Spec => []TypeOK
<1>1. Init => TypeOK
  BY DEF Init, TypeOK, Entry
<1>2. TypeOK /\ [Next]_vars => TypeOK'
  <2> SUFFICES ASSUME TypeOK, [Next]_vars
               PROVE  TypeOK'
    OBVIOUS
  <2> USE DEF TypeOK
  <2>1. ASSUME NEW q \in Queues, Start(q)
        PROVE  TypeOK'
    BY <2>1 DEF Start, StartClear
  <2>2. ASSUME NEW q \in Queues, NEW p \in Packets, PutAccepted(q, p)
        PROVE  TypeOK'
    <3>1. Stamp(q, p) \in Nat
      BY StampType
    <3>2. [pkt |-> p, serial |-> Stamp(q, p)] \in Entry
      BY <3>1 DEF Entry
    <3>3. PktSize[p] \in Nat /\ PktDuration[p] \in Nat
      BY PacketsAssumption DEF Packets
    <3>4. Append(pkts[q], [pkt |-> p, serial |-> Stamp(q, p)]) \in Seq(Entry)
      BY <3>2
    <3>5. pkts' \in [Queues -> Seq(Entry)]
      BY <2>2, <3>4 DEF PutAccepted
    <3>6. /\ nb_packets' \in [Queues -> Int]
          /\ size' \in [Queues -> Int]
          /\ duration' \in [Queues -> Int]
      <4>1. /\ nb_packets' = [nb_packets EXCEPT ![q] = @ + 1]
            /\ size' = [size EXCEPT ![q] = @ + PktSize[p]]
            /\ duration' = [duration EXCEPT ![q] = @ + PktDuration[p]]
        BY <2>2 DEF PutAccepted
      <4>2. /\ nb_packets \in [Queues -> Int]
            /\ size \in [Queues -> Int]
            /\ duration \in [Queues -> Int]
        OBVIOUS
      <4> HIDE DEF TypeOK
      <4>3. /\ 1 \in Int
            /\ PktSize[p] \in Int
            /\ PktDuration[p] \in Int
        BY <3>3
      <4>4. QED
        BY <4>1, <4>2, <4>3, CounterType
    <3>7. /\ serial' \in [Queues -> Nat]
          /\ waiters' \in [Queues -> SUBSET Threads]
          /\ UNCHANGED <<abort_request, pkt_serial>>
      BY <2>2, <3>1 DEF PutAccepted
    <3>8. QED
      BY <3>5, <3>6, <3>7
  <2>3. ASSUME NEW q \in Queues, Flush(q)
        PROVE  TypeOK'
    BY <2>3 DEF Flush
  <2>4. ASSUME NEW q \in Queues, Abort(q)
        PROVE  TypeOK'
    BY <2>4 DEF Abort
  <2>5. ASSUME NEW q \in Queues, Take(q)
        PROVE  TypeOK'
    <3>1. pkts[q] \in Seq(Entry) /\ pkts[q] # <<>>
      BY <2>5 DEF Take, HasPacket
    <3>2. Head(pkts[q]) \in Entry /\ Tail(pkts[q]) \in Seq(Entry)
      BY <3>1
    <3>3. /\ Head(pkts[q]).serial \in Nat
          /\ PktSize[Head(pkts[q]).pkt] \in Nat
          /\ PktDuration[Head(pkts[q]).pkt] \in Nat
      BY <3>2, PacketsAssumption DEF Entry, Packets
    <3>4. pkts' \in [Queues -> Seq(Entry)]
      BY <2>5, <3>2 DEF Take
    <3>5. pkt_serial' \in [Queues -> Int]
      BY <2>5, <3>3 DEF Take
    <3>6. /\ nb_packets' = [nb_packets EXCEPT ![q] = @ - 1]
          /\ size' = [size EXCEPT ![q] = @ - PktSize[Head(pkts[q]).pkt]]
          /\ duration' = [duration EXCEPT ![q] = @ - PktDuration[Head(pkts[q]).pkt]]
      BY <2>5 DEF Take
    <3>7. /\ nb_packets' \in [Queues -> Int]
          /\ size' \in [Queues -> Int]
          /\ duration' \in [Queues -> Int]
      <4>1. /\ nb_packets \in [Queues -> Int]
            /\ size \in [Queues -> Int]
            /\ duration \in [Queues -> Int]
        OBVIOUS
      <4> HIDE DEF TypeOK
      <4>2. /\ 1 \in Int
            /\ PktSize[Head(pkts[q]).pkt] \in Int
            /\ PktDuration[Head(pkts[q]).pkt] \in Int
        BY <3>3
      <4>3. QED
        BY <3>6, <4>1, <4>2, CounterType
    <3>8. /\ serial' \in [Queues -> Nat]
          /\ waiters' \in [Queues -> SUBSET Threads]
          /\ abort_request' \in [Queues -> BOOLEAN]
      BY <2>5 DEF Take
    <3>9. QED
      BY <3>4, <3>5, <3>7, <3>8
  <2>6. ASSUME NEW q \in Queues, NEW t \in Threads, GetWait(q, t)
        PROVE  TypeOK'
    BY <2>6 DEF GetWait, Sleep
  <2>7. ASSUME NEW q \in Queues, NEW t \in Threads, SpuriousWake(q, t)
        PROVE  TypeOK'
    BY <2>7 DEF SpuriousWake
  <2>8. CASE UNCHANGED vars
    BY <2>8 DEF vars
  <2>9. QED
    BY <2>1, <2>2, <2>3, <2>4, <2>5, <2>6, <2>7, <2>8
    DEF Next, PutPacket, Put, TakePacket
<1>3. QED
  BY <1>1, <1>2, PTL DEF Spec

(***************************************************************************)
(* nb_packets, which isNeedReadMore and ShouldTransitionToReadyState read  *)
(* without the mutex, is the length of the list.                           *)
(***************************************************************************)
THEOREM NbPacketsCorrect == Spec => []NbPacketsMatch
<1>1. Init => NbPacketsMatch
  BY DEF Init, NbPacketsMatch
<1>2. TypeOK /\ NbPacketsMatch /\ [Next]_vars => NbPacketsMatch'
  <2> SUFFICES ASSUME TypeOK, NbPacketsMatch, [Next]_vars, NEW r \in Queues
               PROVE  nb_packets'[r] = Len(pkts'[r])
    BY DEF NbPacketsMatch
  <2> USE DEF NbPacketsMatch
  <2>1. pkts \in [Queues -> Seq(Entry)] /\ nb_packets \in [Queues -> Int]
    BY DEF TypeOK
  <2>2. ASSUME NEW q \in Queues, NEW p \in Packets, PutAccepted(q, p)
        PROVE  nb_packets'[r] = Len(pkts'[r])
    BY <2>1, <2>2 DEF PutAccepted
  <2>3. ASSUME NEW q \in Queues, Flush(q)
        PROVE  nb_packets'[r] = Len(pkts'[r])
    BY <2>1, <2>3 DEF Flush
  <2>4. ASSUME NEW q \in Queues, Take(q)
        PROVE  nb_packets'[r] = Len(pkts'[r])
    <3>1. Len(Tail(pkts[q])) = Len(pkts[q]) - 1
      BY <2>1, <2>4 DEF Take, HasPacket
    <3>2. QED
      BY <2>1, <2>4, <3>1 DEF Take
  <2>5. CASE UNCHANGED <<pkts, nb_packets>>
    BY <2>5
  <2>6. QED
    BY <2>2, <2>3, <2>4, <2>5
    DEF Next, vars, Start, StartClear, PutPacket, Put, Abort, TakePacket,
        GetWait, Sleep, SpuriousWake
<1>3. QED
  BY <1>1, <1>2, TypeCorrect, PTL DEF Spec

(***************************************************************************)
(* No thread sleeps in Get beside a packet or an abort.                    *)
(***************************************************************************)
THEOREM NoStarvation == Spec => []NoStarvedWaiter
<1>1. Init => NoStarvedWaiter
  BY DEF Init, NoStarvedWaiter
<1>2. TypeOK /\ NoStarvedWaiter /\ [Next]_vars => NoStarvedWaiter'
  <2> SUFFICES ASSUME TypeOK, NoStarvedWaiter, [Next]_vars, NEW r \in Queues,
                      waiters'[r] # {}
               PROVE  pkts'[r] = <<>> /\ ~abort_request'[r]
    BY DEF NoStarvedWaiter
  <2>1. /\ pkts \in [Queues -> Seq(Entry)]
        /\ waiters \in [Queues -> SUBSET Threads]
        /\ abort_request \in [Queues -> BOOLEAN]
    BY DEF TypeOK
  <2>2. waiters[r] # {} => pkts[r] = <<>> /\ ~abort_request[r]
    BY DEF NoStarvedWaiter
  <2>3. ASSUME NEW q \in Queues, Start(q)
        PROVE  pkts'[r] = <<>> /\ ~abort_request'[r]
    BY <2>1, <2>2, <2>3 DEF Start, StartClear
  <2>4. ASSUME NEW q \in Queues, NEW p \in Packets, PutAccepted(q, p)
        PROVE  pkts'[r] = <<>> /\ ~abort_request'[r]
    BY <2>1, <2>2, <2>4 DEF PutAccepted
  <2>5. ASSUME NEW q \in Queues, Flush(q)
        PROVE  pkts'[r] = <<>> /\ ~abort_request'[r]
    BY <2>1, <2>2, <2>5 DEF Flush
  <2>6. ASSUME NEW q \in Queues, Abort(q)
        PROVE  pkts'[r] = <<>> /\ ~abort_request'[r]
    BY <2>1, <2>2, <2>6 DEF Abort
  <2>7. ASSUME NEW q \in Queues, Take(q)
        PROVE  pkts'[r] = <<>> /\ ~abort_request'[r]
    BY <2>1, <2>2, <2>7 DEF Take, HasPacket
  <2>8. ASSUME NEW q \in Queues, NEW t \in Threads, GetWait(q, t)
        PROVE  pkts'[r] = <<>> /\ ~abort_request'[r]
    BY <2>1, <2>2, <2>8 DEF GetWait, Sleep
  <2>9. ASSUME NEW q \in Queues, NEW t \in Threads, SpuriousWake(q, t)
        PROVE  pkts'[r] = <<>> /\ ~abort_request'[r]
    BY <2>1, <2>2, <2>9 DEF SpuriousWake
  <2>10. CASE UNCHANGED vars
    BY <2>2, <2>10 DEF vars
  <2>11. QED
    BY <2>3, <2>4, <2>5, <2>6, <2>7, <2>8, <2>9, <2>10
    DEF Next, PutPacket, Put, TakePacket
<1>3. QED
  BY <1>1, <1>2, TypeCorrect, PTL DEF Spec

(***************************************************************************)
(* Serials split the list into epochs: the serial test of DecodeFrame      *)
(* rejects exactly the packets older than the last flush packet.           *)
(***************************************************************************)
THEOREM EpochCorrect == Spec => []EpochBoundary
<1>1. Init => EpochBoundary
  BY DEF Init, EpochBoundary, SerialsBounded, FlushSplits
<1>2. TypeOK /\ EpochBoundary /\ [Next]_vars => EpochBoundary'
  <2> SUFFICES ASSUME TypeOK, EpochBoundary, [Next]_vars, NEW r \in Queues
               PROVE  /\ pkt_serial'[r] <= serial'[r]
                      /\ \A i \in DOMAIN pkts'[r] :
                            /\ pkt_serial'[r] <= pkts'[r][i].serial
                            /\ pkts'[r][i].serial <= serial'[r]
                      /\ \A i, j \in DOMAIN pkts'[r] : i < j =>
                            /\ pkts'[r][i].serial <= pkts'[r][j].serial
                            /\ pkts'[r][j].pkt = FlushPacket =>
                                  pkts'[r][i].serial < pkts'[r][j].serial
    BY DEF EpochBoundary, SerialsBounded, FlushSplits
  <2> DEFINE Good(taken, list, last) ==
        /\ taken <= last
        /\ \A i \in DOMAIN list : /\ taken <= list[i].serial
                                   /\ list[i].serial <= last
        /\ \A i, j \in DOMAIN list : i < j =>
              /\ list[i].serial <= list[j].serial
              /\ list[j].pkt = FlushPacket => list[i].serial < list[j].serial
  <2>1. Good(pkt_serial[r], pkts[r], serial[r])
    BY DEF EpochBoundary, SerialsBounded, FlushSplits
  <2>2. /\ pkts \in [Queues -> Seq(Entry)]
        /\ serial \in [Queues -> Nat]
        /\ pkt_serial \in [Queues -> Int]
    BY DEF TypeOK
  <2> SUFFICES Good(pkt_serial'[r], pkts'[r], serial'[r])
    OBVIOUS
  <2>3. CASE UNCHANGED <<pkts, serial, pkt_serial>>
    BY <2>1, <2>3
  <2>4. ASSUME NEW p \in Packets, PutAccepted(r, p)
        PROVE  Good(pkt_serial'[r], pkts'[r], serial'[r])
    <3> DEFINE e == [pkt |-> p, serial |-> Stamp(r, p)]
    <3>1. /\ Stamp(r, p) \in Nat
          /\ serial[r] <= Stamp(r, p)
          /\ p = FlushPacket => serial[r] < Stamp(r, p)
      BY StampType
    <3>2. e \in Entry /\ e.serial = Stamp(r, p) /\ e.pkt = p
      BY <3>1 DEF Entry
    <3>3. /\ pkts'[r] = Append(pkts[r], e)
          /\ serial'[r] = e.serial
          /\ pkt_serial'[r] = pkt_serial[r]
      BY <2>2, <2>4 DEF PutAccepted
    <3>4. pkts[r] \in Seq(Entry) /\ serial[r] \in Nat /\ pkt_serial[r] \in Int
      BY <2>2
    <3> HIDE DEF e
    <3>5. /\ DOMAIN pkts'[r] = 1 .. Len(pkts[r]) + 1
          /\ DOMAIN pkts[r] = 1 .. Len(pkts[r])
          /\ Len(pkts[r]) \in Nat
          /\ \A i \in 1 .. Len(pkts[r]) : pkts'[r][i] = pkts[r][i]
          /\ pkts'[r][Len(pkts[r]) + 1] = e
      BY <3>2, <3>3, <3>4
    <3>6. \A i \in 1 .. Len(pkts[r]) : pkts[r][i] \in Entry
      BY <3>4
    <3>7. \A i \in 1 .. Len(pkts[r]) : pkts[r][i].serial \in Nat
      BY <3>6 DEF Entry
    <3>8. pkt_serial'[r] <= serial'[r]
      BY <2>1, <3>1, <3>2, <3>3, <3>4
    <3>9. \A i \in DOMAIN pkts'[r] : /\ pkt_serial'[r] <= pkts'[r][i].serial
                                      /\ pkts'[r][i].serial <= serial'[r]
      <4> SUFFICES ASSUME NEW i \in 1 .. Len(pkts[r]) + 1
                   PROVE  /\ pkt_serial'[r] <= pkts'[r][i].serial
                          /\ pkts'[r][i].serial <= serial'[r]
        BY <3>5
      <4>1. CASE i \in 1 .. Len(pkts[r])
        <5>1. /\ pkt_serial[r] <= pkts[r][i].serial
              /\ pkts[r][i].serial <= serial[r]
              /\ pkts[r][i].serial \in Nat
              /\ pkts'[r][i] = pkts[r][i]
          BY <2>1, <3>5, <3>7, <4>1
        <5>2. QED
          BY <3>1, <3>2, <3>3, <3>4, <5>1
      <4>2. CASE i = Len(pkts[r]) + 1
        <5>1. pkts'[r][i] = e
          BY <3>5, <4>2
        <5>2. QED
          BY <3>1, <3>2, <3>3, <3>4, <3>8, <5>1
      <4>3. QED
        BY <3>5, <4>1, <4>2
    <3>10. \A i, j \in DOMAIN pkts'[r] : i < j =>
              /\ pkts'[r][i].serial <= pkts'[r][j].serial
              /\ pkts'[r][j].pkt = FlushPacket =>
                    pkts'[r][i].serial < pkts'[r][j].serial
      <4> SUFFICES ASSUME NEW i \in 1 .. Len(pkts[r]) + 1,
                          NEW j \in 1 .. Len(pkts[r]) + 1, i < j
                   PROVE  /\ pkts'[r][i].serial <= pkts'[r][j].serial
                          /\ pkts'[r][j].pkt = FlushPacket =>
                                pkts'[r][i].serial < pkts'[r][j].serial
        BY <3>5
      <4>1. i \in 1 .. Len(pkts[r]) /\ pkts'[r][i] = pkts[r][i]
        BY <3>5
      <4>2. CASE j \in 1 .. Len(pkts[r])
        BY <2>1, <3>5, <4>1, <4>2
      <4>3. CASE j = Len(pkts[r]) + 1
        <5>1. pkts[r][i].serial <= serial[r] /\ pkts[r][i].serial \in Nat
          BY <2>1, <3>5, <3>7, <4>1
        <5>2. pkts'[r][j] = e
          BY <3>5, <4>3
        <5>3. QED
          BY <3>1, <3>2, <3>4, <4>1, <5>1, <5>2
      <4>4. QED
        BY <3>5, <4>2, <4>3
    <3>11. QED
      BY <3>8, <3>9, <3>10
  <2>5. ASSUME Flush(r)
        PROVE  Good(pkt_serial'[r], pkts'[r], serial'[r])
    <3>1. /\ pkts'[r] = <<>>
          /\ serial'[r] = serial[r]
          /\ pkt_serial'[r] = pkt_serial[r]
      BY <2>2, <2>5 DEF Flush
    <3>2. DOMAIN pkts'[r] = {}
      BY <3>1
    <3>3. QED
      BY <2>1, <3>1, <3>2
  <2>6. ASSUME Take(r)
        PROVE  Good(pkt_serial'[r], pkts'[r], serial'[r])
    <3>1. pkts[r] \in Seq(Entry) /\ pkts[r] # <<>>
      BY <2>2, <2>6 DEF Take, HasPacket
    <3>2. /\ pkts'[r] = Tail(pkts[r])
          /\ serial'[r] = serial[r]
          /\ pkt_serial'[r] = pkts[r][1].serial
      BY <2>2, <2>6, <3>1 DEF Take
    <3>3. /\ Len(pkts[r]) \in Nat \ {0}
          /\ DOMAIN pkts[r] = 1 .. Len(pkts[r])
          /\ DOMAIN pkts'[r] = 1 .. Len(pkts[r]) - 1
          /\ \A i \in 1 .. Len(pkts[r]) - 1 : pkts'[r][i] = pkts[r][i + 1]
      BY <3>1, <3>2
    <3>4. pkt_serial'[r] <= serial'[r]
      BY <2>1, <3>2, <3>3
    <3>5. \A i \in DOMAIN pkts'[r] : /\ pkt_serial'[r] <= pkts'[r][i].serial
                                      /\ pkts'[r][i].serial <= serial'[r]
      <4> SUFFICES ASSUME NEW i \in 1 .. Len(pkts[r]) - 1
                   PROVE  /\ pkt_serial'[r] <= pkts'[r][i].serial
                          /\ pkts'[r][i].serial <= serial'[r]
        BY <3>3
      <4>1. /\ i + 1 \in DOMAIN pkts[r]
            /\ 1 \in DOMAIN pkts[r]
            /\ 1 < i + 1
            /\ pkts'[r][i] = pkts[r][i + 1]
        BY <3>3
      <4>2. /\ pkts[r][1].serial <= pkts[r][i + 1].serial
            /\ pkts[r][i + 1].serial <= serial[r]
        BY <2>1, <4>1
      <4>3. QED
        BY <3>2, <4>1, <4>2
    <3>6. \A i, j \in DOMAIN pkts'[r] : i < j =>
              /\ pkts'[r][i].serial <= pkts'[r][j].serial
              /\ pkts'[r][j].pkt = FlushPacket =>
                    pkts'[r][i].serial < pkts'[r][j].serial
      <4> SUFFICES ASSUME NEW i \in 1 .. Len(pkts[r]) - 1,
                          NEW j \in 1 .. Len(pkts[r]) - 1, i < j
                   PROVE  /\ pkts'[r][i].serial <= pkts'[r][j].serial
                          /\ pkts'[r][j].pkt = FlushPacket =>
                                pkts'[r][i].serial < pkts'[r][j].serial
        BY <3>3
      <4>1. /\ i + 1 \in DOMAIN pkts[r] /\ j + 1 \in DOMAIN pkts[r]
            /\ i + 1 < j + 1
        BY <3>3
      <4>2. /\ pkts[r][i + 1].serial <= pkts[r][j + 1].serial
            /\ pkts[r][j + 1].pkt = FlushPacket =>
                  pkts[r][i + 1].serial < pkts[r][j + 1].serial
        BY <2>1, <4>1
      <4>3. QED
        BY <3>3, <4>2
    <3>7. QED
      BY <3>4, <3>5, <3>6
  <2>7. ASSUME NEW q \in Queues, q # r,
               \/ \E p \in Packets : PutAccepted(q, p)
               \/ Flush(q)
               \/ Take(q)
        PROVE  UNCHANGED <<pkts[r], serial[r], pkt_serial[r]>>
    BY <2>2, <2>7 DEF PutAccepted, Flush, Take
  <2>8. ASSUME UNCHANGED <<pkts[r], serial[r], pkt_serial[r]>>
        PROVE  Good(pkt_serial'[r], pkts'[r], serial'[r])
    BY <2>1, <2>8
  <2> HIDE DEF Good
  <2>9. QED
    BY <2>3, <2>4, <2>5, <2>6, <2>7, <2>8
    DEF Next, vars, Start, StartClear, PutPacket, Put, Abort, TakePacket,
        GetWait, Sleep, SpuriousWake
<1>3. QED
  BY <1>1, <1>2, TypeCorrect, PTL DEF Spec

(***************************************************************************)
(* A set of naturals has a least element: what induction over the length   *)
(* of a list comes down to.                                                *)
(***************************************************************************)
LEMMA Smallest ==
    ASSUME NEW T, T \subseteq Nat, T # {}
    PROVE  \E n \in T : \A m \in T : n <= m
<1> DEFINE R == OpToRel(<, Nat)
<1>1. IsWellFoundedOn(R, Nat)
  BY NatLessThanWellFounded
<1>2. \A m, n \in Nat : m < n => <<m, n>> \in R
  BY DEF OpToRel
<1> HIDE DEF R
<1>3. PICK n \in T : \A m \in T : ~ (<<m, n>> \in R)
  BY <1>1, WFMin
<1>4. ASSUME NEW m \in T
      PROVE  n <= m
  <2>1. m \in Nat /\ n \in Nat /\ ~ (m < n)
    BY <1>2, <1>3
  <2>2. QED
    BY <2>1
<1>5. QED
  BY <1>4

LEMMA Greatest ==
    ASSUME NEW n \in Nat, NEW S, S \subseteq 1 .. n, S # {}
    PROVE  Max(S) \in S /\ \A m \in S : m <= Max(S)
<1> DEFINE T == {k \in Nat : n - k \in S}
<1>1. PICK m \in S : TRUE
  OBVIOUS
<1>2. n - m \in T
  OBVIOUS
<1>3. PICK k \in T : \A j \in T : k <= j
  BY <1>2, Smallest
<1>4. n - k \in S /\ \A j \in S : n - k >= j
  <2>1. ASSUME NEW j \in S
        PROVE  n - k >= j
    <3>1. n - j \in T /\ j \in Int
      OBVIOUS
    <3>2. QED
      BY <1>3, <3>1
  <2>2. QED
    BY <1>3, <2>1
<1>5. Max(S) \in S /\ \A j \in S : Max(S) >= j
  BY <1>4, Zenon DEF Max
<1>6. QED
  BY <1>5

(* The fold over the places of a list.                                     *)
Fold(n, w, iter) ==
    iter = [S \in SUBSET (1 .. n) |->
              IF S = {} THEN 0 ELSE iter[S \ {Max(S)}] + w[Max(S)]]

LEMMA FoldStep ==
    ASSUME NEW n \in Nat, NEW w, NEW g, Fold(n, w, g)
    PROVE  \E h : Fold(n + 1, w, h)
<1> DEFINE h == [S \in SUBSET (1 .. n + 1) |->
                   IF n + 1 \in S THEN g[S \ {n + 1}] + w[n + 1] ELSE g[S]]
<1>1. ASSUME NEW S \in SUBSET (1 .. n + 1)
      PROVE  h[S] = IF S = {} THEN 0 ELSE h[S \ {Max(S)}] + w[Max(S)]
  <2>1. CASE n + 1 \in S
    <3>1. Max(S) = n + 1
      <4>1. n + 1 \in Nat /\ S \subseteq 1 .. n + 1 /\ S # {}
        BY <2>1
      <4>2. Max(S) \in S /\ \A m \in S : m <= Max(S)
        BY <4>1, Greatest
      <4>3. PICK m \in S : m = Max(S)
        BY <4>2
      <4>4. n + 1 <= m /\ m \in Int /\ m <= n + 1
        BY <2>1, <4>2, <4>3
      <4>5. QED
        BY <4>3, <4>4
    <3>2. S \ {n + 1} \in SUBSET (1 .. n + 1) /\ n + 1 \notin S \ {n + 1}
      OBVIOUS
    <3>3. h[S \ {n + 1}] = g[S \ {n + 1}]
      BY <3>2
    <3>4. QED
      BY <2>1, <3>1, <3>3
  <2>2. CASE n + 1 \notin S /\ S # {}
    <3>1. S \in SUBSET (1 .. n)
      BY <2>2
    <3>2. Max(S) \in S
      BY <2>2, <3>1, Greatest
    <3>3. h[S] = g[S] /\ h[S \ {Max(S)}] = g[S \ {Max(S)}]
      BY <2>2
    <3>4. g[S] = g[S \ {Max(S)}] + w[Max(S)]
      BY <2>2, <3>1 DEF Fold
    <3>5. QED
      BY <2>2, <3>3, <3>4
  <2>3. CASE S = {}
    <3>1. {} \in SUBSET (1 .. n) /\ n + 1 \notin S
      BY <2>3
    <3>2. g[S] = 0
      BY <2>3, <3>1 DEF Fold
    <3>3. QED
      BY <2>3, <3>1, <3>2
  <2>4. QED
    BY <2>1, <2>2, <2>3
<1>2. Fold(n + 1, w, h)
  BY <1>1 DEF Fold
<1>3. QED
  BY <1>2

LEMMA FoldExists ==
    ASSUME NEW n \in Nat, NEW w
    PROVE  \E g : Fold(n, w, g)
<1> DEFINE T == {k \in Nat : ~ \E g : Fold(k, w, g)}
<1> SUFFICES ASSUME T # {}
             PROVE  FALSE
  OBVIOUS
<1>1. PICK k \in T : \A j \in T : k <= j
  BY Smallest
<1>2. k # 0
  <2>1. Fold(0, w, [S \in {{}} |-> 0])
    <3>1. SUBSET (1 .. 0) = {{}}
      OBVIOUS
    <3>2. QED
      BY <3>1 DEF Fold
  <2>2. QED
    BY <2>1
<1>3. k - 1 \in Nat /\ k - 1 \notin T
  BY <1>1, <1>2
<1>4. PICK g : Fold(k - 1, w, g)
  BY <1>3
<1>5. \E h : Fold((k - 1) + 1, w, h)
  BY <1>3, <1>4, FoldStep
<1>6. (k - 1) + 1 = k
  BY <1>3
<1>7. QED
  BY <1>5, <1>6

(***************************************************************************)
(* The sums of the beginnings of a list: the last one is the total.        *)
(***************************************************************************)
Sums(f, s, p) ==
    /\ p[0] = 0
    /\ \A k \in 1 .. Len(s) : p[k] = p[k - 1] + f[s[k].pkt]

LEMMA TotalIsSum ==
    ASSUME NEW f, NEW S, NEW s \in Seq(S)
    PROVE  \E p : Sums(f, s, p) /\ p[Len(s)] = Total(f, s)
<1> DEFINE n == Len(s)
           w == [i \in 1 .. n |-> f[s[i].pkt]]
           it == CHOOSE g : g = [T \in SUBSET DOMAIN s |->
                    IF T = {} THEN 0 ELSE g[T \ {Max(T)}] + f[s[Max(T)].pkt]]
           p == [k \in 0 .. n |-> it[1 .. k]]
<1>1. n \in Nat /\ DOMAIN s = 1 .. n
  OBVIOUS
<1>2. Total(f, s) = it[1 .. n]
  BY <1>1 DEF Total, FoldLeft, MapThenFoldSet
<1>3. PICK g : Fold(n, w, g)
  BY <1>1, FoldExists
<1>4. g = [T \in SUBSET (1 .. n) |->
             IF T = {} THEN 0 ELSE g[T \ {Max(T)}] + f[s[Max(T)].pkt]]
  <2>1. ASSUME NEW T \in SUBSET (1 .. n), T # {}
        PROVE  w[Max(T)] = f[s[Max(T)].pkt]
    BY <1>1, <2>1, Greatest
  <2>2. QED
    BY <1>3, <2>1 DEF Fold
<1>5. it = [T \in SUBSET (1 .. n) |->
              IF T = {} THEN 0 ELSE it[T \ {Max(T)}] + f[s[Max(T)].pkt]]
  BY <1>1, <1>4, Zenon
<1> HIDE DEF it, w
<1>6. p[0] = 0
  <2>1. 1 .. 0 = {} /\ {} \in SUBSET (1 .. n)
    OBVIOUS
  <2>2. QED
    BY <1>1, <1>5, <2>1
<1>7. ASSUME NEW k \in 1 .. n
      PROVE  p[k] = p[k - 1] + f[s[k].pkt]
  <2>1. /\ k \in Nat /\ k >= 1 /\ k <= n
        /\ 1 .. k \in SUBSET (1 .. n) /\ 1 .. k # {}
        /\ (1 .. k) \ {k} = 1 .. k - 1
    <3>1. k \in Nat /\ k >= 1 /\ k <= n
      BY <1>1
    <3>2. k \in 1 .. k
      BY <3>1
    <3>3. \A i \in 1 .. k : i \in 1 .. n
      BY <1>1, <3>1
    <3>4. (1 .. k) \ {k} = 1 .. k - 1
      BY <3>1
    <3>5. QED
      BY <3>1, <3>2, <3>3, <3>4
  <2>2. Max(1 .. k) = k
    <3>1. Max(1 .. k) \in 1 .. k /\ \A m \in 1 .. k : m <= Max(1 .. k)
      BY <2>1, Greatest
    <3>2. QED
      BY <1>1, <3>1
  <2>3. it[1 .. k] = it[1 .. k - 1] + f[s[k].pkt]
    BY <1>5, <2>1, <2>2
  <2>4. QED
    BY <1>1, <2>3
<1>8. p[n] = Total(f, s)
  BY <1>1, <1>2
<1> HIDE DEF p
<1>9. QED
  BY <1>6, <1>7, <1>8 DEF Sums

LEMMA SumsAgree ==
    ASSUME NEW f \in [Packets -> Nat], NEW s \in Seq(Entry),
           NEW p, NEW r, Sums(f, s, p), Sums(f, s, r)
    PROVE  \A k \in 0 .. Len(s) : p[k] = r[k] /\ r[k] \in Int
<1> DEFINE T == {k \in 0 .. Len(s) : ~(p[k] = r[k] /\ r[k] \in Int)}
<1>0. Len(s) \in Nat
  OBVIOUS
<1> SUFFICES ASSUME T # {}
             PROVE  FALSE
  OBVIOUS
<1>1. PICK k \in T : \A j \in T : k <= j
  <2>1. T \subseteq Nat
    BY <1>0
  <2>2. QED
    BY <2>1, Smallest
<1>2. k # 0
  BY DEF Sums
<1>3. k \in 1 .. Len(s) /\ k - 1 \in 0 .. Len(s) /\ ~(k <= k - 1)
  <2>1. k \in 0 .. Len(s)
    OBVIOUS
  <2>2. QED
    BY <1>0, <1>2, <2>1
<1>4. s[k] \in Entry /\ f[s[k].pkt] \in Int
  <2>1. s[k] \in Entry
    BY <1>3
  <2>2. s[k].pkt \in Packets
    BY <2>1 DEF Entry
  <2>3. QED
    BY <2>1, <2>2
<1>5. p[k] = p[k - 1] + f[s[k].pkt] /\ r[k] = r[k - 1] + f[s[k].pkt]
  BY <1>3 DEF Sums
<1>6. p[k - 1] = r[k - 1] /\ r[k - 1] \in Int
  <2> SUFFICES ASSUME ~(p[k - 1] = r[k - 1] /\ r[k - 1] \in Int)
               PROVE  FALSE
    OBVIOUS
  <2>1. k - 1 \in T
    BY <1>3
  <2> HIDE DEF T
  <2>2. QED
    BY <1>1, <1>3, <2>1
<1>7. QED
  BY <1>4, <1>5, <1>6

LEMMA EmptyTotal ==
    ASSUME NEW f
    PROVE  Total(f, <<>>) = 0
<1>1. PICK p : Sums(f, <<>>, p) /\ p[Len(<<>>)] = Total(f, <<>>)
  <2>1. <<>> \in Seq(Entry)
    OBVIOUS
  <2>2. QED
    BY <2>1, TotalIsSum
<1>2. Len(<<>>) = 0
  OBVIOUS
<1>3. QED
  BY <1>1, <1>2 DEF Sums

LEMMA AppendTotal ==
    ASSUME NEW f \in [Packets -> Nat], NEW s \in Seq(Entry), NEW e \in Entry
    PROVE  /\ Total(f, Append(s, e)) = Total(f, s) + f[e.pkt]
           /\ Total(f, s) \in Int
<1> DEFINE n == Len(s)
           t == Append(s, e)
<1>1. /\ t \in Seq(Entry) /\ Len(t) = n + 1 /\ n \in Nat
      /\ \A i \in 1 .. n + 1 : t[i] = IF i = n + 1 THEN e ELSE s[i]
  OBVIOUS
<1> HIDE DEF t
<1>2. PICK r : Sums(f, s, r) /\ r[n] = Total(f, s)
  BY TotalIsSum
<1>3. PICK p : Sums(f, t, p) /\ p[n + 1] = Total(f, t)
  BY <1>1, TotalIsSum
<1>4. Sums(f, s, p)
  <2>1. ASSUME NEW k \in 1 .. n
        PROVE  p[k] = p[k - 1] + f[s[k].pkt]
    <3>1. k \in 1 .. n + 1 /\ t[k] = s[k]
      BY <1>1
    <3>2. QED
      BY <1>1, <1>3, <3>1 DEF Sums
  <2>2. QED
    BY <1>3, <2>1 DEF Sums
<1>5. p[n] = r[n] /\ r[n] \in Int
  BY <1>1, <1>2, <1>4, SumsAgree
<1>6. p[n + 1] = p[n] + f[e.pkt]
  <2>1. n + 1 \in 1 .. Len(t) /\ t[n + 1] = e /\ (n + 1) - 1 = n
    BY <1>1
  <2>2. QED
    BY <1>3, <2>1 DEF Sums
<1>7. QED
  BY <1>2, <1>3, <1>5, <1>6 DEF t

LEMMA TailTotal ==
    ASSUME NEW f \in [Packets -> Nat], NEW s \in Seq(Entry), s # <<>>
    PROVE  Total(f, Tail(s)) = Total(f, s) - f[Head(s).pkt]
<1> DEFINE n == Len(s)
           t == Tail(s)
<1>1. /\ t \in Seq(Entry) /\ Len(t) = n - 1 /\ n \in Nat /\ n >= 1
      /\ \A i \in 1 .. n - 1 : t[i] = s[i + 1]
      /\ Head(s) = s[1] /\ s[1] \in Entry
  OBVIOUS
<1> HIDE DEF t
<1>2. PICK r : Sums(f, s, r) /\ r[n] = Total(f, s)
  BY TotalIsSum
<1>3. PICK p : Sums(f, t, p) /\ p[n - 1] = Total(f, t)
  BY <1>1, TotalIsSum
<1>4. \A k \in 0 .. n : r[k] \in Int
  BY <1>1, <1>2, SumsAgree
<1>5. r[1] = f[Head(s).pkt]
  <2>1. 1 \in 1 .. n /\ 1 - 1 = 0 /\ f[s[1].pkt] \in Int
    BY <1>1 DEF Entry
  <2>2. r[1] = r[0] + f[s[1].pkt] /\ r[0] = 0
    BY <1>2, <2>1 DEF Sums
  <2>3. QED
    BY <1>1, <2>1, <2>2
<1> DEFINE h == [k \in 0 .. n - 1 |-> r[k + 1] - r[1]]
<1>6. Sums(f, t, h)
  <2>1. h[0] = 0
    <3>1. 0 \in 0 .. n - 1 /\ 0 + 1 = 1 /\ r[1] \in Int
      BY <1>1, <1>4
    <3>2. QED
      BY <3>1
  <2>2. ASSUME NEW k \in 1 .. Len(t)
        PROVE  h[k] = h[k - 1] + f[t[k].pkt]
    <3>1. /\ k \in 0 .. n - 1 /\ k - 1 \in 0 .. n - 1 /\ k + 1 \in 1 .. n
          /\ (k + 1) - 1 = k /\ (k - 1) + 1 = k /\ t[k] = s[k + 1]
          /\ k \in 0 .. n /\ 1 \in 0 .. n
      BY <1>1
    <3>2. r[k + 1] = r[k] + f[s[k + 1].pkt]
      BY <1>2, <3>1 DEF Sums
    <3>3. r[k] \in Int /\ r[1] \in Int /\ f[s[k + 1].pkt] \in Int
      <4>1. s[k + 1] \in Entry
        BY <3>1
      <4>2. r[k] \in Int /\ r[1] \in Int
        BY <1>4, <3>1
      <4>3. QED
        BY <4>1, <4>2 DEF Entry
    <3>4. h[k] = r[k + 1] - r[1] /\ h[k - 1] = r[k] - r[1]
      BY <3>1
    <3>5. QED
      BY <3>1, <3>2, <3>3, <3>4
  <2>3. QED
    BY <2>1, <2>2 DEF Sums
<1>7. h[n - 1] = p[n - 1]
  <2>1. n - 1 \in 0 .. Len(t)
    BY <1>1
  <2> HIDE DEF h
  <2>2. \A k \in 0 .. Len(t) : h[k] = p[k] /\ p[k] \in Int
    BY <1>1, <1>3, <1>6, SumsAgree
  <2>3. QED
    BY <2>1, <2>2
<1>8. h[n - 1] = r[n] - r[1]
  BY <1>1
<1>9. QED
  BY <1>2, <1>3, <1>5, <1>7, <1>8 DEF t

(***************************************************************************)
(* The three counters kept beside the list are those of the list.          *)
(***************************************************************************)
THEOREM CountersCorrect == Spec => []CountersMatch
<1> DEFINE Sized == \A q \in Queues :
                      /\ size[q] = Total(PktSize, pkts[q])
                      /\ duration[q] = Total(PktDuration, pkts[q])
<1>1. Init => Sized
  BY EmptyTotal DEF Init
<1>2. TypeOK /\ Sized /\ [Next]_vars => Sized'
  <2> SUFFICES ASSUME TypeOK, Sized, [Next]_vars, NEW r \in Queues
               PROVE  /\ size'[r] = Total(PktSize, pkts'[r])
                      /\ duration'[r] = Total(PktDuration, pkts'[r])
    OBVIOUS
  <2>1. /\ size[r] = Total(PktSize, pkts[r])
        /\ duration[r] = Total(PktDuration, pkts[r])
    OBVIOUS
  <2>2. /\ pkts \in [Queues -> Seq(Entry)]
        /\ size \in [Queues -> Int] /\ duration \in [Queues -> Int]
        /\ PktSize \in [Packets -> Nat] /\ PktDuration \in [Packets -> Nat]
    BY PacketsAssumption DEF TypeOK, Packets
  <2>3. ASSUME UNCHANGED <<pkts[r], size[r], duration[r]>>
        PROVE  /\ size'[r] = Total(PktSize, pkts'[r])
               /\ duration'[r] = Total(PktDuration, pkts'[r])
    BY <2>1, <2>3
  <2>4. ASSUME NEW q \in Queues, NEW p \in Packets, PutAccepted(q, p)
        PROVE  /\ size'[r] = Total(PktSize, pkts'[r])
               /\ duration'[r] = Total(PktDuration, pkts'[r])
    <3> DEFINE e == [pkt |-> p, serial |-> Stamp(q, p)]
    <3>1. /\ pkts' = [pkts EXCEPT ![q] = Append(@, e)]
          /\ size' = [size EXCEPT ![q] = @ + PktSize[p]]
          /\ duration' = [duration EXCEPT ![q] = @ + PktDuration[p]]
      BY <2>4 DEF PutAccepted
    <3>2. e \in Entry /\ e.pkt = p
      BY StampType DEF Entry
    <3> HIDE DEF e
    <3>3. CASE r = q
      <4>1. /\ pkts'[r] = Append(pkts[r], e)
            /\ size'[r] = size[r] + PktSize[p]
            /\ duration'[r] = duration[r] + PktDuration[p]
            /\ pkts[r] \in Seq(Entry)
        BY <2>2, <3>1, <3>3
      <4>2. QED
        BY <2>1, <2>2, <3>2, <4>1, AppendTotal
    <3>4. CASE r # q
      BY <2>1, <2>2, <3>1, <3>4
    <3>5. QED
      BY <3>3, <3>4
  <2>5. ASSUME NEW q \in Queues, Flush(q)
        PROVE  /\ size'[r] = Total(PktSize, pkts'[r])
               /\ duration'[r] = Total(PktDuration, pkts'[r])
    BY <2>1, <2>2, <2>5, EmptyTotal DEF Flush
  <2>6. ASSUME NEW q \in Queues, Take(q)
        PROVE  /\ size'[r] = Total(PktSize, pkts'[r])
               /\ duration'[r] = Total(PktDuration, pkts'[r])
    <3>1. /\ pkts' = [pkts EXCEPT ![q] = Tail(@)] /\ pkts[q] # <<>>
          /\ size' = [size EXCEPT ![q] = @ - PktSize[Head(pkts[q]).pkt]]
          /\ duration' =
               [duration EXCEPT ![q] = @ - PktDuration[Head(pkts[q]).pkt]]
      BY <2>6 DEF Take, HasPacket
    <3>2. CASE r = q
      <4>1. /\ pkts'[r] = Tail(pkts[r]) /\ pkts[r] # <<>>
            /\ size'[r] = size[r] - PktSize[Head(pkts[r]).pkt]
            /\ duration'[r] = duration[r] - PktDuration[Head(pkts[r]).pkt]
            /\ pkts[r] \in Seq(Entry)
        BY <2>2, <3>1, <3>2
      <4>2. QED
        BY <2>1, <2>2, <4>1, TailTotal
    <3>3. CASE r # q
      BY <2>1, <2>2, <3>1, <3>3
    <3>4. QED
      BY <3>2, <3>3
  <2>7. QED
    BY <2>3, <2>4, <2>5, <2>6
    DEF Next, vars, Start, StartClear, PutPacket, Put, Abort, TakePacket,
        GetWait, Sleep, SpuriousWake
<1>3. CountersMatch <=> NbPacketsMatch /\ Sized
  BY DEF CountersMatch
<1>4. QED
  BY <1>1, <1>2, <1>3, TypeCorrect, NbPacketsCorrect, PTL DEF Spec
=============================================================================
