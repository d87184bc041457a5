-------------------------- MODULE FrameQueueProofs --------------------------
(* Proofs about FrameQueue for every ring size, with and without keep_last *)
(* and for every set of frames.                                            *)
EXTENDS FrameQueue, TLAPS

-----------------------------------------------------------------------------
(* The arithmetic of the ring.                                             *)

(***************************************************************************)
(* The remainder of an index that went at most once around the ring.       *)
(***************************************************************************)
LEMMA SlotValue ==
    ASSUME NEW r \in Slots, NEW i \in 0 .. MaxSize
    PROVE  /\ Slot(r + i) \in Slots
           /\ r + i < MaxSize => Slot(r + i) = r + i
           /\ r + i >= MaxSize => Slot(r + i) = r + i - MaxSize
<1>1. \A n \in 0 .. MaxSize - 1 : n % MaxSize = n
  BY FrameQueueAssumption
<1>2. \A n \in MaxSize .. 2 * MaxSize - 1 : n % MaxSize = n - MaxSize
  BY FrameQueueAssumption
<1>3. CASE r + i < MaxSize
  BY <1>1, <1>3, FrameQueueAssumption DEF Slot, Slots
<1>4. CASE r + i >= MaxSize
  BY <1>2, <1>4, FrameQueueAssumption DEF Slot, Slots
<1>5. QED
  BY <1>3, <1>4, FrameQueueAssumption DEF Slots

(***************************************************************************)
(* Two offsets from one index reach two slots.                             *)
(***************************************************************************)
LEMMA SlotInjective ==
    ASSUME NEW r \in Slots, NEW i \in Slots, NEW j \in Slots, i # j
    PROVE  Slot(r + i) # Slot(r + j)
<1>1. i \in 0 .. MaxSize /\ j \in 0 .. MaxSize
  BY FrameQueueAssumption DEF Slots
<1>2. QED
  BY <1>1, SlotValue, FrameQueueAssumption DEF Slots

(***************************************************************************)
(* `++index == max_size ? 0 : index` is the next slot.                     *)
(***************************************************************************)
LEMMA SlotNext ==
    ASSUME NEW r \in Slots, NEW i \in Slots
    PROVE  LET s == IF r + 1 = MaxSize THEN 0 ELSE r + 1
               w == Slot(r + i)
           IN  /\ s \in Slots
               /\ Slot(s + i) = Slot(r + i + 1)
               /\ Slot(r + i + 1) = IF w + 1 = MaxSize THEN 0 ELSE w + 1
               /\ i = MaxSize - 1 => Slot(r + i + 1) = r
<1> DEFINE s == IF r + 1 = MaxSize THEN 0 ELSE r + 1
<1>1. s \in Slots /\ i \in 0 .. MaxSize /\ i + 1 \in 0 .. MaxSize
  BY FrameQueueAssumption DEF Slots
<1>2. /\ Slot(s + i) = IF s + i < MaxSize THEN s + i ELSE s + i - MaxSize
      /\ Slot(r + i) = IF r + i < MaxSize THEN r + i ELSE r + i - MaxSize
  BY <1>1, SlotValue, FrameQueueAssumption DEF Slots
<1>3. Slot(r + (i + 1)) = IF r + (i + 1) < MaxSize THEN r + (i + 1)
                          ELSE r + (i + 1) - MaxSize
  BY <1>1, SlotValue, FrameQueueAssumption DEF Slots
<1>4. r + (i + 1) = r + i + 1
  BY DEF Slots
<1>5. QED
  BY <1>1, <1>2, <1>3, <1>4, FrameQueueAssumption DEF Slots

-----------------------------------------------------------------------------
(* The inductive invariant, one lemma for each part of the ring it is      *)
(* about.                                                                  *)

(* A new ring is empty, and every index is in it.                          *)
LEMMA InitInv == Init => IInv
<1> SUFFICES ASSUME Init PROVE IInv
  OBVIOUS
<1>1. 0 \in Slots /\ \A i \in Slots : Slot(0 + i) = i
  <2>1. 0 \in Slots
    BY FrameQueueAssumption DEF Slots
  <2>2. ASSUME NEW i \in Slots
        PROVE  i \in 0 .. MaxSize /\ 0 + i < MaxSize /\ 0 + i = i
    BY FrameQueueAssumption DEF Slots
  <2>3. QED
    BY <2>1, <2>2, SlotValue
<1>2. TypeOK
  <2>1. size \in 0 .. MaxSize
    BY FrameQueueAssumption DEF Init
  <2>2. QED
    BY <1>1, <2>1 DEF Init, TypeOK, Locations
<1>3. RingInv
  <2>1. Stored = 0 /\ pc[Decoder] # "grow"
    <3>1. pc[Renderer] = "idle" /\ pc[Decoder] = "idle" /\ size = 0
      BY DEF Init, Threads
    <3>2. QED
      BY <3>1 DEF Stored
  <2>2. /\ rindex = 0 /\ windex = 0
        /\ \A i \in Slots : queue[i] = NoFrame /\ ~(i < 0)
    BY FrameQueueAssumption DEF Init, Slots
  <2>3. QED
    BY <1>1, <2>1, <2>2 DEF RingInv
<1>4. DecoderKnows /\ RendererKnows
  BY FrameQueueAssumption
  DEF Init, DecoderKnows, RendererKnows, Threads, Stored
<1>5. QED
  BY <1>2, <1>3, <1>4 DEF IInv

(***************************************************************************)
(* The decoder's steps keep the invariant: Fill writes the one slot that   *)
(* follows the stored frames, Push then counts it in.                      *)
(***************************************************************************)
LEMMA DecoderKeepsInv ==
    ASSUME IInv, DecoderStep
    PROVE  IInv'
<1> USE FrameQueueAssumption
<1>1. /\ TypeOK /\ RingInv /\ DecoderKnows /\ RendererKnows
      /\ \A x \in Locations : [pc EXCEPT ![Decoder] = x] \in [Threads -> Locations]
  BY DEF IInv, TypeOK, Threads
<1>2. CASE PeekWritable
  <2>1. TypeOK'
    BY <1>1, <1>2 DEF PeekWritable, Goto, TypeOK, Threads, Locations
  <2>2. /\ UNCHANGED <<queue, rindex, windex, size, rindex_shown, pc[Renderer]>>
        /\ pc[Decoder] = "idle" /\ pc'[Decoder] # "grow"
    BY <1>1, <1>2 DEF PeekWritable, Goto, TypeOK, Threads
  <2>3. RingInv'
    BY <1>1, <2>2 DEF RingInv, Stored
  <2>4. DecoderKnows' /\ RendererKnows'
    BY <1>1, <1>2
    DEF PeekWritable, Goto, TypeOK, Threads, DecoderKnows, RendererKnows,
        Stored, Remaining
  <2>5. QED
    BY <2>1, <2>3, <2>4 DEF IInv
<1>3. CASE Wait(Decoder)
  <2>1. TypeOK'
    BY <1>1, <1>3 DEF Wait, Goto, TypeOK, Threads, Locations
  <2>2. /\ UNCHANGED <<queue, rindex, windex, size, rindex_shown, pc[Renderer]>>
        /\ pc[Decoder] # "grow" /\ pc'[Decoder] # "grow"
    BY <1>1, <1>3 DEF Wait, Goto, TypeOK, Threads
  <2>3. RingInv'
    BY <1>1, <2>2 DEF RingInv, Stored
  <2>4. DecoderKnows' /\ RendererKnows'
    BY <1>1, <1>3
    DEF Wait, Goto, TypeOK, Threads, DecoderKnows, RendererKnows, Stored,
        Remaining
  <2>5. QED
    BY <2>1, <2>3, <2>4 DEF IInv
<1>4. CASE NotifyAll(Decoder, "idle")
  <2>1. TypeOK'
    BY <1>1, <1>4 DEF NotifyAll, Goto, TypeOK, Threads, Locations
  <2>2. /\ UNCHANGED <<queue, rindex, windex, size, rindex_shown, pc[Renderer]>>
        /\ pc[Decoder] # "grow" /\ pc'[Decoder] # "grow"
    BY <1>1, <1>4 DEF NotifyAll, Goto, TypeOK, Threads
  <2>3. RingInv'
    BY <1>1, <2>2 DEF RingInv, Stored
  <2>4. DecoderKnows' /\ RendererKnows'
    BY <1>1, <1>4
    DEF NotifyAll, Goto, TypeOK, Threads, DecoderKnows, RendererKnows, Stored,
        Remaining
  <2>5. QED
    BY <2>1, <2>3, <2>4 DEF IInv
<1>5. ASSUME NEW f \in Frames, Fill(f)
      PROVE  IInv'
  <2>1. TypeOK'
    BY <1>1, <1>5 DEF Fill, Goto, TypeOK, Threads, Locations
  <2>2. /\ UNCHANGED <<rindex, windex, size, rindex_shown, pc[Renderer]>>
        /\ queue' = [queue EXCEPT ![windex] = f]
        /\ pc[Decoder] = "fill" /\ pc'[Decoder] = "grow"
        /\ f # NoFrame
    BY <1>1, <1>5 DEF Fill, Goto, TypeOK, Threads
  <2>3. Stored' = Stored /\ Stored \in Slots /\ Stored <= size
    BY <1>1, <2>2 DEF DecoderKnows, RendererKnows, Stored, TypeOK, Slots
  <2>4. RingInv'
    <3>1. \A i \in Slots : Slot(rindex + i) \in Slots
      BY <1>1, SlotValue DEF TypeOK, Slots
    <3>2. \A i \in Slots : i # Stored => Slot(rindex + i) # windex
      BY <1>1, <2>3, SlotInjective DEF RingInv, TypeOK
    <3>3. ASSUME NEW i \in Slots
          PROVE  queue'[Slot(rindex + i)] # NoFrame <=> (i < Stored \/ i = Stored)
      <4>1. CASE i = Stored
        BY <1>1, <2>2, <2>3, <4>1 DEF RingInv, TypeOK
      <4>2. CASE i # Stored
        <5>1. queue'[Slot(rindex + i)] = queue[Slot(rindex + i)]
          BY <1>1, <2>2, <3>1, <3>2, <4>2 DEF TypeOK
        <5>2. QED
          BY <1>1, <2>2, <4>2, <5>1 DEF RingInv
      <4>3. QED
        BY <4>1, <4>2
    <3>4. QED
      BY <1>1, <2>2, <2>3, <3>3 DEF RingInv
  <2>5. DecoderKnows' /\ RendererKnows'
    BY <1>1, <1>5
    DEF Fill, Goto, TypeOK, Threads, DecoderKnows, RendererKnows, Stored,
        Remaining
  <2>6. QED
    BY <2>1, <2>4, <2>5 DEF IInv
<1>6. CASE Push
  <2>1. /\ UNCHANGED <<queue, rindex, rindex_shown, pc[Renderer]>>
        /\ windex' = IF windex + 1 = MaxSize THEN 0 ELSE windex + 1
        /\ size' = size + 1 /\ size < MaxSize
        /\ pc[Decoder] = "grow" /\ pc'[Decoder] = "notify"
        /\ lock = None
    BY <1>1, <1>6 DEF Push, Goto, TypeOK, Threads, DecoderKnows
  <2>2. TypeOK'
    <3>1. windex' \in Slots /\ size' \in 0 .. MaxSize
      BY <1>1, <2>1 DEF TypeOK, Slots
    <3>2. QED
      BY <1>1, <1>6, <3>1 DEF Push, Goto, TypeOK, Threads, Locations
  <2>3. Stored' = Stored + 1 /\ Stored \in Slots
    BY <1>1, <2>1 DEF RendererKnows, Stored, TypeOK, Slots
  <2>4. RingInv'
    <3>1. windex' = Slot(rindex + Stored + 1)
      <4>1. windex = Slot(rindex + Stored) /\ rindex \in Slots
        BY <1>1 DEF RingInv, TypeOK
      <4>2. QED
        BY <2>1, <2>3, <4>1, SlotNext
    <3>2. rindex + (Stored + 1) = rindex + Stored + 1
      BY <1>1, <2>3 DEF TypeOK, Slots
    <3>3. \A i \in Slots : (i < Stored + 1) <=> (i < Stored \/ i = Stored)
      BY <2>3 DEF Slots
    <3>4. QED
      BY <1>1, <2>1, <2>3, <3>1, <3>2, <3>3 DEF RingInv
  <2>5. DecoderKnows' /\ RendererKnows'
    BY <1>1, <1>6, <2>1
    DEF Push, Goto, TypeOK, Threads, DecoderKnows, RendererKnows, Stored,
        Remaining
  <2>6. QED
    BY <2>2, <2>4, <2>5 DEF IInv
<1>7. QED
  BY <1>2, <1>3, <1>4, <1>5, <1>6 DEF DecoderStep

(***************************************************************************)
(* The renderer's steps keep the invariant: NextRelease empties the first  *)
(* stored slot and NextShrink then counts it out.                          *)
(***************************************************************************)
LEMMA RendererKeepsInv ==
    ASSUME IInv, RendererStep
    PROVE  IInv'
<1> USE FrameQueueAssumption
<1>1. TypeOK /\ RingInv /\ DecoderKnows /\ RendererKnows
  BY DEF IInv
<1>2. CASE PeekFrame /\ Renderer \notin sleeping
  <2>1. Slot(rindex + rindex_shown) \in Slots
    <3>1. rindex \in Slots /\ rindex_shown \in 0 .. MaxSize
      BY <1>1 DEF TypeOK, Slots
    <3>2. QED
      BY <3>1, SlotValue
  <2>2. TypeOK'
    BY <1>1, <1>2, <2>1 DEF PeekFrame, Goto, TypeOK, Threads, Locations
  <2>3. /\ UNCHANGED <<queue, rindex, windex, size, pc[Decoder]>>
        /\ pc[Renderer] # "shrink" /\ pc'[Renderer] # "shrink"
    BY <1>1, <1>2 DEF PeekFrame, Goto, TypeOK, Threads
  <2>4. RingInv'
    BY <1>1, <2>3 DEF RingInv, Stored
  <2>5. DecoderKnows' /\ RendererKnows'
    BY <1>1, <1>2
    DEF PeekFrame, Goto, TypeOK, Threads, DecoderKnows, RendererKnows, Stored,
        Remaining
  <2>6. QED
    BY <2>2, <2>4, <2>5 DEF IInv
<1>3. CASE PeekReadable /\ ~PeekFrame
  <2>1. /\ lock = None /\ Renderer \notin sleeping /\ Remaining <= 0
        /\ Goto(Renderer, "idle", "wait")
        /\ lock' = Renderer
        /\ UNCHANGED <<queue, rindex, windex, size, rindex_shown,
                       abort_request, sleeping, held>>
    BY <1>3 DEF PeekReadable
  <2>2. TypeOK'
    BY <1>1, <2>1 DEF Goto, TypeOK, Threads, Locations
  <2>3. /\ pc[Renderer] # "shrink" /\ pc'[Renderer] # "shrink"
        /\ UNCHANGED pc[Decoder]
    BY <1>1, <2>1 DEF Goto, TypeOK, Threads
  <2>4. RingInv'
    BY <1>1, <2>1, <2>3 DEF RingInv, Stored
  <2>5. DecoderKnows' /\ RendererKnows'
    BY <1>1, <2>1
    DEF Goto, TypeOK, Threads, DecoderKnows, RendererKnows, Stored, Remaining
  <2>6. QED
    BY <2>2, <2>4, <2>5 DEF IInv
<1>4. CASE Wait(Renderer)
  <2>1. TypeOK'
    BY <1>1, <1>4 DEF Wait, Goto, TypeOK, Threads, Locations
  <2>2. /\ UNCHANGED <<queue, rindex, windex, size, pc[Decoder]>>
        /\ pc[Renderer] # "shrink" /\ pc'[Renderer] # "shrink"
    BY <1>1, <1>4 DEF Wait, Goto, TypeOK, Threads
  <2>3. RingInv'
    BY <1>1, <2>2 DEF RingInv, Stored
  <2>4. DecoderKnows' /\ RendererKnows'
    BY <1>1, <1>4
    DEF Wait, Goto, TypeOK, Threads, DecoderKnows, RendererKnows, Stored,
        Remaining
  <2>5. QED
    BY <2>1, <2>3, <2>4 DEF IInv
<1>5. CASE NotifyAll(Renderer, "use")
  <2>1. TypeOK'
    BY <1>1, <1>5 DEF NotifyAll, Goto, TypeOK, Threads, Locations
  <2>2. /\ UNCHANGED <<queue, rindex, windex, size, pc[Decoder]>>
        /\ pc[Renderer] # "shrink" /\ pc'[Renderer] # "shrink"
    BY <1>1, <1>5 DEF NotifyAll, Goto, TypeOK, Threads
  <2>3. RingInv'
    BY <1>1, <2>2 DEF RingInv, Stored
  <2>4. DecoderKnows' /\ RendererKnows'
    BY <1>1, <1>5
    DEF NotifyAll, Goto, TypeOK, Threads, DecoderKnows, RendererKnows, Stored,
        Remaining
  <2>5. QED
    BY <2>1, <2>3, <2>4 DEF IInv
<1>6. CASE Used
  <2>1. TypeOK'
    BY <1>1, <1>6 DEF Used, Goto, TypeOK, Threads, Locations
  <2>2. /\ UNCHANGED <<queue, rindex, windex, size, pc[Decoder]>>
        /\ pc[Renderer] # "shrink" /\ pc'[Renderer] # "shrink"
    BY <1>1, <1>6 DEF Used, Goto, TypeOK, Threads
  <2>3. RingInv'
    BY <1>1, <2>2 DEF RingInv, Stored
  <2>4. DecoderKnows' /\ RendererKnows'
    BY <1>1, <1>6
    DEF Used, Goto, TypeOK, Threads, DecoderKnows, RendererKnows, Stored,
        Remaining
  <2>5. QED
    BY <2>1, <2>3, <2>4 DEF IInv
<1>7. CASE NextFrame /\ NextShowFirst
  <2>1. TypeOK'
    BY <1>1, <1>7 DEF NextFrame, NextShowFirst, Goto, TypeOK, Threads, Locations
  <2>2. /\ UNCHANGED <<queue, rindex, windex, size, pc[Decoder]>>
        /\ pc[Renderer] # "shrink" /\ pc'[Renderer] # "shrink"
    BY <1>1, <1>7 DEF NextFrame, NextShowFirst, Goto, TypeOK, Threads
  <2>3. RingInv'
    BY <1>1, <2>2 DEF RingInv, Stored
  <2>4. DecoderKnows' /\ RendererKnows'
    BY <1>1, <1>7
    DEF NextFrame, NextShowFirst, Goto, TypeOK, Threads, DecoderKnows, RendererKnows, Stored,
        Remaining
  <2>5. QED
    BY <2>1, <2>3, <2>4 DEF IInv
<1>8. CASE NextFrame /\ NextRelease
  <2> DEFINE s == IF rindex + 1 = MaxSize THEN 0 ELSE rindex + 1
  <2>1. /\ UNCHANGED <<windex, size, rindex_shown, lock, sleeping, held,
                       abort_request, pc[Decoder]>>
        /\ queue' = [queue EXCEPT ![rindex] = NoFrame]
        /\ rindex' = s
        /\ pc[Renderer] = "next" /\ pc'[Renderer] = "shrink"
        /\ size - rindex_shown > 0
    BY <1>1, <1>8
    DEF NextFrame, NextRelease, Goto, TypeOK, Threads, RendererKnows, Remaining
  <2>2. rindex \in Slots /\ s \in Slots /\ MaxSize - 1 \in Slots
    BY <1>1 DEF TypeOK, Slots
  <2>3. TypeOK'
    BY <1>1, <1>8, <2>2
    DEF NextFrame, NextRelease, Goto, TypeOK, Threads, Locations
  <2>4. /\ Stored = size /\ Stored' = size - 1
        /\ size \in 1 .. MaxSize
    BY <1>1, <2>1 DEF Stored, TypeOK
  <2>5. \A i \in Slots : /\ Slot(s + i) = Slot(rindex + (i + 1))
                         /\ i = MaxSize - 1 => Slot(s + i) = rindex
    <3>1. ASSUME NEW i \in Slots
          PROVE  rindex + (i + 1) = rindex + i + 1
      BY <2>2 DEF Slots
    <3>2. QED
      BY <2>2, <3>1, SlotNext
  <2>6. RingInv'
    <3>1. windex = Slot(s + (size - 1))
      <4>1. size - 1 \in Slots /\ size - 1 + 1 = size
        BY <2>4 DEF Slots
      <4>2. QED
        BY <1>1, <2>4, <2>5, <4>1 DEF RingInv
    <3>2. ASSUME NEW i \in Slots
          PROVE  queue'[Slot(s + i)] # NoFrame <=>
                   (i < size - 1 \/ (i = size - 1 /\ pc[Decoder] = "grow"))
      <4>1. CASE i = MaxSize - 1
        <5>1. queue'[Slot(s + i)] = NoFrame
          BY <1>1, <2>1, <2>2, <2>5, <4>1 DEF TypeOK
        <5>2. pc[Decoder] = "grow" => size < MaxSize
          BY <1>1 DEF DecoderKnows
        <5>3. QED
          BY <2>4, <4>1, <5>1, <5>2
      <4>2. CASE i # MaxSize - 1
        <5>1. i + 1 \in Slots /\ i + 1 # 0 /\ 0 \in Slots /\ i + 1 \in 0 .. MaxSize
          BY <4>2 DEF Slots
        <5>2. Slot(rindex + 0) = rindex
          <6>1. 0 \in 0 .. MaxSize /\ rindex + 0 = rindex /\ rindex + 0 < MaxSize
            BY <2>2 DEF Slots
          <6>2. QED
            BY <2>2, <6>1, SlotValue
        <5>3. /\ Slot(rindex + (i + 1)) # rindex
              /\ Slot(rindex + (i + 1)) \in Slots
          BY <2>2, <5>1, <5>2, SlotInjective, SlotValue
        <5>4. queue'[Slot(s + i)] = queue[Slot(rindex + (i + 1))]
          BY <1>1, <2>1, <2>5, <5>3 DEF TypeOK
        <5>5. queue[Slot(rindex + (i + 1))] # NoFrame <=>
                (i + 1 < size \/ (i + 1 = size /\ pc[Decoder] = "grow"))
          BY <1>1, <2>4, <5>1 DEF RingInv
        <5>6. (i + 1 < size <=> i < size - 1) /\ (i + 1 = size <=> i = size - 1)
          BY <2>4 DEF Slots
        <5>7. QED
          BY <5>4, <5>5, <5>6
      <4>3. QED
        BY <4>1, <4>2
    <3>3. QED
      BY <2>1, <2>4, <3>1, <3>2 DEF RingInv
  <2>7. DecoderKnows'
    BY <1>1, <2>1 DEF DecoderKnows
  <2>8. RendererKnows'
    BY <1>1, <2>1, <2>4, <1>8
    DEF RendererKnows, NextRelease, TypeOK
  <2>9. QED
    BY <2>3, <2>6, <2>7, <2>8 DEF IInv
<1>9. CASE NextFrame /\ NextShrink
  <2>1. /\ UNCHANGED <<queue, rindex, windex, rindex_shown, sleeping, held,
                       abort_request, lock, pc[Decoder]>>
        /\ size' = size - 1
        /\ pc[Renderer] = "shrink" /\ pc'[Renderer] = "notify"
        /\ lock = None
    BY <1>1, <1>9 DEF NextFrame, NextShrink, Goto, TypeOK, Threads
  <2>2. /\ Stored = size - 1 /\ Stored' = size - 1
        /\ size - 1 >= rindex_shown
    BY <1>1, <2>1 DEF Stored, RendererKnows, TypeOK
  <2>3. TypeOK'
    <3>1. size' \in 0 .. MaxSize
      BY <1>1, <2>1, <2>2 DEF TypeOK
    <3>2. QED
      BY <1>1, <1>9, <3>1 DEF NextFrame, NextShrink, Goto, TypeOK, Threads, Locations
  <2>4. RingInv'
    BY <1>1, <2>1, <2>2 DEF RingInv
  <2>5. DecoderKnows'
    <3>1. pc[Decoder] # "wait"
      BY <1>1, <2>1, FrameQueueAssumption DEF DecoderKnows, Threads
    <3>2. size' < MaxSize
      BY <1>1, <2>1 DEF TypeOK
    <3>3. QED
      BY <1>1, <2>1, <3>1, <3>2 DEF DecoderKnows
  <2>6. RendererKnows'
    BY <1>1, <2>1, <2>2 DEF RendererKnows, TypeOK
  <2>7. QED
    BY <2>3, <2>4, <2>5, <2>6 DEF IInv
<1>10. QED
  BY <1>2, <1>3, <1>4, <1>5, <1>6, <1>7, <1>8, <1>9
  DEF RendererStep, PeekReadable, Peek, NextFrame

(***************************************************************************)
(* An abort, its Signal and a spurious wakeup do not touch the ring.       *)
(***************************************************************************)
LEMMA OthersKeepInv ==
    ASSUME IInv,
           \/ SetAbort
           \/ Signal
           \/ \E t \in {Decoder, Renderer} : SpuriousWake(t)
           \/ UNCHANGED vars
    PROVE  IInv'
<1> USE FrameQueueAssumption
<1>1. TypeOK /\ RingInv /\ DecoderKnows /\ RendererKnows
  BY DEF IInv
<1>2. /\ UNCHANGED <<queue, rindex, windex, size, rindex_shown, lock, held,
                     pc[Decoder], pc[Renderer]>>
      /\ sleeping' \subseteq sleeping
  BY <1>1
  DEF SetAbort, Signal, NotifyAll, SpuriousWake, vars, Goto, TypeOK, Threads
<1>3. TypeOK'
  <2>1. pc' \in [Threads -> Locations] /\ abort_request' \in BOOLEAN
    <3>1. pc \in [Threads -> Locations] /\ abort_request \in BOOLEAN
      BY <1>1 DEF TypeOK
    <3>2. \/ pc' = pc
          \/ pc' = [pc EXCEPT ![Aborter] = "notify"]
          \/ pc' = [pc EXCEPT ![Aborter] = "done"]
      BY DEF SetAbort, Signal, NotifyAll, SpuriousWake, vars, Goto
    <3>3. abort_request' = abort_request \/ abort_request' = TRUE
      BY DEF SetAbort, Signal, NotifyAll, SpuriousWake, vars
    <3>4. pc' \in [Threads -> Locations]
      BY <3>1, <3>2 DEF Threads, Locations
    <3>5. QED
      BY <3>1, <3>3, <3>4
  <2>2. QED
    BY <1>1, <1>2, <2>1 DEF TypeOK
<1>4. RingInv'
  BY <1>1, <1>2 DEF RingInv, Stored
<1>5. DecoderKnows' /\ RendererKnows'
  BY <1>1, <1>2 DEF DecoderKnows, RendererKnows, Stored, Remaining
<1>6. QED
  BY <1>3, <1>4, <1>5 DEF IInv

(* The inductive invariant holds in every run of decoder and renderer.     *)
LEMMA InvHolds == Spec => []IInv
<1>1. IInv /\ [Next]_vars => IInv'
  BY DecoderKeepsInv, RendererKeepsInv, OthersKeepInv DEF Next
<1>2. QED
  BY <1>1, InitInv, PTL DEF Spec

-----------------------------------------------------------------------------
(* What follows from it.                                                   *)

(***************************************************************************)
(* Types, with size within 0 .. max_size: the ring neither overruns nor    *)
(* underruns.                                                              *)
(***************************************************************************)
THEOREM TypeCorrect == Spec => []TypeOK
BY InvHolds, PTL DEF IInv

(***************************************************************************)
(* rindex, windex and size agree with the slots that hold frames.          *)
(***************************************************************************)
THEOREM RingCorrect == Spec => []RingInv
BY InvHolds, PTL DEF IInv

(* From PeekWritable to Push the slot at windex holds no frame.            *)
LEMMA FreeSlot ==
    ASSUME IInv, pc[Decoder] = "fill"
    PROVE  queue[windex] = NoFrame
<1>1. Stored \in Slots
  BY FrameQueueAssumption
  DEF IInv, TypeOK, DecoderKnows, RendererKnows, Stored, Slots
<1>2. QED
  BY <1>1 DEF IInv, RingInv, TypeOK, Slots

(***************************************************************************)
(* PeekWritable never hands out a slot that still holds a frame.           *)
(***************************************************************************)
THEOREM FillCorrect == Spec => []FillsFreeSlot
<1>1. IInv => FillsFreeSlot
  BY FreeSlot DEF FillsFreeSlot
<1>2. QED
  BY <1>1, InvHolds, PTL

(***************************************************************************)
(* With keep_last the frame that AudioDecodeFrame and RenderPicture read   *)
(* after Next stays in its slot: both queues of a player set keep_last.    *)
(***************************************************************************)
THEOREM HeldFrameCorrect == KeepLast => (Spec => []HeldFrameIntact)
<1> SUFFICES ASSUME KeepLast
             PROVE  Spec => []HeldFrameIntact
  OBVIOUS
<1> USE FrameQueueAssumption
<1>1. Init => HeldIsKept
  BY DEF Init, HeldIsKept, Threads
<1>2. IInv /\ IInv' /\ HeldIsKept /\ [Next]_vars => HeldIsKept'
  <2> SUFFICES ASSUME IInv, IInv', HeldIsKept, [Next]_vars
               PROVE  HeldIsKept'
    OBVIOUS
  <2>1. TypeOK /\ RingInv /\ DecoderKnows /\ RendererKnows /\ TypeOK' /\ RendererKnows'
    BY DEF IInv
  <2>2. ASSUME UNCHANGED <<queue, rindex, rindex_shown, held, pc[Renderer]>>
        PROVE  HeldIsKept'
    BY <2>2 DEF HeldIsKept
  <2>3. ASSUME NEW f \in Frames, Fill(f)
        PROVE  HeldIsKept'
    <3>1. /\ UNCHANGED <<rindex, rindex_shown, held, size, pc[Renderer]>>
          /\ queue' = [queue EXCEPT ![windex] = f]
          /\ pc[Decoder] = "fill"
      BY <2>1, <2>3 DEF Fill, Goto, TypeOK, Threads
    <3>2. queue[windex] = NoFrame
      BY <3>1, FreeSlot
    <3>3. \A i \in Slots : i < Stored => /\ Slot(rindex + i) \in Slots
                                         /\ queue[Slot(rindex + i)] # NoFrame
      <4>1. ASSUME NEW i \in Slots
            PROVE  Slot(rindex + i) \in Slots
        <5>1. i \in 0 .. MaxSize /\ rindex \in Slots
          BY <2>1 DEF TypeOK, Slots
        <5>2. QED
          BY <5>1, SlotValue
      <4>2. QED
        BY <2>1, <4>1 DEF RingInv
    <3>4. pc[Renderer] = "next" => queue'[held.slot] = queue[held.slot]
      <4> SUFFICES ASSUME pc[Renderer] = "next"
                   PROVE  queue'[held.slot] = queue[held.slot]
        OBVIOUS
      <4>1. rindex_shown \in Slots /\ rindex_shown < Stored
        BY <2>1 DEF TypeOK, RendererKnows, Remaining, Stored, Slots
      <4>2. /\ held.slot \in Slots
            /\ held.slot = Slot(rindex + rindex_shown)
            /\ queue[held.slot] # NoFrame
        BY <3>3, <4>1 DEF HeldIsKept
      <4>3. QED
        BY <2>1, <3>1, <3>2, <4>2 DEF TypeOK
    <3>5. pc[Renderer] \in {"shrink", "notify", "use"} =>
             queue'[rindex] = queue[rindex]
      <4> SUFFICES ASSUME pc[Renderer] \in {"shrink", "notify", "use"}
                   PROVE  queue'[rindex] = queue[rindex]
        OBVIOUS
      <4>1. 0 \in Slots /\ 0 < Stored /\ rindex \in Slots
        <5>1. rindex_shown = 1
          BY DEF HeldIsKept
        <5>2. 0 < Stored
          BY <2>1, <5>1 DEF RendererKnows, TypeOK, Stored
        <5>3. QED
          BY <2>1, <5>2 DEF TypeOK, Slots
      <4>2. Slot(rindex + 0) = rindex
        <5>1. 0 \in 0 .. MaxSize /\ rindex + 0 = rindex /\ rindex + 0 < MaxSize
          BY <4>1 DEF Slots
        <5>2. QED
          BY <4>1, <5>1, SlotValue
      <4>3. queue[rindex] # NoFrame
        BY <3>3, <4>1, <4>2
      <4>4. QED
        BY <2>1, <3>1, <3>2, <4>1, <4>3 DEF TypeOK
    <3>6. QED
      BY <3>1, <3>4, <3>5 DEF HeldIsKept
  <2>4. CASE PeekFrame
    BY <2>1, <2>4 DEF PeekFrame, Goto, HeldIsKept, TypeOK, Threads
  <2>5. CASE NextFrame /\ NextShowFirst
    <3>1. /\ UNCHANGED <<queue, rindex, held>>
          /\ rindex_shown = 0 /\ rindex_shown' = 1
          /\ pc[Renderer] = "next" /\ pc'[Renderer] = "use"
      BY <2>1, <2>5 DEF NextFrame, NextShowFirst, Goto, TypeOK, Threads
    <3>2. Slot(rindex + 0) = rindex
      <4>1. rindex \in Slots /\ 0 \in 0 .. MaxSize /\ rindex + 0 = rindex
            /\ rindex + 0 < MaxSize
        BY <2>1 DEF TypeOK, Slots
      <4>2. QED
        BY <4>1, SlotValue
    <3>3. QED
      BY <3>1, <3>2 DEF HeldIsKept
  <2>6. CASE NextFrame /\ NextRelease
    <3>1. /\ UNCHANGED <<held, rindex_shown, size>>
          /\ rindex_shown = 1
          /\ queue' = [queue EXCEPT ![rindex] = NoFrame]
          /\ rindex' = IF rindex + 1 = MaxSize THEN 0 ELSE rindex + 1
          /\ pc[Renderer] = "next" /\ pc'[Renderer] = "shrink"
      BY <2>1, <2>6 DEF NextFrame, NextRelease, Goto, TypeOK, Threads
    <3>2. /\ held.slot = Slot(rindex + 1)
          /\ held.frame = queue[held.slot]
          /\ rindex \in Slots
          /\ size \in 2 .. MaxSize
      BY <2>1, <3>1 DEF HeldIsKept, TypeOK, RendererKnows, Remaining
    <3>3. Slot(rindex + 1) = rindex' /\ rindex' # rindex /\ rindex' \in Slots
      <4>1. 1 \in 0 .. MaxSize /\ MaxSize >= 2
        BY <3>2
      <4>2. /\ rindex + 1 < MaxSize => Slot(rindex + 1) = rindex + 1
            /\ rindex + 1 >= MaxSize => Slot(rindex + 1) = rindex + 1 - MaxSize
        BY <3>2, <4>1, SlotValue
      <4>3. QED
        BY <3>1, <3>2, <4>1, <4>2 DEF Slots
    <3>4. QED
      BY <2>1, <3>1, <3>2, <3>3 DEF HeldIsKept, TypeOK
  <2>7. CASE /\ UNCHANGED <<queue, rindex, rindex_shown, held>>
             /\ pc[Renderer] # "next"
             /\ pc'[Renderer] # "next"
             /\ \/ pc[Renderer] \in {"shrink", "notify", "use"}
                \/ pc'[Renderer] \in {"idle", "wait"}
    BY <2>7 DEF HeldIsKept
  <2>8. QED
    BY <2>1, <2>2, <2>3, <2>4, <2>5, <2>6, <2>7
    DEF Next, DecoderStep, RendererStep, PeekWritable, Wait, NotifyAll, Push,
        PeekReadable, Peek, NextFrame, NextShrink, Used, SetAbort, Signal,
        SpuriousWake, vars, Goto, TypeOK, Threads
<1>3. IInv /\ HeldIsKept => HeldFrameIntact
  <2> SUFFICES ASSUME IInv, HeldIsKept,
                      pc[Renderer] \in {"shrink", "notify", "use"}
               PROVE  held.frame # NoFrame /\ queue[held.slot] = held.frame
    BY DEF HeldFrameIntact
  <2>1. 0 \in Slots /\ 0 < Stored /\ rindex \in Slots
    BY DEF IInv, HeldIsKept, TypeOK, RendererKnows, Stored, Slots
  <2>2. Slot(rindex + 0) = rindex
    <3>1. 0 \in 0 .. MaxSize /\ rindex + 0 = rindex /\ rindex + 0 < MaxSize
      BY <2>1 DEF Slots
    <3>2. QED
      BY <2>1, <3>1, SlotValue
  <2>3. queue[rindex] # NoFrame
    BY <2>1, <2>2 DEF IInv, RingInv
  <2>4. QED
    BY <2>3 DEF HeldIsKept
<1>4. QED
  BY <1>1, <1>2, <1>3, InvHolds, PTL DEF Spec

(***************************************************************************)
(* A thread that sleeps while there is a frame, or a slot, for it is about *)
(* to be notified: the test and the wait of PeekWritable and PeekReadable  *)
(* exclude Push and Next by the mutex.                                     *)
(***************************************************************************)
THEOREM WakeCorrect == Spec => []NoLostFrameWake
<1> USE FrameQueueAssumption
<1>1. Init => NoLostFrameWake
  BY DEF Init, NoLostFrameWake
<1>2. IInv /\ NoLostFrameWake /\ [Next]_vars => NoLostFrameWake'
  <2> SUFFICES ASSUME IInv, NoLostFrameWake, [Next]_vars
               PROVE  NoLostFrameWake'
    OBVIOUS
  <2> USE DEF NoLostFrameWake, Remaining
  <2>1. TypeOK /\ DecoderKnows /\ RendererKnows
    BY DEF IInv
  <2>2. CASE Push
    BY <2>1, <2>2 DEF Push, Goto, TypeOK, Threads, DecoderKnows, RendererKnows
  <2>3. ASSUME NEW t \in {Decoder, Renderer}, Wait(t)
        PROVE  NoLostFrameWake'
    BY <2>1, <2>3 DEF Wait, Goto, TypeOK, Threads, DecoderKnows, RendererKnows
  <2>4. CASE NextFrame
    BY <2>1, <2>4
    DEF NextFrame, NextShowFirst, NextRelease, NextShrink, Goto, TypeOK,
        Threads, DecoderKnows, RendererKnows
  <2>5. ASSUME sleeping' = {}
        PROVE  NoLostFrameWake'
    BY <2>5
  <2>6. ASSUME UNCHANGED <<size, rindex_shown>>, sleeping' \subseteq sleeping,
               pc[Decoder] = "notify" => pc'[Decoder] = "notify",
               pc[Renderer] = "notify" => pc'[Renderer] = "notify"
        PROVE  NoLostFrameWake'
    BY <2>6
  <2>7. QED
    BY <2>1, <2>2, <2>3, <2>4, <2>5, <2>6
    DEF Next, DecoderStep, RendererStep, PeekWritable, NotifyAll, Fill,
        PeekReadable, Peek, PeekFrame, Used, SetAbort, Signal, SpuriousWake,
        vars, Goto, TypeOK, Threads
<1>3. QED
  BY <1>1, <1>2, InvHolds, PTL DEF Spec

-----------------------------------------------------------------------------
(* The ring implements the bounded queue with a kept frame.                *)

(***************************************************************************)
(* The pending frames lie in the slots from offset rindex_shown on.        *)
(***************************************************************************)
PendingShape ==
    /\ Stored \in 0 .. MaxSize /\ rindex_shown <= Stored
    /\ Pending \in Seq(Frames)
    /\ Len(Pending) = Stored - rindex_shown
    /\ \A i \in 1 .. Stored - rindex_shown :
          /\ rindex_shown + i - 1 \in Slots
          /\ Pending[i] = queue[Slot(rindex + (rindex_shown + i - 1))]
    /\ rindex_shown = 1 => Kept \in Frames /\ Kept = queue[rindex]

(* The frames the ring promises are those of its stored slots, in order.   *)
LEMMA PendingFrames == IInv => PendingShape
<1> SUFFICES ASSUME IInv PROVE PendingShape
  OBVIOUS
<1> USE FrameQueueAssumption
<1>1. /\ TypeOK /\ RingInv
      /\ Stored \in 0 .. MaxSize
      /\ rindex_shown <= Stored /\ rindex_shown \in {0, 1}
  BY DEF IInv, TypeOK, RendererKnows, Stored
<1>2. \A j \in Slots : j < Stored =>
         Slot(rindex + j) \in Slots /\ queue[Slot(rindex + j)] \in Frames
  <2>1. ASSUME NEW j \in Slots
        PROVE  Slot(rindex + j) \in Slots
    <3>1. j \in 0 .. MaxSize /\ rindex \in Slots
      BY <1>1 DEF TypeOK, Slots
    <3>2. QED
      BY <3>1, SlotValue
  <2>2. QED
    BY <1>1, <2>1 DEF RingInv, TypeOK
<1>3. ASSUME NEW i \in 1 .. Stored - rindex_shown
      PROVE  /\ rindex_shown + i - 1 \in Slots
             /\ rindex_shown + i - 1 < Stored
             /\ rindex + rindex_shown + i - 1 = rindex + (rindex_shown + i - 1)
  BY <1>1 DEF Slots, TypeOK
<1>4. \A i \in 1 .. Stored - rindex_shown :
         /\ Pending[i] = queue[Slot(rindex + (rindex_shown + i - 1))]
         /\ Pending[i] \in Frames
  BY <1>2, <1>3 DEF Pending
<1>5. Stored - rindex_shown \in Nat
  BY <1>1
<1>6. Pending \in Seq(Frames) /\ Len(Pending) = Stored - rindex_shown
  BY <1>4, <1>5 DEF Pending
<1>7. rindex_shown = 1 => Kept \in Frames /\ Kept = queue[rindex]
  <2> SUFFICES ASSUME rindex_shown = 1
               PROVE  queue[rindex] \in Frames /\ Kept = queue[rindex]
    OBVIOUS
  <2>1. 0 \in Slots /\ 0 < Stored /\ rindex \in Slots
    BY <1>1 DEF TypeOK, Slots
  <2>2. 0 \in 0 .. MaxSize /\ rindex + 0 = rindex /\ rindex + 0 < MaxSize
    BY <2>1 DEF Slots
  <2>3. Slot(rindex + 0) = rindex
    BY <2>1, <2>2, SlotValue
  <2>4. QED
    BY <1>2, <2>1, <2>3 DEF Kept
<1>8. QED
  BY <1>1, <1>3, <1>4, <1>6, <1>7 DEF PendingShape

(* The same after a step that keeps the invariant.                         *)
LEMMA PendingFramesNext == IInv' => PendingShape'
BY PendingFrames, PTL

(***************************************************************************)
(* A step that leaves the stored slots and where they start alone is a     *)
(* stutter of the bounded queue.                                           *)
(***************************************************************************)
LEMMA StutterStep ==
    ASSUME IInv, UNCHANGED <<rindex, rindex_shown>>, Stored' = Stored,
           \A j \in Slots : j < Stored =>
              queue'[Slot(rindex + j)] = queue[Slot(rindex + j)]
    PROVE  UNCHANGED <<Pending, Kept>>
<1> USE FrameQueueAssumption
<1>1. \A i \in 1 .. Stored - rindex_shown :
         queue'[Slot(rindex + rindex_shown + i - 1)]
           = queue[Slot(rindex + rindex_shown + i - 1)]
  <2> SUFFICES ASSUME NEW i \in 1 .. Stored - rindex_shown
               PROVE  queue'[Slot(rindex + rindex_shown + i - 1)]
                        = queue[Slot(rindex + rindex_shown + i - 1)]
    OBVIOUS
  <2>1. /\ rindex_shown + i - 1 \in Slots /\ rindex_shown + i - 1 < Stored
        /\ rindex + (rindex_shown + i - 1) = rindex + rindex_shown + i - 1
    BY PendingFrames DEF PendingShape, IInv, TypeOK, Slots
  <2>2. QED
    BY <2>1
<1>2. Pending' = Pending
  BY <1>1 DEF Pending
<1>3. Kept' = Kept
  <2>1. CASE rindex_shown = 1
    <3>1. 0 \in Slots /\ 0 < Stored /\ rindex \in Slots
      BY <2>1, PendingFrames DEF PendingShape, IInv, TypeOK, Slots
    <3>2. 0 \in 0 .. MaxSize /\ rindex + 0 = rindex /\ rindex + 0 < MaxSize
      BY <3>1 DEF Slots
    <3>3. Slot(rindex + 0) = rindex
      BY <3>1, <3>2, SlotValue
    <3>4. queue'[rindex] = queue[rindex]
      BY <3>1, <3>3
    <3>5. QED
      BY <3>4 DEF Kept
  <2>2. CASE rindex_shown # 1
    BY <2>2 DEF Kept
  <2>3. QED
    BY <2>1, <2>2
<1>4. QED
  BY <1>2, <1>3

(***************************************************************************)
(* Push of the ring is Push of the bounded queue, with the frame that Fill *)
(* left in the slot.                                                       *)
(***************************************************************************)
LEMMA PushStep ==
    ASSUME IInv, IInv', Push
    PROVE  \E f \in Frames : Fifo!Push(f)
<1> USE FrameQueueAssumption
<1> DEFINE f == queue[windex]
           n == Stored - rindex_shown
<1>1. /\ UNCHANGED <<queue, rindex, rindex_shown, pc[Renderer]>>
      /\ size' = size + 1 /\ size < MaxSize
      /\ pc[Decoder] = "grow"
  BY DEF Push, Goto, IInv, TypeOK, Threads, DecoderKnows
<1>2. Stored' = Stored + 1 /\ Stored \in Slots /\ rindex_shown \in {0, 1}
  BY <1>1, PendingFrames DEF PendingShape, IInv, TypeOK, Stored, Slots
<1>3. windex = Slot(rindex + Stored) /\ f \in Frames
  BY <1>1, <1>2 DEF IInv, RingInv, TypeOK
<1>4. /\ Pending \in Seq(Frames) /\ Len(Pending) = n
      /\ n \in Nat /\ rindex_shown + n = Stored
  BY <1>2, PendingFrames DEF PendingShape, Slots
<1>5. Pending' = Append(Pending, f)
  <2>1. Pending' \in Seq(Frames) /\ Len(Pending') = n + 1
    BY <1>1, <1>2, PendingFramesNext DEF PendingShape, Slots
  <2>2. ASSUME NEW i \in 1 .. n + 1
        PROVE  Pending'[i] = Append(Pending, f)[i]
    <3>1. Pending'[i] = queue[Slot(rindex + (rindex_shown + i - 1))]
      <4>1. i \in 1 .. Stored' - rindex_shown'
        BY <1>1, <1>2, <1>4
      <4>2. QED
        BY <1>1, <4>1, PendingFramesNext DEF PendingShape
    <3>2. CASE i \in 1 .. n
      <4>1. Pending[i] = queue[Slot(rindex + (rindex_shown + i - 1))]
        BY <3>2, PendingFrames DEF PendingShape
      <4>2. QED
        BY <1>4, <3>1, <3>2, <4>1
    <3>3. CASE i = n + 1
      <4>1. rindex_shown + i - 1 = Stored
        BY <1>2, <1>4, <3>3
      <4>2. QED
        BY <1>3, <1>4, <3>1, <3>3, <4>1
    <3>4. QED
      BY <1>4, <3>2, <3>3
  <2>3. Append(Pending, f) \in Seq(Frames) /\ Len(Append(Pending, f)) = n + 1
    BY <1>3, <1>4
  <2> HIDE DEF f, n
  <2>4. QED
    BY <2>1, <2>2, <2>3
<1>6. Kept' = Kept
  BY <1>1 DEF Kept
<1>7. Fifo!Occupied < MaxSize
  <2>1. Fifo!Occupied = Len(Pending) + (IF Kept = NoFrame THEN 0 ELSE 1)
    BY DEF Fifo!Occupied
  <2>2. rindex_shown = 1 <=> Kept # NoFrame
    BY <1>2, PendingFrames DEF PendingShape, Kept
  <2>3. QED
    BY <1>2, <1>4, <2>1, <2>2 DEF Slots
<1>8. QED
  BY <1>3, <1>5, <1>6, <1>7 DEF Fifo!Push

(***************************************************************************)
(* The first half of Next is Advance of the bounded queue.                 *)
(***************************************************************************)
LEMMA AdvanceStep ==
    ASSUME IInv, IInv', KeepLast,
           \/ NextFrame /\ NextShowFirst
           \/ NextFrame /\ NextRelease
    PROVE  Fifo!Advance
<1> USE FrameQueueAssumption
<1> DEFINE n == Stored - rindex_shown
<1>1. /\ pc[Renderer] = "next"
      /\ rindex_shown' = 1
      /\ size - rindex_shown > 0 /\ Stored = size
      /\ rindex_shown \in {0, 1} /\ rindex \in Slots
  BY DEF NextFrame, NextShowFirst, NextRelease, Goto, IInv, TypeOK, Threads,
         RendererKnows, Remaining, Stored
<1>2. /\ Pending \in Seq(Frames) /\ Len(Pending) = n
      /\ n \in Nat /\ n >= 1 /\ n <= MaxSize
      /\ Stored \in 0 .. MaxSize
  BY <1>1, PendingFrames DEF PendingShape
<1>3. /\ Stored' - rindex_shown' = n - 1
      /\ \A i \in 1 .. n - 1 : Pending'[i] = Pending[i + 1]
      /\ Kept' = Pending[1]
  <2>1. CASE NextFrame /\ NextShowFirst
    <3>1. /\ UNCHANGED <<queue, rindex, size>>
          /\ rindex_shown = 0
          /\ pc'[Renderer] = "use"
      BY <2>1 DEF NextFrame, NextShowFirst, Goto, IInv, TypeOK, Threads
    <3>2. Stored' = Stored
      BY <1>1, <3>1 DEF Stored
    <3>3. ASSUME NEW i \in 1 .. n - 1
          PROVE  Pending'[i] = Pending[i + 1]
      <4>1. /\ i \in 1 .. Stored' - rindex_shown' /\ i + 1 \in 1 .. n
            /\ rindex_shown' + i - 1 = rindex_shown + (i + 1) - 1
        BY <1>1, <1>2, <3>1, <3>2
      <4>2. Pending'[i] = queue[Slot(rindex + (rindex_shown' + i - 1))]
        BY <3>1, <4>1, PendingFramesNext DEF PendingShape
      <4>3. Pending[i + 1] = queue[Slot(rindex + (rindex_shown + (i + 1) - 1))]
        BY <4>1, PendingFrames DEF PendingShape
      <4>4. QED
        BY <4>1, <4>2, <4>3
    <3>4. Kept' = Pending[1]
      <4>1. /\ 1 \in 1 .. n /\ rindex_shown + 1 - 1 = 0
            /\ rindex + 0 = rindex /\ rindex + 0 < MaxSize /\ 0 \in 0 .. MaxSize
        BY <1>1, <1>2, <3>1 DEF Slots
      <4>2. Pending[1] = queue[Slot(rindex + 0)]
        BY <4>1, PendingFrames DEF PendingShape
      <4>3. Slot(rindex + 0) = rindex
        BY <1>1, <4>1, SlotValue
      <4>4. Kept' = queue[rindex]
        BY <1>1, <3>1 DEF Kept
      <4>5. QED
        BY <4>2, <4>3, <4>4
    <3>5. QED
      BY <1>1, <1>2, <3>1, <3>2, <3>3, <3>4
  <2>2. CASE NextFrame /\ NextRelease
    <3>1. /\ queue' = [queue EXCEPT ![rindex] = NoFrame]
          /\ rindex' = IF rindex + 1 = MaxSize THEN 0 ELSE rindex + 1
          /\ UNCHANGED size
          /\ rindex_shown = 1
          /\ pc'[Renderer] = "shrink"
      BY <1>1, <2>2 DEF NextFrame, NextRelease, Goto, IInv, TypeOK, Threads
    <3>2. Stored' = Stored - 1 /\ Stored \in 2 .. MaxSize
      BY <1>1, <1>2, <3>1 DEF Stored
    <3>3. /\ rindex' \in Slots
          /\ \A j \in Slots : Slot(rindex' + j) = Slot(rindex + (j + 1))
      <4>1. ASSUME NEW j \in Slots
            PROVE  rindex + j + 1 = rindex + (j + 1)
        BY <1>1 DEF Slots
      <4>2. QED
        BY <1>1, <3>1, <4>1, SlotNext
    <3>4. \A j \in Slots : j # 0 =>
             queue'[Slot(rindex + j)] = queue[Slot(rindex + j)]
      <4> SUFFICES ASSUME NEW j \in Slots, j # 0
                   PROVE  queue'[Slot(rindex + j)] = queue[Slot(rindex + j)]
        OBVIOUS
      <4>1. /\ 0 \in Slots /\ 0 \in 0 .. MaxSize /\ j \in 0 .. MaxSize
            /\ rindex + 0 = rindex /\ rindex + 0 < MaxSize
        BY <1>1 DEF Slots
      <4>2. Slot(rindex + 0) = rindex /\ Slot(rindex + j) \in Slots
        BY <1>1, <4>1, SlotValue
      <4>3. Slot(rindex + j) # rindex
        BY <1>1, <4>1, <4>2, SlotInjective
      <4>4. QED
        BY <3>1, <4>2, <4>3 DEF IInv, TypeOK
    <3>5. ASSUME NEW i \in 1 .. n - 1
          PROVE  Pending'[i] = Pending[i + 1]
      <4>1. /\ i \in 1 .. Stored' - rindex_shown' /\ i + 1 \in 1 .. n
            /\ rindex_shown' + i - 1 = i
            /\ rindex_shown + (i + 1) - 1 = i + 1
            /\ i \in Slots /\ i + 1 \in Slots /\ i + 1 # 0
        BY <1>1, <1>2, <3>1, <3>2 DEF Slots
      <4>2. Pending'[i] = queue'[Slot(rindex' + i)]
        BY <4>1, PendingFramesNext DEF PendingShape
      <4>3. Pending[i + 1] = queue[Slot(rindex + (i + 1))]
        BY <4>1, PendingFrames DEF PendingShape
      <4>4. QED
        BY <3>3, <3>4, <4>1, <4>2, <4>3
    <3>6. Kept' = Pending[1]
      <4>1. /\ 0 \in Slots /\ 1 \in Slots /\ 0 + 1 = 1 /\ 1 \in 1 .. n
            /\ rindex_shown + 1 - 1 = 1
            /\ 0 \in 0 .. MaxSize
            /\ rindex' + 0 = rindex' /\ rindex' + 0 < MaxSize
        BY <1>2, <3>1, <3>2, <3>3 DEF Slots
      <4>2. Slot(rindex' + 0) = rindex'
        BY <3>3, <4>1, SlotValue
      <4>3. rindex' = Slot(rindex + 1)
        BY <3>3, <4>1, <4>2
      <4>4. Pending[1] = queue[Slot(rindex + 1)]
        BY <4>1, PendingFrames DEF PendingShape
      <4>5. QED
        BY <1>1, <3>4, <4>1, <4>3, <4>4 DEF Kept
    <3>7. QED
      BY <1>1, <3>1, <3>2, <3>5, <3>6
  <2>3. QED
    BY <2>1, <2>2
<1>4. Pending' \in Seq(Frames) /\ Len(Pending') = n - 1
  BY <1>3, PendingFramesNext DEF PendingShape
<1>5. Pending # <<>> /\ Kept' = Head(Pending)
  BY <1>2, <1>3
<1>6. Pending' = Tail(Pending)
  <2>1. Tail(Pending) \in Seq(Frames) /\ Len(Tail(Pending)) = n - 1
    BY <1>2, <1>5
  <2>2. \A i \in 1 .. n - 1 : Tail(Pending)[i] = Pending[i + 1]
    BY <1>2, <1>5
  <2> HIDE DEF n
  <2>3. QED
    BY <1>3, <1>4, <2>1, <2>2
<1>7. QED
  BY <1>5, <1>6 DEF Fifo!Advance

(***************************************************************************)
(* Frames reach the renderer in the order they were decoded, none lost and *)
(* none repeated: the ring, its split critical sections and its kept frame *)
(* implement the bounded queue of FrameFifo.                               *)
(***************************************************************************)
THEOREM Refinement == KeepLast => (Spec => ImplementsFifo)
<1> SUFFICES ASSUME KeepLast
             PROVE  Spec => ImplementsFifo
  OBVIOUS
<1> USE FrameQueueAssumption
<1>1. Init => Fifo!Init
  <2> SUFFICES ASSUME Init
               PROVE  Fifo!Init
    OBVIOUS
  <2>1. Stored = 0 /\ rindex_shown = 0
    <3>1. pc[Renderer] = "idle" /\ size = 0 /\ rindex_shown = 0
      BY DEF Init, Threads
    <3>2. QED
      BY <3>1 DEF Stored
  <2>2. Len(Pending) = 0 /\ Pending \in Seq(Frames)
    BY <2>1, InitInv, PendingFrames DEF PendingShape
  <2>3. Pending = <<>>
    BY <2>2
  <2>4. QED
    BY <2>1, <2>3 DEF Fifo!Init, Kept
<1>2. IInv /\ IInv' /\ [Next]_vars => [Fifo!Next]_<<Pending, Kept>>
  <2> SUFFICES ASSUME IInv, IInv', [Next]_vars
               PROVE  Fifo!Next \/ UNCHANGED <<Pending, Kept>>
    OBVIOUS
  <2>1. TypeOK /\ RingInv /\ DecoderKnows /\ RendererKnows
    BY DEF IInv
  <2>2. CASE Push
    BY <2>2, PushStep DEF Fifo!Next
  <2>3. CASE NextFrame /\ (NextShowFirst \/ NextRelease)
    BY <2>3, AdvanceStep DEF Fifo!Next
  <2>4. CASE NextFrame /\ NextShrink
    <3>1. /\ UNCHANGED <<queue, rindex, rindex_shown>>
          /\ Stored' = Stored
      BY <2>1, <2>4
      DEF NextFrame, NextShrink, Goto, TypeOK, Threads, Stored
    <3>2. QED
      BY <3>1, StutterStep
  <2>5. ASSUME NEW f \in Frames, Fill(f)
        PROVE  UNCHANGED <<Pending, Kept>>
    <3>1. /\ UNCHANGED <<rindex, rindex_shown, size, pc[Renderer]>>
          /\ queue' = [queue EXCEPT ![windex] = f]
          /\ pc[Decoder] = "fill"
      BY <2>1, <2>5 DEF Fill, Goto, TypeOK, Threads
    <3>2. Stored' = Stored
      BY <3>1 DEF Stored
    <3>3. queue[windex] = NoFrame
      BY <3>1, FreeSlot
    <3>4. ASSUME NEW j \in Slots, j < Stored
          PROVE  queue'[Slot(rindex + j)] = queue[Slot(rindex + j)]
      <4>1. j \in 0 .. MaxSize /\ rindex \in Slots
        BY <2>1 DEF TypeOK, Slots
      <4>2. Slot(rindex + j) \in Slots
        BY <4>1, SlotValue
      <4>3. queue[Slot(rindex + j)] # NoFrame
        BY <2>1, <3>4 DEF RingInv
      <4>4. QED
        BY <2>1, <3>1, <3>3, <4>2, <4>3 DEF TypeOK
    <3>5. QED
      BY <3>1, <3>2, <3>4, StutterStep
  <2>6. ASSUME UNCHANGED <<queue, rindex, rindex_shown, size>>,
               pc[Renderer] # "shrink", pc'[Renderer] # "shrink"
        PROVE  UNCHANGED <<Pending, Kept>>
    <3>1. Stored' = Stored
      BY <2>6 DEF Stored
    <3>2. QED
      BY <2>6, <3>1, StutterStep
  <2>7. ASSUME UNCHANGED <<queue, rindex, rindex_shown, size, pc[Renderer]>>
        PROVE  UNCHANGED <<Pending, Kept>>
    <3>1. Stored' = Stored
      BY <2>7 DEF Stored
    <3>2. QED
      BY <2>7, <3>1, StutterStep
  <2>8. QED
    BY <2>1, <2>2, <2>3, <2>4, <2>5, <2>6, <2>7
    DEF Next, DecoderStep, RendererStep, PeekWritable, Wait, NotifyAll,
        PeekReadable, Peek, PeekFrame, NextFrame, Used, SetAbort, Signal,
        SpuriousWake, vars, Goto, TypeOK, Threads
<1>3. QED
  BY <1>1, <1>2, InvHolds, PTL DEF Spec, ImplementsFifo, Fifo!Spec
=============================================================================
