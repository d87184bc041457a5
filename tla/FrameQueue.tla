----------------------------- MODULE FrameQueue -----------------------------
(***************************************************************************)
(* The ring of decoded frames between one decoder thread and one renderer: *)
(* src/ffplayer/ffp_frame_queue.{h,cc}, driven the way PushFrame,          *)
(* AudioDecodeFrame and DrawFrame drive it.                                *)
(*                                                                         *)
(* Only `size` is guarded by the mutex.  The indices belong to one thread  *)
(* each, and `abort_request` to the packet queue and its own mutex, so the *)
(* test of a wait loop and the wait are two steps with the mutex held in   *)
(* between.  `sleeping` is the set of the threads asleep on `cond`.        *)
(***************************************************************************)
EXTENDS Naturals, Integers, Sequences

CONSTANTS
    Frames,     \* decoded frames
    NoFrame,    \* the content of a slot that holds no frame
    MaxSize,    \* max_size: 3 pictures, 9 sample buffers
    KeepLast,   \* keep_last: TRUE for both queues of a player
    Decoder, Renderer, Aborter, None

Threads == {Decoder, Renderer, Aborter}

ASSUME FrameQueueAssumption ==
    /\ MaxSize \in Nat \ {0}
    /\ KeepLast \in BOOLEAN
    /\ NoFrame \notin Frames
    /\ Decoder # Renderer /\ Decoder # Aborter /\ Renderer # Aborter
    /\ None \notin Threads

VARIABLES
    queue,          \* the slots
    rindex, windex, size, rindex_shown,
    abort_request,  \* pktq->abort_request
    lock,           \* the thread that holds the mutex over a wait's test
    sleeping,       \* the threads asleep on cond
    pc,             \* where each thread is
    held            \* the renderer's Frame*, and the frame it then pointed at

vars == <<queue, rindex, windex, size, rindex_shown, abort_request, lock,
          sleeping, pc, held>>

Slots == 0 .. MaxSize - 1
Slot(i) == i % MaxSize

Goto(t, from, to) == pc[t] = from /\ pc' = [pc EXCEPT ![t] = to]

(* Mutant of Remaining: the kept frame counts as a frame to show.          *)
RemainingWithKept == size

Remaining == size - rindex_shown        \* NbRemaining()

-----------------------------------------------------------------------------
Init ==
    /\ queue = [i \in Slots |-> NoFrame]
    /\ rindex = 0
    /\ windex = 0
    /\ size = 0
    /\ rindex_shown = 0
    /\ abort_request = FALSE
    /\ lock = None
    /\ sleeping = {}
    /\ pc = [t \in Threads |-> "idle"]
    /\ held = [slot |-> 0, frame |-> NoFrame]

(* cond.wait(lock): the thread is on `cond` before the mutex is free.      *)
Wait(t) ==
    /\ Goto(t, "wait", "idle")
    /\ lock' = None
    /\ sleeping' = sleeping \union {t}
    /\ UNCHANGED <<queue, rindex, windex, size, rindex_shown, abort_request,
                   held>>

(* Mutant of NotifyAll: `cond.notify_all()` forgotten.                     *)
NotifyNobody(t, to) ==
    /\ Goto(t, "notify", to)
    /\ UNCHANGED <<queue, rindex, windex, size, rindex_shown, abort_request,
                   lock, sleeping, held>>

(* cond.notify_all(), which needs no mutex.                                *)
NotifyAll(t, to) ==
    /\ Goto(t, "notify", to)
    /\ sleeping' = {}
    /\ UNCHANGED <<queue, rindex, windex, size, rindex_shown, abort_request,
                   lock, held>>

SpuriousWake(t) ==
    /\ t \in sleeping
    /\ sleeping' = sleeping \ {t}
    /\ UNCHANGED <<queue, rindex, windex, size, rindex_shown, abort_request,
                   lock, pc, held>>

-----------------------------------------------------------------------------
(* The decoder: PeekWritable, then the frame is moved into the slot, then  *)
(* Push.                                                                   *)

(* Mutants of PeekWritable: `size > max_size`; the mutex is not held from  *)
(* the test to the wait.                                                   *)
PeekWritableOffByOne ==
    /\ lock = None
    /\ Decoder \notin sleeping
    /\ \/ abort_request /\ Goto(Decoder, "idle", "stopped") /\ UNCHANGED lock
       \/ ~abort_request /\ size <= MaxSize
              /\ Goto(Decoder, "idle", "fill") /\ UNCHANGED lock
       \/ ~abort_request /\ size > MaxSize
              /\ Goto(Decoder, "idle", "wait") /\ lock' = Decoder
    /\ UNCHANGED <<queue, rindex, windex, size, rindex_shown, abort_request,
                   sleeping, held>>

PeekWritableUnlocked ==
    /\ lock = None
    /\ Decoder \notin sleeping
    /\ \/ abort_request /\ Goto(Decoder, "idle", "stopped")
       \/ ~abort_request /\ size < MaxSize /\ Goto(Decoder, "idle", "fill")
       \/ ~abort_request /\ size >= MaxSize /\ Goto(Decoder, "idle", "wait")
    /\ UNCHANGED <<queue, rindex, windex, size, rindex_shown, abort_request,
                   lock, sleeping, held>>

(* One evaluation of the loop condition of PeekWritable.                   *)
PeekWritable ==
    /\ lock = None
    /\ Decoder \notin sleeping
    /\ \/ abort_request /\ Goto(Decoder, "idle", "stopped") /\ UNCHANGED lock
       \/ ~abort_request /\ size < MaxSize
              /\ Goto(Decoder, "idle", "fill") /\ UNCHANGED lock
       \/ ~abort_request /\ size >= MaxSize
              /\ Goto(Decoder, "idle", "wait") /\ lock' = Decoder
    /\ UNCHANGED <<queue, rindex, windex, size, rindex_shown, abort_request,
                   sleeping, held>>

(* av_frame_move_ref(af->frame, frame) and the fields of the slot.         *)
Fill(f) ==
    /\ Goto(Decoder, "fill", "grow")
    /\ queue' = [queue EXCEPT ![windex] = f]
    /\ UNCHANGED <<rindex, windex, size, rindex_shown, abort_request, lock,
                   sleeping, held>>

(* Mutant of Push: `windex` wraps one slot late.                           *)
PushWrapsLate ==
    /\ lock = None
    /\ Goto(Decoder, "grow", "notify")
    /\ windex' = IF windex + 1 > MaxSize THEN 0 ELSE windex + 1
    /\ size' = size + 1
    /\ UNCHANGED <<queue, rindex, rindex_shown, abort_request, lock, sleeping,
                   held>>

(* Push up to the end of its critical section; `windex` is the decoder's.  *)
Push ==
    /\ lock = None
    /\ Goto(Decoder, "grow", "notify")
    /\ windex' = IF windex + 1 = MaxSize THEN 0 ELSE windex + 1
    /\ size' = size + 1
    /\ UNCHANGED <<queue, rindex, rindex_shown, abort_request, lock, sleeping,
                   held>>

-----------------------------------------------------------------------------
(* The renderer: PeekReadable (or NbRemaining and Peek), then Next, then   *)
(* it reads the frame through the pointer it got before Next.              *)

PeekFrame ==
    LET s == Slot(rindex + rindex_shown) IN
    /\ Remaining > 0
    /\ Goto(Renderer, "idle", "next")
    /\ held' = [slot |-> s, frame |-> queue[s]]
    /\ UNCHANGED <<queue, rindex, windex, size, rindex_shown, abort_request,
                   lock, sleeping>>

(* AudioDecodeFrame waits for a frame.  On an abort it returns and the     *)
(* device calls it again later.                                            *)
PeekReadable ==
    /\ lock = None
    /\ Renderer \notin sleeping
    /\ ~abort_request
    /\ \/ PeekFrame
       \/ /\ Remaining <= 0
          /\ Goto(Renderer, "idle", "wait")
          /\ lock' = Renderer
          /\ UNCHANGED <<queue, rindex, windex, size, rindex_shown,
                         abort_request, sleeping, held>>

(* DrawFrame looks without the mutex and does not wait.                    *)
Peek == Renderer \notin sleeping /\ PeekFrame

(* Next, first half: the first frame is only marked as shown, later on the *)
(* frame shown before is released.                                         *)
NextShowFirst ==
    /\ KeepLast /\ rindex_shown = 0
    /\ Goto(Renderer, "next", "use")
    /\ rindex_shown' = 1
    /\ UNCHANGED <<queue, rindex, size>>

(* Mutants of NextRelease: the frame is not unreferenced; keep_last is     *)
(* forgotten.                                                              *)
NextReleaseLeaks ==
    /\ ~(KeepLast /\ rindex_shown = 0)
    /\ Goto(Renderer, "next", "shrink")
    /\ rindex' = IF rindex + 1 = MaxSize THEN 0 ELSE rindex + 1
    /\ UNCHANGED <<queue, size, rindex_shown>>

NextReleaseShown ==
    /\ Goto(Renderer, "next", "shrink")
    /\ queue' = [queue EXCEPT ![rindex] = NoFrame]
    /\ rindex' = IF rindex + 1 = MaxSize THEN 0 ELSE rindex + 1
    /\ UNCHANGED <<size, rindex_shown>>

NextRelease ==
    /\ ~(KeepLast /\ rindex_shown = 0)
    /\ Goto(Renderer, "next", "shrink")
    /\ queue' = [queue EXCEPT ![rindex] = NoFrame]
    /\ rindex' = IF rindex + 1 = MaxSize THEN 0 ELSE rindex + 1
    /\ UNCHANGED <<size, rindex_shown>>

(* Next, second half: the slot is given back under the mutex.              *)
NextShrink ==
    /\ lock = None
    /\ Goto(Renderer, "shrink", "notify")
    /\ size' = size - 1
    /\ UNCHANGED <<queue, rindex, rindex_shown>>

NextFrame ==
    /\ NextShowFirst \/ NextRelease \/ NextShrink
    /\ UNCHANGED <<windex, abort_request, lock, sleeping, held>>

(* The resampler or the texture upload is done with the frame.             *)
Used ==
    /\ Goto(Renderer, "use", "idle")
    /\ UNCHANGED <<queue, rindex, windex, size, rindex_shown, abort_request,
                   lock, sleeping, held>>

-----------------------------------------------------------------------------
(* Decoder::Abort: queue()->Abort() sets the flag under the packet queue's *)
(* mutex, then AbortRender() calls Signal().                               *)
SetAbort ==
    /\ Goto(Aborter, "idle", "notify")
    /\ abort_request' = TRUE
    /\ UNCHANGED <<queue, rindex, windex, size, rindex_shown, lock, sleeping,
                   held>>

Signal == NotifyAll(Aborter, "done")

-----------------------------------------------------------------------------
DecoderStep ==
    \/ PeekWritable
    \/ Wait(Decoder)
    \/ \E f \in Frames : Fill(f)
    \/ Push
    \/ NotifyAll(Decoder, "idle")

RendererStep ==
    \/ PeekReadable
    \/ Peek
    \/ Wait(Renderer)
    \/ NextFrame
    \/ NotifyAll(Renderer, "use")
    \/ Used

Next ==
    \/ DecoderStep
    \/ RendererStep
    \/ SetAbort
    \/ Signal
    \/ \E t \in {Decoder, Renderer} : SpuriousWake(t)

(* The decoder thread runs when it can, and the device or the render       *)
(* thread keeps asking for frames: playback is not paused.                 *)
Fairness ==
    /\ WF_vars(DecoderStep)
    /\ WF_vars(RendererStep)

Spec == Init /\ [][Next]_vars /\ Fairness

-----------------------------------------------------------------------------
Locations ==
    {"idle", "wait", "fill", "grow", "notify", "next", "shrink", "use",
     "stopped", "done"}

(* The shape of the fields of src/ffplayer/ffp_frame_queue.h.              *)
TypeOK ==
    /\ queue \in [Slots -> Frames \union {NoFrame}]
    /\ rindex \in Slots
    /\ windex \in Slots
    /\ size \in 0 .. MaxSize
    /\ rindex_shown \in {0, 1}
    /\ abort_request \in BOOLEAN
    /\ lock \in {Decoder, Renderer, None}
    /\ sleeping \subseteq {Decoder, Renderer}
    /\ pc \in [Threads -> Locations]
    /\ held \in [slot : Slots, frame : Frames \union {NoFrame}]

(* The frames in the ring, the one Next is giving back left out.           *)
Stored == size - (IF pc[Renderer] = "shrink" THEN 1 ELSE 0)

(* The slots from rindex on hold the stored frames, every other slot is    *)
(* free but for the one the decoder has just filled, and the decoder       *)
(* writes where the stored frames end.                                     *)
RingInv ==
    /\ windex = Slot(rindex + Stored)
    /\ \A i \in Slots :
          LET full == i < Stored \/ (i = Stored /\ pc[Decoder] = "grow")
          IN  queue[Slot(rindex + i)] # NoFrame <=> full

(* av_frame_move_ref overwrites its target: the slot that PeekWritable     *)
(* hands out holds no frame, so no buffer leaks and neither the frame on   *)
(* screen nor a pending one is overwritten.                                *)
FillsFreeSlot == pc[Decoder] = "fill" => queue[windex] = NoFrame

(* AudioDecodeFrame reads `af` after Next.  The frame is still there,      *)
(* whatever the decoder does meanwhile: keep_last makes Next release the   *)
(* frame before it and not the frame itself.                               *)
HeldFrameIntact ==
    pc[Renderer] \in {"shrink", "notify", "use"} =>
        /\ held.frame # NoFrame
        /\ queue[held.slot] = held.frame

(* Nobody sleeps beside work: a thread asleep while the ring has a frame   *)
(* (a free slot) for it is about to be notified by the other side.         *)
NoLostFrameWake ==
    /\ Renderer \in sleeping /\ Remaining > 0 => pc[Decoder] = "notify"
    /\ Decoder \in sleeping /\ size < MaxSize =>
          pc[Renderer] = "notify"

(* Liveness: a decoder that waits for a slot gets on, as long as the       *)
(* renderer plays and nobody aborts.                                       *)
DecoderGetsSlot == Decoder \in sleeping ~> (Decoder \notin sleeping \/ abort_request)

(* What the threads know of the shared state between their steps; with     *)
(* TypeOK and RingInv it is inductive.                                     *)
DecoderKnows ==
    /\ pc[Decoder] \in {"idle", "wait", "fill", "grow", "notify", "stopped"}
    /\ pc[Decoder] \in {"fill", "grow"} => size < MaxSize
    /\ pc[Decoder] = "wait" => lock = Decoder /\ size >= MaxSize
    /\ Decoder \in sleeping => pc[Decoder] = "idle"

RendererKnows ==
    /\ pc[Renderer] \in {"idle", "wait", "next", "shrink", "notify", "use"}
    /\ rindex_shown = 1 => KeepLast
    /\ rindex_shown <= Stored
    /\ pc[Renderer] = "next" => Remaining > 0
    /\ pc[Renderer] = "wait" => lock = Renderer /\ Remaining <= 0
    /\ Renderer \in sleeping => pc[Renderer] = "idle"

(* Once it has called Next, the renderer's pointer is to the kept frame.   *)
HeldIsKept ==
    KeepLast =>
      /\ pc[Renderer] = "next" =>
            /\ held.slot = Slot(rindex + rindex_shown)
            /\ held.frame = queue[held.slot]
      /\ pc[Renderer] \in {"shrink", "notify", "use"} =>
            /\ rindex_shown = 1
            /\ held.slot = rindex
            /\ held.frame = queue[rindex]

IInv == TypeOK /\ RingInv /\ DecoderKnows /\ RendererKnows

(* What the ring stands for.                                               *)
Pending == [i \in 1 .. Stored - rindex_shown |->
              queue[Slot(rindex + rindex_shown + i - 1)]]
Kept == IF rindex_shown = 1 THEN queue[rindex] ELSE NoFrame

Fifo == INSTANCE FrameFifo WITH
            Capacity <- MaxSize, pending <- Pending, kept <- Kept

(* The ring behaves as the bounded queue with a kept frame: order, no      *)
(* frame lost or shown twice, across wrap-around and a full ring.          *)
ImplementsFifo == Fifo!Spec

(* ffp_frame_queue.cc:53 and :67 wait for room or for a frame and, by the  *)
(* loop condition, for an abort: once Signal has run nobody sleeps.        *)
AbortWakes == pc[Aborter] = "done" => sleeping = {}
=============================================================================
