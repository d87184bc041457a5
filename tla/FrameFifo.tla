----------------------------- MODULE FrameFifo -----------------------------
(***************************************************************************)
(* What a FrameQueue promises the decoder thread and the renderer that     *)
(* share it: a bounded first-in first-out queue which keeps the frame that *)
(* was taken last, counting it in the capacity, until the next is taken.   *)
(***************************************************************************)
EXTENDS Naturals, Sequences

CONSTANTS
    Frames,     \* decoded frames
    NoFrame,    \* no frame was taken yet
    Capacity    \* frames pending and kept together, FrameQueue::max_size

VARIABLES
    pending,    \* pushed and not taken, oldest first
    kept        \* the frame taken last

Init == pending = <<>> /\ kept = NoFrame

Occupied == Len(pending) + (IF kept = NoFrame THEN 0 ELSE 1)

Push(f) ==
    /\ Occupied < Capacity
    /\ pending' = Append(pending, f)
    /\ UNCHANGED kept

Advance ==
    /\ pending # <<>>
    /\ kept' = Head(pending)
    /\ pending' = Tail(pending)

Next == Advance \/ \E f \in Frames : Push(f)

Spec == Init /\ [][Next]_<<pending, kept>>
=============================================================================
