---------------------------- MODULE VideoRender ----------------------------
(***************************************************************************)
(* src/ffplayer/render_video_base.cc: the render thread's DrawFrame with   *)
(* its frame timer, and the decoder's PushFrame with its frame drop.  An   *)
(* action is a stretch of DrawFrame between two points where a pause, a    *)
(* seek or another clock can come in between.                              *)
(*                                                                         *)
(* The pictures are the frame queue's slots from rindex on, and `shown` is *)
(* rindex_shown: FrameQueue has the ring.  Of its slots only the first     *)
(* matters by its place, for DrawFrame takes the serial that is in it for  *)
(* the queue's: picture_queue->queue is the array.  framedrop is -1, with  *)
(* which ShouldDropFrames never holds, and first_video_frame_rendered is   *)
(* tested before it is ever set: the branches on them are left out.        *)
(***************************************************************************)
EXTENDS MediaClock, Sequences

CONSTANTS
    ThresholdMin, ThresholdMax, ThresholdDup,   \* AV_SYNC_...
    MaxFrameDuration, FrameDuration, PictureQueueSize

VARIABLES
    time, serial, file,                     \* shared
    audio_clock, video_clock, ext_clock,
    pictures, shown, frame_timer, video_paused,
    windex, first,          \* the slot to write; the serial in slot 0
    draw,                   \* where DrawFrame is
    delay, now, timer,      \* its delay, time and frame_timer, or 0
    stale, skipped          \* since a seek: old pictures drawn, and new
                            \* ones passed over (no code reads these)

sounds == file["audio"] # None

Kept == IF shown THEN 1 ELSE 0
NbRemaining == Len(pictures) - Kept
PeekLast == Head(pictures)
Peek == pictures[1 + Kept]

(* FrameQueue::Next keeps the first frame and then releases the kept one.  *)
Next ==
    /\ shown' = TRUE
    /\ pictures' = IF shown THEN Tail(pictures) ELSE pictures

VideoPictureDuration(vp, next_vp) ==
    LET duration == next_vp.pts - vp.pts IN
    IF vp.serial # next_vp.serial THEN 0
    ELSE IF duration <= 0 \/ duration > MaxFrameDuration THEN FrameDuration
    ELSE duration

Least(a, b) == IF a < b THEN a ELSE b
Most(a, b) == IF a < b THEN b ELSE a

(* The delay made shorter or longer to follow the master clock.            *)
ComputeTargetDelay(d) ==
    LET diff == Minus(GetClock(video_clock, serial["video"], time),
                      GetMasterClock(sounds, audio_clock, serial["audio"],
                                     ext_clock, time))
        threshold == Most(ThresholdMin, Least(ThresholdMax, d))
    IN  IF diff = NaN \/ Abs(diff) >= MaxFrameDuration THEN d
        ELSE IF diff <= -threshold THEN Most(0, d + diff)
        ELSE IF diff < threshold THEN d
        ELSE IF d > ThresholdDup THEN d + diff
        ELSE 2 * d

Init ==
    /\ pictures = <<>> /\ shown = FALSE
    /\ windex = 0 /\ first = 0
    /\ frame_timer = 0
    /\ draw = "idle" /\ delay = 0 /\ now = 0 /\ timer = 0
    /\ stale = 0 /\ skipped = 0

(* Nothing is done while the renderer is paused or the queue empty.        *)
Looks == draw = "retry" \/ (draw = "idle" /\ ~video_paused)

(* A picture of another serial than slot 0 has is passed over: an old one  *)
(* once slot 0 has been written anew, and before that a new one.           *)
PassOver ==
    /\ Looks /\ NbRemaining > 0 /\ Peek.serial # first
    /\ Next
    /\ draw' = "retry"
    /\ skipped' = IF Peek.serial = serial["video"] THEN skipped + 1 ELSE skipped
    /\ UNCHANGED <<video_clock, ext_clock, frame_timer, delay, now, timer,
                   stale>>

NothingLeft ==
    /\ draw = "retry" /\ NbRemaining = 0
    /\ draw' = "idle"
    /\ UNCHANGED <<video_clock, ext_clock, pictures, shown, frame_timer, delay,
                   now, timer, stale, skipped>>

Pick ==
    /\ Looks /\ NbRemaining > 0 /\ Peek.serial = first
    /\ draw' = "delay"
    /\ frame_timer' =
         IF PeekLast.serial # Peek.serial THEN time ELSE frame_timer
    /\ UNCHANGED <<video_clock, ext_clock, pictures, shown, delay, now, timer,
                   stale, skipped>>

GetDelay ==
    /\ draw = "delay"
    /\ IF video_paused
       THEN draw' = "idle" /\ UNCHANGED delay
       ELSE /\ draw' = "test"
            /\ delay' = ComputeTargetDelay(VideoPictureDuration(PeekLast, Peek))
    /\ UNCHANGED <<video_clock, ext_clock, pictures, shown, frame_timer, now,
                   timer, stale, skipped>>

TestTime ==
    /\ draw = "test"
    /\ IF time < frame_timer + delay
       THEN draw' = "idle" /\ delay' = 0 /\ UNCHANGED <<now, timer>>
       ELSE /\ draw' = "advance"
            /\ now' = time /\ timer' = frame_timer
            /\ UNCHANGED delay
    /\ UNCHANGED <<video_clock, ext_clock, pictures, shown, frame_timer,
                   stale, skipped>>

(* Mutant of AdvanceTimer: the timer catches up before it advances.        *)
AdvanceFromNow ==
    /\ draw = "advance"
    /\ frame_timer' = IF delay > 0 /\ now - timer > ThresholdMax
                      THEN now + delay ELSE timer + delay
    /\ draw' = "clock"
    /\ delay' = 0 /\ now' = 0 /\ timer' = 0
    /\ UNCHANGED <<video_clock, ext_clock, pictures, shown, stale, skipped>>

(* frame_timer is a plain field: what the test read may be used again.     *)
AdvanceTimer ==
    /\ draw = "advance"
    /\ \E base \in {timer, frame_timer} :
         frame_timer' = IF delay > 0 /\ now - (base + delay) > ThresholdMax
                        THEN now ELSE base + delay
    /\ draw' = "clock"
    /\ delay' = 0 /\ now' = 0 /\ timer' = 0
    /\ UNCHANGED <<video_clock, ext_clock, pictures, shown, stale, skipped>>

SetVideoClock ==
    /\ draw = "clock"
    /\ video_clock' = SetClockAt(video_clock, Peek.pts, Peek.serial, time)
    /\ draw' = "sync"
    /\ UNCHANGED <<ext_clock, pictures, shown, frame_timer, delay, now, timer,
                   stale, skipped>>

SyncToVideo ==
    /\ draw = "sync"
    /\ ext_clock' = Sync(ext_clock, ext_clock.serial,
                         GetClock(video_clock, serial["video"], time),
                         video_clock.serial, time)
    /\ draw' = "show"
    /\ UNCHANGED <<video_clock, pictures, shown, frame_timer, delay, now, timer,
                   stale, skipped>>

(* RenderPicture(PeekLast()) after Next().                                 *)
Show ==
    /\ draw = "show"
    /\ Next
    /\ stale' = IF Head(pictures').serial = serial["video"] THEN stale
                ELSE stale + 1
    /\ draw' = "idle"
    /\ UNCHANGED <<video_clock, ext_clock, frame_timer, delay, now, timer,
                   skipped>>

DrawFrame ==
    PassOver \/ NothingLeft \/ Pick \/ GetDelay \/ TestTime \/ AdvanceTimer
    \/ SetVideoClock \/ SyncToVideo \/ Show

(* The decoder's side: a late frame is dropped if packets are waiting.     *)
(* Those of an old serial have at least a flush packet behind them.        *)
IsLate(f) ==
    LET diff == Minus(f.pts, GetMasterClock(sounds, audio_clock,
                                 serial["audio"], ext_clock, time)) IN
    /\ diff # NaN /\ Abs(diff) < NoSync /\ diff < 0
    /\ f.serial = video_clock.serial
    /\ f.serial = serial["video"] => f.pts + FrameDuration <= file["video"]

(* Mutant of WriteFrame: it does not wait for room.                        *)
WriteAnyway(f) ==
    /\ first' = IF windex = 0 THEN f.serial ELSE first
    /\ UNCHANGED <<pictures, windex>>

(* Mutant of WriteFrame: a slot keeps the serial it has had once.          *)
WriteOnce(f) ==
    /\ Len(pictures) < PictureQueueSize
    /\ first' = IF windex = 0 /\ first = 0 THEN f.serial ELSE first
    /\ UNCHANGED <<pictures, windex>>

(* PeekWritable waits for room, and the slot is written before Push.       *)
WriteFrame(f) ==
    /\ Len(pictures) < PictureQueueSize
    /\ first' = IF windex = 0 THEN f.serial ELSE first
    /\ UNCHANGED <<pictures, windex>>

Push(f) ==
    /\ pictures' = Append(pictures, f)
    /\ windex' = IF windex + 1 = PictureQueueSize THEN 0 ELSE windex + 1
    /\ UNCHANGED first
=============================================================================
