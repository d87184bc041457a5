------------------------------ MODULE Playback ------------------------------
(***************************************************************************)
(* Time in a player: the render thread, the audio callback, PauseClock on  *)
(* the thread of the interface (src/ffplayer/media_player.cc) and the      *)
(* reader's seek, over three clocks and a frame timer without a lock.      *)
(*                                                                         *)
(* A tick of time may come between any two steps, so that every thread may *)
(* be slow.  Every frame has a pts, and the frames of a stream follow each *)
(* other without a gap.  The seeks here succeed; Pipeline has the others.  *)
(***************************************************************************)
EXTENDS MediaClock, Sequences

CONSTANTS
    ThresholdMin, ThresholdMax, ThresholdDup, MaxFrameDuration,
    FrameDuration, AudioDuration,
    Files,                  \* the last pts of each stream, or None; bounds
    PictureQueueSize, SampleQueueSize, HwBuffer,
    SeekTargets, StartTime

(* The clock of the system is far past any threshold when a player starts. *)
ASSUME PlaybackAssumption ==
    /\ ThresholdMin \in Nat \ {0} /\ ThresholdMax \in Nat /\ ThresholdDup \in Nat
    /\ MaxFrameDuration \in Nat /\ NoSync \in Nat
    /\ FrameDuration \in Nat \ {0} /\ AudioDuration \in Nat \ {0}
    /\ HwBuffer \in Nat
    /\ \A f \in Files : /\ {f["audio"], f["video"]} \subseteq Nat \union {None}
                        /\ {f.seeks, f.toggles, f.until} \subseteq Nat
                        /\ StartTime <= f.until
    /\ PictureQueueSize \in Nat \ {0, 1} /\ SampleQueueSize \in Nat \ {0}
    /\ SeekTargets \subseteq Nat
    /\ StartTime \in Nat /\ StartTime > ThresholdMax
    /\ NaN \notin Int

VARIABLES
    time, serial, file, audio_clock, video_clock, ext_clock,
    pictures, shown, windex, first, frame_timer, video_paused, draw, delay,
    now, timer, stale, skipped,
    samples, audio_paused, started, callback, callback_time, from_pts,
    from_serial, buffered, heard_old,
    clock_paused,           \* MediaClock::paused
    ui, play, loaded,       \* the interface, its request, a value it read
    toggles,
    reader, target, seeks,  \* the reader's seek
    decoder,                \* of each stream: its serial, the next frame, and
                            \* how far it is with it
    overlap                 \* DrawFrame was under way at a pause and resume,
                            \* and no picture's time has come since

VR == INSTANCE VideoRender
AR == INSTANCE AudioRender

clocks == <<audio_clock, video_clock, ext_clock>>
ring == <<windex, first>>
videoVars == <<pictures, shown, ring, draw, delay, now, timer, stale, skipped>>
audioVars == <<samples, callback, callback_time, from_pts, from_serial,
               buffered, heard_old>>
switches == <<video_paused, audio_paused, started, clock_paused>>
uiVars == <<ui, play, loaded, toggles>>
readerVars == <<reader, target, seeks, serial>>
vars == <<time, clocks, videoVars, frame_timer, audioVars, switches, uiVars,
          readerVars, file, decoder, overlap>>

Streams == {"audio", "video"}
Has(q) == file[q] # None
DecoderAt(s, pts) == [serial |-> s, next |-> pts, frame |-> "none"]

(* OpenDataSource has paused the renderers (media_player.cc:142); the      *)
(* clocks run, but for MediaClock::paused, which is true from the start.   *)
Init ==
    /\ time = StartTime
    /\ file \in Files
    /\ serial = [q \in Streams |-> IF Has(q) THEN 1 ELSE 0]
    /\ audio_clock = NewClock(time) /\ video_clock = NewClock(time)
    /\ ext_clock = NewClock(time)
    /\ VR!Init /\ AR!Init
    /\ video_paused = TRUE /\ audio_paused = TRUE /\ started = FALSE
    /\ clock_paused = TRUE
    /\ ui = "idle" /\ play = FALSE /\ loaded = 0 /\ toggles = 0
    /\ reader = "idle" /\ target = 0 /\ seeks = 0
    /\ decoder = [q \in Streams |-> DecoderAt(1, 0)]
    /\ overlap = FALSE

Tick ==
    /\ time < file.until
    /\ time' = time + 1
    /\ UNCHANGED <<clocks, videoVars, frame_timer, audioVars, switches, uiVars,
                   readerVars, file, decoder, overlap>>

(* A picture whose time has come puts right what a pause and resume during *)
(* a DrawFrame did to the timer, unless PauseClock is about to store it.   *)
Draw ==
    /\ VR!DrawFrame
    /\ overlap' = (overlap /\ ~(draw = "test" /\ draw' = "advance"
                               /\ ui \notin {"frame", "video"}))
    /\ UNCHANGED <<time, audio_clock, ring, audioVars, switches, uiVars,
                   readerVars, file, decoder>>

Callback ==
    /\ AR!ReadAudioData
    /\ UNCHANGED <<time, video_clock, videoVars, frame_timer, switches, uiVars,
                   readerVars, file, decoder, overlap>>

-----------------------------------------------------------------------------
(* SetPlayWhenReady: PauseClock, then the audio and the video renderer.    *)
Interface(from, to) ==
    /\ ui = from /\ ui' = to
    /\ UNCHANGED <<time, videoVars, audioVars, readerVars, file, decoder>>

ExtClock == GetClock(ext_clock, ext_clock.serial, time)

SetPlayWhenReady ==
    /\ toggles < file.toggles
    /\ Interface("idle", IF clock_paused = play THEN "audio"
                         ELSE IF play THEN "freeze" ELSE "timer")
    /\ play' = ~play
    /\ loaded' = IF clock_paused # play /\ play THEN ExtClock ELSE 0
    /\ toggles' = toggles + 1
    /\ UNCHANGED <<clocks, frame_timer, switches, overlap>>

(* Resuming: the time since the last picture is added to the timer, and    *)
(* the clock starts again.  read_pause_return, which tells whether it has  *)
(* stood, is assigned by nobody (data_source.h:43).                        *)
LoadTimer ==
    /\ Interface("timer", "frame")
    /\ loaded' = frame_timer + (time - video_clock.last_updated)
    /\ overlap' = (overlap \/ draw # "idle")
    /\ UNCHANGED <<clocks, frame_timer, switches, play, toggles>>

StoreTimer ==
    /\ Interface("frame", "video")
    /\ frame_timer' = loaded
    /\ \E enosys \in BOOLEAN :
         video_clock' = [video_clock EXCEPT !.paused = @ /\ enosys]
    /\ loaded' = GetClock(video_clock', serial["video"], time)
    /\ UNCHANGED <<audio_clock, ext_clock, switches, play, toggles, overlap>>

StoreVideo ==
    /\ Interface("video", "freeze")
    /\ video_clock' = SetClockAt(video_clock, loaded, video_clock.serial, time)
    /\ loaded' = ExtClock
    /\ UNCHANGED <<audio_clock, ext_clock, frame_timer, switches, play, toggles,
                   overlap>>

(* What the external clock was read to be is stored, a tick later perhaps. *)
FreezeClocks ==
    /\ Interface("freeze", "audio")
    /\ clock_paused' = ~play
    /\ audio_clock' = [audio_clock EXCEPT !.paused = ~play]
    /\ video_clock' = [video_clock EXCEPT !.paused = ~play]
    /\ ext_clock' = [SetClockAt(ext_clock, loaded, ext_clock.serial, time)
                        EXCEPT !.paused = ~play]
    /\ loaded' = 0
    /\ UNCHANGED <<frame_timer, video_paused, audio_paused, started, play,
                   toggles, overlap>>

SwitchAudio ==
    /\ Interface("audio", "device")
    /\ audio_paused' = ~play
    /\ UNCHANGED <<clocks, frame_timer, video_paused, started, clock_paused,
                   play, loaded, toggles, overlap>>

(* SDL_PauseAudioDevice waits for the callback.                            *)
SwitchDevice ==
    /\ callback = "idle"
    /\ Interface("device", "render")
    /\ started' = (play /\ Has("audio"))
    /\ UNCHANGED <<clocks, frame_timer, video_paused, audio_paused,
                   clock_paused, play, loaded, toggles, overlap>>

(* A DrawFrame that has set the timer for a new serial and then finds the  *)
(* renderer paused leaves the video clock behind the timer.                *)
SwitchVideo ==
    /\ Interface("render", "idle")
    /\ video_paused' = ~play
    /\ overlap' = (overlap \/ (~play /\ draw \in {"retry", "delay"}))
    /\ UNCHANGED <<clocks, frame_timer, audio_paused, started, clock_paused,
                   play, loaded, toggles>>

PauseStep ==
    LoadTimer \/ StoreTimer \/ StoreVideo \/ FreezeClocks \/ SwitchAudio
    \/ SwitchVideo

-----------------------------------------------------------------------------
(* ProcessSeekRequest flushes the queues and sets ext_clock, which is the  *)
(* audio clock (media_player.cc:137).                                      *)
ReaderStep(from, to) ==
    /\ reader = from /\ reader' = to
    /\ UNCHANGED <<time, pictures, shown, ring, draw, delay, now, timer,
                   samples, callback, callback_time, from_pts, from_serial,
                   buffered, frame_timer, switches, uiVars, file, decoder,
                   overlap, video_clock, ext_clock>>

FlushAudio ==
    /\ seeks < file.seeks
    /\ ReaderStep("idle", "video")
    /\ seeks' = seeks + 1
    /\ \E t \in SeekTargets : target' = t
    /\ serial' = IF Has("audio") THEN [serial EXCEPT !["audio"] = @ + 1] ELSE serial
    /\ heard_old' = 0
    /\ UNCHANGED <<audio_clock, stale, skipped>>

FlushVideo ==
    /\ ReaderStep("video", "value")
    /\ serial' = IF Has("video") THEN [serial EXCEPT !["video"] = @ + 1] ELSE serial
    /\ stale' = 0 /\ skipped' = 0
    /\ UNCHANGED <<audio_clock, target, seeks, heard_old>>

StoreTarget ==
    /\ ReaderStep("value", "serial")
    /\ audio_clock' = StoreValue(audio_clock, target, time)
    /\ UNCHANGED <<serial, target, seeks, stale, skipped, heard_old>>

(* Mutant of StoreZero: the target is valid at once.                       *)
StoreQueueSerial ==
    /\ ReaderStep("serial", "idle")
    /\ audio_clock' = StoreSerial(audio_clock, serial["audio"])
    /\ UNCHANGED <<serial, target, seeks, stale, skipped, heard_old>>

StoreZero ==
    /\ ReaderStep("serial", "idle")
    /\ audio_clock' = StoreSerial(audio_clock, 0)
    /\ UNCHANGED <<serial, target, seeks, stale, skipped, heard_old>>

SeekStep == FlushVideo \/ StoreTarget \/ StoreZero

-----------------------------------------------------------------------------
(* A decoder gets a frame from its codec while the serial of its packets   *)
(* is the queue's, and then pushes it, however long that takes             *)
(* (decoder_base.cc:46, VideoDecoder::DecodeThread).  A late picture may   *)
(* be dropped, but before the wait for a slot.                             *)
Duration(q) == IF q = "audio" THEN AudioDuration ELSE FrameDuration

TheFrame(q) == [pts |-> decoder[q].next, serial |-> decoder[q].serial]

DecoderStep(q) ==
    /\ Has(q)
    /\ UNCHANGED <<time, clocks, shown, draw, delay, now, timer, stale, skipped,
                   frame_timer, callback, callback_time, from_pts, from_serial,
                   buffered, heard_old, switches, uiVars, readerVars, file,
                   overlap>>

IsAt(q, from, to) ==
    /\ decoder[q].frame = from
    /\ decoder' = [decoder EXCEPT ![q].frame = to]

IsDone(q, from) ==
    /\ decoder[q].frame = from
    /\ decoder' = [decoder EXCEPT ![q] = DecoderAt(@.serial, @.next + Duration(q))]

ReceiveFrame(q) ==
    /\ decoder[q].serial = serial[q] /\ decoder[q].next <= file[q]
    /\ IsAt(q, "none", "received")
    /\ UNCHANGED <<pictures, ring, samples>>
    /\ DecoderStep(q)

PushSamples ==
    /\ IsDone("audio", "received")
    /\ AR!PushFrame(TheFrame("audio"))
    /\ UNCHANGED <<pictures, ring>>
    /\ DecoderStep("audio")

TestLate ==
    /\ \/ VR!IsLate(TheFrame("video")) /\ IsDone("video", "received")
       \/ IsAt("video", "received", "tested")
    /\ UNCHANGED <<pictures, ring, samples>>
    /\ DecoderStep("video")

WritePicture ==
    /\ IsAt("video", "tested", "written")
    /\ VR!WriteFrame(TheFrame("video"))
    /\ UNCHANGED samples
    /\ DecoderStep("video")

PushPicture ==
    /\ IsDone("video", "written")
    /\ VR!Push(TheFrame("video"))
    /\ UNCHANGED samples
    /\ DecoderStep("video")

(* It gets packets of a new serial after the reader has done the seek.     *)
FlushDecoder(q) ==
    /\ reader = "idle" /\ decoder[q].frame = "none"
    /\ decoder[q].serial # serial[q]
    /\ decoder' = [decoder EXCEPT ![q] = DecoderAt(serial[q], target)]
    /\ UNCHANGED <<pictures, ring, samples>>
    /\ DecoderStep(q)

DecodeThread(q) ==
    \/ ReceiveFrame(q) \/ FlushDecoder(q)
    \/ q = "audio" /\ PushSamples
    \/ q = "video" /\ (TestLate \/ WritePicture \/ PushPicture)

-----------------------------------------------------------------------------
Next ==
    \/ Tick
    \/ Draw
    \/ Callback
    \/ SetPlayWhenReady \/ PauseStep \/ SwitchDevice
    \/ FlushAudio \/ SeekStep
    \/ \E q \in Streams : DecodeThread(q)

(* Threads run, calls that have begun go on, and a thread that waits for   *)
(* the device's lock gets it when it is free again and again.              *)
Fairness ==
    /\ WF_vars(Callback)
    /\ WF_vars(PauseStep) /\ SF_vars(SwitchDevice)
    /\ WF_vars(SeekStep)
    /\ \A q \in Streams : WF_vars(DecodeThread(q))

Spec == Init /\ [][Next]_vars
FairSpec == Spec /\ Fairness

-----------------------------------------------------------------------------
Frame == [pts : Nat, serial : 1 .. file.seeks + 1]
Places == {"none", "received", "tested", "written"}
Decoder == [serial : 1 .. file.seeks + 1, next : Nat, frame : Places]

(* The values the fields take.                                             *)
TypeOK ==
    /\ time \in StartTime .. file.until
    /\ serial \in [Streams -> 0 .. file.seeks + 1]
    /\ {audio_clock, video_clock, ext_clock} \subseteq Clock
    /\ pictures \in Seq(Frame) /\ Len(pictures) <= PictureQueueSize
    /\ samples \in Seq(Frame) /\ Len(samples) <= SampleQueueSize
    /\ shown \in BOOLEAN /\ frame_timer \in Int
    /\ windex \in 0 .. PictureQueueSize - 1
    /\ first \in 0 .. file.seeks + 1
    /\ draw \in {"idle", "retry", "delay", "test", "advance", "clock", "sync",
                 "show"}
    /\ delay \in Nat /\ now \in 0 .. time /\ timer \in Int
    /\ callback \in {"idle", "fill", "take", "value", "serial", "sync"}
    /\ callback_time \in 0 .. time
    /\ from_pts \in Nat \union {NaN}
    /\ buffered \in 0 .. AudioDuration
    /\ ui \in {"idle", "timer", "frame", "video", "freeze", "audio", "device",
               "render"}
    /\ reader \in {"idle", "video", "value", "serial"}
    /\ decoder \in [Streams -> Decoder]

(* The frame timer, which two threads move, is never ahead of the time: a  *)
(* picture would stand still for as long.  A pause and resume inside one   *)
(* DrawFrame can break this, and so can a pause between its two looks at   *)
(* paused_ after a seek; but only until a picture's time has come, so that *)
(* the errors do not add up.                                               *)
FrameTimerNotAhead == overlap \/ frame_timer <= time

(* The audio clock, while it is valid, is what is heard: written by the    *)
(* callback and the reader without a lock, store by store, it never shows  *)
(* a mixture of the two, nor the target of a seek that is not heard yet.   *)
ClockIsHeard ==
    /\ Has("audio") /\ audio_clock.serial = serial["audio"]
    /\ callback \in {"idle", "sync"}
    =>
        /\ audio_clock.serial = from_serial
        /\ audio_clock.pts = from_pts - AR!Latency
        /\ audio_clock.last_updated = callback_time

(* After a seek only so many pictures from before it are shown as the      *)
(* queue and the decoder held, and no more sound from before it is heard   *)
(* than audio_buf held; and of the new pictures, which are passed over     *)
(* while slot 0 has an old one, fewer than the queue has slots are lost.   *)
OldIsShort ==
    /\ stale <= PictureQueueSize + 1
    /\ heard_old <= AudioDuration
    /\ skipped < PictureQueueSize

(* Liveness: a call of SetPlayWhenReady that waits for the device gets on, *)
(* though the callback waits for the decoder: a pause does not end its     *)
(* wait.  Only at the end of the sound there is nothing to end it.         *)
SoundEnded ==
    /\ Has("audio") /\ callback = "take" /\ samples = <<>>
    /\ decoder["audio"].next > file["audio"]
PauseReturns == ui = "device" ~> (ui # "device" \/ SoundEnded)
=============================================================================
