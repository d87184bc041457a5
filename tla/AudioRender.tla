---------------------------- MODULE AudioRender ----------------------------
(***************************************************************************)
(* The audio callback of src/ffplayer/audio_render_basic.cc and            *)
(* render_audio_base.cc: it fills its buffer from the sample queue, hands  *)
(* out what the device asks for, and sets the audio clock to what is heard *)
(* now, behind what the device has been given.                             *)
(*                                                                         *)
(* The device asks for one tick of sound per tick of time and holds two    *)
(* buffers of one tick.  It is external: SDL holds its lock during a       *)
(* callback, and SDL_PauseAudioDevice takes the same lock.  A frame of     *)
(* samples lasts AudioDuration; the volume does not matter here.           *)
(***************************************************************************)
EXTENDS MediaClock, Sequences

CONSTANTS HwBuffer, AudioDuration, SampleQueueSize

VARIABLES
    time, serial, audio_clock, ext_clock,
    samples,                \* the sample queue
    audio_paused, started,  \* paused_, and the device
    callback,               \* where ReadAudioData is
    callback_time, from_pts, from_serial,   \* audio_clock_from_pts, ..._serial
    buffered,               \* what is left in audio_buf
    heard_old               \* ticks of old sound heard since a seek

Init ==
    /\ samples = <<>>
    /\ callback = "idle" /\ callback_time = 0
    /\ from_pts = NaN /\ from_serial = -1 /\ buffered = 0 /\ heard_old = 0

BeginCallback ==
    /\ started /\ callback = "idle" /\ callback_time < time
    /\ callback_time' = time
    /\ callback' = "fill"
    /\ UNCHANGED <<audio_clock, ext_clock, samples, from_pts, from_serial,
                   buffered, heard_old>>

(* The buffer is handed out tick by tick.  What is left is the caller's to *)
(* give, for it may just have been filled.                                 *)
Copy(filled, from) ==
    /\ buffered' = filled - 1
    /\ callback' = "value"
    /\ heard_old' = IF from = serial["audio"] THEN heard_old ELSE heard_old + 1
    /\ UNCHANGED <<audio_clock, ext_clock, callback_time>>

(* Silence leaves no buffer; and where there is no clock none is set.      *)
Silence ==
    /\ buffered' = 0
    /\ callback' = IF from_pts = NaN THEN "idle" ELSE "value"
    /\ UNCHANGED <<audio_clock, ext_clock, callback_time, from_pts, from_serial,
                   heard_old>>

CopyRest ==
    /\ callback = "fill" /\ buffered > 0
    /\ Copy(buffered, from_serial)
    /\ UNCHANGED <<samples, from_pts, from_serial>>

(* paused_ is tested once.                                                 *)
FillPaused ==
    /\ callback = "fill" /\ buffered = 0 /\ audio_paused
    /\ Silence
    /\ UNCHANGED samples

FillPlaying ==
    /\ callback = "fill" /\ buffered = 0 /\ ~audio_paused
    /\ callback' = "take"
    /\ UNCHANGED <<audio_clock, ext_clock, samples, callback_time, from_pts,
                   from_serial, buffered, heard_old>>

(* After that it waits for samples, whatever is paused meanwhile, and      *)
(* passes over those of another serial.                                    *)
Fills ==
    /\ callback = "take" /\ samples # <<>>
    /\ samples' = Tail(samples)

(* Mutant of TakeOld: it takes the samples of any serial.                  *)
TakeAny ==
    /\ Fills
    /\ from_pts' = Head(samples).pts + AudioDuration
    /\ from_serial' = Head(samples).serial
    /\ Copy(AudioDuration, Head(samples).serial)

(* Mutant of TakeOld: it looks again without Next().                       *)
LookAgain ==
    /\ callback = "take" /\ samples # <<>>
    /\ Head(samples).serial # serial["audio"]
    /\ UNCHANGED <<audio_clock, ext_clock, samples, callback, callback_time,
                   from_pts, from_serial, buffered, heard_old>>

TakeOld ==
    /\ Fills /\ Head(samples).serial # serial["audio"]
    /\ UNCHANGED <<audio_clock, ext_clock, callback, callback_time, from_pts,
                   from_serial, buffered, heard_old>>

(* A frame that cannot be resampled is lost.                               *)
Take ==
    /\ Fills /\ Head(samples).serial = serial["audio"]
    /\ \/ /\ from_pts' = Head(samples).pts + AudioDuration
          /\ from_serial' = Head(samples).serial
          /\ Copy(AudioDuration, Head(samples).serial)
       \/ Silence

(* The clock is set to what is heard at callback_time.                     *)
Latency == 2 * HwBuffer + buffered

StoreClockValue ==
    /\ callback = "value"
    /\ audio_clock' = StoreValue(audio_clock, from_pts - Latency, callback_time)
    /\ callback' = "serial"
    /\ UNCHANGED <<ext_clock, samples, callback_time, from_pts, from_serial,
                   buffered, heard_old>>

StoreClockSerial ==
    /\ callback = "serial"
    /\ audio_clock' = StoreSerial(audio_clock, from_serial)
    /\ callback' = "sync"
    /\ UNCHANGED <<ext_clock, samples, callback_time, from_pts, from_serial,
                   buffered, heard_old>>

SyncToAudio ==
    /\ callback = "sync"
    /\ ext_clock' = Sync(ext_clock, ext_clock.serial,
                         GetClock(audio_clock, serial["audio"], time),
                         audio_clock.serial, time)
    /\ callback' = "idle"
    /\ UNCHANGED <<audio_clock, samples, callback_time, from_pts, from_serial,
                   buffered, heard_old>>

ReadAudioData ==
    BeginCallback \/ CopyRest \/ FillPaused \/ FillPlaying \/ TakeOld \/ Take
    \/ StoreClockValue \/ StoreClockSerial \/ SyncToAudio

(* The decoder's side.                                                     *)
PushFrame(f) ==
    /\ Len(samples) < SampleQueueSize
    /\ samples' = Append(samples, f)
=============================================================================
