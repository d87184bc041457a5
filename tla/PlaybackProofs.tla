--------------------------- MODULE PlaybackProofs ---------------------------
(* Proofs about Playback, for any files, durations, buffers and seeks: the *)
(* audio clock between its two writers, the types, the frame timer between *)
(* DrawFrame and PauseClock, and what is left of the old after a seek.     *)
EXTENDS Playback, TLAPS

AnyClock == [pts : Int \union {NaN}, last_updated : Int, serial : Int,
             paused : BOOLEAN]
AnyFrame == [pts : Int, serial : Int]

SoundTypes ==
    /\ audio_clock \in AnyClock
    /\ samples \in Seq(AnyFrame)
    /\ decoder \in [Streams -> [serial : Int, next : Int, frame : Places]]
    /\ serial \in [Streams -> Int]
    /\ time \in Int /\ callback_time \in Int /\ buffered \in Int
    /\ target \in Int
    /\ from_pts \in Int \union {NaN} /\ from_serial \in Int

Behind(s) == s <= serial["audio"] /\ (reader # "idle" => s < serial["audio"])

(* No sound is of a serial to come, and while the reader seeks none is of  *)
(* the new one: the decoder has no packet of it yet.                       *)
NothingAhead ==
    /\ serial["audio"] >= 1
    /\ Behind(audio_clock.serial) /\ Behind(from_serial)
    /\ Behind(decoder["audio"].serial)
    /\ \A i \in 1 .. Len(samples) : Behind(samples[i].serial)

(* Before the first samples the clock has the serial of nothing.           *)
NoSoundYet ==
    from_pts = NaN => audio_clock.serial <= 0 /\ buffered <= 0
                      /\ callback \notin {"value", "serial"}

ValueStored ==
    /\ audio_clock.pts = from_pts - AR!Latency
    /\ audio_clock.last_updated = callback_time

(* Between its two stores the callback can rely on the first, unless the   *)
(* samples are old by now.                                                 *)
HalfStored ==
    reader = "idle" /\ callback = "serial" /\ from_serial = serial["audio"] =>
        ValueStored

HeardIsSet ==
    audio_clock.serial = serial["audio"] /\ callback \in {"idle", "sync"} =>
        audio_clock.serial = from_serial /\ ValueStored

ClockInv ==
    SoundTypes /\ NothingAhead /\ NoSoundYet /\ HalfStored /\ HeardIsSet

LEMMA Constants ==
    AudioDuration \in Int /\ FrameDuration \in Int /\ HwBuffer \in Int
    /\ NaN \notin Int /\ SeekTargets \subseteq Int
  BY PlaybackAssumption

LEMMA ValueFacts ==
    ASSUME NEW c \in AnyClock, NEW p \in Int \union {NaN}, NEW t \in Int
    PROVE  /\ StoreValue(c, p, t) \in AnyClock
           /\ StoreValue(c, p, t).pts = p
           /\ StoreValue(c, p, t).last_updated = t
           /\ StoreValue(c, p, t).serial = c.serial
  BY DEF AnyClock, StoreValue

LEMMA SerialFacts ==
    ASSUME NEW c \in AnyClock, NEW n \in Int
    PROVE  /\ StoreSerial(c, n) \in AnyClock
           /\ StoreSerial(c, n).serial = n
           /\ StoreSerial(c, n).pts = c.pts
           /\ StoreSerial(c, n).last_updated = c.last_updated
  BY DEF AnyClock, StoreSerial

LEMMA TailFacts ==
    ASSUME NEW S, NEW s \in Seq(S), s # <<>>
    PROVE  /\ Tail(s) \in Seq(S)
           /\ \A i \in 1 .. Len(Tail(s)) :
                Tail(s)[i] = s[i + 1] /\ i + 1 \in 1 .. Len(s)
           /\ Head(s) = s[1] /\ 1 \in 1 .. Len(s) /\ s[1] \in S
  OBVIOUS

(***************************************************************************)
(* The callback.                                                           *)
(***************************************************************************)
CallbackRest == <<time, serial, reader, target, decoder>>

LEMMA NoClockYet ==
    ClockInv /\ from_pts = NaN => audio_clock.serial # serial["audio"]
<1> SUFFICES ASSUME ClockInv, from_pts = NaN
             PROVE  audio_clock.serial # serial["audio"]
  OBVIOUS
<1>1. audio_clock.serial \in Int /\ serial["audio"] \in Int
  BY DEF ClockInv, SoundTypes, AnyClock, Streams
<1>2. audio_clock.serial <= 0 /\ serial["audio"] >= 1
  BY DEF ClockInv, NoSoundYet, NothingAhead
<1>3. QED
  BY <1>1, <1>2

LEMMA BeginKeepsInv ==
    ASSUME ClockInv,
           AR!BeginCallback \/ AR!CopyRest \/ AR!FillPaused \/ AR!FillPlaying,
           UNCHANGED CallbackRest
    PROVE  ClockInv'
<1> USE DEF ClockInv, SoundTypes, NothingAhead, Behind, NoSoundYet, HalfStored,
            HeardIsSet, ValueStored, AR!Latency, CallbackRest
<1>1. CASE AR!BeginCallback
  BY <1>1 DEF AR!BeginCallback
<1>2. CASE AR!CopyRest
  BY <1>2 DEF AR!CopyRest, AR!Copy
<1>3. CASE AR!FillPaused
  BY <1>3, NoClockYet DEF AR!FillPaused, AR!Silence
<1>4. CASE AR!FillPlaying
  BY <1>4 DEF AR!FillPlaying
<1>5. QED
  BY <1>1, <1>2, <1>3, <1>4

LEMMA TakeKeepsInv ==
    ASSUME ClockInv, AR!TakeOld \/ AR!Take, UNCHANGED CallbackRest
    PROVE  ClockInv'
<1>1. samples # <<>> /\ samples' = Tail(samples)
  BY DEF AR!TakeOld, AR!Take, AR!Fills
<1>2. samples \in Seq(AnyFrame)
  BY DEF ClockInv, SoundTypes
<1>3. /\ samples' \in Seq(AnyFrame)
      /\ \A i \in 1 .. Len(samples') :
           samples'[i] = samples[i + 1] /\ i + 1 \in 1 .. Len(samples)
      /\ Head(samples) = samples[1] /\ 1 \in 1 .. Len(samples)
      /\ Head(samples) \in AnyFrame
  BY <1>1, <1>2, TailFacts
<1>4. Head(samples).pts \in Int /\ Head(samples).serial \in Int
  BY <1>3 DEF AnyFrame
<1>5. Behind(Head(samples).serial)
  BY <1>3 DEF ClockInv, NothingAhead
<1>6. \A i \in 1 .. Len(samples') : Behind(samples'[i].serial)
  BY <1>3 DEF ClockInv, NothingAhead
<1>7. /\ UNCHANGED <<audio_clock, callback_time>>
      /\ \/ /\ from_pts' = Head(samples).pts + AudioDuration
            /\ from_serial' = Head(samples).serial
            /\ buffered' = AudioDuration - 1 /\ callback' = "value"
         \/ /\ buffered' = 0 /\ UNCHANGED <<from_pts, from_serial>>
            /\ callback' = IF from_pts = NaN THEN "idle" ELSE "value"
         \/ callback' = "take" /\ UNCHANGED <<from_pts, from_serial, buffered>>
  BY DEF AR!TakeOld, AR!Take, AR!Fills, AR!Copy, AR!Silence
<1>8. Behind(from_serial')
  BY <1>5, <1>7 DEF ClockInv, NothingAhead
<1> USE DEF CallbackRest
<1>9. SoundTypes'
  BY <1>3, <1>4, <1>7, Constants DEF ClockInv, SoundTypes
<1>10. NothingAhead'
  BY <1>6, <1>7, <1>8 DEF ClockInv, NothingAhead, Behind
<1>11. NoSoundYet'
  BY <1>4, <1>7, Constants DEF ClockInv, NoSoundYet
<1>12. (HalfStored /\ HeardIsSet)'
  BY <1>7, NoClockYet DEF ClockInv, SoundTypes, NothingAhead, NoSoundYet, HalfStored,
              HeardIsSet
<1>13. QED
  BY <1>9, <1>10, <1>11, <1>12 DEF ClockInv

LEMMA ValueKeepsInv ==
    ASSUME ClockInv, AR!StoreClockValue, UNCHANGED CallbackRest
    PROVE  ClockInv'
<1>1. /\ callback = "value" /\ callback' = "serial"
      /\ audio_clock' = StoreValue(audio_clock, from_pts - AR!Latency,
                                   callback_time)
      /\ UNCHANGED <<samples, callback_time, from_pts, from_serial, buffered>>
  BY DEF AR!StoreClockValue, AR!StoreValue, StoreValue, AR!Latency
<1>2. from_pts - AR!Latency \in Int
  BY <1>1, Constants DEF ClockInv, SoundTypes, NoSoundYet, AR!Latency
<1>3. AR!Latency' = AR!Latency
  BY <1>1 DEF AR!Latency
<1>4. /\ audio_clock' \in AnyClock
      /\ audio_clock'.pts = from_pts - AR!Latency
      /\ audio_clock'.last_updated = callback_time
      /\ audio_clock'.serial = audio_clock.serial
  BY <1>1, <1>2, ValueFacts DEF ClockInv, SoundTypes
<1> USE DEF CallbackRest
<1>5. SoundTypes'
  BY <1>1, <1>4 DEF ClockInv, SoundTypes
<1>6. (NothingAhead /\ NoSoundYet)'
  BY <1>1, <1>4 DEF ClockInv, NothingAhead, Behind, NoSoundYet
<1>7. ValueStored'
  BY <1>1, <1>3, <1>4 DEF ValueStored
<1>8. QED
  BY <1>1, <1>5, <1>6, <1>7 DEF ClockInv, HalfStored, HeardIsSet

LEMMA SerialKeepsInv ==
    ASSUME ClockInv, AR!StoreClockSerial, UNCHANGED CallbackRest
    PROVE  ClockInv'
<1>1. /\ callback = "serial" /\ callback' = "sync"
      /\ audio_clock' = StoreSerial(audio_clock, from_serial)
      /\ UNCHANGED <<samples, callback_time, from_pts, from_serial, buffered>>
  BY DEF AR!StoreClockSerial, AR!StoreSerial, StoreSerial
<1>2. /\ audio_clock' \in AnyClock /\ audio_clock'.serial = from_serial
      /\ audio_clock'.pts = audio_clock.pts
      /\ audio_clock'.last_updated = audio_clock.last_updated
  BY <1>1, SerialFacts DEF ClockInv, SoundTypes
<1> USE DEF CallbackRest
<1>3. SoundTypes'
  BY <1>1, <1>2 DEF ClockInv, SoundTypes
<1>4. (NothingAhead /\ NoSoundYet)'
  BY <1>1, <1>2 DEF ClockInv, NothingAhead, Behind, NoSoundYet
<1>5. ValueStored => ValueStored'
  BY <1>1, <1>2 DEF ValueStored, AR!Latency
<1>6. from_serial = serial["audio"] => reader = "idle"
  BY DEF ClockInv, SoundTypes, NothingAhead, Behind
<1>7. QED
  BY <1>1, <1>2, <1>3, <1>4, <1>5, <1>6 DEF ClockInv, HalfStored, HeardIsSet

LEMMA CallbackKeepsInv ==
    ASSUME ClockInv, Callback
    PROVE  ClockInv'
<1>1. UNCHANGED CallbackRest
  BY DEF Callback, CallbackRest, readerVars
<1>2. CASE AR!SyncToAudio
  BY <1>1, <1>2 DEF AR!SyncToAudio, ClockInv, SoundTypes, NothingAhead, Behind,
     NoSoundYet, HalfStored, HeardIsSet, ValueStored, AR!Latency, CallbackRest
<1>3. QED
  BY <1>1, <1>2, BeginKeepsInv, TakeKeepsInv, ValueKeepsInv, SerialKeepsInv
     DEF Callback, AR!ReadAudioData

(***************************************************************************)
(* The reader's seek.                                                      *)
(***************************************************************************)
SoundRest == <<time, samples, decoder, callback, callback_time, from_pts,
               from_serial, buffered>>

LEMMA FlushKeepsInv ==
    ASSUME ClockInv, FlushAudio \/ FlushVideo, Has("audio")
    PROVE  ClockInv'
<1>1. /\ target' \in Int
      /\ \/ /\ reader = "idle" /\ reader' = "video"
            /\ serial' = [serial EXCEPT !["audio"] = @ + 1]
         \/ /\ reader = "video" /\ reader' = "value"
            /\ serial' \in {serial, [serial EXCEPT !["video"] = @ + 1]}
      /\ UNCHANGED <<SoundRest, audio_clock>>
  BY Constants DEF FlushAudio, FlushVideo, ReaderStep, SoundRest, ClockInv,
     SoundTypes
<1>2. /\ serial' \in [Streams -> Int]
      /\ \/ /\ reader = "idle" /\ reader' # "idle"
            /\ serial'["audio"] = serial["audio"] + 1
         \/ /\ reader # "idle" /\ reader' # "idle"
            /\ serial'["audio"] = serial["audio"]
  BY <1>1 DEF ClockInv, SoundTypes, Streams
<1> USE DEF SoundRest
<1>3. SoundTypes'
  BY <1>1, <1>2 DEF ClockInv, SoundTypes
<1>4. \A s \in Int : Behind(s) => Behind(s)' /\ s < serial'["audio"]
  BY <1>2 DEF Behind, ClockInv, SoundTypes, Streams
<1>5. /\ audio_clock.serial \in Int /\ decoder["audio"].serial \in Int
      /\ from_serial \in Int /\ \A i \in 1 .. Len(samples) : samples[i].serial \in Int
  <2>1. \A i \in 1 .. Len(samples) : samples[i] \in AnyFrame
    BY DEF ClockInv, SoundTypes
  <2>2. QED
    BY <2>1 DEF ClockInv, SoundTypes, AnyClock, AnyFrame, Streams
<1>6. NothingAhead' /\ audio_clock.serial < serial'["audio"]
  <2>1. serial'["audio"] >= 1
    BY <1>2 DEF ClockInv, SoundTypes, NothingAhead, Streams
  <2>2. QED
    BY <1>1, <1>4, <1>5, <2>1 DEF ClockInv, NothingAhead
<1>7. NoSoundYet'
  BY <1>1 DEF ClockInv, NoSoundYet
<1>8. (HalfStored /\ HeardIsSet)'
  BY <1>1, <1>2, <1>3, <1>5, <1>6 DEF HalfStored, HeardIsSet, SoundTypes, Streams
<1>9. QED
  BY <1>3, <1>6, <1>7, <1>8 DEF ClockInv

LEMMA StoreKeepsInv ==
    ASSUME ClockInv, StoreTarget \/ StoreZero
    PROVE  ClockInv'
<1>1. /\ UNCHANGED <<SoundRest, serial, target>> /\ reader # "idle"
      /\ \/ audio_clock' = StoreValue(audio_clock, target, time)
            /\ reader' = "serial"
         \/ audio_clock' = StoreSerial(audio_clock, 0) /\ reader' = "idle"
  BY DEF StoreTarget, StoreZero, ReaderStep, SoundRest
<1>2. /\ audio_clock' \in AnyClock
      /\ audio_clock'.serial = audio_clock.serial \/ audio_clock'.serial = 0
  <2>1. audio_clock \in AnyClock /\ target \in Int /\ time \in Int
    BY DEF ClockInv, SoundTypes
  <2>2. CASE audio_clock' = StoreValue(audio_clock, target, time)
    BY <2>1, <2>2, ValueFacts
  <2>3. CASE audio_clock' = StoreSerial(audio_clock, 0)
    BY <2>1, <2>3, SerialFacts
  <2>4. QED
    BY <1>1, <2>2, <2>3
<1> USE DEF SoundRest
<1>3. SoundTypes'
  BY <1>1, <1>2 DEF ClockInv, SoundTypes
<1>4. \A s : Behind(s) => Behind(s)' /\ s < serial["audio"]
  BY <1>1 DEF Behind
<1>5. 0 < serial["audio"] /\ 0 <= serial["audio"]
  BY DEF ClockInv, SoundTypes, NothingAhead, Streams
<1>6. NothingAhead' /\ audio_clock'.serial < serial["audio"]
  BY <1>1, <1>2, <1>4, <1>5 DEF ClockInv, NothingAhead, Behind
<1>7. NoSoundYet'
  BY <1>1, <1>2 DEF ClockInv, NoSoundYet
<1>8. from_serial < serial["audio"]
  BY <1>1 DEF ClockInv, NothingAhead, Behind
<1>9. audio_clock'.serial \in Int /\ serial["audio"] \in Int /\ from_serial \in Int
  BY <1>2 DEF AnyClock, ClockInv, SoundTypes, Streams
<1>10. (HalfStored /\ HeardIsSet)'
  BY <1>1, <1>6, <1>8, <1>9 DEF HalfStored, HeardIsSet
<1>11. QED
  BY <1>3, <1>6, <1>7, <1>10 DEF ClockInv

(***************************************************************************)
(* The decoders.                                                           *)
(***************************************************************************)
DecoderRest == <<time, audio_clock, serial, reader, target, callback,
                 callback_time, from_pts, from_serial, buffered>>

(* A step of a decoder, by what it does to its record and to the queues.   *)
Goes(q) ==
    \/ \E to \in Places : decoder' = [decoder EXCEPT ![q].frame = to]
    \/ decoder' = [decoder EXCEPT
                      ![q] = DecoderAt(@.serial, @.next + Duration(q))]
    \/ reader = "idle" /\ Has(q)
       /\ decoder' = [decoder EXCEPT ![q] = DecoderAt(serial[q], target)]

PushesSamples(q) ==
    /\ q = "audio" /\ Len(samples) < SampleQueueSize
    /\ samples' = Append(samples, TheFrame(q))

PushesPicture(q) ==
    /\ q = "video" /\ decoder[q].frame = "written"
    /\ pictures' = Append(pictures, TheFrame(q))

LEMMA DecoderMoves ==
    ASSUME NEW q \in Streams, DecodeThread(q)
    PROVE  /\ DecoderStep(q) /\ Goes(q)
           /\ samples' = samples \/ PushesSamples(q)
           /\ pictures' = pictures \/ PushesPicture(q)
<1> USE DEF Goes, PushesSamples, PushesPicture, Places
<1>1. CASE ReceiveFrame(q)
  BY <1>1 DEF ReceiveFrame, IsAt
<1>2. CASE FlushDecoder(q)
  BY <1>2 DEF FlushDecoder, DecoderStep
<1>3. CASE q = "audio" /\ PushSamples
  BY <1>3 DEF PushSamples, IsDone, AR!PushFrame
<1>4. CASE q = "video" /\ TestLate
  BY <1>4 DEF TestLate, IsDone, IsAt
<1>5. CASE q = "video" /\ WritePicture
  BY <1>5 DEF WritePicture, IsAt, VR!WriteFrame
<1>6. CASE q = "video" /\ PushPicture
  BY <1>6 DEF PushPicture, IsDone, VR!Push
<1>7. QED
  BY <1>1, <1>2, <1>3, <1>4, <1>5, <1>6 DEF DecodeThread

(* The same for a decoder whose fields are of any types.                   *)
LEMMA DecoderTypes ==
    ASSUME NEW S, NEW N, NEW q \in Streams, Goes(q),
           decoder \in [Streams -> [serial : S, next : N, frame : Places]],
           serial[q] \in S \/ ~Has(q), target \in N,
           \A n \in N : n + Duration(q) \in N
    PROVE  /\ decoder' \in [Streams -> [serial : S, next : N, frame : Places]]
           /\ \A p \in Streams : decoder'[p].serial = decoder[p].serial
                 \/ (reader = "idle" /\ decoder'[p].serial = serial[p])
<1> DEFINE R == [serial : S, next : N, frame : Places]
<1>1. ASSUME NEW d \in R, decoder' = [decoder EXCEPT ![q] = d],
             d.serial = decoder[q].serial
             \/ (reader = "idle" /\ d.serial = serial[q])
      PROVE  /\ decoder' \in [Streams -> R]
             /\ \A p \in Streams : decoder'[p].serial = decoder[p].serial
                   \/ (reader = "idle" /\ decoder'[p].serial = serial[p])
  BY <1>1
<1>2. decoder[q] \in R
  OBVIOUS
<1>3. CASE \E to \in Places : decoder' = [decoder EXCEPT ![q].frame = to]
  <2>1. PICK to \in Places : decoder' = [decoder EXCEPT ![q].frame = to]
    BY <1>3
  <2> DEFINE d == [decoder[q] EXCEPT !.frame = to]
  <2>2. d \in R /\ d.serial = decoder[q].serial
    BY <1>2
  <2>3. decoder' = [decoder EXCEPT ![q] = d]
    BY <2>1
  <2> HIDE DEF d
  <2>4. QED
    BY <1>1, <2>2, <2>3
<1>4. CASE decoder' = [decoder EXCEPT
                         ![q] = DecoderAt(@.serial, @.next + Duration(q))]
  <2> DEFINE d == DecoderAt(decoder[q].serial, decoder[q].next + Duration(q))
  <2>1. d \in R /\ d.serial = decoder[q].serial
    BY <1>2 DEF DecoderAt, Places
  <2>2. decoder' = [decoder EXCEPT ![q] = d]
    BY <1>4
  <2> HIDE DEF d
  <2>3. QED
    BY <1>1, <2>1, <2>2
<1>5. CASE reader = "idle" /\ Has(q)
           /\ decoder' = [decoder EXCEPT ![q] = DecoderAt(serial[q], target)]
  <2> DEFINE d == DecoderAt(serial[q], target)
  <2>1. d \in R /\ d.serial = serial[q]
    BY <1>5 DEF DecoderAt, Places
  <2>2. decoder' = [decoder EXCEPT ![q] = d]
    BY <1>5
  <2> HIDE DEF d
  <2>3. QED
    BY <1>1, <1>5, <2>1, <2>2
<1>6. QED
  BY <1>3, <1>4, <1>5 DEF Goes

LEMMA OtherDecoder ==
    ASSUME NEW q \in Streams, DecodeThread(q), NEW p \in Streams, p # q,
           NEW D, decoder \in [Streams -> D]
    PROVE  decoder'[p] = decoder[p]
<1>1. \E d : decoder' = [decoder EXCEPT ![q] = d]
  <2>1. CASE \E to \in Places : decoder' = [decoder EXCEPT ![q].frame = to]
    BY <2>1
  <2>2. CASE decoder' = [decoder EXCEPT
                           ![q] = DecoderAt(@.serial, @.next + Duration(q))]
    BY <2>2
  <2>3. CASE decoder' = [decoder EXCEPT ![q] = DecoderAt(serial[q], target)]
    BY <2>3
  <2>4. QED
    BY <2>1, <2>2, <2>3, DecoderMoves DEF Goes
<1>2. QED
  BY <1>1

LEMMA DecoderKeepsInv ==
    ASSUME ClockInv, NEW q \in Streams, DecodeThread(q)
    PROVE  ClockInv'
<1>1. UNCHANGED DecoderRest /\ Goes(q)
  BY DecoderMoves DEF DecoderStep, DecoderRest, clocks, readerVars
<1>2. /\ decoder' \in [Streams -> [serial : Int, next : Int, frame : Places]]
      /\ decoder'["audio"].serial = decoder["audio"].serial
         \/ (reader = "idle" /\ decoder'["audio"].serial = serial["audio"])
  <2>1. /\ decoder \in [Streams -> [serial : Int, next : Int, frame : Places]]
        /\ serial[q] \in Int /\ target \in Int /\ "audio" \in Streams
    BY DEF ClockInv, SoundTypes, Streams
  <2>2. \A n \in Int : n + Duration(q) \in Int
    BY Constants DEF Duration
  <2>3. QED
    BY <1>1, <2>1, <2>2, DecoderTypes
<1>3. /\ samples' \in Seq(AnyFrame)
      /\ \A i \in 1 .. Len(samples') : Behind(samples'[i].serial)
  <2>1. CASE samples' = samples
    BY <2>1 DEF ClockInv, SoundTypes, NothingAhead
  <2>2. CASE q = "audio" /\ samples' = Append(samples, TheFrame(q))
    <3>1. TheFrame(q) \in AnyFrame /\ TheFrame(q).serial = decoder["audio"].serial
      BY <2>2 DEF TheFrame, AnyFrame, ClockInv, SoundTypes, Streams
    <3>2. samples \in Seq(AnyFrame)
      BY DEF ClockInv, SoundTypes
    <3>3. /\ samples' \in Seq(AnyFrame)
          /\ \A i \in 1 .. Len(samples') :
               (i \in 1 .. Len(samples) /\ samples'[i] = samples[i])
               \/ samples'[i] = TheFrame(q)
      BY <2>2, <3>1, <3>2
    <3>4. QED
      BY <3>1, <3>3 DEF ClockInv, NothingAhead
  <2>3. QED
    BY <2>1, <2>2, DecoderMoves DEF PushesSamples
<1> USE DEF DecoderRest
<1>4. SoundTypes'
  BY <1>1, <1>2, <1>3 DEF ClockInv, SoundTypes
<1>5. Behind(decoder'["audio"].serial)
  BY <1>2 DEF ClockInv, SoundTypes, NothingAhead, Behind, Streams
<1>6. NothingAhead'
  BY <1>1, <1>3, <1>5 DEF ClockInv, NothingAhead, Behind
<1>7. (NoSoundYet /\ HalfStored /\ HeardIsSet)'
  BY <1>1 DEF ClockInv, NoSoundYet, HalfStored, HeardIsSet, ValueStored,
              AR!Latency
<1>8. QED
  BY <1>4, <1>6, <1>7 DEF ClockInv

(***************************************************************************)
(* The interface, drawing and time touch nothing but a pause of the clock. *)
(***************************************************************************)
LEMMA InterfaceKeepsInv ==
    ASSUME ClockInv,
           Tick \/ Draw \/ SetPlayWhenReady \/ PauseStep \/ SwitchDevice
           \/ UNCHANGED vars
    PROVE  ClockInv'
<1>1. /\ UNCHANGED <<samples, decoder, serial, reader, target, callback,
                     callback_time, from_pts, from_serial, buffered>>
      /\ time' = time \/ time' = time + 1
  BY DEF Tick, Draw, SetPlayWhenReady, PauseStep, SwitchDevice, LoadTimer,
         StoreTimer, StoreVideo, FreezeClocks, SwitchAudio, SwitchVideo,
         Interface, readerVars, audioVars, vars
<1>2. audio_clock' = audio_clock
      \/ audio_clock' = [audio_clock EXCEPT !.paused = ~play]
  BY DEF Tick, Draw, SetPlayWhenReady, PauseStep, SwitchDevice, LoadTimer,
         StoreTimer, StoreVideo, FreezeClocks, SwitchAudio, SwitchVideo,
         clocks, vars
<1>3. /\ audio_clock' \in AnyClock
      /\ audio_clock'.serial = audio_clock.serial
      /\ audio_clock'.pts = audio_clock.pts
      /\ audio_clock'.last_updated = audio_clock.last_updated
  <2>1. (~play) \in BOOLEAN
    BY Zenon
  <2>2. QED
    BY <1>2, <2>1 DEF ClockInv, SoundTypes, AnyClock
<1>4. SoundTypes'
  BY <1>1, <1>3 DEF ClockInv, SoundTypes
<1>5. (NothingAhead /\ NoSoundYet)'
  BY <1>1, <1>3 DEF ClockInv, NothingAhead, Behind, NoSoundYet
<1>6. (HalfStored /\ HeardIsSet)'
  BY <1>1, <1>3 DEF ClockInv, HalfStored, HeardIsSet, ValueStored, AR!Latency
<1>7. QED
  BY <1>4, <1>5, <1>6 DEF ClockInv

(***************************************************************************)
(* The audio clock, while it is valid, is what is heard, whatever the      *)
(* reader's seeks and pauses do between the stores of the callback         *)
(* (BasicAudioRender::ReadAudioData, DataSource::ProcessSeekRequest).      *)
(***************************************************************************)
THEOREM ClockCorrect == Spec => []ClockIsHeard
<1> DEFINE Inv == Has("audio") => ClockInv
<1>1. Init => Inv
  <2> SUFFICES ASSUME Init, Has("audio") PROVE ClockInv
    OBVIOUS
  <2>1. audio_clock \in AnyClock /\ audio_clock.serial = -1
    BY PlaybackAssumption DEF Init, NewClock, AnyClock
  <2>2. /\ samples = <<>> /\ callback = "idle" /\ callback_time = 0
        /\ from_pts = NaN /\ from_serial = -1 /\ buffered = 0
    BY DEF Init, AR!Init
  <2>3. /\ decoder \in [Streams -> [serial : Int, next : Int, frame : Places]]
        /\ decoder["audio"].serial = 1
        /\ serial \in [Streams -> Int] /\ serial["audio"] = 1
        /\ reader = "idle" /\ target = 0 /\ time \in Int
    BY PlaybackAssumption DEF Init, DecoderAt, Places, Streams
  <2>4. QED
    BY <2>1, <2>2, <2>3 DEF ClockInv, SoundTypes, NothingAhead, Behind,
       NoSoundYet, HalfStored, HeardIsSet
<1>2. Inv /\ [Next]_vars => Inv'
  <2>1. [Next]_vars => UNCHANGED file
    BY DecoderMoves DEF DecoderStep, Next, Tick, Draw, Callback, SetPlayWhenReady, PauseStep,
       SwitchDevice, LoadTimer, StoreTimer, StoreVideo, FreezeClocks,
       SwitchAudio, SwitchVideo, Interface, FlushAudio, SeekStep, FlushVideo,
       StoreTarget, StoreZero, ReaderStep, vars
  <2>2. [Next]_vars => Has("audio")' = Has("audio")
    BY <2>1 DEF Has
  <2>3. ASSUME Has("audio"), ClockInv, [Next]_vars
        PROVE  ClockInv'
    BY <2>3, CallbackKeepsInv, FlushKeepsInv, StoreKeepsInv, DecoderKeepsInv,
       InterfaceKeepsInv DEF Next, SeekStep
  <2>4. QED
    BY <2>2, <2>3
<1>3. Inv => ClockIsHeard
  BY DEF ClockInv, HeardIsSet, ValueStored, ClockIsHeard
<1>4. QED
  BY <1>1, <1>2, <1>3, PTL DEF Spec

(***************************************************************************)
(* Types: every value of every field, with what the numbers in TypeOK need *)
(* to stay in their ranges.                                                *)
(***************************************************************************)
Showing == draw \in {"delay", "test", "advance", "clock", "sync", "show"}

Pictures ==
    /\ shown => Len(pictures) >= 1
    /\ Showing => Len(pictures) >= 1 /\ (shown => Len(pictures) >= 2)
    /\ decoder["video"].frame = "written" => Len(pictures) < PictureQueueSize

Values ==
    /\ file \in Files /\ target \in Nat /\ seeks \in 0 .. file.seeks
    /\ \A q \in Streams : serial[q] <= seeks + 1 /\ (Has(q) => serial[q] >= 1)
    /\ reader = "video" => serial["video"] <= seeks
    /\ loaded \in Int \union {NaN} /\ (ui = "frame" => loaded \in Int)
    /\ callback \in {"value", "serial"} => from_pts # NaN
    /\ from_serial \in Int /\ heard_old \in Int
    /\ stale \in Int /\ skipped \in Nat
    /\ overlap \in BOOLEAN /\ video_paused \in BOOLEAN /\ play \in BOOLEAN
    /\ clock_paused \in BOOLEAN

(* There is sound in the buffer only after there was some to fill it.      *)
Buffers == buffered > 0 => from_pts # NaN

TypeInv == TypeOK /\ Values /\ Pictures /\ Buffers

LEMMA Parameters ==
    /\ FrameDuration \in Nat \ {0} /\ AudioDuration \in Nat \ {0}
    /\ HwBuffer \in Nat /\ MaxFrameDuration \in Nat /\ NoSync \in Nat
    /\ ThresholdMin \in Nat \ {0} /\ ThresholdMax \in Nat
    /\ ThresholdDup \in Nat /\ StartTime \in Nat
    /\ PictureQueueSize \in Nat \ {0, 1} /\ SampleQueueSize \in Nat
    /\ SeekTargets \subseteq Nat /\ NaN \notin Int
    /\ \A f \in Files : f.seeks \in Nat /\ f.until \in Nat /\ StartTime <= f.until
  BY PlaybackAssumption

LEMMA FileStays == [Next]_vars => file' = file
  BY DecoderMoves DEF DecoderStep, Next, Tick, Draw, Callback, SetPlayWhenReady, PauseStep,
     SwitchDevice, LoadTimer, StoreTimer, StoreVideo, FreezeClocks,
     SwitchAudio, SwitchVideo, Interface, FlushAudio, SeekStep, FlushVideo,
     StoreTarget, StoreZero, ReaderStep, vars

LEMMA ClockTypes ==
    ASSUME NEW c \in Clock, NEW s \in Int, NEW t \in Int
    PROVE  /\ GetClock(c, s, t) \in Int \union {NaN}
           /\ \A p \in Int \union {NaN} :
                /\ StoreValue(c, p, t) \in Clock
                /\ SetClockAt(c, p, s, t) \in Clock
                /\ SetClockAt(c, p, s, t).last_updated = t
                /\ \A r \in Int : Sync(c, r, p, s, t) \in Clock
           /\ StoreSerial(c, s) \in Clock
           /\ \A b \in BOOLEAN : /\ [c EXCEPT !.paused = b] \in Clock
                                 /\ [c EXCEPT !.paused = @ /\ b] \in Clock
<1>1. c.pts \in Int \union {NaN} /\ c.last_updated \in Int /\ c.paused \in BOOLEAN
  BY DEF Clock
<1>2. GetClock(c, s, t) \in Int \union {NaN}
  BY <1>1 DEF GetClock
<1>3. \A p \in Int \union {NaN} :
        /\ StoreValue(c, p, t) \in Clock /\ SetClockAt(c, p, s, t) \in Clock
        /\ SetClockAt(c, p, s, t).last_updated = t
  BY DEF Clock, StoreValue, StoreSerial, SetClockAt
<1>4. \A p \in Int \union {NaN}, r \in Int : Sync(c, r, p, s, t) \in Clock
  BY <1>3 DEF Sync
<1>5. StoreSerial(c, s) \in Clock
  BY DEF Clock, StoreSerial
<1>6. \A b \in BOOLEAN : [c EXCEPT !.paused = b] \in Clock
  BY DEF Clock
<1>7. \A b \in BOOLEAN : (c.paused /\ b) \in BOOLEAN
  BY Zenon
<1>8. \A b \in BOOLEAN : [c EXCEPT !.paused = @ /\ b] \in Clock
  BY <1>7 DEF Clock
<1>9. QED
  BY <1>2, <1>3, <1>4, <1>5, <1>6, <1>8

LEMMA TypeFacts ==
    ASSUME TypeInv
    PROVE  /\ audio_clock \in Clock /\ video_clock \in Clock
           /\ ext_clock \in Clock
           /\ time \in Nat /\ frame_timer \in Int
           /\ file.seeks \in Nat /\ file.until \in Nat
           /\ serial["audio"] \in Int /\ serial["video"] \in Int
           /\ ext_clock.serial \in Int /\ audio_clock.serial \in Int
           /\ video_clock.serial \in Int
           /\ \A i \in 1 .. Len(pictures) :
                pictures[i].pts \in Nat /\ pictures[i].serial \in Int
           /\ NaN \notin Int
<1>1. \A i \in 1 .. Len(pictures) :
        pictures[i].pts \in Nat /\ pictures[i].serial \in Int
  <2>1. pictures \in Seq(Frame)
    BY DEF TypeInv, TypeOK
  <2>2. \A f \in Frame : f.pts \in Nat /\ f.serial \in Int
    BY DEF Frame
  <2>3. QED
    BY <2>1, <2>2
<1>2. /\ audio_clock \in Clock /\ video_clock \in Clock /\ ext_clock \in Clock
      /\ \A c \in Clock : c.serial \in Int
  BY DEF TypeInv, TypeOK, Clock
<1>3. file.seeks \in Nat /\ file.until \in Nat
  BY Parameters DEF TypeInv, Values
<1>4. time \in Nat /\ frame_timer \in Int
  BY <1>3, Parameters DEF TypeInv, TypeOK
<1>5. serial["audio"] \in Int /\ serial["video"] \in Int
  BY DEF TypeInv, TypeOK, Streams
<1>6. QED
  BY <1>1, <1>2, <1>3, <1>4, <1>5, Parameters

(* The delay until the next picture is a number, and zero stays zero.      *)
LEMMA DelayFacts ==
    ASSUME TypeInv
    PROVE  /\ \A d \in Nat : VR!ComputeTargetDelay(d) \in Nat
           /\ VR!ComputeTargetDelay(0) = 0
<1> DEFINE diff == VR!Minus(VR!GetClock(video_clock, serial["video"], time),
                      VR!GetMasterClock(VR!sounds, audio_clock,
                                        serial["audio"], ext_clock, time))
<1>1. \A c \in Clock, s \in Int : VR!GetClock(c, s, time) \in Int \union {NaN}
  <2>1. \A c \in Clock, s \in Int : VR!GetClock(c, s, time) = GetClock(c, s, time)
    BY DEF VR!GetClock, GetClock
  <2>2. QED
    BY <2>1, TypeFacts, ClockTypes
<1>2. VR!GetMasterClock(VR!sounds, audio_clock, serial["audio"], ext_clock,
                        time) \in Int \union {NaN}
  BY <1>1, TypeFacts DEF VR!GetMasterClock
<1>3. diff \in Int \union {NaN}
  BY <1>1, <1>2, TypeFacts DEF VR!Minus
<1>4. ASSUME NEW d \in Nat
      PROVE  VR!ComputeTargetDelay(d) \in Nat
             /\ (d = 0 => VR!ComputeTargetDelay(d) = 0)
  <2> DEFINE threshold == VR!Most(ThresholdMin, VR!Least(ThresholdMax, d))
  <2>1. threshold \in Nat \ {0}
    BY Parameters DEF VR!Most, VR!Least
  <2>2. VR!ComputeTargetDelay(d) =
          IF diff = NaN \/ VR!Abs(diff) >= MaxFrameDuration THEN d
          ELSE IF diff <= -threshold THEN VR!Most(0, d + diff)
          ELSE IF diff < threshold THEN d
          ELSE IF d > ThresholdDup THEN d + diff
          ELSE 2 * d
    BY DEF VR!ComputeTargetDelay
  <2> HIDE DEF diff, threshold
  <2>3. diff # NaN => diff \in Int
    BY <1>3
  <2>4. QED
    BY <2>1, <2>2, <2>3, Parameters DEF VR!Most
<1>5. QED
  BY <1>4

LEMMA NextPicture ==
    ASSUME TypeInv, VR!Next, Len(pictures) >= 1
    PROVE  /\ pictures' \in Seq(Frame) /\ Len(pictures') <= Len(pictures)
           /\ shown' = TRUE
           /\ Len(pictures') = IF shown THEN Len(pictures) - 1 ELSE Len(pictures)
<1>1. pictures \in Seq(Frame) /\ pictures # <<>>
  BY DEF TypeInv, TypeOK
<1>2. Tail(pictures) \in Seq(Frame) /\ Len(Tail(pictures)) = Len(pictures) - 1
  BY <1>1
<1>3. QED
  BY <1>1, <1>2 DEF VR!Next

(* What a step of DrawFrame leaves in the fields it writes.                *)
Drawn ==
    /\ video_clock' \in Clock /\ ext_clock' \in Clock
    /\ pictures' \in Seq(Frame) /\ Len(pictures') <= Len(pictures)
    /\ shown' \in BOOLEAN /\ frame_timer' \in Int
    /\ draw' \in {"idle", "retry", "delay", "test", "advance", "clock", "sync",
                  "show"}
    /\ delay' \in Nat /\ now' \in 0 .. time /\ timer' \in Int
    /\ stale' \in Int /\ skipped' \in Nat
    /\ shown' => Len(pictures') >= 1
    /\ Showing' => Len(pictures') >= 1 /\ (shown' => Len(pictures') >= 2)

LEMMA PickTypes ==
    ASSUME TypeInv, VR!PassOver \/ VR!NothingLeft \/ VR!Pick \/ VR!Show
    PROVE  Drawn
<1> USE DEF Drawn
<1>1. /\ pictures \in Seq(Frame) /\ Len(pictures) <= PictureQueueSize
      /\ Len(pictures) \in Nat /\ shown \in BOOLEAN
      /\ video_clock \in Clock /\ ext_clock \in Clock
      /\ delay \in Nat /\ now \in 0 .. time /\ timer \in Int
      /\ frame_timer \in Int /\ time \in Int
      /\ stale \in Int /\ skipped \in Nat
      /\ PictureQueueSize \in Nat
  BY TypeFacts, Parameters DEF TypeInv, TypeOK, Values
<1>2. VR!NbRemaining > 0 => Len(pictures) >= 1 /\ (shown => Len(pictures) >= 2)
  BY <1>1 DEF VR!NbRemaining, VR!Kept
<1>3. shown => Len(pictures) >= 1
  BY DEF TypeInv, Pictures
<1>4. CASE VR!PassOver
  <2>1. skipped' \in Nat
    BY <1>1, <1>4 DEF VR!PassOver
  <2>2. QED
    BY <1>1, <1>2, <1>4, <2>1, NextPicture DEF VR!PassOver, Showing
<1>5. CASE VR!NothingLeft
  BY <1>1, <1>3, <1>5 DEF VR!NothingLeft, Pictures, Showing
<1>6. CASE VR!Pick
  BY <1>1, <1>2, <1>6 DEF VR!Pick, Pictures, Showing
<1>7. CASE VR!Show
  <2>1. Len(pictures) >= 1 /\ (shown => Len(pictures) >= 2)
    BY <1>7 DEF VR!Show, TypeInv, Pictures, Showing
  <2>2. stale' \in Int
    BY <1>1, <1>7 DEF VR!Show
  <2>3. QED
    BY <1>1, <1>7, <2>1, <2>2, NextPicture DEF VR!Show, Pictures, Showing
<1>8. QED
  BY <1>4, <1>5, <1>6, <1>7

LEMMA TimerTypes ==
    ASSUME TypeInv, VR!GetDelay \/ VR!TestTime \/ VR!AdvanceTimer
    PROVE  Drawn
<1> USE DEF Drawn
<1>1. /\ pictures \in Seq(Frame) /\ Len(pictures) <= PictureQueueSize
      /\ shown \in BOOLEAN
      /\ video_clock \in Clock /\ ext_clock \in Clock
      /\ delay \in Nat /\ now \in 0 .. time /\ timer \in Int
      /\ frame_timer \in Int /\ time \in Nat
      /\ stale \in Int /\ skipped \in Nat
  BY TypeFacts DEF TypeInv, TypeOK, Values
<1>2. /\ UNCHANGED <<video_clock, ext_clock, pictures, shown, stale, skipped>>
      /\ Showing
  BY DEF VR!GetDelay, VR!TestTime, VR!AdvanceTimer, Showing
<1>3. /\ shown' => Len(pictures') >= 1
      /\ Showing' => Len(pictures') >= 1 /\ (shown' => Len(pictures') >= 2)
  BY <1>2 DEF TypeInv, Pictures, Showing
<1>4. CASE VR!GetDelay
  <2>1. VR!VideoPictureDuration(VR!PeekLast, VR!Peek) \in Nat
    <3>1. 1 \in 1 .. Len(pictures) /\ 1 + VR!Kept \in 1 .. Len(pictures)
      BY <1>1, <1>2 DEF TypeInv, Pictures, VR!Kept
    <3>2. VR!PeekLast = pictures[1] /\ VR!Peek = pictures[1 + VR!Kept]
      BY <1>1, <3>1 DEF VR!PeekLast, VR!Peek
    <3>3. VR!PeekLast.pts \in Nat /\ VR!Peek.pts \in Nat
      BY <3>1, <3>2, TypeFacts
    <3>4. QED
      BY <3>3, Parameters DEF VR!VideoPictureDuration
  <2>2. delay' \in Nat
    BY <1>1, <1>4, <2>1, DelayFacts DEF VR!GetDelay
  <2>3. QED
    BY <1>1, <1>2, <1>3, <1>4, <2>2 DEF VR!GetDelay
<1>5. CASE VR!TestTime
  BY <1>1, <1>2, <1>3, <1>5 DEF VR!TestTime
<1>6. CASE VR!AdvanceTimer
  <2>1. frame_timer' \in Int
    BY <1>1, <1>6 DEF VR!AdvanceTimer
  <2>2. QED
    BY <1>1, <1>2, <1>3, <1>6, <2>1 DEF VR!AdvanceTimer
<1>7. QED
  BY <1>4, <1>5, <1>6

LEMMA ClockStepTypes ==
    ASSUME TypeInv, VR!SetVideoClock \/ VR!SyncToVideo
    PROVE  Drawn
<1> USE DEF Drawn
<1>1. /\ pictures \in Seq(Frame) /\ Len(pictures) <= PictureQueueSize
      /\ shown \in BOOLEAN
      /\ video_clock \in Clock /\ ext_clock \in Clock
      /\ delay \in Nat /\ now \in 0 .. time /\ timer \in Int
      /\ frame_timer \in Int /\ time \in Int
      /\ stale \in Int /\ skipped \in Nat
  BY TypeFacts DEF TypeInv, TypeOK, Values
<1>2. UNCHANGED <<pictures, shown, stale, skipped, frame_timer, delay, now, timer>>
      /\ Showing
  BY DEF VR!SetVideoClock, VR!SyncToVideo, Showing
<1>3. /\ shown' => Len(pictures') >= 1
      /\ Showing' => Len(pictures') >= 1 /\ (shown' => Len(pictures') >= 2)
  BY <1>2 DEF TypeInv, Pictures, Showing
<1>4. CASE VR!SetVideoClock
  <2>1. 1 + VR!Kept \in 1 .. Len(pictures)
    BY <1>1, <1>2 DEF TypeInv, Pictures, VR!Kept
  <2>2. VR!Peek.pts \in Int /\ VR!Peek.serial \in Int
    BY <2>1, TypeFacts DEF VR!Peek
  <2>3. video_clock' = SetClockAt(video_clock, VR!Peek.pts, VR!Peek.serial, time)
    BY <1>4 DEF VR!SetVideoClock, VR!SetClockAt, VR!StoreValue, VR!StoreSerial,
                SetClockAt, StoreValue, StoreSerial
  <2>4. video_clock' \in Clock
    BY <1>1, <2>2, <2>3, ClockTypes
  <2>5. QED
    BY <1>1, <1>2, <1>3, <1>4, <2>4 DEF VR!SetVideoClock
<1>5. CASE VR!SyncToVideo
  <2>1. PICK v : /\ v = GetClock(video_clock, serial["video"], time)
                 /\ ext_clock' = Sync(ext_clock, ext_clock.serial, v,
                                      video_clock.serial, time)
    BY <1>5 DEF VR!SyncToVideo, VR!Sync, VR!GetClock, VR!Minus, VR!Abs,
       VR!SetClockAt, VR!StoreValue, VR!StoreSerial, Sync, GetClock, Minus, Abs,
       SetClockAt, StoreValue, StoreSerial
  <2>2. v \in Int \union {NaN}
    BY <1>1, <2>1, TypeFacts, ClockTypes
  <2>3. ext_clock' \in Clock
    <3>1. /\ ext_clock \in Clock /\ ext_clock.serial \in Int /\ time \in Int
          /\ video_clock.serial \in Int
      BY TypeFacts
    <3>2. \A r \in Int, s \in Int : Sync(ext_clock, r, v, s, time) \in Clock
      BY <2>2, <3>1, ClockTypes
    <3>3. QED
      BY <2>1, <3>1, <3>2
  <2>4. QED
    BY <1>1, <1>2, <1>3, <1>5, <2>3 DEF VR!SyncToVideo
<1>6. QED
  BY <1>4, <1>5

LEMMA DrawKeepsTypes ==
    ASSUME TypeInv, Draw
    PROVE  TypeInv'
<1>1. Drawn
  BY PickTypes, TimerTypes, ClockStepTypes DEF Draw, VR!DrawFrame
<1>2. UNCHANGED <<time, audio_clock, ring, audioVars, switches, uiVars,
                  readerVars, file, decoder>>
  BY DEF Draw
<1> USE DEF ring, audioVars, switches, uiVars, readerVars
<1>3. Frame' = Frame /\ Decoder' = Decoder /\ \A q : Has(q)' = Has(q)
  BY <1>2 DEF Frame, Decoder, Has
<1>4. /\ Len(pictures) \in Nat /\ Len(pictures') \in Nat
      /\ Len(pictures) <= PictureQueueSize /\ PictureQueueSize \in Nat
      /\ Len(pictures') <= Len(pictures)
  BY <1>1, Parameters DEF Drawn, TypeInv, TypeOK
<1>5. Len(pictures') <= PictureQueueSize
  BY <1>4
<1>6. TypeOK'
  BY <1>1, <1>2, <1>3, <1>5 DEF Drawn, TypeInv, TypeOK
<1>7. overlap' \in BOOLEAN
  <2>1. overlap \in BOOLEAN
    BY DEF TypeInv, Values
  <2>2. QED
    BY <2>1, Zenon DEF Draw
<1>8. Values' /\ Buffers'
  BY <1>1, <1>2, <1>3, <1>7 DEF Drawn, TypeInv, Values, Buffers
<1>9. Pictures'
  BY <1>1, <1>2, <1>4 DEF Drawn, TypeInv, Pictures
<1>10. QED
  BY <1>6, <1>8, <1>9 DEF TypeInv

(* The same for the callback.                                              *)
Heard ==
    /\ audio_clock' \in Clock /\ ext_clock' \in Clock
    /\ samples' \in Seq(Frame) /\ Len(samples') <= SampleQueueSize
    /\ callback' \in {"idle", "fill", "take", "value", "serial", "sync"}
    /\ callback_time' \in 0 .. time
    /\ from_pts' \in Nat \union {NaN}
    /\ callback' \in {"value", "serial"} => from_pts' # NaN
    /\ from_serial' \in Int /\ buffered' \in 0 .. AudioDuration
    /\ heard_old' \in Int
    /\ Buffers'

LEMMA FillTypes ==
    ASSUME TypeInv, AR!BeginCallback \/ AR!CopyRest \/ AR!FillPaused
                    \/ AR!FillPlaying \/ AR!TakeOld \/ AR!Take
    PROVE  Heard
<1> USE DEF Heard, Buffers
<1>1. /\ samples \in Seq(Frame) /\ Len(samples) <= SampleQueueSize
      /\ audio_clock \in Clock /\ ext_clock \in Clock
      /\ callback_time \in 0 .. time /\ time \in Nat
      /\ from_pts \in Nat \union {NaN} /\ from_serial \in Int
      /\ buffered \in 0 .. AudioDuration /\ heard_old \in Int
      /\ Buffers
      /\ AudioDuration \in Nat \ {0} /\ SampleQueueSize \in Nat /\ NaN \notin Int
  BY TypeFacts, Parameters DEF TypeInv, TypeOK, Values
<1>2. CASE AR!BeginCallback
  BY <1>1, <1>2 DEF AR!BeginCallback
<1>3. CASE AR!CopyRest
  <2>1. from_pts # NaN
    BY <1>3 DEF AR!CopyRest, TypeInv, Buffers
  <2>2. heard_old' \in Int
    BY <1>1, <1>3 DEF AR!CopyRest, AR!Copy
  <2>3. QED
    BY <1>1, <1>3, <2>1, <2>2 DEF AR!CopyRest, AR!Copy
<1>4. CASE AR!FillPaused
  BY <1>1, <1>4 DEF AR!FillPaused, AR!Silence
<1>5. CASE AR!TakeOld \/ AR!Take
  <2>1. samples # <<>> /\ samples' = Tail(samples)
    BY <1>5 DEF AR!TakeOld, AR!Take, AR!Fills
  <2>2. /\ samples' \in Seq(Frame) /\ Len(samples') <= SampleQueueSize
        /\ Head(samples) \in Frame
    <3>1. Tail(samples) \in Seq(Frame) /\ Len(Tail(samples)) = Len(samples) - 1
          /\ Head(samples) \in Frame
      BY <1>1, <2>1
    <3>2. QED
      BY <1>1, <2>1, <3>1
  <2>3. Head(samples).pts \in Nat /\ Head(samples).serial \in Int
    <3>1. file.seeks \in Int
      BY TypeFacts
    <3>2. QED
      BY <2>2, <3>1 DEF Frame
  <2>4. CASE AR!TakeOld
    BY <1>1, <2>2, <2>4 DEF AR!TakeOld, AR!Fills
  <2>5. CASE AR!Take
    <3>1. \/ /\ from_pts' = Head(samples).pts + AudioDuration
             /\ from_serial' = Head(samples).serial
             /\ buffered' = AudioDuration - 1 /\ heard_old' = heard_old
             /\ callback' = "value"
          \/ AR!Silence
      BY <2>5 DEF AR!Take, AR!Copy
    <3>2. UNCHANGED <<audio_clock, ext_clock, callback_time>>
      BY <2>5 DEF AR!Take, AR!Copy, AR!Silence
    <3>3. QED
      BY <1>1, <2>2, <2>3, <3>1, <3>2 DEF AR!Silence
  <2>6. QED
    BY <1>5, <2>4, <2>5
<1>6. CASE AR!FillPlaying
  BY <1>1, <1>6 DEF AR!FillPlaying
<1>7. QED
  BY <1>2, <1>3, <1>4, <1>5, <1>6

LEMMA SoundClockTypes ==
    ASSUME TypeInv, AR!StoreClockValue \/ AR!StoreClockSerial \/ AR!SyncToAudio
    PROVE  Heard
<1> USE DEF Heard, Buffers
<1>1. /\ samples \in Seq(Frame) /\ Len(samples) <= SampleQueueSize
      /\ audio_clock \in Clock /\ ext_clock \in Clock
      /\ callback_time \in 0 .. time /\ time \in Nat
      /\ from_pts \in Nat \union {NaN} /\ from_serial \in Int
      /\ buffered \in 0 .. AudioDuration /\ heard_old \in Int
      /\ Buffers
  BY TypeFacts DEF TypeInv, TypeOK, Values
<1>2. UNCHANGED <<samples, callback_time, from_pts, from_serial, buffered,
                  heard_old>>
  BY DEF AR!StoreClockValue, AR!StoreClockSerial, AR!SyncToAudio
<1>3. CASE AR!StoreClockValue
  <2>1. from_pts # NaN
    BY <1>3 DEF AR!StoreClockValue, TypeInv, Values
  <2>2. from_pts - AR!Latency \in Int /\ callback_time \in Int
    BY <1>1, <2>1, Parameters DEF AR!Latency
  <2>3. audio_clock' = StoreValue(audio_clock, from_pts - AR!Latency,
                                  callback_time)
    BY <1>3 DEF AR!StoreClockValue, AR!StoreValue, StoreValue
  <2>4. audio_clock' \in Clock
    BY <1>1, <2>2, <2>3, ClockTypes
  <2>5. QED
    BY <1>1, <1>2, <1>3, <2>1, <2>4 DEF AR!StoreClockValue
<1>4. CASE AR!StoreClockSerial
  <2>1. audio_clock' = StoreSerial(audio_clock, from_serial)
    BY <1>4 DEF AR!StoreClockSerial, AR!StoreSerial, StoreSerial
  <2>2. audio_clock' \in Clock
    BY <1>1, <2>1, ClockTypes
  <2>3. QED
    BY <1>1, <1>2, <1>4, <2>2 DEF AR!StoreClockSerial
<1>5. CASE AR!SyncToAudio
  <2>1. PICK v : /\ v = GetClock(audio_clock, serial["audio"], time)
                 /\ ext_clock' = Sync(ext_clock, ext_clock.serial, v,
                                      audio_clock.serial, time)
    BY <1>5 DEF AR!SyncToAudio, AR!Sync, AR!GetClock, AR!Minus, AR!Abs,
       AR!SetClockAt, AR!StoreValue, AR!StoreSerial, Sync, GetClock, Minus, Abs,
       SetClockAt, StoreValue, StoreSerial
  <2>2. v \in Int \union {NaN}
    BY <1>1, <2>1, TypeFacts, ClockTypes
  <2>3. ext_clock' \in Clock
    <3>1. /\ ext_clock \in Clock /\ ext_clock.serial \in Int /\ time \in Int
          /\ audio_clock.serial \in Int
      BY TypeFacts
    <3>2. \A r \in Int, s \in Int : Sync(ext_clock, r, v, s, time) \in Clock
      BY <2>2, <3>1, ClockTypes
    <3>3. QED
      BY <2>1, <3>1, <3>2
  <2>4. QED
    BY <1>1, <1>2, <1>5, <2>3 DEF AR!SyncToAudio
<1>6. QED
  BY <1>3, <1>4, <1>5

LEMMA CallbackKeepsTypes ==
    ASSUME TypeInv, Callback
    PROVE  TypeInv'
<1>1. Heard
  BY FillTypes, SoundClockTypes DEF Callback, AR!ReadAudioData
<1>2. UNCHANGED <<time, video_clock, videoVars, frame_timer, switches, uiVars,
                  readerVars, file, decoder, overlap>>
  BY DEF Callback
<1> USE DEF ring, videoVars, switches, uiVars, readerVars
<1>3. Frame' = Frame /\ Decoder' = Decoder /\ \A q : Has(q)' = Has(q)
  BY <1>2 DEF Frame, Decoder, Has
<1>4. TypeOK'
  BY <1>1, <1>2, <1>3 DEF Heard, TypeInv, TypeOK
<1>5. Values' /\ Pictures'
  BY <1>1, <1>2, <1>3 DEF Heard, TypeInv, Values, Pictures, Showing
<1>6. QED
  BY <1>1, <1>4, <1>5 DEF Heard, TypeInv

LEMMA TickKeepsTypes ==
    ASSUME TypeInv, Tick
    PROVE  TypeInv'
<1>1. /\ time < file.until /\ time' = time + 1
      /\ UNCHANGED <<clocks, videoVars, frame_timer, audioVars, switches, uiVars,
                     readerVars, file, decoder, overlap>>
  BY DEF Tick
<1> USE DEF clocks, ring, videoVars, audioVars, switches, uiVars, readerVars
<1>2. Frame' = Frame /\ Decoder' = Decoder /\ \A q : Has(q)' = Has(q)
  BY <1>1 DEF Frame, Decoder, Has
<1>3. /\ file.until \in Nat /\ StartTime \in Nat /\ time \in StartTime .. file.until
      /\ now \in 0 .. time /\ callback_time \in 0 .. time
  BY TypeFacts, Parameters DEF TypeInv, TypeOK
<1>4. /\ time' \in StartTime .. file'.until /\ now' \in 0 .. time'
      /\ callback_time' \in 0 .. time'
  BY <1>1, <1>3
<1>5. TypeOK'
  BY <1>1, <1>2, <1>4 DEF TypeInv, TypeOK
<1>6. Values' /\ Pictures' /\ Buffers'
  BY <1>1, <1>2 DEF TypeInv, Values, Pictures, Showing, Buffers
<1>7. QED
  BY <1>5, <1>6 DEF TypeInv

(* What the interface's steps leave.                                       *)
Switched ==
    /\ audio_clock' \in Clock /\ video_clock' \in Clock /\ ext_clock' \in Clock
    /\ frame_timer' \in Int
    /\ ui' \in {"idle", "timer", "frame", "video", "freeze", "audio", "device",
                "render"}
    /\ loaded' \in Int \union {NaN} /\ (ui' = "frame" => loaded' \in Int)
    /\ overlap' \in BOOLEAN /\ video_paused' \in BOOLEAN /\ play' \in BOOLEAN
    /\ clock_paused' \in BOOLEAN

LEMMA InterfaceTypes ==
    ASSUME TypeInv, SetPlayWhenReady \/ PauseStep \/ SwitchDevice
    PROVE  Switched
<1> USE DEF Switched
<1>1. /\ audio_clock \in Clock /\ video_clock \in Clock /\ ext_clock \in Clock
      /\ frame_timer \in Int /\ time \in Int /\ NaN \notin Int
      /\ serial["video"] \in Int /\ ext_clock.serial \in Int
      /\ video_clock.serial \in Int
  BY TypeFacts
<1>2. /\ loaded \in Int \union {NaN} /\ (ui = "frame" => loaded \in Int)
      /\ overlap \in BOOLEAN /\ video_paused \in BOOLEAN /\ play \in BOOLEAN
      /\ clock_paused \in BOOLEAN
  BY DEF TypeInv, Values
<1>3. ExtClock \in Int \union {NaN}
  BY <1>1, ClockTypes DEF ExtClock
<1>4. (~play) \in BOOLEAN
  BY Zenon
<1>5. CASE SetPlayWhenReady
  <2>1. ui' \in {"audio", "freeze", "timer"} /\ loaded' \in {ExtClock, 0}
        /\ play' = ~play
        /\ UNCHANGED <<clocks, frame_timer, switches, overlap>>
    BY <1>5 DEF SetPlayWhenReady, Interface
  <2>2. QED
    BY <1>1, <1>2, <1>3, <1>4, <2>1 DEF clocks, switches
<1>6. CASE LoadTimer
  <2>1. /\ ui' = "frame"
        /\ loaded' = frame_timer + (time - video_clock.last_updated)
        /\ overlap' = (overlap \/ draw # "idle")
        /\ UNCHANGED <<clocks, frame_timer, switches, play>>
    BY <1>6 DEF LoadTimer, Interface
  <2>2. loaded' \in Int
    BY <1>1, <2>1 DEF Clock
  <2>3. overlap' \in BOOLEAN
    BY <2>1, Zenon
  <2>4. QED
    BY <1>1, <1>2, <2>1, <2>2, <2>3 DEF clocks, switches
<1>7. CASE StoreTimer
  <2>1. PICK enosys \in BOOLEAN :
          video_clock' = [video_clock EXCEPT !.paused = @ /\ enosys]
    BY <1>7 DEF StoreTimer
  <2>2. /\ ui = "frame" /\ ui' = "video" /\ frame_timer' = loaded
        /\ loaded' = GetClock(video_clock', serial["video"], time)
        /\ UNCHANGED <<audio_clock, ext_clock, switches, play, overlap>>
    BY <1>7 DEF StoreTimer, Interface
  <2>3. video_clock' \in Clock
    BY <1>1, <2>1, ClockTypes
  <2>4. loaded' \in Int \union {NaN}
    BY <1>1, <2>2, <2>3, ClockTypes
  <2>5. QED
    BY <1>1, <1>2, <2>2, <2>3, <2>4 DEF switches
<1>8. CASE StoreVideo
  <2>1. /\ ui' = "freeze" /\ loaded' = ExtClock
        /\ video_clock' = SetClockAt(video_clock, loaded, video_clock.serial, time)
        /\ UNCHANGED <<audio_clock, ext_clock, frame_timer, switches, play, overlap>>
    BY <1>8 DEF StoreVideo, Interface
  <2>2. video_clock' \in Clock
    BY <1>1, <1>2, <2>1, ClockTypes
  <2>3. QED
    BY <1>1, <1>2, <1>3, <2>1, <2>2 DEF switches
<1>9. CASE FreezeClocks
  <2>1. /\ ui' = "audio" /\ loaded' = 0 /\ clock_paused' = ~play
        /\ audio_clock' = [audio_clock EXCEPT !.paused = ~play]
        /\ video_clock' = [video_clock EXCEPT !.paused = ~play]
        /\ ext_clock' = [SetClockAt(ext_clock, loaded, ext_clock.serial, time)
                            EXCEPT !.paused = ~play]
        /\ UNCHANGED <<frame_timer, video_paused, play, overlap>>
    BY <1>9 DEF FreezeClocks, Interface
  <2>2. SetClockAt(ext_clock, loaded, ext_clock.serial, time) \in Clock
    BY <1>1, <1>2, ClockTypes
  <2>3. audio_clock' \in Clock /\ video_clock' \in Clock /\ ext_clock' \in Clock
    BY <1>1, <1>4, <2>1, <2>2, ClockTypes
  <2>4. QED
    BY <1>1, <1>2, <1>4, <2>1, <2>3
<1>10. CASE SwitchAudio \/ SwitchDevice
  BY <1>1, <1>2, <1>10 DEF SwitchAudio, SwitchDevice, Interface, clocks
<1>11. CASE SwitchVideo
  <2>1. /\ ui' = "idle" /\ video_paused' = ~play
        /\ overlap' = (overlap \/ (~play /\ draw \in {"retry", "delay"}))
        /\ UNCHANGED <<clocks, frame_timer, clock_paused, play, loaded>>
    BY <1>11 DEF SwitchVideo, Interface
  <2>2. overlap' \in BOOLEAN
    BY <2>1, Zenon
  <2>3. QED
    BY <1>1, <1>2, <1>4, <2>1, <2>2 DEF clocks
<1>12. QED
  BY <1>5, <1>6, <1>7, <1>8, <1>9, <1>10, <1>11 DEF PauseStep

LEMMA InterfaceKeepsTypes ==
    ASSUME TypeInv, SetPlayWhenReady \/ PauseStep \/ SwitchDevice
    PROVE  TypeInv'
<1>1. Switched
  BY InterfaceTypes
<1>2. UNCHANGED <<time, videoVars, audioVars, readerVars, file, decoder>>
  BY DEF SetPlayWhenReady, PauseStep, SwitchDevice, LoadTimer, StoreTimer,
         StoreVideo, FreezeClocks, SwitchAudio, SwitchVideo, Interface
<1> USE DEF ring, videoVars, audioVars, readerVars
<1>3. Frame' = Frame /\ Decoder' = Decoder /\ \A q : Has(q)' = Has(q)
  BY <1>2 DEF Frame, Decoder, Has
<1>4. TypeOK'
  BY <1>1, <1>2, <1>3 DEF Switched, TypeInv, TypeOK
<1>5. Values' /\ Pictures' /\ Buffers'
  BY <1>1, <1>2, <1>3 DEF Switched, TypeInv, Values, Pictures, Showing, Buffers
<1>6. QED
  BY <1>4, <1>5 DEF TypeInv

LEMMA ReaderKeepsTypes ==
    ASSUME TypeInv, FlushAudio \/ SeekStep
    PROVE  TypeInv'
<1>1. UNCHANGED <<time, pictures, shown, windex, first, draw, delay, now, timer,
                  samples, callback, callback_time, from_pts, from_serial,
                  buffered, frame_timer, switches, uiVars, file, decoder,
                  overlap, video_clock, ext_clock>>
  BY DEF FlushAudio, SeekStep, FlushVideo, StoreTarget, StoreZero, ReaderStep, ring
<1>2. /\ audio_clock \in Clock /\ time \in Int /\ target \in Nat
      /\ seeks \in 0 .. file.seeks /\ file.seeks \in Nat
      /\ serial \in [Streams -> 0 .. file.seeks + 1]
      /\ \A q \in Streams : serial[q] <= seeks + 1 /\ (Has(q) => serial[q] >= 1)
      /\ reader = "video" => serial["video"] <= seeks
      /\ heard_old \in Int /\ stale \in Int /\ skipped \in Nat
  BY TypeFacts DEF TypeInv, TypeOK, Values
<1>3. /\ audio_clock' \in Clock /\ target' \in Nat /\ seeks' \in 0 .. file.seeks
      /\ serial' \in [Streams -> 0 .. file.seeks + 1]
      /\ \A q \in Streams : serial'[q] <= seeks' + 1 /\ (Has(q) => serial'[q] >= 1)
      /\ reader' = "video" => serial'["video"] <= seeks'
      /\ reader' \in {"idle", "video", "value", "serial"}
      /\ heard_old' \in Int /\ stale' \in Int /\ skipped' \in Nat
  <2>1. CASE FlushAudio
    <3>1. /\ seeks < file.seeks /\ seeks' = seeks + 1 /\ reader' = "video"
          /\ serial' = IF Has("audio") THEN [serial EXCEPT !["audio"] = @ + 1]
                       ELSE serial
          /\ heard_old' = 0 /\ UNCHANGED <<audio_clock, stale, skipped>>
      BY <2>1 DEF FlushAudio, ReaderStep
    <3>2. target' \in Nat
      BY <2>1, Parameters DEF FlushAudio
    <3>3. serial' \in [Streams -> 0 .. file.seeks + 1]
      BY <1>2, <3>1 DEF Streams
    <3>4. /\ serial'["video"] = serial["video"]
          /\ serial'["audio"] = IF Has("audio") THEN serial["audio"] + 1
                                ELSE serial["audio"]
      BY <1>2, <3>1 DEF Streams
    <3>5. QED
      BY <1>2, <3>1, <3>2, <3>3, <3>4 DEF Streams
  <2>2. CASE FlushVideo
    <3>1. /\ reader = "video" /\ reader' = "value"
          /\ serial' = IF Has("video") THEN [serial EXCEPT !["video"] = @ + 1]
                       ELSE serial
          /\ stale' = 0 /\ skipped' = 0
          /\ UNCHANGED <<audio_clock, target, seeks, heard_old>>
      BY <2>2 DEF FlushVideo, ReaderStep
    <3>2. serial' \in [Streams -> 0 .. file.seeks + 1]
      BY <1>2, <3>1 DEF Streams
    <3>3. /\ serial'["audio"] = serial["audio"]
          /\ serial'["video"] = IF Has("video") THEN serial["video"] + 1
                                ELSE serial["video"]
      BY <1>2, <3>1 DEF Streams
    <3>4. QED
      BY <1>2, <3>1, <3>2, <3>3 DEF Streams
  <2>3. CASE StoreTarget
    <3>1. /\ reader' = "serial" /\ UNCHANGED <<serial, target, seeks, stale, skipped, heard_old>>
          /\ audio_clock' = StoreValue(audio_clock, target, time)
      BY <2>3 DEF StoreTarget, ReaderStep
    <3>2. audio_clock' \in Clock
      <4>1. target \in Int \union {NaN}
        BY <1>2
      <4>2. QED
        BY <1>2, <3>1, <4>1, ClockTypes
    <3>3. QED
      BY <1>2, <3>1, <3>2
  <2>4. CASE StoreZero
    <3>1. /\ reader' = "idle" /\ UNCHANGED <<serial, target, seeks, stale, skipped, heard_old>>
          /\ audio_clock' = StoreSerial(audio_clock, 0)
      BY <2>4 DEF StoreZero, ReaderStep
    <3>2. audio_clock' \in Clock
      BY <1>2, <3>1, ClockTypes
    <3>3. QED
      BY <1>2, <3>1, <3>2
  <2>5. QED
    BY <2>1, <2>2, <2>3, <2>4 DEF SeekStep
<1> USE DEF switches, uiVars
<1>4. Frame' = Frame /\ Decoder' = Decoder /\ \A q : Has(q)' = Has(q)
  BY <1>1 DEF Frame, Decoder, Has
<1>5. TypeOK'
  BY <1>1, <1>3, <1>4 DEF TypeInv, TypeOK
<1>6. Values' /\ Pictures' /\ Buffers'
  BY <1>1, <1>3, <1>4 DEF TypeInv, Values, Pictures, Showing, Buffers
<1>7. QED
  BY <1>5, <1>6 DEF TypeInv

LEMMA DecodersKeepTypes ==
    ASSUME TypeInv, NEW q \in Streams, DecodeThread(q)
    PROVE  TypeInv'
<1>1. UNCHANGED <<time, clocks, shown, draw, delay, now, timer, stale, skipped,
                  frame_timer, callback, callback_time, from_pts, from_serial,
                  buffered, heard_old, switches, uiVars, readerVars, file, overlap>>
  BY DecoderMoves DEF DecoderStep
<1>2. /\ decoder \in [Streams -> Decoder]
      /\ pictures \in Seq(Frame) /\ Len(pictures) <= PictureQueueSize
      /\ samples \in Seq(Frame) /\ Len(samples) <= SampleQueueSize
      /\ Len(pictures) \in Nat /\ Len(samples) \in Nat
      /\ PictureQueueSize \in Nat /\ SampleQueueSize \in Nat
      /\ TheFrame(q) \in Frame
  BY Parameters DEF TypeInv, TypeOK, TheFrame, Frame, Decoder
<1>3. decoder' \in [Streams -> Decoder]
  <2>1. serial[q] \in 1 .. file.seeks + 1 \/ ~Has(q)
    <3>1. serial[q] \in 0 .. file.seeks + 1 /\ file.seeks \in Nat
      BY TypeFacts DEF TypeInv, TypeOK
    <3>2. Has(q) => serial[q] >= 1
      BY DEF TypeInv, Values
    <3>3. QED
      BY <3>1, <3>2
  <2>2. target \in Nat /\ \A n \in Nat : n + Duration(q) \in Nat
    BY Parameters DEF TypeInv, Values, Duration
  <2>3. QED
    BY <1>2, <2>1, <2>2, DecoderMoves, DecoderTypes DEF Decoder
<1>4. samples' \in Seq(Frame) /\ Len(samples') <= SampleQueueSize
  <2>1. CASE samples' = samples
    BY <1>2, <2>1
  <2>2. CASE PushesSamples(q)
    BY <1>2, <2>2 DEF PushesSamples
  <2>3. QED
    BY <2>1, <2>2, DecoderMoves
<1>5. /\ pictures' \in Seq(Frame) /\ Len(pictures') <= PictureQueueSize
      /\ Len(pictures') >= Len(pictures)
  <2>1. CASE pictures' = pictures
    BY <1>2, <2>1
  <2>2. CASE PushesPicture(q)
    <3>1. Len(pictures) < PictureQueueSize
      BY <2>2 DEF PushesPicture, TypeInv, Pictures
    <3>2. pictures' = Append(pictures, TheFrame(q))
      BY <2>2 DEF PushesPicture
    <3>3. QED
      BY <1>2, <3>1, <3>2
  <2>3. QED
    BY <2>1, <2>2, DecoderMoves
<1>6. decoder'["video"].frame = "written" => Len(pictures') < PictureQueueSize
  <2> DEFINE Wrote == decoder["video"].frame = "written"
  <2>1. Wrote => Len(pictures) < PictureQueueSize
    BY DEF TypeInv, Pictures
  <2>2. q # "video" => pictures' = pictures /\ decoder'["video"] = decoder["video"]
    <3>1. decoder \in [Streams -> Decoder] /\ "video" \in Streams
      BY <1>2 DEF Streams
    <3>2. pictures' = pictures \/ PushesPicture(q)
      BY DecoderMoves
    <3>3. q # "video" => decoder'["video"] = decoder["video"]
      BY <3>1, OtherDecoder
    <3>4. QED
      BY <3>2, <3>3 DEF PushesPicture
  <2>3. ASSUME q = "video"
        PROVE  decoder'["video"].frame = "written" =>
                 Len(pictures) < PictureQueueSize /\ pictures' = pictures
    <3>1. CASE WritePicture
      BY <2>1, <3>1 DEF WritePicture, VR!WriteFrame
    <3>2. CASE ReceiveFrame(q) \/ TestLate
      <4>1. "video" \in Streams /\ decoder["video"] \in Decoder
        BY <1>2 DEF Streams
      <4>2. CASE IsDone("video", "received")
        BY <1>2, <4>1, <4>2 DEF IsDone, DecoderAt
      <4>3. ASSUME NEW to \in {"received", "tested"},
                   decoder' = [decoder EXCEPT !["video"].frame = to]
            PROVE  decoder'["video"].frame # "written"
        BY <1>2, <4>1, <4>3 DEF Decoder
      <4>4. QED
        BY <2>3, <3>2, <4>2, <4>3 DEF ReceiveFrame, TestLate, IsAt
    <3>3. CASE PushPicture \/ FlushDecoder(q)
      BY <1>2, <2>3, <3>3 DEF PushPicture, FlushDecoder, IsDone, DecoderAt
    <3>4. QED
      BY <2>3, <3>1, <3>2, <3>3 DEF DecodeThread
  <2>4. QED
    BY <2>1, <2>2, <2>3
<1>7. windex' \in 0 .. PictureQueueSize - 1 /\ first' \in 0 .. file.seeks + 1
  <2>1. /\ windex \in 0 .. PictureQueueSize - 1 /\ first \in 0 .. file.seeks + 1
        /\ PictureQueueSize \in Nat /\ PictureQueueSize >= 1
        /\ file.seeks \in Nat
    BY TypeFacts, Parameters DEF TypeInv, TypeOK
  <2>2. CASE UNCHANGED ring
    BY <2>1, <2>2 DEF ring
  <2>3. CASE WritePicture
    <3>1. TheFrame("video").serial \in 1 .. file.seeks + 1
      BY <1>2 DEF TheFrame, Decoder, Streams
    <3>2. windex' = windex /\ first' \in {first, TheFrame("video").serial}
      BY <2>3 DEF WritePicture, VR!WriteFrame
    <3>3. QED
      BY <2>1, <3>1, <3>2
  <2>4. CASE PushPicture
    BY <2>1, <2>4 DEF PushPicture, VR!Push
  <2>5. QED
    BY <2>2, <2>3, <2>4 DEF DecodeThread, ReceiveFrame, FlushDecoder,
       PushSamples, TestLate
<1> USE DEF clocks, switches, uiVars, readerVars
<1>8. Frame' = Frame /\ Decoder' = Decoder /\ \A p : Has(p)' = Has(p)
  BY <1>1 DEF Frame, Decoder, Has
<1>9. TypeOK'
  BY <1>1, <1>3, <1>4, <1>5, <1>7, <1>8 DEF TypeInv, TypeOK
<1>10. Values' /\ Buffers'
  BY <1>1, <1>8 DEF TypeInv, Values, Buffers
<1>11. Pictures'
  BY <1>1, <1>2, <1>5, <1>6 DEF TypeInv, Pictures, Showing
<1>12. QED
  BY <1>9, <1>10, <1>11 DEF TypeInv

LEMMA TypesInductive == (Init => TypeInv) /\ (TypeInv /\ [Next]_vars => TypeInv')
<1>1. ASSUME Init PROVE TypeInv
  <2>1. /\ file \in Files /\ time = StartTime
        /\ file.seeks \in Nat /\ file.until \in Nat /\ StartTime <= file.until
    BY <1>1, Parameters DEF Init
  <2>2. NewClock(time) \in Clock
    BY <2>1, Parameters DEF NewClock, Clock
  <2>3. /\ pictures = <<>> /\ samples = <<>> /\ Len(pictures) = 0
        /\ Len(samples) = 0
    BY <1>1 DEF Init, VR!Init, AR!Init
  <2>4. /\ \A q \in Streams : serial[q] = IF Has(q) THEN 1 ELSE 0
        /\ serial \in [Streams -> 0 .. file.seeks + 1]
        /\ decoder \in [Streams -> Decoder]
        /\ decoder["video"].frame = "none"
    <3>1. serial = [q \in Streams |-> IF Has(q) THEN 1 ELSE 0]
      BY <1>1 DEF Init
    <3>2. DecoderAt(1, 0) \in Decoder /\ DecoderAt(1, 0).frame = "none"
      BY <2>1 DEF DecoderAt, Decoder, Places
    <3>3. decoder = [q \in Streams |-> DecoderAt(1, 0)] /\ "video" \in Streams
      BY <1>1 DEF Init, Streams
    <3>4. 0 \in 0 .. file.seeks + 1 /\ 1 \in 0 .. file.seeks + 1
      BY <2>1
    <3>5. QED
      BY <3>1, <3>2, <3>3, <3>4
  <2>5. TypeOK
    <3>1. pictures \in Seq(Frame) /\ samples \in Seq(Frame)
      BY <2>3
    <3>2. /\ Len(pictures) <= PictureQueueSize /\ Len(samples) <= SampleQueueSize
      BY <2>3, Parameters
    <3>3. {audio_clock, video_clock, ext_clock} \subseteq Clock
      BY <1>1, <2>2 DEF Init
    <3>4. time \in StartTime .. file.until /\ 0 \in 0 .. time
          /\ 0 \in 0 .. AudioDuration /\ 0 \in 0 .. PictureQueueSize - 1
          /\ 0 \in 0 .. file.seeks + 1
      BY <2>1, Parameters
    <3>5. /\ shown = FALSE /\ windex = 0 /\ first = 0 /\ frame_timer = 0 /\ draw = "idle" /\ delay = 0
          /\ now = 0 /\ timer = 0 /\ callback = "idle" /\ callback_time = 0
          /\ from_pts = NaN /\ buffered = 0 /\ ui = "idle" /\ reader = "idle"
      BY <1>1 DEF Init, VR!Init, AR!Init
    <3>6. serial \in [Streams -> 0 .. file.seeks + 1]
      BY <2>4
    <3>7. /\ shown \in BOOLEAN /\ frame_timer \in Int /\ delay \in Nat
          /\ timer \in Int /\ from_pts \in Nat \union {NaN}
      <4>1. 0 \in Int /\ 0 \in Nat
        OBVIOUS
      <4>2. QED
        BY <3>5, <4>1, Zenon
    <3>8. /\ now \in 0 .. time /\ callback_time \in 0 .. time
          /\ buffered \in 0 .. AudioDuration
          /\ windex \in 0 .. PictureQueueSize - 1 /\ first \in 0 .. file.seeks + 1
      BY <3>4, <3>5, Zenon
    <3>9. draw = "idle" /\ callback = "idle" /\ ui = "idle" /\ reader = "idle"
      BY <3>5
    <3>10. QED
      BY <2>4, <3>1, <3>2, <3>3, <3>4, <3>6, <3>7, <3>8, <3>9, Zenon DEF TypeOK
  <2>6. Values
    <3>1. /\ target = 0 /\ seeks = 0 /\ reader = "idle" /\ loaded = 0
          /\ callback = "idle" /\ from_serial = -1 /\ heard_old = 0 /\ stale = 0
          /\ skipped = 0 /\ overlap = FALSE /\ video_paused = TRUE /\ play = FALSE
          /\ clock_paused = TRUE
      BY <1>1 DEF Init, VR!Init, AR!Init
    <3>2. \A q \in Streams : serial[q] <= seeks + 1 /\ (Has(q) => serial[q] >= 1)
      BY <2>4, <3>1
    <3>3. 0 \in 0 .. file.seeks
      BY <2>1
    <3>4. \A q \in Streams : serial[q] <= 1
      BY <2>4
    <3>5. -1 \in Int
      OBVIOUS
    <3>6. /\ target \in Nat /\ seeks \in 0 .. file.seeks
          /\ loaded \in Int \union {NaN} /\ loaded \in Int
          /\ from_serial \in Int /\ heard_old \in Int /\ stale \in Int
          /\ skipped \in Nat /\ reader # "video" /\ callback \notin {"value", "serial"}
      BY <3>1, <3>3, <3>5
    <3>7. QED
      BY <2>1, <3>1, <3>2, <3>3, <3>6, Zenon DEF Values
  <2>7. Pictures /\ Buffers
    BY <1>1, <2>4 DEF Init, VR!Init, AR!Init, Pictures, Showing, Buffers
  <2>8. QED
    BY <2>5, <2>6, <2>7 DEF TypeInv
<1>2. ASSUME TypeInv, UNCHANGED vars PROVE TypeInv'
  <2>1. Frame' = Frame /\ Decoder' = Decoder /\ \A q : Has(q)' = Has(q)
    BY <1>2 DEF Frame, Decoder, Has, vars
  <2>2. TypeOK'
    BY <1>2, <2>1 DEF TypeInv, TypeOK, vars, clocks, ring, videoVars, audioVars,
                      switches, uiVars, readerVars
  <2>3. (Values /\ Pictures /\ Buffers)'
    BY <1>2, <2>1 DEF TypeInv, Values, Pictures, Showing, Buffers, vars, clocks,
                      ring, videoVars, audioVars, switches, uiVars, readerVars
  <2>4. QED
    BY <2>2, <2>3 DEF TypeInv
<1>3. QED
  BY <1>1, <1>2, TickKeepsTypes, DrawKeepsTypes, CallbackKeepsTypes,
     InterfaceKeepsTypes, ReaderKeepsTypes, DecodersKeepTypes DEF Next

(***************************************************************************)
(* Every field of the renderers, the clocks, the interface and the seek    *)
(* keeps to its values (media_player.cc, media_clock.cc, render_*_base.cc).*)
(***************************************************************************)
THEOREM TypeCorrect == Spec => []TypeOK
<1>1. TypeInv => TypeOK
  BY DEF TypeInv
<1>2. QED
  BY <1>1, TypesInductive, PTL DEF Spec

(***************************************************************************)
(* The frame timer.  When a resume reads it, it must not be ahead of the   *)
(* last update of the video clock, since the time from there to now is     *)
(* added to it.  DrawFrame moves it ahead of that clock in two places and  *)
(* brings the clock after it, unless a pause makes it turn back halfway.   *)
(* The test of the time is passed only with a timer that is not ahead.     *)
(***************************************************************************)
Resuming == ui \in {"timer", "frame", "video"}

Switches ==
    /\ ui = "idle" /\ ~play => video_paused
    /\ Resuming => video_paused

Behindhand == frame_timer <= video_clock.last_updated

TimerInv ==
    /\ frame_timer <= time
    /\ video_paused => draw \notin {"retry", "delay"}
    /\ ui \in {"frame", "video"} => draw = "idle"
    /\ ui = "frame" => loaded <= time
    /\ draw \in {"idle", "retry", "sync", "show"} /\ ui # "video" => Behindhand
    /\ draw = "delay" => Behindhand \/ VR!PeekLast.serial # VR!Peek.serial
    /\ draw = "test" => Behindhand \/ delay = 0
    /\ draw = "advance" => timer = frame_timer /\ timer + delay <= now /\ now <= time

(* Nor is the video clock, whatever overlaps.                              *)
VideoClockInv == video_clock.last_updated <= time

LEMMA NumberFacts ==
    ASSUME TypeInv
    PROVE  /\ frame_timer \in Int /\ time \in Int
           /\ video_clock.last_updated \in Int
           /\ delay \in Nat /\ now \in Int /\ timer \in Int
           /\ (ui = "frame" => loaded \in Int)
           /\ video_paused \in BOOLEAN /\ overlap \in BOOLEAN /\ play \in BOOLEAN
<1>1. \A c \in Clock : c.last_updated \in Int
  BY DEF Clock
<1>2. now \in 0 .. time /\ time \in Int /\ frame_timer \in Int
      /\ video_clock \in Clock
  BY TypeFacts DEF TypeInv, TypeOK
<1>3. QED
  BY <1>1, <1>2 DEF TypeInv, TypeOK, Values

LEMMA LooksKeepTimer ==
    ASSUME TypeInv, Switches, VideoClockInv, TimerInv, Draw,
           VR!PassOver \/ VR!NothingLeft \/ VR!Pick \/ VR!Show
    PROVE  TimerInv'
<1>1. UNCHANGED <<time, video_paused, ui, loaded, play, video_clock,
                  delay, now, timer>>
  BY DEF switches, uiVars, Draw, VR!PassOver, VR!NothingLeft, VR!Pick, VR!Show
<1>2. ui \notin {"frame", "video"}
  BY DEF TimerInv, Switches, Resuming, VR!PassOver, VR!NothingLeft, VR!Pick,
         VR!Show, VR!Looks
<1>3. CASE VR!PassOver \/ VR!NothingLeft \/ VR!Show
  BY <1>1, <1>2, <1>3, NumberFacts DEF VR!PassOver, VR!NothingLeft, VR!Show, VR!Looks,
     TimerInv, VideoClockInv, Behindhand
<1>4. CASE VR!Pick
  <2>1. /\ draw' = "delay" /\ UNCHANGED <<pictures, shown>> /\ ~video_paused
        /\ draw \in {"idle", "retry"}
        /\ frame_timer' = IF VR!PeekLast.serial # VR!Peek.serial THEN time
                          ELSE frame_timer
    BY <1>4 DEF VR!Pick, VR!Looks, TimerInv
  <2>2. VR!PeekLast' = VR!PeekLast /\ VR!Peek' = VR!Peek
    BY <2>1 DEF VR!PeekLast, VR!Peek, VR!Kept
  <2>3. QED
    BY <1>1, <1>2, <2>1, <2>2, NumberFacts DEF TimerInv, VideoClockInv, Behindhand
<1>5. QED
  BY <1>3, <1>4

LEMMA DelayKeepsTimer ==
    ASSUME TypeInv, Switches, VideoClockInv, TimerInv, Draw,
           VR!GetDelay \/ VR!TestTime \/ VR!AdvanceTimer \/ VR!SetVideoClock
           \/ VR!SyncToVideo
    PROVE  TimerInv'
<1>1. UNCHANGED <<time, video_paused, ui, loaded, play>>
  BY DEF Draw, switches, uiVars
<1>2. ui \notin {"frame", "video"}
  BY DEF TimerInv, VR!GetDelay, VR!TestTime, VR!AdvanceTimer, VR!SetVideoClock,
         VR!SyncToVideo
<1>3. CASE VR!GetDelay
  <2>1. /\ draw = "delay" /\ ~video_paused /\ draw' = "test"
        /\ delay' = VR!ComputeTargetDelay(
                        VR!VideoPictureDuration(VR!PeekLast, VR!Peek))
        /\ UNCHANGED <<video_clock, frame_timer, now, timer>>
    BY <1>3 DEF VR!GetDelay, TimerInv
  <2>2. VR!PeekLast.serial # VR!Peek.serial => delay' = 0
    BY <2>1, DelayFacts DEF VR!VideoPictureDuration
  <2>3. QED
    BY <1>1, <1>2, <2>1, <2>2, NumberFacts DEF TimerInv, VideoClockInv, Behindhand
<1>4. CASE VR!TestTime
  <2>1. /\ draw = "test" /\ UNCHANGED <<video_clock, frame_timer>>
        /\ \/ time < frame_timer + delay /\ draw' = "idle"
           \/ /\ ~(time < frame_timer + delay) /\ draw' = "advance"
              /\ now' = time /\ timer' = frame_timer /\ delay' = delay
    BY <1>4 DEF VR!TestTime
  <2>2. QED
    BY <1>1, <1>2, <2>1, NumberFacts DEF TimerInv, VideoClockInv, Behindhand
<1>5. CASE VR!AdvanceTimer
  <2>1. /\ draw = "advance" /\ draw' = "clock" /\ UNCHANGED video_clock
        /\ timer = frame_timer
        /\ frame_timer' = now \/ frame_timer' = timer + delay
    BY <1>5 DEF VR!AdvanceTimer, TimerInv
  <2>2. QED
    BY <1>1, <1>2, <2>1, NumberFacts DEF TimerInv, VideoClockInv, Behindhand
<1>6. CASE VR!SetVideoClock
  <2>1. /\ draw' = "sync" /\ UNCHANGED frame_timer
        /\ video_clock' = VR!SetClockAt(video_clock, VR!Peek.pts, VR!Peek.serial, time)
    BY <1>6 DEF VR!SetVideoClock
  <2>2. video_clock'.last_updated = time
    BY <2>1, TypeFacts DEF VR!SetClockAt, VR!StoreValue, VR!StoreSerial, Clock
  <2>3. QED
    BY <1>1, <1>2, <2>1, <2>2, NumberFacts DEF TimerInv, VideoClockInv, Behindhand
<1>7. CASE VR!SyncToVideo
  BY <1>1, <1>2, <1>7, NumberFacts DEF VR!SyncToVideo, TimerInv, VideoClockInv,
     Behindhand
<1>8. QED
  BY <1>3, <1>4, <1>5, <1>6, <1>7

LEMMA InterfaceKeepsTimer ==
    ASSUME TypeInv, Switches, VideoClockInv, TimerInv,
           SetPlayWhenReady \/ PauseStep \/ SwitchDevice
    PROVE  overlap' \/ TimerInv'
<1>1. /\ UNCHANGED <<time, draw, delay, now, timer, pictures, shown>>
      /\ VR!PeekLast' = VR!PeekLast /\ VR!Peek' = VR!Peek
  BY DEF SetPlayWhenReady, PauseStep, SwitchDevice, LoadTimer, StoreTimer,
         StoreVideo, FreezeClocks, SwitchAudio, SwitchVideo, Interface, videoVars,
         VR!PeekLast, VR!Peek, VR!Kept
<1>2. CASE SetPlayWhenReady \/ SwitchAudio \/ SwitchDevice
  <2>1. /\ UNCHANGED <<frame_timer, video_clock, video_paused>>
        /\ ui' \notin {"frame", "video"}
        /\ ui # "video"
    BY <1>2 DEF SetPlayWhenReady, SwitchAudio, SwitchDevice, Interface, clocks,
       switches
  <2>2. QED
    BY <1>1, <2>1 DEF TimerInv, VideoClockInv, Behindhand
<1>3. CASE LoadTimer
  <2>1. /\ ui = "timer" /\ ui' = "frame"
        /\ UNCHANGED <<frame_timer, video_clock, video_paused>>
        /\ loaded' = frame_timer + (time - video_clock.last_updated)
        /\ draw # "idle" => overlap'
    BY <1>3 DEF LoadTimer, Interface, clocks, switches
  <2>2. CASE draw = "idle"
    BY <1>1, <2>1, <2>2, NumberFacts DEF TimerInv, VideoClockInv, Behindhand
  <2>3. QED
    BY <2>1, <2>2
<1>4. CASE StoreTimer
  <2>1. /\ ui = "frame" /\ ui' = "video" /\ UNCHANGED video_paused
        /\ frame_timer' = loaded
    BY <1>4 DEF StoreTimer, Interface, switches
  <2>2. video_clock'.last_updated = video_clock.last_updated
    BY <1>4, TypeFacts DEF StoreTimer, Clock
  <2>3. QED
    BY <1>1, <2>1, <2>2, NumberFacts DEF TimerInv, VideoClockInv, Behindhand
<1>5. CASE StoreVideo
  <2>1. /\ ui = "video" /\ ui' = "freeze" /\ UNCHANGED <<video_paused, frame_timer>>
        /\ video_clock' = SetClockAt(video_clock, loaded, video_clock.serial, time)
    BY <1>5 DEF StoreVideo, Interface, switches
  <2>2. video_clock'.last_updated = time
    BY <2>1, TypeFacts DEF SetClockAt, StoreValue, StoreSerial, Clock
  <2>3. QED
    BY <1>1, <2>1, <2>2, NumberFacts DEF TimerInv, VideoClockInv, Behindhand
<1>6. CASE FreezeClocks
  <2>1. /\ ui = "freeze" /\ ui' = "audio" /\ UNCHANGED <<video_paused, frame_timer>>
        /\ video_clock' = [video_clock EXCEPT !.paused = ~play]
    BY <1>6 DEF FreezeClocks, Interface
  <2>2. video_clock'.last_updated = video_clock.last_updated
    BY <2>1, TypeFacts DEF Clock
  <2>3. QED
    BY <1>1, <2>1, <2>2 DEF TimerInv, VideoClockInv, Behindhand
<1>7. CASE SwitchVideo
  <2>1. /\ ui = "render" /\ ui' = "idle" /\ UNCHANGED <<frame_timer, video_clock>>
        /\ (draw \in {"retry", "delay"} /\ ~play => overlap')
        /\ (play => ~video_paused')
    BY <1>7 DEF SwitchVideo, Interface, clocks
  <2>2. QED
    BY <1>1, <2>1 DEF TimerInv, VideoClockInv, Behindhand
<1>8. QED
  BY <1>2, <1>3, <1>4, <1>5, <1>6, <1>7 DEF PauseStep

(* A frame that is pushed goes behind those DrawFrame looks at.            *)
LEMMA PeekStays ==
    ASSUME TypeInv, NEW q \in Streams, DecodeThread(q), Showing
    PROVE  /\ VR!PeekLast' = VR!PeekLast /\ VR!Peek' = VR!Peek
           /\ VR!Peek \in Frame
<1>1. shown' = shown
      /\ \/ pictures' = pictures
         \/ \E f \in Frame : pictures' = Append(pictures, f)
  <2>1. TheFrame(q) \in Frame
    BY DEF TheFrame, Frame, Decoder, TypeInv, TypeOK
  <2>2. QED
    BY <2>1, DecoderMoves DEF DecoderStep, PushesPicture
<1>2. pictures \in Seq(Frame) /\ 1 \in 1 .. Len(pictures)
      /\ 1 + VR!Kept \in 1 .. Len(pictures)
  BY DEF TypeInv, TypeOK, Pictures, VR!Kept
<1>3. /\ pictures'[1] = pictures[1]
      /\ pictures'[1 + VR!Kept] = pictures[1 + VR!Kept]
      /\ pictures' # <<>> /\ pictures # <<>> /\ pictures' \in Seq(Frame)
  BY <1>1, <1>2
<1>4. VR!Kept' = VR!Kept
  BY <1>1 DEF VR!Kept
<1>5. VR!PeekLast = pictures[1] /\ VR!PeekLast' = pictures'[1]
  BY <1>2, <1>3 DEF VR!PeekLast
<1>6. VR!Peek = pictures[1 + VR!Kept] /\ VR!Peek' = pictures'[1 + VR!Kept]
  BY <1>4 DEF VR!Peek
<1>7. QED
  BY <1>2, <1>3, <1>5, <1>6

LEMMA OthersKeepTimer ==
    ASSUME TypeInv, Switches, VideoClockInv, TimerInv, NEW q \in Streams,
           Tick \/ Callback \/ FlushAudio \/ SeekStep \/ DecodeThread(q)
           \/ UNCHANGED vars
    PROVE  TimerInv' /\ overlap' = overlap
<1>1. /\ UNCHANGED <<frame_timer, video_clock, video_paused, draw, ui, loaded,
                     delay, now, timer, overlap>>
      /\ time' = time \/ time' = time + 1
  BY DecoderMoves DEF Tick, Callback, FlushAudio, SeekStep, FlushVideo, StoreTarget,
     StoreZero, ReaderStep, DecoderStep, vars, clocks, videoVars, switches, uiVars
<1>2. draw = "delay" => VR!PeekLast' = VR!PeekLast /\ VR!Peek' = VR!Peek
  <2>1. CASE DecodeThread(q)
    BY <2>1, PeekStays DEF Showing
  <2>2. CASE UNCHANGED <<pictures, shown>>
    BY <2>2 DEF VR!PeekLast, VR!Peek, VR!Kept
  <2>3. QED
    BY <2>1, <2>2 DEF Tick, Callback, FlushAudio, SeekStep, FlushVideo,
       StoreTarget, StoreZero, ReaderStep, vars, videoVars
<1>3. QED
  BY <1>1, <1>2, NumberFacts DEF TimerInv, Behindhand

LEMMA VideoClockStays ==
    ASSUME TypeInv, VideoClockInv, [Next]_vars
    PROVE  VideoClockInv'
<1>1. /\ time' = time \/ time' = time + 1
      /\ \/ video_clock' = video_clock
         \/ \E b \in BOOLEAN : video_clock' = [video_clock EXCEPT !.paused = b]
         \/ \E p, n : video_clock' = SetClockAt(video_clock, p, n, time)
  <2>1. CASE Draw
    <3>1. VR!SetVideoClock =>
            \E p, n : video_clock' = SetClockAt(video_clock, p, n, time)
      BY DEF VR!SetVideoClock, VR!SetClockAt, VR!StoreValue, VR!StoreSerial,
             SetClockAt, StoreValue, StoreSerial
    <3>2. time' = time
      BY <2>1 DEF Draw
    <3>3. ~VR!SetVideoClock => video_clock' = video_clock
      BY <2>1 DEF Draw, VR!DrawFrame, VR!PassOver, VR!NothingLeft, VR!Pick,
         VR!GetDelay, VR!TestTime, VR!AdvanceTimer, VR!SyncToVideo, VR!Show
    <3>4. QED
      BY <3>1, <3>2, <3>3
  <2>2. CASE StoreTimer
    <3>1. PICK enosys \in BOOLEAN :
            video_clock' = [video_clock EXCEPT !.paused = @ /\ enosys]
      BY <2>2 DEF StoreTimer
    <3>2. /\ video_clock' = [video_clock EXCEPT
                              !.paused = video_clock.paused /\ enosys]
          /\ (video_clock.paused /\ enosys) \in BOOLEAN
      BY <3>1, TypeFacts, Zenon DEF Clock
    <3>3. time' = time
      BY <2>2 DEF StoreTimer, Interface
    <3>4. QED
      BY <3>2, <3>3
  <2>3. CASE FreezeClocks
    <3>1. video_clock' = [video_clock EXCEPT !.paused = ~play] /\ time' = time
      BY <2>3 DEF FreezeClocks, Interface
    <3>2. (~play) \in BOOLEAN
      BY Zenon
    <3>3. QED
      BY <3>1, <3>2
  <2>4. CASE StoreVideo
    BY <2>4 DEF StoreVideo, Interface
  <2>5. CASE UNCHANGED video_clock /\ (time' = time \/ time' = time + 1)
    BY <2>5
  <2>6. QED
    BY <2>1, <2>2, <2>3, <2>4, <2>5, DecoderMoves DEF Next, Tick, Callback,
       SetPlayWhenReady, PauseStep, SwitchDevice, LoadTimer, SwitchAudio,
       SwitchVideo, Interface, FlushAudio, SeekStep, FlushVideo, StoreTarget,
       StoreZero, ReaderStep, DecoderStep, vars, clocks
<1>2. video_clock'.last_updated \in {video_clock.last_updated, time}
  BY <1>1, TypeFacts DEF Clock, SetClockAt, StoreValue, StoreSerial
<1>3. QED
  BY <1>1, <1>2, NumberFacts DEF VideoClockInv

(* Where the damage is over the timer is right again.                      *)
LEMMA TimeTestMends ==
    ASSUME TypeInv, VideoClockInv, Draw, draw = "test", draw' = "advance",
           ui \notin {"frame", "video"}
    PROVE  TimerInv'
<1>1. VR!TestTime
  BY DEF Draw, VR!DrawFrame, VR!PassOver, VR!NothingLeft, VR!Pick, VR!GetDelay,
         VR!AdvanceTimer, VR!SetVideoClock, VR!SyncToVideo, VR!Show, VR!Looks
<1>2. /\ UNCHANGED <<frame_timer, delay, time, ui>>
      /\ ~(time < frame_timer + delay) /\ now' = time /\ timer' = frame_timer
  BY <1>1 DEF Draw, VR!TestTime, uiVars
<1>3. QED
  BY <1>2, NumberFacts DEF TimerInv

LEMMA SwitchesStay == Switches /\ [Next]_vars => Switches'
<1> SUFFICES ASSUME Switches, [Next]_vars PROVE Switches'
  OBVIOUS
<1> USE DEF Switches, Resuming
<1>1. CASE UNCHANGED <<switches, uiVars>>
  BY <1>1 DEF switches, uiVars
<1>2. CASE SetPlayWhenReady
  BY <1>2 DEF SetPlayWhenReady, Interface, switches
<1>3. CASE SwitchVideo
  BY <1>3 DEF SwitchVideo, Interface
<1>4. CASE LoadTimer \/ StoreTimer \/ StoreVideo \/ FreezeClocks \/ SwitchAudio
           \/ SwitchDevice
  BY <1>4 DEF LoadTimer, StoreTimer, StoreVideo, FreezeClocks, SwitchAudio,
     SwitchDevice, Interface, switches
<1>5. QED
  BY <1>1, <1>2, <1>3, <1>4, DecoderMoves DEF Next, Tick, Draw, Callback,
     PauseStep, FlushAudio, SeekStep, FlushVideo, StoreTarget, StoreZero,
     ReaderStep, DecoderStep, vars

(***************************************************************************)
(* The frame timer is never ahead of the time, whatever is paused, resumed *)
(* and sought between the steps of DrawFrame, unless a pause and resume    *)
(* fell into one, and then only until a picture's time has come            *)
(* (VideoRenderBase::DrawFrame, MediaPlayer::PauseClock).                  *)
(***************************************************************************)
THEOREM TimerCorrect == Spec => []FrameTimerNotAhead
<1> DEFINE Inv == TypeInv /\ Switches /\ VideoClockInv /\ (overlap \/ TimerInv)
<1>1. Init => Inv
  <2> SUFFICES ASSUME Init PROVE Inv
    OBVIOUS
  <2>1. TypeInv
    BY TypesInductive
  <2>2. video_clock.last_updated = time /\ frame_timer = 0 /\ time = StartTime
    BY DEF Init, NewClock, VR!Init
  <2>3. TimerInv
    BY <2>2, Parameters DEF Init, VR!Init, TimerInv, Behindhand
  <2>4. VideoClockInv
    BY <2>2, Parameters DEF VideoClockInv
  <2>5. QED
    BY <2>1, <2>3, <2>4 DEF Init, Switches, Resuming
<1>2. Inv /\ [Next]_vars => Inv'
  <2> SUFFICES ASSUME Inv, [Next]_vars PROVE Inv'
    OBVIOUS
  <2>1. TypeInv' /\ Switches' /\ VideoClockInv'
    BY TypesInductive, SwitchesStay, VideoClockStays
  <2>2. ASSUME overlap PROVE overlap' \/ TimerInv'
    <3>1. CASE Draw
      BY <2>2, <3>1, TimeTestMends DEF Draw
    <3>2. CASE ~Draw
      BY <2>2, <3>2, DecoderMoves DEF Next, Tick, Callback, SetPlayWhenReady,
         PauseStep, SwitchDevice, LoadTimer, StoreTimer, StoreVideo, FreezeClocks,
         SwitchAudio, SwitchVideo, FlushAudio, SeekStep, FlushVideo, StoreTarget,
         StoreZero, ReaderStep, DecoderStep, vars
    <3>3. QED
      BY <3>1, <3>2
  <2>3. ASSUME TimerInv PROVE overlap' \/ TimerInv'
    <3>1. CASE Draw
      BY <2>3, <3>1, LooksKeepTimer, DelayKeepsTimer DEF Draw, VR!DrawFrame
    <3>2. CASE SetPlayWhenReady \/ PauseStep \/ SwitchDevice
      BY <2>3, <3>2, InterfaceKeepsTimer
    <3>3. "audio" \in Streams
      BY DEF Streams
    <3>4. QED
      BY <2>3, <3>1, <3>2, <3>3, OthersKeepTimer DEF Next
  <2>4. QED
    BY <2>1, <2>2, <2>3
<1>3. Inv => FrameTimerNotAhead
  BY DEF TimerInv, FrameTimerNotAhead
<1>4. QED
  BY <1>1, <1>2, <1>3, PTL DEF Spec

(***************************************************************************)
(* What is old after a seek.  The first k pictures of the queue are old.   *)
(* Those of them that are still to be shown, with the one in the decoder's *)
(* hand, bound the old pictures to come; and until slot 0 is written anew  *)
(* the new pictures are in the slots behind it.  Of old sound there is     *)
(* only what audio_buf holds.                                              *)
(***************************************************************************)
Olds(k) ==
    /\ k \in 0 .. Len(pictures)
    /\ \A i \in 1 .. Len(pictures) :
         i <= k <=> pictures[i].serial # serial["video"]

Unseen(k) == IF k > VR!Kept THEN k - VR!Kept ELSE 0
News(k) == Len(pictures) - (IF k > VR!Kept THEN k ELSE VR!Kept)
Hand == decoder["video"].frame # "none"
        /\ decoder["video"].serial # serial["video"]

Counts(k) ==
    /\ stale + Unseen(k) + (IF Hand THEN 1 ELSE 0) <= PictureQueueSize + 1
    /\ skipped < PictureQueueSize
    /\ decoder["video"].serial # serial["video"] =>
         k = Len(pictures) /\ skipped = 0
    /\ first # serial["video"] =>
         skipped + News(k) < (IF windex = 0 THEN PictureQueueSize ELSE windex)

(* A picture that is written into slot 0 makes that slot new.              *)
Written ==
    decoder["video"].frame = "written" /\ windex = 0 =>
        first = decoder["video"].serial

PicturesOld == Written /\ \E k : Olds(k) /\ Counts(k)

NothingNewer ==
    /\ first <= serial["video"]
    /\ Has("video") => decoder["video"].serial <= serial["video"]
    /\ \A i \in 1 .. Len(pictures) : pictures[i].serial <= serial["video"]

SoundOld ==
    /\ heard_old <= AudioDuration
    /\ from_serial # serial["audio"] => heard_old + buffered <= AudioDuration

LEMMA OldFacts ==
    ASSUME TypeInv
    PROVE  /\ Len(pictures) \in Nat /\ Len(pictures) <= PictureQueueSize
           /\ pictures \in Seq(Frame) /\ PictureQueueSize \in Nat \ {0, 1}
           /\ stale \in Int /\ skipped \in Nat /\ first \in Int
           /\ windex \in 0 .. PictureQueueSize - 1
           /\ serial \in [Streams -> Int] /\ decoder \in [Streams -> Decoder]
           /\ decoder["video"].serial \in Int
           /\ VR!Kept \in {0, 1} /\ VR!Kept <= Len(pictures)
           /\ \A i \in 1 .. Len(pictures) : pictures[i].serial \in Int
<1>1. file.seeks \in Nat
  BY TypeFacts
<1>2. decoder \in [Streams -> Decoder] /\ decoder["video"].serial \in Int
  BY <1>1 DEF TypeInv, TypeOK, Decoder, Streams
<1>3. /\ pictures \in Seq(Frame) /\ Len(pictures) \in Nat
      /\ Len(pictures) <= PictureQueueSize /\ shown \in BOOLEAN
      /\ shown => Len(pictures) >= 1
      /\ PictureQueueSize \in Nat \ {0, 1}
      /\ windex \in 0 .. PictureQueueSize - 1
  BY Parameters DEF TypeInv, TypeOK, Pictures
<1>4. VR!Kept \in {0, 1} /\ VR!Kept <= Len(pictures)
  BY <1>3 DEF VR!Kept
<1>5. first \in Int /\ serial \in [Streams -> Int] /\ stale \in Int /\ skipped \in Nat
  BY <1>1 DEF TypeInv, TypeOK, Values
<1>6. QED
  BY <1>2, <1>3, <1>4, <1>5, TypeFacts

(* Next() releases the kept picture and keeps the one it was asked for.    *)
LEMMA NextOld ==
    ASSUME TypeInv, VR!Next, VR!NbRemaining > 0
           \/ (Len(pictures) >= 1 /\ (shown => Len(pictures) >= 2)),
           NEW k, Olds(k), serial' = serial
    PROVE  /\ Head(pictures') = VR!Peek
           /\ VR!Peek.serial # serial["video"] <=> k > VR!Kept
           /\ \E j : /\ Olds(j)'
                     /\ Unseen(j)' = IF k > VR!Kept THEN Unseen(k) - 1 ELSE 0
                     /\ News(j)' = IF k > VR!Kept THEN News(k) ELSE News(k) - 1
                     /\ k = Len(pictures) => j = Len(pictures')
           /\ \A i \in 1 .. Len(pictures') :
                \E n \in 1 .. Len(pictures) : pictures'[i] = pictures[n]
<1>1. /\ pictures \in Seq(Frame) /\ Len(pictures) \in Nat
      /\ Len(pictures) >= 1 /\ (shown => Len(pictures) >= 2)
      /\ shown \in BOOLEAN /\ k \in 0 .. Len(pictures)
  BY OldFacts DEF TypeInv, TypeOK, VR!NbRemaining, VR!Kept, Olds
<1>2. shown'
  BY DEF VR!Next
<1>3. CASE shown
  <2>1. pictures' = Tail(pictures) /\ VR!Kept = 1 /\ VR!Kept' = 1
    BY <1>2, <1>3 DEF VR!Next, VR!Kept
  <2>2. /\ Len(pictures') = Len(pictures) - 1
        /\ \A i \in 1 .. Len(pictures') :
             pictures'[i] = pictures[i + 1] /\ i + 1 \in 1 .. Len(pictures)
        /\ Head(pictures') = pictures'[1] /\ 1 \in 1 .. Len(pictures')
    BY <1>1, <1>3, <2>1
  <2>3. VR!Peek = pictures[2] /\ 2 \in 1 .. Len(pictures)
    BY <1>1, <1>3, <2>1 DEF VR!Peek
  <2>4. VR!Peek.serial # serial["video"] <=> k > VR!Kept
    BY <1>1, <2>1, <2>3 DEF Olds
  <2> DEFINE j == IF k > 0 THEN k - 1 ELSE 0
  <2>5. Olds(j)'
    BY <1>1, <2>2 DEF Olds
  <2>6. /\ Unseen(j)' = IF j > 1 THEN j - 1 ELSE 0
        /\ News(j)' = Len(pictures') - (IF j > 1 THEN j ELSE 1)
        /\ Unseen(k) = IF k > 1 THEN k - 1 ELSE 0
        /\ News(k) = Len(pictures) - (IF k > 1 THEN k ELSE 1)
    BY <2>1 DEF Unseen, News
  <2>7. k > 1 => Unseen(j)' = Unseen(k) - 1 /\ News(j)' = News(k)
    BY <1>1, <2>2, <2>6
  <2>8. ~(k > 1) => Unseen(j)' = 0 /\ News(j)' = News(k) - 1
    BY <1>1, <2>2, <2>6
  <2>9. k = Len(pictures) => j = Len(pictures')
    BY <1>1, <2>2
  <2>10. QED
    BY <2>1, <2>2, <2>3, <2>4, <2>5, <2>7, <2>8, <2>9
<1>4. CASE ~shown
  <2>1. pictures' = pictures /\ VR!Kept = 0 /\ VR!Kept' = 1
    BY <1>2, <1>4 DEF VR!Next, VR!Kept
  <2>2. VR!Peek = pictures[1] /\ Head(pictures') = pictures[1]
        /\ 1 \in 1 .. Len(pictures)
    BY <1>1, <1>4, <2>1 DEF VR!Peek
  <2>3. VR!Peek.serial # serial["video"] <=> k > VR!Kept
    BY <1>1, <2>1, <2>2 DEF Olds
  <2>4. Olds(k)'
    BY <2>1 DEF Olds
  <2>5. /\ Unseen(k)' = IF k > 1 THEN k - 1 ELSE 0
        /\ News(k)' = Len(pictures) - (IF k > 1 THEN k ELSE 1)
        /\ Unseen(k) = IF k > 0 THEN k - 0 ELSE 0
        /\ News(k) = Len(pictures) - (IF k > 0 THEN k ELSE 0)
    BY <2>1 DEF Unseen, News
  <2>6. k > 0 => Unseen(k)' = Unseen(k) - 1 /\ News(k)' = News(k)
    BY <1>1, <2>5
  <2>7. ~(k > 0) => Unseen(k)' = 0 /\ News(k)' = News(k) - 1
    BY <1>1, <2>5
  <2>8. QED
    BY <2>1, <2>2, <2>3, <2>4, <2>6, <2>7
<1>5. QED
  BY <1>1, <1>3, <1>4

LEMMA DrawKeepsOld ==
    ASSUME TypeInv, NothingNewer, PicturesOld, Draw
    PROVE  NothingNewer' /\ PicturesOld'
<1>1. UNCHANGED <<serial, decoder, windex, first, file>>
  BY DEF Draw, readerVars, ring
<1>2. Hand' = Hand /\ Written' /\ \A q : Has(q)' = Has(q)
  BY <1>1 DEF Hand, PicturesOld, Written, Has
<1>3. PICK k : Olds(k) /\ Counts(k)
  BY DEF PicturesOld
<1>4. k \in 0 .. Len(pictures)
  BY <1>3 DEF Olds
<1>5. CASE VR!PassOver
  <2>1. /\ VR!NbRemaining > 0 /\ VR!Next /\ VR!Peek.serial # first
        /\ skipped' = IF VR!Peek.serial = serial["video"] THEN skipped + 1
                      ELSE skipped
        /\ stale' = stale
    BY <1>5 DEF VR!PassOver
  <2>2. PICK j : /\ Olds(j)'
                 /\ Unseen(j)' = IF k > VR!Kept THEN Unseen(k) - 1 ELSE 0
                 /\ News(j)' = IF k > VR!Kept THEN News(k) ELSE News(k) - 1
                 /\ k = Len(pictures) => j = Len(pictures')
    BY <1>1, <1>3, <2>1, NextOld
  <2>3. VR!Peek.serial # serial["video"] <=> k > VR!Kept
    BY <1>1, <1>3, <2>1, NextOld
  <2>4. k = Len(pictures) => k > VR!Kept
    BY <2>1, OldFacts DEF VR!NbRemaining
  <2>5. Counts(j)'
    <3>1. CASE k > VR!Kept
      <4>1. /\ Unseen(j)' = Unseen(k) - 1 /\ News(j)' = News(k)
            /\ skipped' = skipped /\ stale' = stale /\ Unseen(k) \in Int
        BY <1>4, <2>1, <2>2, <2>3, <3>1, OldFacts DEF Unseen
      <4>2. stale' + Unseen(j)' + (IF Hand' THEN 1 ELSE 0) <= PictureQueueSize + 1
        BY <1>2, <1>3, <4>1, OldFacts DEF Counts
      <4>3. QED
        BY <1>1, <1>3, <2>2, <4>1, <4>2 DEF Counts
    <3>2. CASE ~(k > VR!Kept)
      <4>1. first # serial["video"] /\ skipped' = skipped + 1
        BY <2>1, <2>3, <3>2
      <4>2. News(k) >= 1 /\ News(k) \in Int
        BY <1>4, <2>1, <3>2, OldFacts DEF News, VR!NbRemaining
      <4>3. decoder["video"].serial = serial["video"] /\ ~Hand
        BY <1>3, <2>4, <3>2 DEF Counts, Hand
      <4>4. skipped' + News(j)' = skipped + News(k)
        BY <2>2, <3>2, <4>1, <4>2, OldFacts
      <4>5. skipped' < PictureQueueSize
        BY <1>3, <4>1, <4>2, OldFacts DEF Counts
      <4>6. stale' + Unseen(j)' <= PictureQueueSize + 1
        BY <1>3, <1>4, <2>1, <2>2, <3>2, <4>3, OldFacts DEF Counts, Unseen
      <4>7. stale' + Unseen(j)' + (IF Hand' THEN 1 ELSE 0) <= PictureQueueSize + 1
        <5>1. stale' + Unseen(j)' + 0 = stale' + Unseen(j)'
          BY <2>1, <2>2, <3>2, OldFacts
        <5>2. QED
          BY <1>2, <4>3, <4>6, <5>1
      <4>8. QED
        BY <1>1, <1>3, <4>3, <4>4, <4>5, <4>7 DEF Counts
    <3>3. QED
      BY <3>1, <3>2
  <2>6. NothingNewer'
    <3>1. \A i \in 1 .. Len(pictures') :
            \E n \in 1 .. Len(pictures) : pictures'[i] = pictures[n]
      BY <1>1, <1>3, <2>1, NextOld
    <3>2. serial' = serial /\ first' = first /\ decoder' = decoder
      BY <1>1
    <3>3. Has("video")' = Has("video")
      BY <1>2
    <3>4. QED
      BY <3>1, <3>2, <3>3 DEF NothingNewer
  <2>7. QED
    BY <1>2, <2>2, <2>5, <2>6 DEF PicturesOld
<1>6. CASE VR!Show
  <2>1. /\ Showing /\ VR!Next
        /\ stale' = IF Head(pictures').serial = serial["video"] THEN stale
                    ELSE stale + 1
        /\ skipped' = skipped
    BY <1>6 DEF VR!Show, Showing
  <2>2. Len(pictures) >= 1 /\ (shown => Len(pictures) >= 2)
    BY <2>1 DEF TypeInv, Pictures
  <2>3. PICK j : /\ Olds(j)'
                 /\ Unseen(j)' = IF k > VR!Kept THEN Unseen(k) - 1 ELSE 0
                 /\ News(j)' = IF k > VR!Kept THEN News(k) ELSE News(k) - 1
                 /\ k = Len(pictures) => j = Len(pictures')
    BY <1>1, <1>3, <2>1, <2>2, NextOld
  <2>4. stale' = IF k > VR!Kept THEN stale + 1 ELSE stale
    BY <1>1, <1>3, <2>1, <2>2, NextOld
  <2>5. Counts(j)'
    <3>1. stale' + Unseen(j)' = stale + Unseen(k)
      BY <1>4, <2>3, <2>4, OldFacts DEF Unseen
    <3>2. News(j)' <= News(k) /\ News(k) \in Int /\ News(j)' \in Int
      BY <1>4, <2>3, OldFacts DEF News
    <3>3. stale' + Unseen(j)' + (IF Hand' THEN 1 ELSE 0) <= PictureQueueSize + 1
      BY <1>2, <1>3, <3>1 DEF Counts
    <3>4. first # serial["video"] =>
            skipped + News(j)' < (IF windex = 0 THEN PictureQueueSize ELSE windex)
      BY <1>3, <3>2, OldFacts DEF Counts
    <3>5. QED
      BY <1>1, <1>3, <2>1, <2>3, <3>3, <3>4 DEF Counts
  <2>6. NothingNewer'
    <3>1. \A i \in 1 .. Len(pictures') :
            \E n \in 1 .. Len(pictures) : pictures'[i] = pictures[n]
      BY <1>1, <1>3, <2>1, <2>2, NextOld
    <3>2. serial' = serial /\ first' = first /\ decoder' = decoder
      BY <1>1
    <3>3. Has("video")' = Has("video")
      BY <1>2
    <3>4. QED
      BY <3>1, <3>2, <3>3 DEF NothingNewer
  <2>7. QED
    BY <1>2, <2>3, <2>5, <2>6 DEF PicturesOld
<1>7. CASE UNCHANGED <<pictures, shown, stale, skipped>>
  <2>1. Olds(k)' /\ Counts(k)'
    BY <1>1, <1>2, <1>3, <1>7 DEF Olds, Counts, Unseen, News, VR!Kept
  <2>2. NothingNewer'
    <3>1. pictures' = pictures
      BY <1>7
    <3>2. serial' = serial /\ first' = first /\ decoder' = decoder
      BY <1>1
    <3>3. Has("video")' = Has("video")
      BY <1>2
    <3>4. QED
      BY <3>1, <3>2, <3>3 DEF NothingNewer
  <2>3. QED
    BY <1>2, <2>1, <2>2 DEF PicturesOld
<1>8. QED
  BY <1>5, <1>6, <1>7 DEF Draw, VR!DrawFrame, VR!NothingLeft, VR!Pick, VR!GetDelay,
     VR!TestTime, VR!AdvanceTimer, VR!SetVideoClock, VR!SyncToVideo

(* After a flush everything that is queued or in hand is old.              *)
LEMMA FlushMakesOld ==
    ASSUME TypeInv, NothingNewer, PicturesOld, FlushVideo
    PROVE  NothingNewer' /\ PicturesOld'
<1>1. /\ UNCHANGED <<pictures, shown, decoder, windex, first, file>>
      /\ stale' = 0 /\ skipped' = 0
      /\ serial' = IF Has("video") THEN [serial EXCEPT !["video"] = @ + 1]
                   ELSE serial
  BY DEF FlushVideo, ReaderStep, ring
<1>2. serial'["video"] =
        IF Has("video") THEN serial["video"] + 1 ELSE serial["video"]
  BY <1>1, OldFacts DEF Streams
<1>3. VR!Kept' = VR!Kept /\ Has("video")' = Has("video")
  BY <1>1 DEF VR!Kept, Has
<1>4. serial["video"] \in Int
  BY OldFacts DEF Streams
<1>5. NothingNewer'
  BY <1>1, <1>2, <1>3, <1>4, OldFacts DEF NothingNewer
<1>6. Written'
  BY <1>1 DEF PicturesOld, Written
<1>7. \E k : Olds(k)' /\ Counts(k)'
  <2>1. CASE Has("video")
    <3>1. Olds(Len(pictures))'
      BY <1>1, <1>2, <1>4, <2>1, OldFacts DEF NothingNewer, Olds
    <3>2. Counts(Len(pictures))'
      <4>1. Unseen(Len(pictures))' <= PictureQueueSize
            /\ Unseen(Len(pictures))' \in Int /\ News(Len(pictures))' = 0
        BY <1>1, <1>3, OldFacts DEF Unseen, News
      <4>2. QED
        BY <1>1, <4>1, OldFacts DEF Counts
    <3>3. QED
      BY <3>1, <3>2
  <2>2. CASE ~Has("video")
    <3>1. PICK k : Olds(k) /\ Counts(k)
      BY DEF PicturesOld
    <3>2. Olds(k)' /\ Unseen(k)' = Unseen(k) /\ News(k)' = News(k) /\ Hand' = Hand
      BY <1>1, <1>2, <1>3, <2>2, <3>1 DEF Olds, Unseen, News, Hand
    <3>3. Unseen(k) <= PictureQueueSize /\ Unseen(k) \in Int /\ News(k) \in Int
          /\ News(k) >= 0 /\ News(k) <= Len(pictures)
      BY <3>1, OldFacts DEF Unseen, News, Olds
    <3>4. first # serial["video"] =>
            News(k) < (IF windex = 0 THEN PictureQueueSize ELSE windex)
      <4>1. skipped + News(k) >= News(k)
        BY <3>3, OldFacts
      <4>2. QED
        BY <3>1, <3>3, <4>1, OldFacts DEF Counts
    <3>5. Counts(k)'
      BY <1>1, <1>2, <2>2, <3>1, <3>2, <3>3, <3>4, OldFacts DEF Counts
    <3>6. QED
      BY <3>2, <3>5
  <2>3. QED
    BY <2>1, <2>2
<1>8. QED
  BY <1>5, <1>6, <1>7 DEF PicturesOld

LEMMA DecoderKeepsOld ==
    ASSUME TypeInv, NothingNewer, PicturesOld, NEW q \in Streams, DecodeThread(q)
    PROVE  NothingNewer' /\ PicturesOld'
<1>1. UNCHANGED <<serial, shown, stale, skipped, file>>
  BY DecoderMoves DEF DecoderStep, readerVars
<1>2. VR!Kept' = VR!Kept /\ \A p : Has(p)' = Has(p)
  BY <1>1 DEF VR!Kept, Has
<1>3. PICK k : Olds(k) /\ Counts(k)
  BY DEF PicturesOld
<1>4. /\ decoder \in [Streams -> Decoder] /\ q \in Streams
      /\ decoder["video"] \in Decoder
  BY OldFacts DEF Streams
<1>5. CASE UNCHANGED <<pictures, ring>> /\ decoder'["video"] = decoder["video"]
  <2>1. Olds(k)' /\ Counts(k)' /\ Written'
    BY <1>1, <1>2, <1>3, <1>5 DEF Olds, Counts, Unseen, News, Hand, Written,
       PicturesOld, ring
  <2>2. NothingNewer'
    <3>1. /\ first' = first /\ pictures' = pictures /\ serial' = serial
          /\ decoder'["video"].serial = decoder["video"].serial
      BY <1>1, <1>5 DEF ring
    <3>2. Has("video")' = Has("video")
      BY <1>2
    <3>3. QED
      BY <3>1, <3>2 DEF NothingNewer
  <2>3. QED
    BY <2>1, <2>2 DEF PicturesOld
<1>6. CASE UNCHANGED <<pictures, ring>> /\ q = "video"
           /\ (ReceiveFrame(q) \/ FlushDecoder(q) \/ TestLate)
  <2>1. /\ decoder'["video"].serial \in {decoder["video"].serial, serial["video"]}
        /\ decoder'["video"].frame # "written"
        /\ Hand' => Hand
        /\ decoder["video"].serial = serial["video"] =>
             decoder'["video"].serial = serial["video"]
    <3>1. CASE ReceiveFrame(q)
      BY <1>1, <1>4, <1>6, <3>1 DEF ReceiveFrame, IsAt, Hand, Decoder
    <3>2. CASE FlushDecoder(q)
      BY <1>1, <1>4, <1>6, <3>2 DEF FlushDecoder, DecoderAt, Hand
    <3>3. CASE TestLate
      BY <1>1, <1>4, <1>6, <3>3 DEF TestLate, IsAt, IsDone, DecoderAt, Hand, Decoder
    <3>4. QED
      BY <1>6, <3>1, <3>2, <3>3
  <2>2. Olds(k)' /\ Unseen(k)' = Unseen(k) /\ News(k)' = News(k)
    BY <1>1, <1>2, <1>3, <1>6 DEF Olds, Unseen, News
  <2>3. stale' + Unseen(k)' + (IF Hand' THEN 1 ELSE 0) <= PictureQueueSize + 1
    <3>1. Unseen(k) \in Int
      BY <1>3, OldFacts DEF Unseen, Olds
    <3>2. QED
      BY <1>1, <1>3, <2>1, <2>2, <3>1, OldFacts DEF Counts
  <2>4. Counts(k)'
    BY <1>1, <1>3, <1>6, <2>1, <2>2, <2>3 DEF Counts, ring
  <2>5. Written'
    BY <2>1 DEF Written
  <2>6. NothingNewer'
    <3>1. /\ first' = first /\ pictures' = pictures /\ serial' = serial
          /\ serial["video"] \in Int
      BY <1>1, <1>6, OldFacts DEF ring, Streams
    <3>2. Has("video")' = Has("video")
      BY <1>2
    <3>3. Has("video") => decoder'["video"].serial <= serial["video"]
      BY <2>1, <3>1 DEF NothingNewer
    <3>4. QED
      BY <3>1, <3>2, <3>3 DEF NothingNewer
  <2>7. QED
    BY <2>2, <2>4, <2>5, <2>6 DEF PicturesOld
<1>7. CASE q = "video" /\ WritePicture
  <2>1. /\ UNCHANGED <<pictures, windex>>
        /\ first' = IF windex = 0 THEN decoder["video"].serial ELSE first
        /\ decoder["video"].frame = "tested"
        /\ decoder'["video"].serial = decoder["video"].serial
        /\ decoder'["video"].frame = "written"
    BY <1>4, <1>7 DEF WritePicture, IsAt, VR!WriteFrame, TheFrame, Decoder
  <2>2. Hand' = Hand
    BY <1>1, <2>1 DEF Hand
  <2>3. Olds(k)' /\ Unseen(k)' = Unseen(k) /\ News(k)' = News(k)
    BY <1>1, <1>2, <1>3, <2>1 DEF Olds, Unseen, News
  <2>4. first' # serial["video"] =>
          skipped + News(k) < (IF windex = 0 THEN PictureQueueSize ELSE windex)
    <3>1. CASE first' = first
      BY <1>3, <3>1 DEF Counts
    <3>2. CASE windex = 0 /\ first' = decoder["video"].serial
      <4>1. first' # serial["video"] => k = Len(pictures) /\ skipped = 0
        BY <1>3, <3>2 DEF Counts
      <4>2. k = Len(pictures) => News(k) = 0
        BY OldFacts DEF News
      <4>3. QED
        BY <3>2, <4>1, <4>2, OldFacts
    <3>3. QED
      BY <2>1, <3>1, <3>2
  <2>5. Counts(k)'
    BY <1>1, <1>3, <2>1, <2>2, <2>3, <2>4 DEF Counts
  <2>6. Written'
    BY <2>1 DEF Written
  <2>7. NothingNewer'
    <3>1. Has("video")
      BY <1>7 DEF WritePicture, DecoderStep
    <3>2. Has("video")' = Has("video") /\ serial' = serial
      BY <1>1, <1>2
    <3>3. first' <= serial["video"]
      BY <2>1, <3>1 DEF NothingNewer
    <3>4. QED
      BY <2>1, <3>1, <3>2, <3>3 DEF NothingNewer
  <2>8. QED
    BY <2>3, <2>5, <2>6, <2>7 DEF PicturesOld
<1>8. CASE q = "video" /\ PushPicture
  <2> DEFINE s == decoder["video"].serial
             f == TheFrame("video")
  <2>1. /\ pictures' = Append(pictures, f) /\ f.serial = s /\ first' = first
        /\ windex' = IF windex + 1 = PictureQueueSize THEN 0 ELSE windex + 1
        /\ decoder["video"].frame = "written"
        /\ decoder'["video"].serial = s /\ decoder'["video"].frame = "none"
        /\ Has("video")
    BY <1>4, <1>8 DEF PushPicture, IsDone, VR!Push, TheFrame, DecoderAt, DecoderStep
  <2>2. /\ Len(pictures') = Len(pictures) + 1
        /\ \A i \in 1 .. Len(pictures) : pictures'[i] = pictures[i]
        /\ pictures'[Len(pictures) + 1] = f
    BY <2>1, OldFacts
  <2>3. \A i \in 1 .. Len(pictures') :
          i \in 1 .. Len(pictures) \/ i = Len(pictures) + 1
    BY <2>2, OldFacts
  <2> HIDE DEF f
  <2>4. ~Hand'
    BY <2>1 DEF Hand
  <2>5. Written'
    BY <2>1 DEF Written
  <2>6. NothingNewer'
    <3>1. \A i \in 1 .. Len(pictures') : pictures'[i].serial <= serial["video"]
      BY <2>1, <2>2, <2>3 DEF NothingNewer
    <3>2. QED
      BY <1>1, <2>1, <3>1 DEF NothingNewer
  <2>7. CASE s = serial["video"]
    <3>1. Olds(k)'
      <4>1. k \in Int /\ k \in 0 .. Len(pictures')
        BY <1>3, <2>2, OldFacts DEF Olds
      <4>2. \A i \in 1 .. Len(pictures) :
              i <= k <=> pictures'[i].serial # serial["video"]
        BY <1>3, <2>2 DEF Olds
      <4>3. /\ ~(Len(pictures) + 1 <= k)
            /\ pictures'[Len(pictures) + 1].serial = serial["video"]
        BY <1>3, <2>1, <2>2, <2>7, OldFacts DEF Olds
      <4>4. \A i \in 1 .. Len(pictures') :
              i <= k <=> pictures'[i].serial # serial["video"]
        BY <2>3, <4>2, <4>3
      <4>5. QED
        BY <1>1, <4>1, <4>4 DEF Olds
    <3>2. Unseen(k)' = Unseen(k) /\ News(k)' = News(k) + 1
          /\ Unseen(k) \in Int /\ News(k) \in Int
      <4>1. /\ k \in Int /\ VR!Kept \in Int /\ Len(pictures) \in Int
            /\ VR!Kept' = VR!Kept /\ Len(pictures') = Len(pictures) + 1
        BY <1>2, <1>3, <2>2, OldFacts DEF Olds
      <4>2. CASE k > VR!Kept
        BY <4>1, <4>2 DEF Unseen, News
      <4>3. CASE ~(k > VR!Kept)
        BY <4>1, <4>3 DEF Unseen, News
      <4>4. QED
        BY <4>2, <4>3
    <3>3. first # serial["video"] => windex # 0
      BY <2>1, <2>7 DEF PicturesOld, Written
    <3>4. first # serial["video"] =>
            skipped + News(k) + 1 <
              (IF windex' = 0 THEN PictureQueueSize ELSE windex')
      <4>1. windex \in Nat /\ windex + 1 > windex /\ windex + 1 <= PictureQueueSize
            /\ PictureQueueSize \in Nat
        BY OldFacts
      <4>2. first # serial["video"] => skipped + News(k) < windex
        BY <1>3, <3>3 DEF Counts
      <4>3. (IF windex' = 0 THEN PictureQueueSize ELSE windex') = windex + 1
        BY <2>1, <4>1
      <4>4. first # serial["video"] => skipped + News(k) + 1 < windex + 1
        BY <3>2, <4>1, <4>2, OldFacts
      <4>5. QED
        BY <4>3, <4>4
    <3>5. stale + Unseen(k) <= PictureQueueSize + 1
      <4>1. ~Hand /\ stale + Unseen(k) + 0 = stale + Unseen(k)
        BY <2>7, <3>2, OldFacts DEF Hand
      <4>2. QED
        BY <1>3, <4>1 DEF Counts
    <3>6. Counts(k)'
      <4>1. skipped + News(k)' = skipped + News(k) + 1
        BY <3>2, OldFacts
      <4>2. stale + Unseen(k)' + 0 = stale + Unseen(k)
        BY <3>2, OldFacts
      <4>3. skipped < PictureQueueSize
        BY <1>3 DEF Counts
      <4>4. stale' + Unseen(k)' + (IF Hand' THEN 1 ELSE 0) <= PictureQueueSize + 1
        BY <1>1, <2>4, <3>5, <4>2
      <4>5. first' # serial'["video"] =>
              skipped' + News(k)' <
                (IF windex' = 0 THEN PictureQueueSize ELSE windex')
        BY <1>1, <2>1, <3>4, <4>1
      <4>6. decoder'["video"].serial = serial'["video"]
        BY <1>1, <2>1, <2>7
      <4>7. QED
        BY <1>1, <4>3, <4>4, <4>5, <4>6 DEF Counts
    <3>7. QED
      BY <2>5, <2>6, <3>1, <3>6 DEF PicturesOld
  <2>8. CASE s # serial["video"]
    <3>1. k = Len(pictures) /\ skipped = 0 /\ Hand
      BY <1>3, <2>1, <2>8 DEF Counts, Hand
    <3>2. Olds(k + 1)'
      <4>1. /\ k + 1 \in 0 .. Len(pictures')
            /\ \A i \in 1 .. Len(pictures') : i <= k + 1
        BY <2>2, <3>1, OldFacts
      <4>2. \A i \in 1 .. Len(pictures) : pictures'[i].serial # serial["video"]
        BY <1>3, <2>2, <3>1, OldFacts DEF Olds
      <4>3. pictures'[Len(pictures) + 1].serial # serial["video"]
        BY <2>1, <2>2, <2>8
      <4>4. \A i \in 1 .. Len(pictures') : pictures'[i].serial # serial["video"]
        BY <2>3, <4>2, <4>3
      <4>5. QED
        BY <1>1, <4>1, <4>4 DEF Olds
    <3>3. Unseen(k + 1)' = Unseen(k) + 1 /\ News(k + 1)' = 0 /\ Unseen(k) \in Int
      BY <1>2, <2>2, <3>1, OldFacts DEF Unseen, News
    <3>4. (IF windex' = 0 THEN PictureQueueSize ELSE windex') > 0
      BY <2>1, OldFacts
    <3>5. stale + Unseen(k) + 1 <= PictureQueueSize + 1
      BY <1>3, <3>1 DEF Counts
    <3>6. stale + Unseen(k + 1)' + 0 = stale + Unseen(k) + 1
      BY <3>3, OldFacts
    <3>7. Counts(k + 1)'
      <4>1. stale' + Unseen(k + 1)' + (IF Hand' THEN 1 ELSE 0)
              <= PictureQueueSize + 1
        BY <1>1, <2>4, <3>5, <3>6
      <4>2. skipped' = 0 /\ skipped' + News(k + 1)' = 0
            /\ skipped' < PictureQueueSize
        BY <1>1, <3>1, <3>3, OldFacts
      <4>3. k + 1 = Len(pictures')
        BY <2>2, <3>1
      <4>4. QED
        BY <3>4, <4>1, <4>2, <4>3 DEF Counts
    <3>8. QED
      BY <2>5, <2>6, <3>2, <3>7 DEF PicturesOld
  <2>9. QED
    BY <2>7, <2>8
<1>9. QED
  <2>1. CASE q = "audio"
    <3>1. decoder'["video"] = decoder["video"]
      <4>1. "video" \in Streams /\ "video" # q
        BY <2>1 DEF Streams
      <4>2. QED
        BY <1>4, <4>1, OtherDecoder
    <3>2. UNCHANGED <<pictures, ring>>
      BY <2>1 DEF DecodeThread, ReceiveFrame, FlushDecoder, PushSamples
    <3>3. QED
      BY <1>5, <3>1, <3>2
  <2>2. CASE q = "video"
    BY <1>6, <1>7, <1>8, <2>2 DEF DecodeThread, ReceiveFrame, FlushDecoder, TestLate
  <2>3. QED
    BY <2>1, <2>2 DEF Streams

LEMMA OthersKeepPicturesOld ==
    ASSUME TypeInv, NothingNewer, PicturesOld,
           Tick \/ Callback \/ SetPlayWhenReady \/ PauseStep \/ SwitchDevice
           \/ FlushAudio \/ StoreTarget \/ StoreZero \/ UNCHANGED vars
    PROVE  NothingNewer' /\ PicturesOld'
<1>1. /\ UNCHANGED <<pictures, shown, ring, stale, skipped, decoder, file>>
      /\ serial'["video"] = serial["video"]
  <2>1. CASE FlushAudio
    BY <2>1, OldFacts DEF FlushAudio, ReaderStep, Streams
  <2>2. CASE ~FlushAudio
    BY <2>2 DEF Tick, Callback, SetPlayWhenReady, PauseStep, SwitchDevice, LoadTimer,
       StoreTimer, StoreVideo, FreezeClocks, SwitchAudio, SwitchVideo, Interface,
       StoreTarget, StoreZero, ReaderStep, videoVars, readerVars, vars
  <2>3. QED
    BY <2>1, <2>2
<1>2. PICK k : Olds(k) /\ Counts(k)
  BY DEF PicturesOld
<1>3. Olds(k)' /\ Counts(k)' /\ Written'
  BY <1>1, <1>2 DEF Olds, Counts, Unseen, News, Hand, Written, PicturesOld, VR!Kept,
     ring
<1>4. NothingNewer'
  <2>1. /\ first' = first /\ pictures' = pictures /\ decoder' = decoder
        /\ file' = file
    BY <1>1 DEF ring
  <2>2. QED
    BY <1>1, <2>1 DEF NothingNewer, Has
<1>5. QED
  BY <1>2, <1>3, <1>4 DEF PicturesOld

LEMMA SoundFacts ==
    ASSUME TypeInv
    PROVE  /\ heard_old \in Int /\ buffered \in Int /\ buffered >= 0
           /\ buffered <= AudioDuration /\ AudioDuration \in Nat \ {0}
           /\ serial \in [Streams -> Int] /\ from_serial \in Int
<1>1. file.seeks \in Nat /\ AudioDuration \in Nat \ {0}
  BY TypeFacts, Parameters
<1>2. serial \in [Streams -> Int]
  BY <1>1 DEF TypeInv, TypeOK
<1>3. QED
  BY <1>1, <1>2 DEF TypeInv, TypeOK, Values

LEMMA CallbackKeepsOld ==
    ASSUME TypeInv, SoundOld, Callback
    PROVE  SoundOld'
<1>1. serial' = serial
  BY DEF Callback, readerVars
<1>2. CASE AR!CopyRest
  <2>1. /\ buffered > 0 /\ buffered' = buffered - 1 /\ from_serial' = from_serial
        /\ heard_old' = IF from_serial = serial["audio"] THEN heard_old
                        ELSE heard_old + 1
    BY <1>2 DEF AR!CopyRest, AR!Copy
  <2>2. QED
    BY <1>1, <2>1, SoundFacts DEF SoundOld
<1>3. CASE AR!FillPaused
  BY <1>1, <1>3, SoundFacts DEF AR!FillPaused, AR!Silence, SoundOld
<1>4. CASE AR!Take
  <2>1. \/ /\ from_serial' = serial["audio"] /\ heard_old' = heard_old
        \/ /\ buffered' = 0 /\ UNCHANGED <<from_serial, heard_old>>
    BY <1>4 DEF AR!Take, AR!Copy, AR!Silence
  <2>2. QED
    BY <1>1, <2>1, SoundFacts DEF SoundOld
<1>5. CASE UNCHANGED <<from_serial, heard_old, buffered>>
  BY <1>1, <1>5 DEF SoundOld
<1>6. QED
  BY <1>2, <1>3, <1>4, <1>5 DEF Callback, AR!ReadAudioData, AR!BeginCallback,
     AR!FillPlaying, AR!TakeOld, AR!StoreClockValue, AR!StoreClockSerial,
     AR!SyncToAudio

LEMMA OthersKeepSoundOld ==
    ASSUME TypeInv, SoundOld, NEW q \in Streams,
           Tick \/ Draw \/ SetPlayWhenReady \/ PauseStep \/ SwitchDevice
           \/ FlushAudio \/ SeekStep \/ DecodeThread(q)
           \/ UNCHANGED vars
    PROVE  SoundOld'
<1>1. CASE FlushAudio
  <2>1. heard_old' = 0 /\ UNCHANGED buffered
    BY <1>1 DEF FlushAudio, ReaderStep
  <2>2. QED
    BY <2>1, SoundFacts DEF SoundOld
<1>2. CASE FlushVideo
  <2>1. /\ UNCHANGED <<heard_old, buffered, from_serial>>
        /\ serial' = IF Has("video") THEN [serial EXCEPT !["video"] = @ + 1]
                     ELSE serial
    BY <1>2 DEF FlushVideo, ReaderStep
  <2>2. serial'["audio"] = serial["audio"]
    BY <2>1, SoundFacts DEF Streams
  <2>3. QED
    BY <2>1, <2>2 DEF SoundOld
<1>3. CASE UNCHANGED <<heard_old, buffered, from_serial, serial>>
  BY <1>3 DEF SoundOld
<1>4. QED
  BY <1>1, <1>2, <1>3, DecoderMoves DEF Tick, Draw, SetPlayWhenReady, PauseStep,
     SwitchDevice, LoadTimer, StoreTimer, StoreVideo, FreezeClocks, SwitchAudio,
     SwitchVideo, Interface, SeekStep, StoreTarget, StoreZero, ReaderStep,
     DecoderStep, audioVars, readerVars, vars

(***************************************************************************)
(* After a seek only so much of the old is shown and heard as the queue,   *)
(* the decoder and audio_buf held, and fewer new pictures are passed over  *)
(* than the ring has slots, whenever the seek falls between the steps of   *)
(* DrawFrame, PushFrame and the callback (VideoRenderBase::DrawFrame,      *)
(* BasicAudioRender::ReadAudioData, PacketQueue::Flush).                   *)
(***************************************************************************)
THEOREM OldCorrect == Spec => []OldIsShort
<1> DEFINE Inv == TypeInv /\ NothingNewer /\ PicturesOld /\ SoundOld
<1>1. Init => Inv
  <2> SUFFICES ASSUME Init PROVE NothingNewer /\ PicturesOld /\ SoundOld
    BY TypesInductive
  <2>1. /\ stale = 0 /\ heard_old = 0 /\ buffered = 0 /\ skipped = 0
        /\ pictures = <<>> /\ shown = FALSE /\ first = 0 /\ windex = 0
        /\ decoder["video"].frame = "none"
        /\ serial["video"] = IF Has("video") THEN 1 ELSE 0
        /\ decoder["video"].serial = 1
    BY DEF Init, VR!Init, AR!Init, DecoderAt, Streams
  <2>2. SoundOld
    BY <2>1, Parameters DEF SoundOld
  <2>3. NothingNewer
    BY <2>1 DEF NothingNewer
  <2>4. Olds(0) /\ Counts(0)
    <3>1. Len(pictures) = 0
      BY <2>1
    <3>2. VR!Kept = 0 /\ Unseen(0) = 0 /\ News(0) = 0 /\ ~Hand
      BY <2>1, <3>1 DEF VR!Kept, Unseen, News, Hand
    <3>3. Olds(0)
      BY <3>1 DEF Olds
    <3>4. PictureQueueSize \in Nat \ {0, 1}
      BY Parameters
    <3>5. Counts(0)
      BY <2>1, <3>1, <3>2, <3>4 DEF Counts
    <3>6. QED
      BY <3>3, <3>5
  <2>5. Written
    BY <2>1 DEF Written
  <2>6. QED
    BY <2>2, <2>3, <2>4, <2>5 DEF PicturesOld
<1>2. Inv /\ [Next]_vars => Inv'
  <2> SUFFICES ASSUME Inv, [Next]_vars PROVE Inv'
    OBVIOUS
  <2>1. TypeInv'
    BY TypesInductive
  <2>2. "audio" \in Streams
    BY DEF Streams
  <2>3. NothingNewer' /\ PicturesOld'
    BY <2>2, DrawKeepsOld, FlushMakesOld, DecoderKeepsOld, OthersKeepPicturesOld
       DEF Next, SeekStep
  <2>4. SoundOld'
    BY <2>2, CallbackKeepsOld, OthersKeepSoundOld DEF Next
  <2>5. QED
    BY <2>1, <2>3, <2>4
<1>3. Inv => OldIsShort
  <2> SUFFICES ASSUME Inv PROVE OldIsShort
    OBVIOUS
  <2>1. PICK k : Olds(k) /\ Counts(k)
    BY DEF PicturesOld
  <2>2. stale <= PictureQueueSize + 1 /\ skipped < PictureQueueSize
    BY <2>1, OldFacts DEF Counts, Unseen, Hand, Olds
  <2>3. QED
    BY <2>2 DEF SoundOld, OldIsShort
<1>4. QED
  BY <1>1, <1>2, <1>3, PTL DEF Spec
=============================================================================
