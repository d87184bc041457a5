---------------------------- MODULE HostsProofs ----------------------------
(* Proofs about Hosts, and through it about Lifecycle, for every file,     *)
(* duration, wish for an audio device and set of scenes.                   *)
EXTENDS Hosts, VolumeProofs, TLAPS

DecoderStates ==
    {None, "starting", "measuring", "checking", "hungry", "asleep", "pushing",
     "full", "blocked", "ended"}

(* The destructor is past the join of the reader.                          *)
ReaderJoined == {"abort_audio", "signal_audio", "abort_video", "signal_video",
                 "signal_again", "join_audio", "join_video", "close"}

(* Before the first player there is nothing to delete or to call.          *)
NothingYet ==
    created = 0 =>
        /\ main \in {"idle", "restart"} /\ reader = None /\ freed = {}
        /\ handles = {} /\ alive = {} /\ current = NoPlayer
        /\ events = <<>> /\ ~listening

(* Who uses what is freed has come to its end, and nobody starts it again. *)
LoopEnded == "player" \in freed => loop = "ended"
FormatKept == reader \notin {None, "start", "done"} => format # "null"
ReaderEnded == main \in ReaderJoined => reader = "done"
DecodersEnded ==
    \A q \in Streams : q \in freed =>
        decoder[q] \in {None, "ended"} /\ reader = "done"
CallbackEnded ==
    "render" \in freed => callback = "idle" /\ device = None /\ reader = "done"

(* What the threads' variables are.  While it asks for the device the      *)
(* reader still has a rate to ask for.                                     *)
IsRequest(r) ==
    /\ r = [channels |-> r.channels, freq |-> r.freq, rate |-> r.rate]
    /\ r.rate \in 0 .. 4 \/ NoMoreCombinations(r)

ThreadTypes ==
    /\ renders \subseteq Streams
    /\ format \in {"null", "fresh", "open"}
    /\ IsRequest(request)
    /\ reader = "device" => request.rate \in 0 .. 4
    /\ device \in {None, "stopped", "running"}
    /\ decoder \in [Streams -> DecoderStates]
    /\ callback \in {"idle", "peek", "empty", "blocked"}
    /\ posted \subseteq Kinds
    /\ freed \subseteq Streams \union {"player", "render"}

IInv ==
    /\ created \in Nat
    /\ ThreadTypes
    /\ NothingYet /\ LoopEnded /\ FormatKept /\ ReaderEnded
    /\ DecodersEnded /\ CallbackEnded

LEMMA RateInTable ==
    ASSUME NEW freq
    PROVE  RateBelow(freq) \in 0 .. 4
<1> DEFINE S == {0} \union {i \in 0 .. 4 : next_sample_rates[i + 1] < freq}
<1>1. S \subseteq {0, 1, 2, 3, 4} /\ 0 \in S
  OBVIOUS
<1> HIDE DEF S
<1>2. \E m \in S : \A i \in S : m >= i
  BY <1>1
<1>3. Max(S) \in S
  BY <1>2 DEF Max
<1>4. QED
  BY <1>1, <1>3 DEF RateBelow, S

LEMMA FirstIsRequest ==
    ASSUME NEW channels, NEW freq
    PROVE  /\ IsRequest(FirstRequest(channels, freq))
           /\ FirstRequest(channels, freq).rate \in 0 .. 4
  BY RateInTable DEF FirstRequest, IsRequest

(* After the lowest rate there is nothing left to ask for.                 *)
LEMMA NextIsRequest ==
    ASSUME NEW r, IsRequest(r), r.rate \in 0 .. 4, NEW channels
    PROVE  LET next == NextRequest(r, channels) IN
           IsRequest(next) /\ (next.rate \in 0 .. 4 \/ NoMoreCombinations(next))
<1> DEFINE fewer == next_nb_channels[Min({7, r.channels}) + 1]
<1>1. CASE fewer # 0
  <2>1. NextRequest(r, channels) = [r EXCEPT !.channels = fewer]
    BY <1>1 DEF NextRequest
  <2> HIDE DEF fewer
  <2>2. QED
    BY <2>1 DEF IsRequest
<1>2. CASE fewer = 0
  <2>1. NextRequest(r, channels) =
          [channels |-> channels, freq |-> next_sample_rates[r.rate + 1],
           rate |-> r.rate - 1]
    BY <1>2 DEF NextRequest
  <2> HIDE DEF fewer
  <2>2. r.rate = 0 => next_sample_rates[r.rate + 1] = 0
    BY DEF next_sample_rates
  <2>3. r.rate # 0 => r.rate - 1 \in 0 .. 4
    OBVIOUS
  <2>4. QED
    BY <2>1, <2>2, <2>3 DEF IsRequest, NoMoreCombinations
<1>3. QED
  BY <1>1, <1>2

(***************************************************************************)
(* The reader: what it opens, what it asks the device for, and a round of  *)
(* ReadStreams.  It takes no step before it is started and none when done. *)
(***************************************************************************)
LEMMA ReaderKeepsInv ==
    ASSUME IInv, Running \/ Blocked, UNCHANGED hostVars
    PROVE  IInv'
<1> USE DEF IInv, ThreadTypes, NothingYet, LoopEnded, FormatKept, ReaderEnded, DecodersEnded,
            CallbackEnded, ReaderJoined, DecoderStates, Streams, None, NoPlayer,
            ReaderRests, mainVars, hostVars, ReaderGoes, OnlyReader, others,
            deviceVars, decoderVars, loopVars
<1>1. CASE AllocateContext /\ ReaderRests
  BY <1>1 DEF AllocateContext
<1>2. CASE AnnounceMetadata /\ ReaderRests
  BY <1>2 DEF AnnounceMetadata, Post, Kinds
<1>3. CASE SeekToStart /\ ReaderRests
  BY <1>3 DEF SeekToStart, Land
<1>4. CASE OpenSound /\ ReaderRests
  BY <1>4, FirstIsRequest DEF OpenSound
<1>5. CASE GrantDevice /\ ReaderRests
  BY <1>5, FirstIsRequest DEF GrantDevice, NoRequest
<1>6. CASE RefuseDevice /\ ReaderRests
  BY <1>6, NextIsRequest DEF RefuseDevice
<1>7. CASE TestPaused /\ ReaderRests
  BY <1>7 DEF TestPaused
<1>8. CASE StartDevice /\ ReaderRests
  BY <1>8 DEF StartDevice
<1>9. CASE StartAudioDecoder /\ ReaderRests
  BY <1>9 DEF StartAudioDecoder, StartDecoder
<1>10. CASE OpenPicture /\ ReaderRests
  BY <1>10 DEF OpenPicture, StartDecoder
<1>11. CASE TestAbort /\ ReaderRests
  BY <1>11 DEF TestAbort
<1>12. CASE BeginSeek /\ ReaderRests
  BY <1>12 DEF BeginSeek, Land
<1>13. CASE EndSeek /\ ReaderRests
  BY <1>13 DEF EndSeek
<1>14. CASE isNeedReadMore /\ ReaderRests
  BY <1>14 DEF isNeedReadMore
<1>15. CASE ReaderSleeps /\ ReaderRests
  BY <1>15 DEF ReaderSleeps
<1>16. CASE OpenInput /\ ReaderRests
  BY <1>16 DEF OpenInput
<1>17. CASE FindStreamInfo /\ ReaderRests
  BY <1>17 DEF FindStreamInfo
<1>18. CASE ReadFrame /\ ReaderRests
  BY <1>18 DEF ReadFrame
<1>19. QED
  BY <1>1, <1>2, <1>3, <1>4, <1>5, <1>6, <1>7, <1>8, <1>9, <1>10, <1>11, <1>12,
     <1>13, <1>14, <1>15, <1>16, <1>17, <1>18
     DEF Running, Blocked, Calling, Blocking

(***************************************************************************)
(* The decoders: one that has ended takes no step, so the queues and the   *)
(* render it used stay unused; a push wakes only a callback that waits.    *)
(***************************************************************************)
LEMMA DecoderKeepsInv ==
    ASSUME NEW q \in Streams, IInv, Decoder(q), UNCHANGED hostVars
    PROVE  IInv'
<1> USE DEF IInv, ThreadTypes, NothingYet, LoopEnded, FormatKept, ReaderEnded, DecodersEnded,
            CallbackEnded, ReaderJoined, DecoderStates, Streams, None, NoPlayer,
            mainVars, hostVars,
            readerVars, deviceVars, loopVars, DecoderGoes, OnlyDecoder, ReaderWoken
<1> USE DEF Decoder
<1>1. CASE BeginDecoding(q)
  BY <1>1 DEF BeginDecoding
<1>2. CASE Measure(q)
  BY <1>2 DEF Measure
<1>3. CASE SeeAbort(q)
  BY <1>3 DEF SeeAbort
<1>4. CASE FindNothing(q)
  BY <1>4 DEF FindNothing
<1>5. CASE TakePacket(q)
  BY <1>5 DEF TakePacket
<1>6. CASE WaitForPacket(q)
  BY <1>6 DEF WaitForPacket
<1>7. CASE PushFrame(q)
  <2>1. CASE q = "video"
    BY <1>7, <2>1 DEF PushFrame, Post, Kinds
  <2>2. CASE q = "audio"
    BY <1>7, <2>2 DEF PushFrame
  <2>3. QED
    BY <2>1, <2>2
<1>8. CASE FindFull(q)
  BY <1>8 DEF FindFull
<1>9. CASE WaitForRoom(q)
  BY <1>9 DEF WaitForRoom
<1>10. QED
  BY <1>1, <1>2, <1>3, <1>4, <1>5, <1>6, <1>7, <1>8, <1>9 DEF Decoder

(***************************************************************************)
(* The callback: none begins once the device is closed.                    *)
(***************************************************************************)
LEMMA CallbackKeepsInv ==
    ASSUME IInv, Callback, UNCHANGED hostVars
    PROVE  IInv'
<1> USE DEF IInv, ThreadTypes, NothingYet, LoopEnded, FormatKept, ReaderEnded, DecodersEnded,
            CallbackEnded, ReaderJoined, DecoderStates, Streams, None, NoPlayer,
            mainVars, hostVars,
            readerVars, deviceVars, loopVars, OnlyCallback, Callback
<1>1. CASE BeginCallback
  BY <1>1 DEF BeginCallback
<1>2. CASE SilenceAfterAbort
  BY <1>2 DEF SilenceAfterAbort
<1>3. CASE TakeFrame
  BY <1>3 DEF TakeFrame
<1>4. CASE FindNoFrame
  BY <1>4 DEF FindNoFrame
<1>5. CASE WaitForFrame
  BY <1>5 DEF WaitForFrame
<1>6. QED
  BY <1>1, <1>2, <1>3, <1>4, <1>5

(***************************************************************************)
(* The message loop takes a message only between two, and none when ended. *)
(***************************************************************************)
LEMMA LoopKeepsInv ==
    ASSUME IInv, DoSomeWork \/ TakeMessage \/ EndLoop, UNCHANGED hostVars
    PROVE  IInv'
<1> USE DEF IInv, ThreadTypes, NothingYet, LoopEnded, FormatKept, ReaderEnded, DecodersEnded,
            CallbackEnded, ReaderJoined, DecoderStates, Streams, None, NoPlayer,
            mainVars, hostVars,
            readerVars, deviceVars, decoderVars, LoopRests
<1>1. CASE DoSomeWork
  BY <1>1 DEF DoSomeWork, Post, Kinds
<1>2. CASE TakeMessage
  BY <1>2 DEF TakeMessage
<1>3. CASE EndLoop
  BY <1>3 DEF EndLoop
<1>4. QED
  BY <1>1, <1>2, <1>3

(***************************************************************************)
(* The destructor, in the order it joins and frees.                        *)
(***************************************************************************)
LEMMA DeleteKeepsInv ==
    ASSUME IInv, Delete, UNCHANGED hostVars
    PROVE  IInv'
<1> USE DEF IInv, ThreadTypes, NothingYet, LoopEnded, FormatKept, ReaderEnded, DecodersEnded,
            CallbackEnded, ReaderJoined, DecoderStates, Streams, None, NoPlayer,
            hostVars, decoderVars,
            loopVars, MainGoes, DeleteRests
<1>1. CASE QuitLoop
  BY <1>1 DEF QuitLoop
<1>2. CASE JoinLoop
  BY <1>2 DEF JoinLoop
<1>3. CASE AbortReader
  BY <1>3 DEF AbortReader
<1>4. CASE NotifyReader
  BY <1>4 DEF NotifyReader, ReaderWoken
<1>5. CASE JoinReader
  BY <1>5 DEF JoinReader
<1>6. CASE AbortQueue("audio", "abort_audio", "signal_audio")
  BY <1>6 DEF AbortQueue
<1>7. CASE SignalRender("audio", "signal_audio", "abort_video")
  BY <1>7 DEF SignalRender
<1>8. CASE AbortQueue("video", "abort_video", "signal_video")
  BY <1>8 DEF AbortQueue
<1>9. CASE SignalRender("video", "signal_video", "signal_again")
  BY <1>9 DEF SignalRender
<1>10. CASE SignalRender("video", "signal_again", "join_audio")
  BY <1>10 DEF SignalRender
<1>11. CASE JoinDecoder("audio", "join_audio", "join_video")
  BY <1>11 DEF JoinDecoder
<1>12. CASE JoinDecoder("video", "join_video", "close")
  BY <1>12 DEF JoinDecoder
<1>13. CASE CloseDevice
  BY <1>13 DEF CloseDevice
<1>14. QED
  BY <1>1, <1>2, <1>3, <1>4, <1>5, <1>6, <1>7, <1>8, <1>9, <1>10, <1>11,
     <1>12, <1>13 DEF Delete

(***************************************************************************)
(* A seek of the caller touches no thread but a sleeping reader.           *)
(***************************************************************************)
LEMMA SeekKeepsInv ==
    ASSUME IInv, SeekCall, UNCHANGED hostVars
    PROVE  IInv'
<1> USE DEF IInv, ThreadTypes, NothingYet, LoopEnded, FormatKept, ReaderEnded, DecodersEnded,
            CallbackEnded, ReaderJoined, DecoderStates, Streams, None, NoPlayer,
            hostVars, deviceVars,
            decoderVars, loopVars, MainGoes, SeekRests, ReaderWoken
<1>1. CASE LookForFormat
  BY <1>1 DEF LookForFormat
<1>2. CASE StoreStartTime
  BY <1>2 DEF StoreStartTime
<1>3. CASE TestPending
  BY <1>3 DEF TestPending, SeekDropped, StorePosition
<1>4. CASE RequestSeek
  BY <1>4 DEF RequestSeek
<1>5. CASE NotifySeek
  BY <1>5 DEF NotifySeek
<1>6. QED
  BY <1>1, <1>2, <1>3, <1>4, <1>5 DEF SeekCall

(***************************************************************************)
(* The calls of a host that create a player: the first one starts the only *)
(* reader there is, and its threads are stopped by no call but Delete.     *)
(***************************************************************************)
LEMMA OpenKeepsInv ==
    ASSUME IInv, OpenCall
    PROVE  IInv'
<1> USE DEF IInv, ThreadTypes, NothingYet, LoopEnded, FormatKept, ReaderEnded, DecodersEnded,
            CallbackEnded, ReaderJoined, DecoderStates, Streams, None, NoPlayer,
            lifeRest, lifeVars,
            mainVars, hostVars, sceneVars, ownVars, readerVars, deviceVars,
            decoderVars, loopVars, MainGoes, Create
<1>1. CASE CreateFirst
  BY <1>1 DEF CreateFirst, StartReader, FirstVolume
<1>2. CASE PauseFirst
  BY <1>2 DEF PauseFirst, SetPaused
<1>3. CASE StopDevice
  BY <1>3 DEF StopDevice, SwitchDevice
<1>4. CASE Register
  BY <1>4 DEF Register
<1>5. CASE PlayFirst
  BY <1>5 DEF PlayFirst, SetPaused
<1>6. CASE ShowFirst
  BY <1>6 DEF ShowFirst, SwitchDevice
<1>7. CASE CreateInPlugin
  BY <1>7 DEF CreateInPlugin
<1>8. QED
  BY <1>1, <1>2, <1>3, <1>4, <1>5, <1>6, <1>7 DEF OpenCall

(***************************************************************************)
(* The other steps of a host.                                              *)
(***************************************************************************)
LEMMA HostKeepsInv ==
    ASSUME IInv, HostStep
    PROVE  IInv'
<1> USE DEF IInv, ThreadTypes, NothingYet, LoopEnded, FormatKept, ReaderEnded, DecodersEnded,
            CallbackEnded, ReaderJoined, DecoderStates, Streams, None, NoPlayer,
            lifeRest, lifeVars,
            mainVars, hostVars, sceneVars, ownVars, readerVars, deviceVars,
            decoderVars, loopVars, MainGoes,
            DeletePlayer, GiveUpCurrent
<1>1. CASE OpenCall
  BY <1>1, OpenKeepsInv
<1>2. CASE PlayOrPause
  BY <1>2 DEF PlayOrPause, SetPaused, Owned
<1>3. CASE Switch
  BY <1>3 DEF Switch, SwitchDevice
<1>4. CASE Seek
  BY <1>4 DEF Seek, SeekTo, BeginSeekCall, Owned
<1>5. CASE ChangeVolume
  BY <1>5 DEF ChangeVolume
<1>6. CASE Dispose
  BY <1>6 DEF Dispose
<1>7. CASE HotRestart
  BY <1>7 DEF HotRestart
<1>8. CASE ReleaseNext
  BY <1>8 DEF ReleaseNext
<1>9. CASE ReleasedAll
  BY <1>9 DEF ReleasedAll
<1>10. CASE SkipKey
  BY <1>10 DEF SkipKey
<1>11. CASE FlushEvents
  BY <1>11 DEF FlushEvents
<1>12. CASE CreateNext
  BY <1>12 DEF CreateNext, Create
<1>13. CASE DropOld
  BY <1>13 DEF DropOld
<1>14. CASE Deleted
  BY <1>14 DEF Deleted
<1>15. CASE TakeEvent
  BY <1>15 DEF TakeEvent
<1>16. CASE HandleEvent /\ RestartAtEnd
  BY <1>16 DEF HandleEvent, RestartAtEnd, SeekTo, BeginSeekCall
<1>17. CASE HandleEvent /\ SkipAtEnd
  BY <1>17 DEF HandleEvent, SkipAtEnd
<1>18. CASE HandleEvent /\ ShowMessage
  BY <1>18 DEF HandleEvent, ShowMessage
<1>19. QED
  BY <1>1, <1>2, <1>3, <1>4, <1>5, <1>6, <1>7, <1>8, <1>9, <1>10, <1>11,
     <1>12, <1>13, <1>14, <1>15, <1>16, <1>17, <1>18 DEF HostStep, HandleEvent

(***************************************************************************)
(* The steps of both: a message is handed over, another player posts, and  *)
(* the host draws between two events.                                      *)
(***************************************************************************)
LEMMA RestKeepsInv ==
    ASSUME IInv, HandMessage \/ AnotherPosts \/ Draw
    PROVE  IInv'
<1> USE DEF IInv, ThreadTypes, NothingYet, LoopEnded, FormatKept, ReaderEnded, DecodersEnded,
            CallbackEnded, ReaderJoined, DecoderStates, Streams, None, NoPlayer,
            lifeRest, lifeVars,
            mainVars, hostVars, sceneVars, ownVars, readerVars, deviceVars,
            decoderVars, loopVars, MainGoes
<1>1. CASE HandMessage
  BY <1>1 DEF HandMessage, CallbackReturns, Handling, LoopRests
<1>2. CASE AnotherPosts
  BY <1>2 DEF AnotherPosts, PostEvent
<1>3. CASE Draw
  BY <1>3 DEF Draw, DrawFrame, OnlyDecoder, DecoderGoes
<1>4. QED
  BY <1>1, <1>2, <1>3

LEMMA StartsInInv == Init => IInv
  BY FirstIsRequest
     DEF Init, LifeInit, IInv, ThreadTypes, NoRequest, NothingYet, LoopEnded, FormatKept, ReaderEnded,
         DecodersEnded, CallbackEnded, ReaderJoined, DecoderStates, Streams,
         None, NoPlayer

LEMMA StepsKeepInv ==
    ASSUME IInv, [Next]_vars
    PROVE  IInv'
<1>1. CASE PlayerStep
  BY <1>1, ReaderKeepsInv, DecoderKeepsInv, CallbackKeepsInv, LoopKeepsInv
     DEF PlayerStep
<1>2. CASE HandMessage \/ AnotherPosts \/ Draw
  BY <1>2, RestKeepsInv
<1>3. CASE SeekCall /\ UNCHANGED hostVars
  BY <1>3, SeekKeepsInv
<1>4. CASE Delete /\ UNCHANGED hostVars
  BY <1>4, DeleteKeepsInv
<1>5. CASE HostStep
  BY <1>5, HostKeepsInv
<1>6. CASE UNCHANGED vars
  BY <1>6 DEF IInv, ThreadTypes, NothingYet, LoopEnded, FormatKept, ReaderEnded,
              DecodersEnded, CallbackEnded, vars, lifeVars, mainVars,
              readerVars, deviceVars, decoderVars, loopVars, hostVars
<1>7. QED
  BY <1>1, <1>2, <1>3, <1>4, <1>5, <1>6 DEF Next

(***************************************************************************)
(* Nothing that is freed is used, whatever the hosts do and wherever the   *)
(* threads of the player are when it is deleted.                           *)
(***************************************************************************)
THEOREM AliveCorrect == Spec => []AliveWhenUsed
<1>1. Init => IInv
  BY StartsInInv
<1>2. IInv /\ [Next]_vars => IInv'
  BY StepsKeepInv
<1>3. IInv => AliveWhenUsed
  <2>1. loop \in Kinds => loop # "ended"
    BY DEF Kinds
  <2>2. QED
    BY <2>1 DEF IInv, ThreadTypes, LoopEnded, FormatKept, DecodersEnded, CallbackEnded,
                AliveWhenUsed
<1>4. QED
  BY <1>1, <1>2, <1>3, PTL DEF Spec
-----------------------------------------------------------------------------
(* The volume is always one that SetVolume has put within its range; what  *)
(* the m key remembers is only given back to SetVolume.                    *)
VolumeInv == volume \in Level /\ volume_before_mute \in Int

LEMMA VolumeKept ==
    ASSUME VolumeInv, [Next]_vars
    PROVE  VolumeInv'
<1> USE DEF VolumeInv, Level, MaxVolume
<1>1. CASE UNCHANGED sceneVars
  BY <1>1 DEF sceneVars
<1>2. CASE FirstVolume
  BY <1>2, SetVolumeInRange DEF FirstVolume
<1>3. CASE ChangeVolume
  <2>1. CASE ToggleMute
    BY <2>1, SetVolumeInRange DEF ToggleMute
  <2>2. CASE StepVolume
    BY <2>2, SetVolumeInRange DEF StepVolume
  <2>3. CASE ChooseVolume
    BY <2>3, SetVolumeInRange DEF ChooseVolume
  <2>4. QED
    BY <1>3, <2>1, <2>2, <2>3 DEF ChangeVolume
<1>4. PlayerStep \/ HandMessage \/ AnotherPosts \/ Draw
        \/ (SeekCall /\ UNCHANGED hostVars) \/ (Delete /\ UNCHANGED hostVars)
      => UNCHANGED sceneVars
  BY DEF PlayerStep, HandMessage, AnotherPosts, Draw, hostVars
<1>5. OpenCall => UNCHANGED sceneVars \/ FirstVolume
  BY DEF OpenCall, CreateFirst, PauseFirst, StopDevice, Register, PlayFirst,
         ShowFirst, CreateInPlugin, hostVars
<1>6. HostStep => UNCHANGED sceneVars \/ FirstVolume \/ ChangeVolume
  BY <1>5 DEF HostStep, PlayOrPause, Switch, Seek, Dispose, HotRestart,
     ReleaseNext, ReleasedAll, SkipKey, FlushEvents, CreateNext, DropOld,
     Deleted, TakeEvent, HandleEvent, hostVars
<1>7. UNCHANGED vars => UNCHANGED sceneVars
  BY DEF vars, hostVars
<1>8. QED
  BY <1>1, <1>2, <1>3, <1>4, <1>6, <1>7 DEF Next

(***************************************************************************)
(* Whatever keys and calls set the volume, in any scene, no sample is bent *)
(* (MediaPlayer::SetVolume, BasicAudioRender::MixAudioVolume).             *)
(***************************************************************************)
THEOREM SoundCorrect == Spec => []SoundUndistorted
<1>1. Init => VolumeInv
  BY DEF Init, VolumeInv, Level, MaxVolume
<1>2. VolumeInv /\ [Next]_vars => VolumeInv'
  BY VolumeKept
<1>3. VolumeInv => SoundUndistorted
  <2> SUFFICES ASSUME VolumeInv
               PROVE  SoundUndistorted
    OBVIOUS
  <2>1. /\ \A i \in 1 .. 8 : Samples[i] \in Sample
        /\ \A i \in 1 .. 4 : Samples[i] <= 0
        /\ \A i \in 4 .. 8 : Samples[i] >= 0
        /\ \A i \in 1 .. 7 : Samples[i] <= Samples[i + 1]
    BY SampleFacts DEF Samples
  <2>2. \A s, t \in Sample : s <= t =>
          /\ s >= 0 => Heard(s, volume) \in 0 .. s
          /\ s <= 0 => Heard(s, volume) \in s .. 0
          /\ Heard(s, volume) <= Heard(t, volume)
    BY HeardCorrect DEF VolumeInv
  <2>3. \A s \in Sample : s <= s
    BY SampleFacts
  <2>4. /\ \A i \in 1 .. 4 : Heard(Samples[i], volume) \in Samples[i] .. 0
        /\ \A i \in 4 .. 8 : Heard(Samples[i], volume) \in 0 .. Samples[i]
    <3>1. \A i \in 1 .. 4 : i \in 1 .. 8
      OBVIOUS
    <3>2. \A i \in 4 .. 8 : i \in 1 .. 8
      OBVIOUS
    <3>3. QED
      BY <2>1, <2>2, <2>3, <3>1, <3>2
  <2>5. ASSUME NEW i \in 1 .. 7
        PROVE  Heard(Samples[i], volume) <= Heard(Samples[i + 1], volume)
    <3>1. i \in 1 .. 8 /\ i + 1 \in 1 .. 8
      OBVIOUS
    <3>2. QED
      BY <2>1, <2>2, <3>1
  <2>6. QED
    BY <2>4, <2>5 DEF SoundUndistorted
<1>4. QED
  BY <1>1, <1>2, <1>3, PTL DEF Spec
-----------------------------------------------------------------------------
(***************************************************************************)
(* Where the last request that was accepted is, from the call to the       *)
(* reader.  It is in start_time while the file is being opened, or in      *)
(* seek_position while it is pending, and where the reader landed when     *)
(* that is over.                                                           *)
(***************************************************************************)
Clamped == Min({asked, Duration})

SeekTypes ==
    /\ {start_time, wanted, asked} \subseteq 0 .. Duration + 1 \union {Unset}
    /\ early \in BOOLEAN
    /\ landed \in FileStart .. FileStart + Duration
    /\ seek_position \in 0 .. Duration
    /\ created = 0 => asked = Unset
    /\ main \in {"seek", "start_time", "clamp"} => wanted # Unset

(* No request can be made, and none be pending, before there is a format   *)
(* context; a seek is being served only when one is pending.               *)
RequestsFollowFormat ==
    /\ reader \in {None, "start"} =>
         format = "null" /\ ~seek_req /\ main \notin {"clamp", "request", "notify"}
    /\ main = "start_time" => ~seek_req \/ reader = "done"
    /\ reader = "seeking" => seek_req

AboutToRequest ==
    main = "request" =>
        ~seek_req /\ ~early /\ (~unmet => seek_position = Clamped)

SeekOnItsWay ==
    main # "request" /\ asked # Unset /\ ~unmet =>
        \/ reader = "done"
        \/ early /\ Unread /\ start_time = asked /\ ~seek_req
        \/ /\ ~early /\ seek_req /\ seek_position = Clamped
           /\ reader = "seeking" => landed = Destination
        \/ ~seek_req /\ ~Unread /\ landed = Destination

SeekInv ==
    SeekTypes /\ RequestsFollowFormat /\ AboutToRequest /\ SeekOnItsWay

LEMMA MinOfTwo ==
    ASSUME NEW a \in Int, NEW b \in Int
    PROVE  Min({a, b}) = IF a <= b THEN a ELSE b
  BY DEF Min

(* A position before the file or beyond its end becomes one of the file.   *)
LEMMA LandingInFile ==
    ASSUME NEW p \in Int
    PROVE  Landing(p) \in FileStart .. FileStart + Duration
<1> DEFINE least == Min({p, FileStart + Duration})
<1>1. least \in Int /\ least <= FileStart + Duration
  BY MinOfTwo, DurationAssumption
<1> HIDE DEF least
<1>2. Max({FileStart, least}) \in {FileStart, least}
      /\ Max({FileStart, least}) >= FileStart
  <2>1. \E m \in {FileStart, least} : \A i \in {FileStart, least} : m >= i
    BY <1>1, DurationAssumption
  <2>2. /\ Max({FileStart, least}) \in {FileStart, least}
        /\ \A i \in {FileStart, least} : Max({FileStart, least}) >= i
    BY <2>1, Zenon DEF Max
  <2>3. QED
    BY <2>2
<1>3. QED
  BY <1>1, <1>2, DurationAssumption DEF Landing, least

(* A position of the file, or beyond its end, is clamped to the duration.  *)
LEMMA ClampedInFile ==
    ASSUME NEW p \in 0 .. Duration + 1
    PROVE  Min({p, Duration}) \in 0 .. Duration
  BY MinOfTwo, DurationAssumption

(***************************************************************************)
(* The steps that leave the seek where it is: they may wake the reader,    *)
(* and begin or end no call of Seek.                                       *)
(***************************************************************************)
InCall == {"seek", "start_time", "clamp", "request", "notify"}
LeavesSeek ==
    /\ UNCHANGED <<landed, seekVars, seek_req, unmet>>
    /\ ReaderWoken \/ UNCHANGED reader
    /\ format' \in {format, "null"}
    /\ created' = 0 => created = 0
    /\ main' = main \/ {main, main'} \intersect InCall = {}

LEMMA LeavingKeepsSeek ==
    ASSUME SeekInv, LeavesSeek
    PROVE  SeekInv'
<1> USE DEF LeavesSeek, ReaderWoken, seekVars, InCall, Clamped, None
<1>1. SeekTypes'
  BY DEF SeekInv, SeekTypes
<1>2. RequestsFollowFormat'
  BY DEF SeekInv, RequestsFollowFormat
<1>3. AboutToRequest'
  BY DEF SeekInv, AboutToRequest
<1>4. SeekOnItsWay'
  BY DEF SeekInv, SeekOnItsWay, Unread, Destination, Landing
<1>5. QED
  BY <1>1, <1>2, <1>3, <1>4 DEF SeekInv

LEMMA ThreadsLeaveSeek ==
    ASSUME \/ (\E q \in Streams : Decoder(q)) /\ UNCHANGED hostVars
           \/ (Callback \/ DoSomeWork \/ TakeMessage \/ EndLoop) /\ UNCHANGED hostVars
           \/ HandMessage \/ AnotherPosts \/ Draw
    PROVE  LeavesSeek
<1> USE DEF LeavesSeek, hostVars, mainVars, readerVars, lifeVars, LoopRests
<1>1. ASSUME NEW q \in Streams, Decoder(q), UNCHANGED hostVars
      PROVE  LeavesSeek
  <2>1. ReaderWoken \/ UNCHANGED reader
    BY <1>1 DEF Decoder, OnlyDecoder, BeginDecoding, Measure, SeeAbort, FindNothing,
                TakePacket, WaitForPacket, PushFrame, FindFull, WaitForRoom
  <2>2. QED
    BY <1>1, <2>1 DEF Decoder
<1>2. CASE Callback /\ UNCHANGED hostVars
  BY <1>2 DEF Callback
<1>3. CASE (DoSomeWork \/ TakeMessage \/ EndLoop) /\ UNCHANGED hostVars
  BY <1>3 DEF DoSomeWork, TakeMessage, EndLoop
<1>4. CASE HandMessage
  BY <1>4 DEF HandMessage, CallbackReturns
<1>5. CASE AnotherPosts
  BY <1>5 DEF AnotherPosts
<1>6. CASE Draw
  BY <1>6 DEF Draw, DrawFrame, OnlyDecoder
<1>7. QED
  BY <1>1, <1>2, <1>3, <1>4, <1>5, <1>6

LEMMA DeleteLeavesSeek ==
    ASSUME Delete, UNCHANGED hostVars
    PROVE  LeavesSeek
<1> USE DEF LeavesSeek, hostVars, DeleteRests, MainGoes, InCall
<1>1. CASE QuitLoop \/ JoinLoop \/ AbortReader \/ NotifyReader \/ JoinReader
  BY <1>1 DEF QuitLoop, JoinLoop, AbortReader, NotifyReader, JoinReader
<1>2. CASE AbortQueue("audio", "abort_audio", "signal_audio")
           \/ AbortQueue("video", "abort_video", "signal_video")
  BY <1>2 DEF AbortQueue
<1>3. CASE SignalRender("audio", "signal_audio", "abort_video")
           \/ SignalRender("video", "signal_video", "signal_again")
           \/ SignalRender("video", "signal_again", "join_audio")
  BY <1>3 DEF SignalRender
<1>4. CASE JoinDecoder("audio", "join_audio", "join_video")
           \/ JoinDecoder("video", "join_video", "close") \/ CloseDevice
  BY <1>4 DEF JoinDecoder, CloseDevice
<1>5. QED
  BY <1>1, <1>2, <1>3, <1>4 DEF Delete

LEMMA HostLeavesSeek ==
    ASSUME created \in Nat, HostStep, ~CreateFirst, ~Seek,
           ~(HandleEvent /\ RestartAtEnd)
    PROVE  LeavesSeek
<1> USE DEF LeavesSeek, lifeRest, lifeVars, mainVars, hostVars, sceneVars, ownVars,
            readerVars, MainGoes, Create, DeletePlayer, GiveUpCurrent, InCall
<1>1. CASE PauseFirst \/ StopDevice \/ Register \/ PlayFirst \/ ShowFirst
           \/ CreateInPlugin
  BY <1>1 DEF PauseFirst, StopDevice, Register, PlayFirst, ShowFirst,
              CreateInPlugin, SetPaused, SwitchDevice
<1>2. CASE PlayOrPause \/ Switch \/ ChangeVolume
  BY <1>2 DEF PlayOrPause, Switch, ChangeVolume, SetPaused, SwitchDevice
<1>3. CASE Dispose \/ HotRestart \/ ReleaseNext \/ ReleasedAll
  BY <1>3 DEF Dispose, HotRestart, ReleaseNext, ReleasedAll
<1>4. CASE SkipKey \/ FlushEvents \/ CreateNext \/ DropOld \/ Deleted
  BY <1>4 DEF SkipKey, FlushEvents, CreateNext, DropOld, Deleted
<1>5. CASE TakeEvent \/ (HandleEvent /\ (SkipAtEnd \/ ShowMessage))
  BY <1>5 DEF TakeEvent, HandleEvent, SkipAtEnd, ShowMessage
<1>6. QED
  BY <1>1, <1>2, <1>3, <1>4, <1>5 DEF HostStep, OpenCall, HandleEvent

(***************************************************************************)
(* The steps a seek goes through: the call, and the reader.                *)
(***************************************************************************)
LEMMA CallKeepsSeek ==
    ASSUME IInv, SeekInv,
           CreateFirst \/ Seek \/ (HandleEvent /\ RestartAtEnd)
             \/ (SeekCall /\ UNCHANGED hostVars)
    PROVE  SeekInv'
<1> USE DEF SeekInv, SeekTypes, RequestsFollowFormat, AboutToRequest, SeekOnItsWay,
            Unset, None, Unread, seekVars, readerVars, hostVars, MainGoes
<1> USE DurationAssumption
<1>1. CASE CreateFirst
  BY <1>1 DEF CreateFirst, Create, StartReader, IInv, NothingYet
<1>2. ASSUME NEW position \in 0 .. Duration + 1, SeekTo(position), created' = created,
             main \in {"idle", "handle"}
      PROVE  SeekInv'
  <2>1. created # 0
    BY <1>2 DEF SeekTo, Owned, IInv, NothingYet, NoPlayer
  <2>2. Destination' = Destination /\ Clamped' = Clamped
    BY <1>2 DEF SeekTo, BeginSeekCall, Destination, Clamped
  <2>3. QED
    BY <1>2, <2>1, <2>2 DEF SeekTo, BeginSeekCall
<1>3. CASE Seek
  BY <1>2, <1>3 DEF Seek
<1>4. CASE HandleEvent /\ RestartAtEnd
  BY <1>2, <1>4 DEF HandleEvent, RestartAtEnd
<1> USE DEF SeekRests
<1>5. UNCHANGED <<asked, early>> => Destination' = Destination /\ Clamped' = Clamped
  BY DEF Destination, Clamped
<1>6. CASE LookForFormat /\ UNCHANGED hostVars
  BY <1>5, <1>6 DEF LookForFormat, IInv, FormatKept
<1>7. CASE StoreStartTime /\ UNCHANGED hostVars
  <2>1. /\ main = "start_time" /\ main' = "idle" /\ start_time' = wanted
        /\ wanted # Unset
        /\ UNCHANGED <<reader, format, landed, created, seek_position, wanted,
                       seek_req>>
    BY <1>7 DEF StoreStartTime
  <2>2. created # 0
    BY <2>1 DEF IInv, NothingYet
  <2>3. CASE Unread
    <3>1. asked' = wanted /\ early' = TRUE /\ unmet' = FALSE
      BY <1>7, <2>3 DEF StoreStartTime, Accepted
    <3>2. SeekTypes'
      BY <2>1, <2>2, <3>1
    <3>3. ~seek_req
      BY <2>1, <2>3
    <3>4. QED
      BY <2>1, <2>3, <3>1, <3>2, <3>3
  <2>4. CASE ~Unread
    <3>1. UNCHANGED <<asked, early, unmet>>
      BY <1>7, <2>4 DEF StoreStartTime
    <3>2. QED
      BY <1>5, <2>1, <2>4, <3>1
  <2>5. QED
    BY <2>3, <2>4
<1>8. CASE SeekDropped /\ UNCHANGED hostVars
  BY <1>5, <1>8 DEF SeekDropped
<1>9. CASE ~seek_req /\ StorePosition /\ UNCHANGED hostVars
  <2>1. wanted \in 0 .. Duration + 1
    BY <1>9 DEF StorePosition
  <2>2. /\ asked' = wanted /\ early' = FALSE
        /\ unmet' = (format # "open")
        /\ seek_position' = IF format = "open" THEN Min({wanted, Duration}) ELSE 0
        /\ main = "clamp" /\ main' = "request"
        /\ UNCHANGED <<reader, format, landed, start_time, wanted, seek_req,
                       created>>
    BY <1>9 DEF StorePosition, Accepted
  <2>3. Min({wanted, Duration}) \in 0 .. Duration /\ 0 \in 0 .. Duration
    BY <2>1, ClampedInFile
  <2>4. Clamped' = Min({wanted, Duration})
    BY <2>2 DEF Clamped
  <2>5. created # 0
    BY <2>2 DEF IInv, NothingYet
  <2>6. SeekTypes'
    BY <2>2, <2>3, <2>5
  <2>7. RequestsFollowFormat'
    BY <2>2
  <2>8. AboutToRequest' /\ SeekOnItsWay'
    BY <1>9, <2>2, <2>4
  <2>9. QED
    BY <2>6, <2>7, <2>8
<1>10. CASE RequestSeek /\ UNCHANGED hostVars
  BY <1>5, <1>10 DEF RequestSeek
<1>11. CASE NotifySeek /\ UNCHANGED hostVars
  BY <1>5, <1>11 DEF NotifySeek, ReaderWoken
<1>12. QED
  BY <1>1, <1>3, <1>4, <1>6, <1>7, <1>8, <1>9, <1>10, <1>11
     DEF SeekCall, TestPending

LEMMA ReaderKeepsSeek ==
    ASSUME SeekInv, Running \/ Blocked, UNCHANGED hostVars
    PROVE  SeekInv'
<1> USE DEF SeekInv, SeekTypes, RequestsFollowFormat, AboutToRequest, SeekOnItsWay,
            Unset, None, Unread, seekVars, hostVars, mainVars, ReaderRests,
            ReaderGoes, OnlyReader
<1>1. Destination' = Destination /\ Clamped' = Clamped
  BY DEF Running, Blocked, Destination, Clamped
<1>2. CASE (AllocateContext \/ OpenInput \/ FindStreamInfo \/ AnnounceMetadata)
           /\ ReaderRests
  BY <1>1, <1>2 DEF AllocateContext, OpenInput, FindStreamInfo, AnnounceMetadata
<1>3. CASE SeekToStart /\ ReaderRests
  <2>1. start_time # Unset => Landing(start_time + FileStart)
                                \in FileStart .. FileStart + Duration
    BY LandingInFile, DurationAssumption
  <2>2. /\ \/ start_time = Unset /\ UNCHANGED <<landed, unmet>>
           \/ start_time # Unset /\ landed' = Landing(start_time + FileStart)
              /\ UNCHANGED unmet
           \/ start_time # Unset /\ unmet' = (unmet \/ early) /\ UNCHANGED landed
        /\ reader = "seek_start" /\ reader' = "audio"
        /\ UNCHANGED <<main, created, start_time, wanted, asked, early, format,
                       seek_position, seek_req>>
    BY <1>3 DEF SeekToStart, Land
  <2>3. early => Destination = Landing(asked + FileStart)
    BY DEF Destination
  <2>4. SeekTypes'
    BY <2>1, <2>2
  <2>5. RequestsFollowFormat' /\ AboutToRequest'
    BY <1>1, <2>2
  <2>6. SeekOnItsWay'
    BY <1>1, <2>2, <2>3
  <2>7. QED
    BY <2>4, <2>5, <2>6
<1>4. CASE (OpenSound \/ GrantDevice \/ RefuseDevice \/ TestPaused \/ StartDevice)
           /\ ReaderRests
  BY <1>1, <1>4 DEF OpenSound, GrantDevice, RefuseDevice, TestPaused, StartDevice
<1>5. CASE (StartAudioDecoder \/ OpenPicture) /\ ReaderRests
  BY <1>1, <1>5 DEF StartAudioDecoder, OpenPicture, StartDecoder
<1>6. CASE (TestAbort \/ isNeedReadMore \/ ReaderSleeps \/ ReadFrame) /\ ReaderRests
  BY <1>1, <1>6 DEF TestAbort, isNeedReadMore, ReaderSleeps, ReadFrame
<1>7. CASE BeginSeek /\ ReaderRests
  <2>1. /\ \/ landed' = Landing(seek_position) /\ UNCHANGED unmet
           \/ unmet' = TRUE /\ UNCHANGED landed
        /\ seek_req /\ reader = "round" /\ reader' = "seeking"
        /\ UNCHANGED <<main, created, start_time, wanted, asked, early, format,
                       seek_position, seek_req>>
    BY <1>7 DEF BeginSeek, Land
  <2>2. Landing(seek_position) \in FileStart .. FileStart + Duration
    BY LandingInFile, DurationAssumption
  <2>3. ~early => Destination = Landing(Clamped)
    BY DEF Destination, Clamped
  <2>4. SeekTypes'
    BY <2>1, <2>2
  <2>5. RequestsFollowFormat' /\ AboutToRequest'
    BY <1>1, <2>1
  <2>6. SeekOnItsWay'
    BY <1>1, <2>1, <2>3
  <2>7. QED
    BY <2>4, <2>5, <2>6
<1>8. CASE EndSeek /\ ReaderRests
  BY <1>1, <1>8 DEF EndSeek
<1>9. QED
  BY <1>2, <1>3, <1>4, <1>5, <1>6, <1>7, <1>8
     DEF Running, Blocked, Calling, Blocking

LEMMA StepsKeepSeek ==
    ASSUME IInv, SeekInv, [Next]_vars
    PROVE  SeekInv'
<1>1. CASE PlayerStep
  <2>1. CASE (Running \/ Blocked) /\ UNCHANGED hostVars
    BY <2>1, ReaderKeepsSeek
  <2>2. CASE ~(Running \/ Blocked)
    BY <1>1, <2>2, ThreadsLeaveSeek, LeavingKeepsSeek DEF PlayerStep
  <2>3. QED
    BY <1>1, <2>1, <2>2 DEF PlayerStep
<1>2. CASE HandMessage \/ AnotherPosts \/ Draw
  BY <1>2, ThreadsLeaveSeek, LeavingKeepsSeek
<1>3. CASE SeekCall /\ UNCHANGED hostVars
  BY <1>3, CallKeepsSeek
<1>4. CASE Delete /\ UNCHANGED hostVars
  BY <1>4, DeleteLeavesSeek, LeavingKeepsSeek
<1>5. CASE HostStep
  <2>1. CASE CreateFirst \/ Seek \/ (HandleEvent /\ RestartAtEnd)
    BY <2>1, CallKeepsSeek
  <2>2. CASE ~(CreateFirst \/ Seek \/ (HandleEvent /\ RestartAtEnd))
    BY <1>5, <2>2, HostLeavesSeek, LeavingKeepsSeek DEF IInv
  <2>3. QED
    BY <2>1, <2>2
<1>6. CASE UNCHANGED vars
  BY <1>6, LeavingKeepsSeek DEF LeavesSeek, vars, lifeVars, mainVars, readerVars,
                                hostVars
<1>7. QED
  BY <1>1, <1>2, <1>3, <1>4, <1>5, <1>6 DEF Next

LEMMA StartsInSeek == Init => SeekInv
<1> SUFFICES ASSUME Init PROVE SeekInv
  OBVIOUS
<1>1. /\ main = "idle" /\ reader = None /\ format = "null" /\ ~seek_req
      /\ start_time = Unset /\ wanted = Unset /\ asked = Unset /\ early = FALSE
      /\ landed = FileStart /\ seek_position = 0
  BY DEF Init, LifeInit
<1>2. FileStart \in FileStart .. FileStart + Duration /\ 0 \in 0 .. Duration
  BY DurationAssumption
<1>3. SeekTypes
  BY <1>1, <1>2 DEF SeekTypes
<1>4. QED
  BY <1>1, <1>3 DEF SeekInv, RequestsFollowFormat, AboutToRequest, SeekOnItsWay,
                    None

(***************************************************************************)
(* The last seek accepted is on its way or the reader has landed at its    *)
(* destination, however often and whenever seeks are asked for, unless it  *)
(* fails: DataSource::Seek, OnFormatContextOpen and ProcessSeekRequest, on *)
(* two threads with no lock.                                               *)
(***************************************************************************)
THEOREM SeekCorrect == Spec => []SeekExecuted
<1>1. Init => IInv /\ SeekInv
  BY StartsInInv, StartsInSeek
<1>2. (IInv /\ SeekInv) /\ [Next]_vars => (IInv /\ SeekInv)'
  BY StepsKeepInv, StepsKeepSeek
<1>3. IInv /\ SeekInv => SeekExecuted
  BY DEF SeekInv, SeekOnItsWay, SeekExecuted, Unread
<1>4. QED
  BY <1>1, <1>2, <1>3, PTL DEF Spec

-----------------------------------------------------------------------------
(* Who holds which player.  The steps of player 1's threads matter only    *)
(* for what its message loop hands over.                                   *)
Opening == {"created", "pause", "register", "play", "resume"}
Flushing == {"flush", "create", "drop"}
BeforeJoin == {"delete", "join_loop"}
AfterJoin == {"abort_reader", "notify_reader", "join_reader", "abort_audio",
              "signal_audio", "abort_video", "signal_video", "signal_again",
              "join_audio", "join_video", "close"}
Deleting == BeforeJoin \union AfterJoin \union {"deleted"}
Posted == [player : Nat \ {0}, what : Kinds, late : BOOLEAN]

(* The player that the example shows, or is about to show for the first    *)
(* time.                                                                   *)
Shown == IF main \in Opening THEN 1 ELSE current

HeldTypes ==
    /\ box \in Seq(Kinds) /\ loop \in Kinds \union {"idle", "ended"}
    /\ events \in Seq(Posted)
    /\ created \in Nat /\ alive \subseteq 1 .. created
    /\ current \in 0 .. created /\ old \in 0 .. created

(* A hot restart has forgotten the handles before it deletes.              *)
Restarting == main = "restart" \/ (main \in Deleting /\ why = "restart")

PluginHolds ==
    /\ handles \subseteq alive
    /\ Restarting => handles = {}
    /\ ~Restarting => players \subseteq alive

(* Each kind of host has its own way to hold a player.                     *)
KindOfHost ==
    /\ host # "plugin" => players = {} /\ handles = {} /\ main # "register"
                          /\ ~Restarting
    /\ host = "plugin" => current = NoPlayer /\ old = NoPlayer
                          /\ main \notin Flushing \union {"play", "resume"}

(* The example shows one player, and gives up one at a time.               *)
ExampleHolds ==
    /\ main \in Opening => created = 1 /\ alive = {1} /\ current = NoPlayer
    /\ current # NoPlayer => current \in alive
    /\ main \notin Flushing \union Deleting => old = NoPlayer
    /\ main \in {"flush", "create"} => current = NoPlayer
    /\ main = "drop" => current # old
    /\ main \in Deleting => old \notin alive
    /\ host # "plugin" =>
         /\ created # 0 /\ main \notin Opening \union {"flush", "create"} =>
              current # NoPlayer
         /\ alive \subseteq {Shown, old}
    /\ created = 0 =>
         events = <<>> /\ ~listening /\ current = NoPlayer /\ old = NoPlayer

(* A loop that has not ended is that of a player the example still has.    *)
LoopIsHeld ==
    host # "plugin" =>
        /\ created # 0 => loop = "ended" \/ 1 \in {Shown, old}
        /\ main \in AfterJoin => loop = "ended"
        /\ main = "deleted" /\ old = 1 => loop = "ended"

(* What waits was posted by the player that is shown, or is late.          *)
EventsNamed ==
    /\ host # "plugin" /\ main # "flush" =>
         \A i \in 1 .. Len(events) : events[i].late \/ events[i].player = Shown
    /\ handled # NoEvent => main = "handle"
    /\ host # "plugin" /\ handled # NoEvent /\ ~handled.late =>
         handled.player = current /\ created # 0

HeldInv ==
    HeldTypes /\ PluginHolds /\ KindOfHost /\ ExampleHolds /\ LoopIsHeld
    /\ EventsNamed

(* The player's own threads leave main and the host alone, and its loop    *)
(* does not begin again.                                                   *)
ThreadsOnly ==
    /\ UNCHANGED <<main, hostVars>>
    /\ box' \in Seq(Kinds) /\ loop' \in Kinds \union {"idle", "ended"}
    /\ loop = "ended" => loop' = "ended"

LEMMA PostTypes ==
    ASSUME HeldTypes, NEW m \in Kinds, Post(m)
    PROVE  box' \in Seq(Kinds) /\ UNCHANGED loop
  BY DEF HeldTypes, Post

LEMMA PlayerLeavesHolders ==
    ASSUME HeldTypes, PlayerStep
    PROVE  ThreadsOnly
<1> USE DEF HeldTypes, ThreadsOnly
<1>0. {"metadata", "frame", "end"} \subseteq Kinds /\ "ended" \notin Kinds
      /\ "idle" \notin Kinds
  BY DEF Kinds
<1>1. CASE (Running \/ Blocked) /\ UNCHANGED hostVars
  <2>1. CASE AnnounceMetadata /\ ReaderRests
    BY <1>0, <1>1, <2>1, PostTypes DEF AnnounceMetadata, ReaderRests, mainVars
  <2>2. CASE UNCHANGED loopVars /\ ReaderRests
    BY <1>1, <2>2 DEF loopVars, ReaderRests, mainVars
  <2>3. Running \/ Blocked =>
          ReaderRests /\ (AnnounceMetadata \/ UNCHANGED loopVars)
    BY DEF Running, Blocked, Calling, Blocking, others, OnlyReader,
           AllocateContext, OpenInput, FindStreamInfo, SeekToStart, OpenSound,
           GrantDevice, RefuseDevice, TestPaused, StartDevice,
           StartAudioDecoder, StartDecoder, OpenPicture, TestAbort, BeginSeek,
           EndSeek, isNeedReadMore, ReaderSleeps, ReadFrame
  <2>4. QED
    BY <1>1, <2>1, <2>2, <2>3
<1>2. ASSUME NEW q \in Streams, Decoder(q), UNCHANGED hostVars
      PROVE  ThreadsOnly
  <2>1. CASE PushFrame(q)
    <3>1. UNCHANGED loopVars \/ Post("frame")
      BY <2>1 DEF PushFrame
    <3>2. QED
      BY <1>0, <1>2, <3>1, PostTypes DEF Decoder, mainVars, loopVars
  <2>2. CASE UNCHANGED loopVars
    BY <1>2, <2>2 DEF Decoder, mainVars, loopVars
  <2>3. PushFrame(q) \/ UNCHANGED loopVars
    BY <1>2 DEF Decoder, OnlyDecoder, BeginDecoding, Measure, SeeAbort,
                FindNothing, TakePacket, WaitForPacket, FindFull, WaitForRoom
  <2>4. QED
    BY <2>1, <2>2, <2>3
<1>3. CASE Callback /\ UNCHANGED hostVars
  BY <1>3 DEF Callback, mainVars, loopVars
<1>4. CASE DoSomeWork /\ UNCHANGED hostVars
  BY <1>0, <1>4, PostTypes DEF DoSomeWork, LoopRests, mainVars
<1>5. CASE TakeMessage /\ UNCHANGED hostVars
  BY <1>5 DEF TakeMessage, LoopRests, mainVars
<1>6. CASE EndLoop /\ UNCHANGED hostVars
  BY <1>6 DEF EndLoop, LoopRests, mainVars
<1>7. QED
  BY <1>1, <1>2, <1>3, <1>4, <1>5, <1>6 DEF PlayerStep

LEMMA ThreadsKeepHeld ==
    ASSUME HeldInv, ThreadsOnly
    PROVE  HeldInv'
<1> USE DEF ThreadsOnly, hostVars, sceneVars, ownVars, host, Shown, Restarting
<1>1. HeldTypes'
  BY DEF HeldInv, HeldTypes
<1>2. (PluginHolds /\ KindOfHost)'
  BY DEF HeldInv, PluginHolds, KindOfHost
<1>3. ExampleHolds'
  BY DEF HeldInv, ExampleHolds
<1>4. LoopIsHeld'
  BY DEF HeldInv, LoopIsHeld
<1>5. EventsNamed'
  BY DEF HeldInv, EventsNamed
<1>6. QED
  BY <1>1, <1>2, <1>3, <1>4, <1>5 DEF HeldInv

(***************************************************************************)
(* The destructor of player 1, and the calls that delete nothing.          *)
(***************************************************************************)
LEMMA DeleteKeepsHeld ==
    ASSUME HeldInv, Delete, UNCHANGED hostVars
    PROVE  HeldInv'
<1> USE DEF HeldInv, HeldTypes, PluginHolds, KindOfHost, ExampleHolds, LoopIsHeld,
            EventsNamed, hostVars, sceneVars, ownVars, loopVars, host, Shown,
            Restarting, Opening, Flushing, BeforeJoin, AfterJoin,
            Deleting, NoPlayer, MainGoes, DeleteRests
<1>1. CASE QuitLoop
  BY <1>1 DEF QuitLoop
<1>2. CASE JoinLoop
  BY <1>2 DEF JoinLoop
<1>3. CASE AbortReader
  BY <1>3 DEF AbortReader
<1>4. CASE NotifyReader
  BY <1>4 DEF NotifyReader
<1>5. CASE JoinReader
  BY <1>5 DEF JoinReader
<1>6. CASE AbortQueue("audio", "abort_audio", "signal_audio")
  BY <1>6 DEF AbortQueue
<1>7. CASE SignalRender("audio", "signal_audio", "abort_video")
  BY <1>7 DEF SignalRender
<1>8. CASE AbortQueue("video", "abort_video", "signal_video")
  BY <1>8 DEF AbortQueue
<1>9. CASE SignalRender("video", "signal_video", "signal_again")
  BY <1>9 DEF SignalRender
<1>10. CASE SignalRender("video", "signal_again", "join_audio")
  BY <1>10 DEF SignalRender
<1>11. CASE JoinDecoder("audio", "join_audio", "join_video")
  BY <1>11 DEF JoinDecoder
<1>12. CASE JoinDecoder("video", "join_video", "close")
  BY <1>12 DEF JoinDecoder
<1>13. CASE CloseDevice
  BY <1>13 DEF CloseDevice
<1>14. QED
  BY <1>1, <1>2, <1>3, <1>4, <1>5, <1>6, <1>7, <1>8, <1>9, <1>10, <1>11,
     <1>12, <1>13 DEF Delete

LEMMA CallsKeepHeld ==
    ASSUME HeldInv, OpenCall \/ PlayOrPause \/ Switch \/ Seek \/ ChangeVolume
                    \/ (SeekCall /\ UNCHANGED hostVars) \/ Draw
    PROVE  HeldInv'
<1> USE DEF HeldInv, HeldTypes, PluginHolds, KindOfHost, ExampleHolds, LoopIsHeld,
            EventsNamed, hostVars, sceneVars, ownVars, loopVars, host, Shown,
            Restarting, Opening, Flushing, BeforeJoin, AfterJoin,
            Deleting, NoPlayer, NoEvent, MainGoes, lifeRest, lifeVars, mainVars
<1>1. CASE CreateFirst
  <2>1. /\ main = "idle" /\ created = 0 /\ created' = created + 1
        /\ alive' = alive \union {created'}
    BY <1>1 DEF CreateFirst, Create
  <2>2. alive = {}
    BY <2>1
  <2>3. players = {} /\ handles = {}
    BY <2>1, <2>2
  <2>4. QED
    BY <1>1, <2>1, <2>2, <2>3 DEF CreateFirst, FirstVolume, StartReader
<1>2. CASE PauseFirst
  BY <1>2 DEF PauseFirst, SetPaused
<1>3. CASE StopDevice
  BY <1>3 DEF StopDevice, SwitchDevice
<1>4. CASE Register
  BY <1>4 DEF Register
<1>5. CASE PlayFirst
  BY <1>5 DEF PlayFirst, SetPaused
<1>6. CASE ShowFirst
  BY <1>6 DEF ShowFirst, SwitchDevice
<1>7. CASE CreateInPlugin
  BY <1>7 DEF CreateInPlugin, Create
<1>8. CASE PlayOrPause
  BY <1>8 DEF PlayOrPause, SetPaused
<1>9. CASE Switch
  BY <1>9 DEF Switch, SwitchDevice
<1>10. CASE Seek
  BY <1>10 DEF Seek, SeekTo, BeginSeekCall
<1>11. CASE ChangeVolume
  BY <1>11 DEF ChangeVolume
<1>12. CASE SeekCall /\ UNCHANGED hostVars
  BY <1>12 DEF SeekCall, SeekRests, LookForFormat, StoreStartTime, TestPending,
               SeekDropped, StorePosition,
               RequestSeek, NotifySeek
<1>13. CASE Draw
  BY <1>13 DEF Draw, DrawFrame, OnlyDecoder
<1>14. QED
  BY <1>1, <1>2, <1>3, <1>4, <1>5, <1>6, <1>7, <1>8, <1>9, <1>10, <1>11,
     <1>12, <1>13 DEF OpenCall

(***************************************************************************)
(* Giving up players: by the plugin, and one by another in the example.    *)
(***************************************************************************)
LEMMA ReleaseKeepsHeld ==
    ASSUME HeldInv, Dispose \/ HotRestart \/ ReleaseNext \/ ReleasedAll \/ SkipKey
                    \/ FlushEvents \/ CreateNext \/ DropOld \/ Deleted
    PROVE  HeldInv'
<1> USE DEF HeldInv, HeldTypes, PluginHolds, KindOfHost, ExampleHolds, LoopIsHeld,
            EventsNamed, hostVars, sceneVars, ownVars, loopVars, host, Shown,
            Restarting, Opening, Flushing, BeforeJoin, AfterJoin,
            Deleting, NoPlayer, NoEvent, MainGoes, DeletePlayer, GiveUpCurrent,
            lifeRest
<1>1. CASE Dispose
  BY <1>1 DEF Dispose
<1>2. CASE HotRestart
  BY <1>2 DEF HotRestart
<1>3. CASE ReleaseNext
  <2>1. /\ main = "restart" /\ main' \in {"delete", "deleted"} /\ why' = "restart"
        /\ handles = {} /\ alive' \subseteq alive
    BY <1>3 DEF ReleaseNext
  <2>2. /\ host = "plugin"
        /\ UNCHANGED <<box, loop, created, sceneVars, listening, ownVars, old,
                       events, handled>>
    BY <1>3, <2>1 DEF ReleaseNext
  <2>3. QED
    BY <2>1, <2>2
<1>4. CASE ReleasedAll
  BY <1>4 DEF ReleasedAll
<1>5. CASE SkipKey
  BY <1>5 DEF SkipKey
<1>6. CASE FlushEvents
  BY <1>6 DEF FlushEvents
<1>7. CASE CreateNext
  <2>1. /\ created \in Nat /\ created' = created + 1
        /\ alive' = alive \union {created'} /\ current' = created'
        /\ main = "create" /\ main' = "drop" /\ current = 0
        /\ scene' = scene
        /\ UNCHANGED <<box, loop, players, handles, listening, old, events,
                       handled, why>>
    BY <1>7 DEF CreateNext, Create, FirstVolume
  <2>2. /\ created' \in Nat \ {0} /\ alive' \subseteq 1 .. created'
        /\ current' \in 0 .. created' /\ old' \in 0 .. created'
        /\ current' # old' /\ current' \in alive' /\ 0 \notin alive'
    BY <2>1
  <2>3. HeldTypes'
    BY <2>1, <2>2
  <2>4. (PluginHolds /\ KindOfHost)'
    BY <2>1, <2>2
  <2>5. (ExampleHolds /\ LoopIsHeld)'
    BY <2>1, <2>2
  <2>6. EventsNamed'
    <3>1. host # "plugin" => \A i \in 1 .. Len(events) : events[i].late
      <4>1. ASSUME NEW i \in 1 .. Len(events)
            PROVE  events[i].player # 0
        <5>1. events[i] \in Posted
          OBVIOUS
        <5>2. QED
          BY <5>1 DEF Posted
      <4>2. QED
        BY <2>1, <4>1
    <3>2. QED
      BY <2>1, <2>2, <3>1
  <2>7. QED
    BY <2>3, <2>4, <2>5, <2>6
<1>8. CASE DropOld
  BY <1>8 DEF DropOld
<1>9. CASE Deleted
  BY <1>9 DEF Deleted
<1>10. QED
  BY <1>1, <1>2, <1>3, <1>4, <1>5, <1>6, <1>7, <1>8, <1>9

(***************************************************************************)
(* Events: a post names the player that is shown, or is late, and what is  *)
(* taken was among what waited.                                            *)
(***************************************************************************)
LEMMA PostKeepsHeld ==
    ASSUME HeldInv, NEW p \in alive \union {1}, NEW m \in Kinds, PostEvent(p, m),
           host # "plugin" => created # 0 /\ p \in {Shown, old},
           created # 0,
           UNCHANGED <<main, sceneVars, created, alive, listening, ownVars, old,
                       handled, why>>,
           box' = box, loop' \in Kinds \union {"idle", "ended"},
           loop = "ended" => loop' = "ended"
    PROVE  HeldInv'
<1> DEFINE e == Event(p, m)
<1>1. e \in Posted
  <2>1. p \in Nat \ {0}
    BY DEF HeldInv, HeldTypes
  <2>2. (p = old /\ main # "flush") \in BOOLEAN
    BY Zenon
  <2>3. QED
    BY <2>1, <2>2 DEF Event, Posted
<1>2. events' \in Seq(Posted)
  BY <1>1 DEF PostEvent, HeldInv, HeldTypes
<1>3. host # "plugin" /\ main # "flush" => e.late \/ e.player = Shown
  BY DEF Event
<1>4. host # "plugin" /\ main # "flush" =>
        \A i \in 1 .. Len(events') : events'[i].late \/ events'[i].player = Shown
  <2> SUFFICES ASSUME host # "plugin", main # "flush", NEW i \in 1 .. Len(events')
               PROVE  events'[i].late \/ events'[i].player = Shown
    OBVIOUS
  <2>1. events \in Seq(Posted)
        /\ \A j \in 1 .. Len(events) : events[j].late \/ events[j].player = Shown
    BY DEF HeldInv, HeldTypes, EventsNamed
  <2>2. CASE events' = events
    BY <2>1, <2>2
  <2>3. CASE events' = Append(events, e)
    <3> HIDE DEF e
    <3>1. CASE i = Len(events) + 1
      BY <1>1, <1>3, <2>1, <2>3, <3>1
    <3>2. CASE i # Len(events) + 1
      BY <1>1, <2>1, <2>3, <3>2
    <3>3. QED
      BY <3>1, <3>2
  <2>4. QED
    BY <2>2, <2>3 DEF PostEvent
<1> HIDE DEF e
<1> USE DEF HeldInv, sceneVars, ownVars, host, Shown, Restarting
<1>5. HeldTypes'
  BY <1>2 DEF HeldTypes
<1>6. (PluginHolds /\ KindOfHost)'
  BY DEF PluginHolds, KindOfHost
<1>7. ExampleHolds'
  BY DEF ExampleHolds
<1>8. LoopIsHeld'
  BY DEF LoopIsHeld
<1>9. EventsNamed'
  BY <1>4 DEF EventsNamed
<1>10. QED
  BY <1>5, <1>6, <1>7, <1>8, <1>9

LEMMA EventsKeepHeld ==
    ASSUME HeldInv, HandMessage \/ AnotherPosts \/ TakeEvent \/ HandleEvent
    PROVE  HeldInv'
<1>1. CASE HandMessage
  <2>1. /\ UNCHANGED <<main, box, sceneVars, created, alive, ownVars, old,
                       listening, handled, why>>
        /\ loop \in Kinds /\ loop' = "idle"
    BY <1>1 DEF HandMessage, CallbackReturns, Handling, LoopRests, mainVars,
                HeldInv, HeldTypes
  <2>2. CASE listening
    <3>1. created # 0 /\ PostEvent(1, loop)
      BY <1>1, <2>2 DEF HandMessage, HeldInv, ExampleHolds
    <3>2. host # "plugin" => 1 \in {Shown, old}
      BY <2>1, <3>1 DEF HeldInv, LoopIsHeld, Kinds
    <3>3. loop # "ended"
      BY <2>1 DEF Kinds
    <3>4. QED
      BY <2>1, <3>1, <3>2, <3>3, PostKeepsHeld
  <2>3. CASE ~listening
    <3>1. UNCHANGED hostVars
      BY <1>1, <2>1, <2>3 DEF HandMessage, hostVars, ownVars
    <3>2. ThreadsOnly
      BY <2>1, <3>1 DEF ThreadsOnly, HeldInv, HeldTypes, Kinds
    <3>3. QED
      BY <3>2, ThreadsKeepHeld
  <2>4. QED
    BY <2>2, <2>3
<1>2. CASE AnotherPosts
  <2>1. PICK p \in alive \ {1} : PostEvent(p, "end")
    BY <1>2 DEF AnotherPosts
  <2>2. created # 0 /\ "end" \in Kinds /\ (host # "plugin" => p \in {Shown, old})
    BY <2>1 DEF HeldInv, HeldTypes, ExampleHolds, Kinds
  <2>3. /\ UNCHANGED <<main, box, loop, sceneVars, created, alive, listening,
                       ownVars, old, handled, why>>
        /\ loop' \in Kinds \union {"idle", "ended"}
    BY <1>2 DEF AnotherPosts, lifeVars, mainVars, loopVars, HeldInv, HeldTypes
  <2>4. QED
    BY <2>1, <2>2, <2>3, PostKeepsHeld
<1> USE DEF HeldInv, HeldTypes, PluginHolds, KindOfHost, ExampleHolds, LoopIsHeld,
            EventsNamed, hostVars, sceneVars, ownVars, loopVars, host, Shown,
            Restarting, Opening, Flushing, BeforeJoin, AfterJoin,
            Deleting, NoPlayer, MainGoes, GiveUpCurrent, lifeRest
<1>3. CASE TakeEvent
  <2>1. /\ events' \in Seq(Posted) /\ Len(events') = Len(events) - 1
        /\ \A i \in 1 .. Len(events') : events'[i] = events[i + 1]
        /\ handled' = events[1] /\ 1 \in 1 .. Len(events) /\ Len(events) \in Nat
    BY <1>3 DEF TakeEvent
  <2>2. \A i \in 1 .. Len(events') : i + 1 \in 1 .. Len(events)
    BY <2>1
  <2>3. QED
    BY <1>3, <2>1, <2>2 DEF TakeEvent
<1>4. CASE HandleEvent /\ RestartAtEnd
  BY <1>4 DEF HandleEvent, RestartAtEnd, SeekTo, BeginSeekCall
<1>5. CASE HandleEvent /\ SkipAtEnd
  BY <1>5 DEF HandleEvent, SkipAtEnd
<1>6. CASE HandleEvent /\ ShowMessage
  BY <1>6 DEF HandleEvent, ShowMessage
<1>7. QED
  BY <1>1, <1>2, <1>3, <1>4, <1>5, <1>6 DEF HandleEvent

LEMMA StartsInHeld == Init => HeldInv
  BY DEF Init, LifeInit, HeldInv, HeldTypes, PluginHolds, KindOfHost,
         ExampleHolds, LoopIsHeld, EventsNamed, Restarting, Opening, Flushing,
         BeforeJoin, AfterJoin, Deleting, NoPlayer, Shown

LEMMA StepsKeepHeld ==
    ASSUME HeldInv, [Next]_vars
    PROVE  HeldInv'
<1>1. CASE PlayerStep
  BY <1>1, PlayerLeavesHolders, ThreadsKeepHeld DEF HeldInv
<1>2. CASE HandMessage \/ AnotherPosts \/ TakeEvent \/ HandleEvent
  BY <1>2, EventsKeepHeld
<1>3. CASE Delete /\ UNCHANGED hostVars
  BY <1>3, DeleteKeepsHeld
<1>4. CASE OpenCall \/ PlayOrPause \/ Switch \/ Seek \/ ChangeVolume
           \/ (SeekCall /\ UNCHANGED hostVars) \/ Draw
  BY <1>4, CallsKeepHeld
<1>5. CASE Dispose \/ HotRestart \/ ReleaseNext \/ ReleasedAll \/ SkipKey
           \/ FlushEvents \/ CreateNext \/ DropOld \/ Deleted
  BY <1>5, ReleaseKeepsHeld
<1>6. CASE UNCHANGED vars
  <2>1. ThreadsOnly
    BY <1>6 DEF ThreadsOnly, vars, lifeVars, mainVars, loopVars, HeldInv,
                HeldTypes
  <2>2. QED
    BY <2>1, ThreadsKeepHeld
<1>7. QED
  BY <1>1, <1>2, <1>3, <1>4, <1>5, <1>6 DEF Next, HostStep

(***************************************************************************)
(* What a host holds between two of its steps is alive, and the example    *)
(* handles the events of the player it shows (lychee_player_plugin.cc,     *)
(* example/ffplay.cc).                                                     *)
(***************************************************************************)
THEOREM HeldCorrect == Spec => []HeldAreAlive
<1>1. Init => HeldInv
  BY StartsInHeld
<1>2. HeldInv /\ [Next]_vars => HeldInv'
  BY StepsKeepHeld
<1>3. HeldInv => HeldAreAlive
  BY DEF HeldInv, HeldTypes, PluginHolds, KindOfHost, ExampleHolds, EventsNamed,
         HeldAreAlive, Restarting, Opening, Flushing, BeforeJoin, AfterJoin,
         Deleting, NoPlayer
<1>4. QED
  BY <1>1, <1>2, <1>3, PTL DEF Spec
-----------------------------------------------------------------------------
(* What a host counts and lists, within the bounds of its scene.           *)
HostTypes ==
    /\ scene \in Scenes
    /\ created \in 0 .. MaxPlayers
    /\ players \subseteq 1 .. created /\ handles \subseteq 1 .. created
    /\ Len(events) <= MaxEvents

LEMMA EventsWithinBound ==
    ASSUME HeldInv, Len(events) <= MaxEvents, NEW p, NEW m, PostEvent(p, m),
           events' \in Seq(Posted)
    PROVE  Len(events') <= MaxEvents
  BY HostsAssumption DEF PostEvent, HeldInv, HeldTypes

LEMMA StepsKeepHostTypes ==
    ASSUME HeldInv, HeldInv', HostTypes, [Next]_vars
    PROVE  HostTypes'
<1>0. created \in Nat /\ events \in Seq(Posted) /\ events' \in Seq(Posted)
  BY DEF HeldInv, HeldTypes
<1> USE DEF HostTypes, sceneVars, ownVars, hostVars, MainGoes, Create, MaxPlayers
<1>1. CASE UNCHANGED <<scene, created, players, handles, events>>
  BY <1>1
<1>2. CASE HandMessage
  <2>1. Len(events') <= MaxEvents
    BY <1>0, <1>2, EventsWithinBound DEF HandMessage
  <2>2. QED
    BY <1>2, <2>1 DEF HandMessage
<1>3. CASE AnotherPosts
  <2>1. Len(events') <= MaxEvents
    BY <1>0, <1>3, EventsWithinBound DEF AnotherPosts
  <2>2. QED
    BY <1>3, <2>1 DEF AnotherPosts
<1>4. CASE CreateFirst \/ CreateInPlugin \/ CreateNext
  <2>1. /\ created < MaxPlayers /\ created' = created + 1
        /\ players' \subseteq players \union {created'}
        /\ handles' \subseteq handles \union {created'}
        /\ UNCHANGED <<scene, events>>
    BY <1>4 DEF CreateFirst, CreateInPlugin, CreateNext, FirstVolume
  <2>2. MaxPlayers \in Nat
    BY HostsAssumption
  <2>3. QED
    BY <1>0, <2>1, <2>2
<1>5. CASE Register
  BY <1>0, <1>5 DEF Register, HeldInv, ExampleHolds, Opening
<1>6. CASE Dispose \/ ReleasedAll
  BY <1>6 DEF Dispose, ReleasedAll
<1>7. CASE HotRestart \/ FlushEvents
  <2>1. events' = <<>> /\ handles' \subseteq handles
        /\ UNCHANGED <<scene, created, players>>
    BY <1>7 DEF HotRestart, FlushEvents
  <2>2. Len(events') <= MaxEvents
    <3>1. Len(<<>>) = 0
      OBVIOUS
    <3>2. QED
      BY <2>1, <3>1, HostsAssumption
  <2>3. QED
    BY <2>1, <2>2
<1>8. CASE TakeEvent
  BY <1>0, <1>8, HostsAssumption DEF TakeEvent
<1>9. PlayerStep \/ Draw \/ (SeekCall /\ UNCHANGED hostVars)
        \/ (Delete /\ UNCHANGED hostVars) \/ UNCHANGED vars
      => UNCHANGED <<scene, created, players, handles, events>>
  BY DEF PlayerStep, Draw, vars
<1>10. HostStep =>
         \/ UNCHANGED <<scene, created, players, handles, events>>
         \/ CreateFirst \/ CreateInPlugin \/ CreateNext \/ Register
         \/ Dispose \/ ReleasedAll \/ HotRestart \/ FlushEvents \/ TakeEvent
  BY DEF HostStep, OpenCall, PauseFirst, StopDevice, PlayFirst, ShowFirst,
         PlayOrPause, Switch, Seek, ChangeVolume, ReleaseNext, SkipKey, DropOld,
         Deleted, HandleEvent, RestartAtEnd, SkipAtEnd, ShowMessage
<1>11. QED
  BY <1>1, <1>2, <1>3, <1>4, <1>5, <1>6, <1>7, <1>8, <1>9, <1>10 DEF Next

(***************************************************************************)
(* Whatever a host and the threads of its player do, every field keeps to  *)
(* the values it is meant to take.                                         *)
(***************************************************************************)
THEOREM FieldsCorrect == Spec => []TypeOK
<1>1. Init => IInv /\ SeekInv /\ HeldInv /\ HostTypes
  <2>1. Init => HostTypes
    BY HostsAssumption DEF Init, HostTypes, MaxPlayers
  <2>2. QED
    BY <2>1, StartsInInv, StartsInSeek, StartsInHeld
<1>2. (IInv /\ SeekInv /\ HeldInv /\ HostTypes) /\ [Next]_vars =>
        (IInv /\ SeekInv /\ HeldInv /\ HostTypes)'
  BY StepsKeepInv, StepsKeepSeek, StepsKeepHeld, StepsKeepHostTypes
<1>3. IInv /\ SeekInv /\ HeldInv /\ HostTypes => TypeOK
  BY DEF IInv, ThreadTypes, IsRequest, DecoderStates, SeekInv, SeekTypes, HeldInv,
         HeldTypes, HostTypes, TypeOK
<1>4. QED
  BY <1>1, <1>2, <1>3, PTL DEF Spec
=============================================================================
