----------------------------- MODULE Lifecycle -----------------------------
(***************************************************************************)
(* A player from its construction to the end of its destructor: the        *)
(* threads it starts, what each waits for, and the order in which they     *)
(* are told to stop, joined, and what they used is freed.                  *)
(*                                                                         *)
(*   - the reader opens the file (data_source.cc), then the audio device   *)
(*     and a decoder for each stream (decoder_ctx.cc), then reads;         *)
(*   - the decoders, the callback of the audio device, the message loop;   *)
(*   - main is the thread that calls the player and deletes it.            *)
(*                                                                         *)
(* A test and the wait after it are two steps wherever no lock joins them. *)
(* How much is in a queue is left open: PacketQueue, FrameQueue, Pipeline  *)
(* and MessageQueue have that.  Left out: the file name, subtitles,        *)
(* av_read_pause, and what is not of the life of a thread.                 *)
(***************************************************************************)
EXTENDS AudioDevice, SequencesExt

CONSTANTS
    WantedChannels, WantedRate,     \* what the codec of a sound says
    FileStart, Duration     \* format_ctx_->start_time and ->duration: the
                            \* file has FileStart .. FileStart + Duration

ASSUME DurationAssumption == FileStart \in Nat /\ Duration \in Nat

VARIABLES
    main,                   \* where the thread that owns the player is
    renders,                \* the streams the player has a render for
    file,                   \* the streams of the file
    reader, format,         \* the reader, what format_ctx_ points to
    landed,                 \* where the reader reads from
    start_time, seek_req, seek_position,
    wanted,                 \* the position a call of Seek is given
    asked, early, unmet,    \* the last request accepted; it went to
                            \* start_time; it was not met (no code has these)
    request, device, paused,        \* the audio device; paused_ of its render
    decoder, aborted,       \* each decoder, abort_request of its queue
    callback,
    loop, box, posted, quit,        \* the message loop
    abort_request,          \* of the DataSource
    freed, overslept,       \* what is deleted; a thread lay down too late
    seeks, toggles

Streams == {"audio", "video"}
None == "none"
NoRequest == FirstRequest(0, 0)     \* wanted_spec is a local variable
Unset == -1             \* AV_NOPTS_VALUE

mainVars == <<main, seeks, toggles>>
seekVars == <<start_time, seek_position, wanted, asked, early>>
readerVars == <<reader, format, landed>>
deviceVars == <<request, device>>
decoderVars == <<decoder, aborted>>
loopVars == <<loop, box, posted, quit>>
lifeVars == <<mainVars, renders, file, readerVars, seekVars, seek_req, unmet,
              deviceVars, paused, decoderVars, callback, loopVars,
              abort_request, freed, overslept>>

LifeInit ==
    /\ main = "idle"
    /\ reader = None /\ format = "null" /\ landed = FileStart
    /\ start_time = Unset /\ seek_req = FALSE /\ seek_position = 0
    /\ wanted = Unset /\ asked = Unset /\ early = FALSE /\ unmet = FALSE
    /\ request = NoRequest
    /\ device = None /\ paused = FALSE
    /\ decoder = [q \in Streams |-> None]
    /\ aborted = [q \in Streams |-> TRUE]
    /\ callback = "idle"
    /\ loop = "idle" /\ box = <<>> /\ posted = {} /\ quit = FALSE
    /\ abort_request = FALSE /\ freed = {} /\ overslept = FALSE
    /\ seeks = 0 /\ toggles = 0

(* NotifyMsg.  A kind of message is posted once.                           *)
Post(m) ==
    /\ posted' = posted \union {m}
    /\ box' = IF quit \/ m \in posted THEN box ELSE Append(box, m)
    /\ UNCHANGED <<loop, quit>>

ReaderWoken == reader' = IF reader = "asleep" THEN "loop" ELSE reader

ReaderGoes(from, to) == reader = from /\ reader' = to

(* Steps of the reader that change nothing else.                           *)
others == <<deviceVars, decoderVars, callback, loopVars, overslept>>
OnlyReader(from, to) ==
    /\ ReaderGoes(from, to)
    /\ UNCHANGED <<format, landed, seek_req, unmet, others>>

-----------------------------------------------------------------------------
(* PrepareFormatContext.  A blocking call returns when it likes, or soon   *)
(* after the interrupt callback says that abort_request is set.            *)
AllocateContext ==
    /\ ReaderGoes("start", "opening")
    /\ format' = "fresh"
    /\ UNCHANGED <<landed, seek_req, unmet, others>>

OpenInput ==
    /\ \/ ReaderGoes("opening", "info") /\ UNCHANGED format
       \/ ReaderGoes("opening", "done") /\ format' = "null"
    /\ UNCHANGED <<landed, seek_req, unmet, others>>

FindStreamInfo ==
    /\ \/ ReaderGoes("info", "loaded") /\ format' = "open"
       \/ ReaderGoes("info", "done") /\ format' = "null"
    /\ UNCHANGED <<landed, seek_req, unmet, others>>

(* OnFormatContextOpen tells of the metadata and seeks to start_time.      *)
AnnounceMetadata ==
    /\ ReaderGoes("loaded", "seek_start")
    /\ Post("metadata")
    /\ UNCHANGED <<format, landed, seek_req, unmet, deviceVars, decoderVars,
                   callback, overslept>>

(* Mutant of Land: beyond the end of the file.                             *)
LandAnywhere(position) == landed' = position

Landing(position) == Max({FileStart, Min({position, FileStart + Duration})})
Land(position) == landed' = Landing(position)

(* Mutant of SeekToStart: the file begins where it begins.                 *)
BeginAtStart == OnlyReader("seek_start", "audio")

(* Only here the start of the file is added.  A failure is only logged.    *)
SeekToStart ==
    /\ ReaderGoes("seek_start", "audio")
    /\ \/ start_time = Unset /\ UNCHANGED <<landed, unmet>>
       \/ start_time # Unset /\ Land(start_time + FileStart) /\ UNCHANGED unmet
       \/ start_time # Unset /\ unmet' = (unmet \/ early) /\ UNCHANGED landed
    /\ UNCHANGED <<format, seek_req, others>>

(* ReadStreamInfo: nothing is disabled or asked for by name, so the best   *)
(* stream of a kind is found if the file has one.                          *)
Found(q) == q \in file

(* OpenStreams opens the sound first: StartDecoder can fail before the     *)
(* audio device is asked for anything.                                     *)
OpenSound ==
    \/ /\ Found("audio")
       /\ ReaderGoes("audio", "device")
       /\ request' = FirstRequest(WantedChannels, WantedRate)
       /\ UNCHANGED <<format, landed, seek_req, unmet, device, decoderVars,
                      callback, loopVars, overslept>>
    \/ OnlyReader("audio", "video")

(* A granted device can still have a format the player does not know.      *)
GrantDevice ==
    /\ ReaderGoes("device", "opened") \/ ReaderGoes("device", "video")
    /\ device' = "stopped" /\ request' = NoRequest
    /\ UNCHANGED <<format, landed, seek_req, unmet, decoderVars, callback,
                   loopVars, overslept>>

RefuseDevice ==
    LET next == NextRequest(request, WantedChannels) IN
    /\ request' = next
    /\ ReaderGoes("device",
                  IF NoMoreCombinations(next) THEN "video" ELSE "device")
    /\ UNCHANGED <<format, landed, seek_req, unmet, device, decoderVars,
                   callback, loopVars, overslept>>

(* BasicAudioRender::Open starts the device unless paused_.                *)
TestPaused == OnlyReader("opened", IF paused THEN "decoder" ELSE "on_start")

StartDevice ==
    /\ ReaderGoes("on_start", "decoder")
    /\ device' = "running"
    /\ UNCHANGED <<format, landed, seek_req, unmet, request, decoderVars,
                   callback, loopVars, overslept>>

(* The constructor of a decoder starts its packet queue and its thread.    *)
StartDecoder(q) ==
    /\ decoder' = [decoder EXCEPT ![q] = "starting"]
    /\ aborted' = [aborted EXCEPT ![q] = FALSE]
    /\ UNCHANGED <<format, landed, seek_req, unmet, deviceVars, callback,
                   loopVars, overslept>>

StartAudioDecoder == ReaderGoes("decoder", "video") /\ StartDecoder("audio")

(* A stream the player has no render for gets no decoder.  With no stream  *)
(* at all the reader ends, and tells nobody.                               *)
OpenPicture ==
    \/ /\ Found("video") /\ "video" \in renders
       /\ ReaderGoes("video", "loop") /\ StartDecoder("video")
    \/ OnlyReader("video", IF decoder["audio"] = None THEN "done" ELSE "loop")

-----------------------------------------------------------------------------
(* A round of ReadStreams: the abort flag, a seek, then enough is read     *)
(* ahead or the next packet is.                                            *)
TestAbort == OnlyReader("loop", IF abort_request THEN "done" ELSE "round")

(* A seek that fails is over too; it was not met.                          *)
BeginSeek ==
    /\ seek_req
    /\ ReaderGoes("round", "seeking")
    /\ \/ Land(seek_position) /\ UNCHANGED unmet
       \/ unmet' = TRUE /\ UNCHANGED landed
    /\ UNCHANGED <<format, seek_req, others>>

EndSeek ==
    /\ ReaderGoes("seeking", "served")
    /\ seek_req' = FALSE
    /\ UNCHANGED <<format, landed, unmet, others>>

isNeedReadMore ==
    \E from \in {"round", "served"}, to \in {"reading", "enough"} :
        /\ from = "round" => ~seek_req
        /\ OnlyReader(from, to)

(* The wait is of a mutex nobody else locks.                               *)
ReaderSleeps ==
    /\ ReaderGoes("enough", "asleep")
    /\ overslept' = (overslept \/ main = "join_reader")
    /\ UNCHANGED <<format, landed, seek_req, unmet, deviceVars, decoderVars,
                   callback, loopVars>>

(* av_read_frame: a packet for a decoder, the end of the file (the reader  *)
(* naps 10 ms) or an error.                                                *)
ReadFrame ==
    /\ \/ ReaderGoes("reading", "done") /\ UNCHANGED decoder
       \/ /\ ReaderGoes("reading", "loop")
          /\ \/ UNCHANGED decoder
             \/ \E q \in Streams :
                  /\ decoder[q] = "asleep"
                  /\ decoder' = [decoder EXCEPT ![q] = "checking"]
    /\ UNCHANGED <<format, landed, seek_req, unmet, aborted, deviceVars,
                   callback, loopVars, overslept>>

Blocking == OpenInput \/ FindStreamInfo \/ ReadFrame

Calling ==
    \/ AllocateContext \/ AnnounceMetadata \/ SeekToStart
    \/ OpenSound \/ GrantDevice \/ RefuseDevice \/ TestPaused \/ StartDevice
    \/ StartAudioDecoder \/ OpenPicture
    \/ TestAbort \/ BeginSeek \/ EndSeek \/ isNeedReadMore \/ ReaderSleeps

ReaderRests ==
    UNCHANGED <<mainVars, renders, file, seekVars, paused, abort_request, freed>>

Running == Calling /\ ReaderRests
Blocked == Blocking /\ ReaderRests
Interrupted == abort_request /\ Blocked

-----------------------------------------------------------------------------
(* The decoders: DecodeThread, and of DecodeFrame what it waits for.       *)
DecoderGoes(q, from, to) ==
    /\ decoder[q] = from
    /\ decoder' = [decoder EXCEPT ![q] = to]

OnlyDecoder(q, from, to) ==
    /\ DecoderGoes(q, from, to)
    /\ UNCHANGED <<reader, callback, loopVars, overslept>>

(* The video decoder looks at format_ctx, and then uses what it points to. *)
BeginDecoding(q) ==
    OnlyDecoder(q, "starting",
        IF q = "audio" THEN "checking"
        ELSE IF format = "null" THEN "ended" ELSE "measuring")

Measure(q) == OnlyDecoder(q, "measuring", "checking")

(* The flags are looked at before each packet; without one the decoder is  *)
(* about to wait.  A packet taken wakes the reader (NotifyQueueEmpty).     *)
SeeAbort(q) ==
    aborted[q] /\ \E from \in {"checking", "pushing"} : OnlyDecoder(q, from, "ended")

FindNothing(q) == ~aborted[q] /\ OnlyDecoder(q, "checking", "hungry")

TakePacket(q) ==
    /\ ~aborted[q]
    /\ DecoderGoes(q, "checking", "pushing")
    /\ ReaderWoken
    /\ UNCHANGED <<callback, loopVars, overslept>>

(* Nothing looks at the flags again when the decoder waits.                *)
WaitForPacket(q) ==
    /\ DecoderGoes(q, "hungry", "asleep")
    /\ ReaderWoken
    /\ overslept' = (overslept \/ aborted[q])
    /\ UNCHANGED <<callback, loopVars>>

(* A packet gives a frame or none.  PeekWritable waits while there is no   *)
(* room; a push wakes the callback.  The first picture is announced.       *)
PushFrame(q) ==
    /\ ~aborted[q]
    /\ DecoderGoes(q, "pushing", "checking")
    /\ IF q = "video" THEN Post("frame") /\ UNCHANGED callback
       ELSE /\ callback' = IF callback = "blocked" THEN "peek" ELSE callback
            /\ UNCHANGED loopVars
    /\ UNCHANGED <<reader, overslept>>

FindFull(q) == ~aborted[q] /\ OnlyDecoder(q, "pushing", "full")

(* The last wake-up of a thread that waits at the frame queue of q.        *)
Joining == {"join_audio", "join_video", "close", "deleted"}
Signalled(q) ==
    main \in Joining \/ (q = "audio" /\ main \in {"abort_video", "signal_video",
                                                  "signal_again"})

WaitForRoom(q) ==
    /\ DecoderGoes(q, "full", "blocked")
    /\ overslept' = (overslept \/ Signalled(q))
    /\ UNCHANGED <<reader, callback, loopVars>>

(* The main thread draws between its events.                               *)
DrawFrame == main = "idle" /\ OnlyDecoder("video", "blocked", "pushing")

Decoder(q) ==
    /\ \/ BeginDecoding(q) \/ Measure(q) \/ SeeAbort(q)
       \/ FindNothing(q) \/ TakePacket(q) \/ WaitForPacket(q)
       \/ PushFrame(q) \/ FindFull(q) \/ WaitForRoom(q)
    /\ UNCHANGED <<mainVars, renders, file, format, landed, seekVars, seek_req,
                   unmet, deviceVars, paused, aborted, abort_request, freed>>

-----------------------------------------------------------------------------
(* The callback of a device that runs; a paused render gives silence.  SDL *)
(* begins no callback once it closes the device.                           *)
OnlyCallback(from, to) ==
    /\ callback = from /\ callback' = to
    /\ UNCHANGED <<decoder, overslept>>

BeginCallback ==
    /\ device = "running" /\ ~paused /\ main # "close"
    /\ OnlyCallback("idle", "peek")

SilenceAfterAbort == aborted["audio"] /\ OnlyCallback("peek", "idle")

TakeFrame ==
    /\ ~aborted["audio"]
    /\ callback = "peek" /\ callback' = "idle"
    /\ decoder' = [decoder EXCEPT !["audio"] = IF @ = "blocked" THEN "pushing" ELSE @]
    /\ UNCHANGED overslept

FindNoFrame == ~aborted["audio"] /\ OnlyCallback("peek", "empty")

WaitForFrame ==
    /\ callback = "empty" /\ callback' = "blocked"
    /\ overslept' = (overslept \/ Signalled("audio"))
    /\ UNCHANGED decoder

Callback ==
    /\ \/ BeginCallback \/ SilenceAfterAbort \/ TakeFrame
       \/ FindNoFrame \/ WaitForFrame
    /\ UNCHANGED <<mainVars, renders, file, readerVars, seekVars, seek_req,
                   unmet, deviceVars, paused, aborted, loopVars, abort_request,
                   freed>>

-----------------------------------------------------------------------------
(* The message loop.  A playing player that has a stream comes to END.     *)
LoopRests ==
    UNCHANGED <<mainVars, renders, file, readerVars, seekVars, seek_req, unmet,
                deviceVars, paused, decoderVars, callback, abort_request,
                freed, overslept>>

DoSomeWork ==
    /\ loop = "idle" /\ ~quit
    /\ ~paused /\ reader \in {"loop", "round", "asleep", "reading", "done"}
    /\ \E q \in Streams : decoder[q] # None
    /\ "end" \notin posted /\ Post("end")
    /\ LoopRests

TakeMessage ==
    /\ loop = "idle" /\ box # <<>>
    /\ loop' = Head(box) /\ box' = Tail(box)
    /\ UNCHANGED <<posted, quit>>
    /\ LoopRests

EndLoop ==
    /\ loop = "idle" /\ quit
    /\ loop' = "ended"
    /\ UNCHANGED <<box, posted, quit>>
    /\ LoopRests

Handling == loop \notin {"idle", "ended"}

CallbackReturns ==
    /\ Handling
    /\ loop' = "idle"
    /\ UNCHANGED <<box, posted, quit>>
    /\ LoopRests

-----------------------------------------------------------------------------
(* The main thread: its calls take a step wherever another thread can be   *)
(* seen, and end in a state the host names.                                *)
MainGoes(from, to) == main = from /\ main' = to

(* DataSource::Open starts the reader.                                     *)
StartReader ==
    /\ reader' = "start"
    /\ UNCHANGED <<renders, file, format, landed, seekVars, seek_req, unmet,
                   deviceVars, paused, decoderVars, callback, loopVars,
                   abort_request, freed, overslept>>

(* AudioRenderBase::Start and Stop; StopRenders waits for the callback.    *)
SetPaused(to) ==
    /\ paused' = to
    /\ UNCHANGED <<renders, file, readerVars, seekVars, seek_req, unmet,
                   deviceVars, decoderVars, callback, loopVars, abort_request,
                   freed, overslept>>

SwitchDevice ==
    /\ callback = "idle"
    /\ device' = IF device = None THEN None
                 ELSE IF paused THEN "stopped" ELSE "running"
    /\ UNCHANGED <<renders, file, readerVars, seekVars, seek_req, unmet,
                   request, paused, decoderVars, callback, loopVars,
                   abort_request, freed, overslept>>

(* Seek: before the file is open the position goes to start_time, which    *)
(* is looked at once, so that a store after that is dropped.  Afterwards   *)
(* it is clamped to the duration, unknown until the stream info is found,  *)
(* and requested, or dropped if a request waits.  What is read of a        *)
(* context freed by a failed open in between is undefined; the reader has  *)
(* ended and serves no request then.                                       *)
SeekRests ==
    UNCHANGED <<seeks, toggles, renders, file, format, landed, deviceVars,
                paused, decoderVars, callback, loopVars, abort_request, freed,
                overslept>>

BeginSeekCall(position) ==
    /\ wanted' = position
    /\ UNCHANGED <<renders, file, readerVars, start_time, seek_position, asked,
                   early, seek_req, unmet, deviceVars, paused, decoderVars,
                   callback, loopVars, abort_request, freed, overslept>>

LookForFormat ==
    /\ MainGoes("seek", IF format = "null" THEN "start_time" ELSE "clamp")
    /\ UNCHANGED <<reader, seekVars, seek_req, unmet>> /\ SeekRests

Unread == reader \in {"start", "opening", "info", "loaded", "seek_start"}

Accepted(through_start_time, is_unmet) ==
    asked' = wanted /\ early' = through_start_time /\ unmet' = is_unmet

StoreStartTime ==
    /\ MainGoes("start_time", "idle")
    /\ start_time' = wanted
    /\ IF Unread THEN Accepted(TRUE, FALSE) ELSE UNCHANGED <<asked, early, unmet>>
    /\ UNCHANGED <<reader, seek_position, wanted, seek_req>> /\ SeekRests

SeekDropped ==
    /\ seek_req
    /\ MainGoes("clamp", "idle")
    /\ UNCHANGED <<reader, seekVars, seek_req, unmet>> /\ SeekRests

StorePosition ==
    /\ MainGoes("clamp", "request")
    /\ seek_position' = IF format = "open" THEN Min({wanted, Duration}) ELSE 0
    /\ Accepted(FALSE, format # "open")
    /\ UNCHANGED <<reader, start_time, wanted, seek_req>> /\ SeekRests

(* Mutant of TestPending: a request that waits is overwritten.             *)
RequestAnyway == StorePosition

TestPending == SeekDropped \/ (~seek_req /\ StorePosition)

RequestSeek ==
    /\ MainGoes("request", "notify")
    /\ seek_req' = TRUE
    /\ UNCHANGED <<reader, seekVars, unmet>> /\ SeekRests

NotifySeek ==
    /\ MainGoes("notify", "idle")
    /\ ReaderWoken
    /\ UNCHANGED <<seekVars, seek_req, unmet>> /\ SeekRests

SeekCall ==
    \/ LookForFormat \/ StoreStartTime \/ TestPending \/ RequestSeek
    \/ NotifySeek

-----------------------------------------------------------------------------
(* The destructor: StopAndWait, then the members in the reverse of their   *)
(* order, DataSource and with it the last reference to DecoderContext.     *)
DeleteRests ==
    UNCHANGED <<seeks, toggles, renders, file, landed, seekVars, seek_req,
                unmet, request, paused, overslept>>

QuitLoop ==
    /\ MainGoes("delete", "join_loop")
    /\ quit' = TRUE /\ box' = <<>>
    /\ UNCHANGED <<reader, format, device, decoderVars, callback, loop, posted,
                   abort_request, freed>>
    /\ DeleteRests

(* Mutant of JoinLoop: the thread is not joined.                           *)
LeaveLoop ==
    /\ MainGoes("join_loop", "abort_reader")
    /\ freed' = freed \union {"player"}
    /\ UNCHANGED <<reader, format, device, decoderVars, callback, loopVars,
                   abort_request>>
    /\ DeleteRests

JoinLoop ==
    /\ loop = "ended"
    /\ MainGoes("join_loop", "abort_reader")
    /\ freed' = freed \union {"player"}
    /\ UNCHANGED <<reader, format, device, decoderVars, callback, loopVars,
                   abort_request>>
    /\ DeleteRests

AbortReader ==
    /\ MainGoes("abort_reader", "notify_reader")
    /\ abort_request' = TRUE
    /\ UNCHANGED <<reader, format, device, decoderVars, callback, loopVars,
                   freed>>
    /\ DeleteRests

NotifyReader ==
    /\ MainGoes("notify_reader", "join_reader")
    /\ ReaderWoken
    /\ UNCHANGED <<format, device, decoderVars, callback, loopVars,
                   abort_request, freed>>
    /\ DeleteRests

JoinReader ==
    /\ reader = "done"
    /\ MainGoes("join_reader", "abort_audio")
    /\ format' = "null"
    /\ UNCHANGED <<reader, device, decoderVars, callback, loopVars,
                   abort_request, freed>>
    /\ DeleteRests

(* Decoder::Abort: the packet queue and then the wait of its render.       *)
AbortQueue(q, from, to) ==
    /\ MainGoes(from, to)
    /\ IF decoder[q] = None THEN UNCHANGED decoderVars
       ELSE /\ aborted' = [aborted EXCEPT ![q] = TRUE]
            /\ decoder' = [decoder EXCEPT ![q] =
                             IF @ = "asleep" THEN "checking" ELSE @]
    /\ UNCHANGED <<reader, format, device, callback, loopVars, abort_request,
                   freed>>
    /\ DeleteRests

SignalRender(q, from, to) ==
    /\ MainGoes(from, to)
    /\ decoder' = [decoder EXCEPT ![q] = IF @ = "blocked" THEN "pushing" ELSE @]
    /\ callback' = IF q = "audio" /\ callback = "blocked" THEN "peek" ELSE callback
    /\ UNCHANGED <<reader, format, device, aborted, loopVars, abort_request,
                   freed>>
    /\ DeleteRests

JoinDecoder(q, from, to) ==
    /\ decoder[q] \in {None, "ended"}
    /\ MainGoes(from, to)
    /\ freed' = freed \union {q}
    /\ UNCHANGED <<reader, format, device, decoderVars, callback, loopVars,
                   abort_request>>
    /\ DeleteRests

(* The last reference to the render closes the device.                     *)
CloseDevice ==
    /\ callback = "idle"
    /\ MainGoes("close", "deleted")
    /\ device' = None
    /\ freed' = freed \union {"render"}
    /\ UNCHANGED <<reader, format, decoderVars, callback, loopVars,
                   abort_request>>
    /\ DeleteRests

Delete ==
    \/ QuitLoop \/ JoinLoop \/ AbortReader \/ NotifyReader \/ JoinReader
    \/ AbortQueue("audio", "abort_audio", "signal_audio")
    \/ SignalRender("audio", "signal_audio", "abort_video")
    \/ AbortQueue("video", "abort_video", "signal_video")
    \/ SignalRender("video", "signal_video", "signal_again")
    \/ SignalRender("video", "signal_again", "join_audio")
    \/ JoinDecoder("audio", "join_audio", "join_video")
    \/ JoinDecoder("video", "join_video", "close")
    \/ CloseDevice
=============================================================================
