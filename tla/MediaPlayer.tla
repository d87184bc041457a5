---------------------------- MODULE MediaPlayer ----------------------------
(***************************************************************************)
(* The state machine of a player, src/ffplayer/media_player.{h,cc}: the    *)
(* user interface opens, seeks and plays or pauses, the message thread     *)
(* runs DoSomeWork for each DO_SOME_WORK message, and each change of       *)
(* player_state_ is announced by a message that the same thread hands to   *)
(* the application.  player_state_ and play_when_ready_ have no lock.      *)
(*                                                                         *)
(* The message queue is a Mailbox, as MessageQueue shows.  Reading,        *)
(* decoding and rendering are here what DoSomeWork can see of them, and    *)
(* their sleeps end when they should: Pipeline has the detail, and the     *)
(* wake-ups that are lost.                                                 *)
(*                                                                         *)
(* Left out: the clocks that PauseClock stops, volume, queries, a seek     *)
(* before the file is open, and destruction (closed stays FALSE).          *)
(***************************************************************************)
EXTENDS Naturals, Sequences, SequencesExt

CONSTANTS
    Streams,                \* the streams a file can have
    Files,                  \* the files: streams with their kind and packets
    User, Loop,             \* the thread of the interface and of messages
    MinFrames,              \* the reader sleeps above this
    ReadyPackets,           \* nb_packets has to pass this for READY
    FrameQueueSize,
    MaxSeeks, MaxToggles    \* bounds on the calls of the interface

ASSUME MediaPlayerAssumption ==
    /\ IsFiniteSet(Streams)
    /\ \A f \in Files : f \in [DOMAIN f -> [kind : {"audio", "video", "cover"},
                                         packets : Nat]]
                       /\ DOMAIN f \subseteq Streams
    /\ MaxSeeks \in Nat /\ MaxToggles \in Nat /\ FrameQueueSize \in Nat

VARIABLES
    messages, current, closed,  \* see Mailbox
    player_state, play_when_ready, paused,
    announce,               \* the state a thread is about to post
    user,                   \* where the interface is in its call
    work, unseen,           \* where DoSomeWork is, the streams not asked yet
    allow, done,            \* render_allow_playback, decoder_finished
    running,                \* the renderers are started
    samples,                \* audio_buf is not used up
    file, reading, asleep, seek_req, eof, unread,     \* the reader
    queue, hand, frames, finished,                      \* each stream
    seeks, toggles

boxVars == <<messages, current, closed>>
machineVars == <<player_state, play_when_ready, paused, announce>>
userVars == <<user, seeks, toggles>>
workVars == <<work, unseen, allow, done>>
renderVars == <<running, samples>>
readerVars == <<file, reading, asleep, seek_req, eof, unread>>
streamVars == <<queue, hand, frames, finished>>
vars == <<boxVars, machineVars, userVars, workVars, renderVars, readerVars,
          streamVars>>

States == {"IDLE", "READY", "BUFFERING", "END"}
Work == "DO_SOME_WORK"
Nothing == "nothing"
Threads == {User, Loop}

Opened == DOMAIN file
opened == Opened # {}
Sounds == {q \in Opened : file[q].kind = "audio"}
Covers == {q \in Opened : file[q].kind = "cover"}

Box == INSTANCE Mailbox WITH
    Messages <- States \union {Work}, NoMessage <- Nothing

Init ==
    /\ Box!Init
    /\ player_state = "IDLE"
    /\ play_when_ready = FALSE /\ paused = FALSE
    /\ announce = [t \in Threads |-> Nothing]
    /\ user = "idle" /\ seeks = 0 /\ toggles = 0
    /\ work = "idle" /\ unseen = <<>> /\ allow = TRUE /\ done = TRUE
    /\ running = FALSE
    /\ samples = [q \in Streams |-> FALSE]
    /\ file = <<>> /\ reading = FALSE /\ asleep = FALSE
    /\ seek_req = FALSE /\ eof = FALSE
    /\ unread = [q \in Streams |-> 0]
    /\ queue = [q \in Streams |-> <<>>]
    /\ hand = [q \in Streams |-> FALSE]
    /\ frames = [q \in Streams |-> 0]
    /\ finished = [q \in Streams |-> FALSE]

(* EnqueueMessage                                                          *)
Enqueue(m) ==
    IF Box!WaitsBehindHead(m) THEN UNCHANGED boxVars ELSE Box!Post(m)

-----------------------------------------------------------------------------
(* ChangePlaybackState compares and assigns, then posts.  What it posts is *)
(* player_state_ read again, or what it assigned.                          *)
ChangePlaybackState(t, s) ==
    /\ player_state' = s
    /\ announce' =
         [announce EXCEPT ![t] = IF player_state = s THEN Nothing ELSE s]

Announce(t) ==
    /\ announce[t] # Nothing
    /\ \E s \in {announce[t], player_state} : Enqueue(s)
    /\ announce' = [announce EXCEPT ![t] = Nothing]
    /\ UNCHANGED <<player_state, play_when_ready, paused, userVars, workVars,
                   renderVars, readerVars, streamVars>>

Through(t) == announce[t] = Nothing

-----------------------------------------------------------------------------
(* The calls of the interface, one at a time.                              *)
UserGoes(from, to) ==
    /\ user = from /\ user' = to
    /\ Through(User)

(* What a queue holds when the file is opened and after a seek: the flush  *)
(* packet.  Nobody asks for the frame of a cover, only for its end.        *)
Fresh(f) ==
    /\ eof' = FALSE
    /\ unread' = [q \in Streams |-> IF q \in DOMAIN f THEN f[q].packets ELSE 0]
    /\ queue' = [q \in Streams |->
         IF q \notin DOMAIN f THEN <<>>
         ELSE IF f[q].kind = "cover" THEN <<"null">> ELSE <<"flush">>]

(* OpenDataSource starts the reader, then changes the state, then pauses.  *)
OpenDataSource ==
    /\ ~opened
    /\ UserGoes("idle", "opened")
    /\ \E f \in Files : file' = f /\ Fresh(f)
    /\ UNCHANGED <<boxVars, machineVars, seeks, toggles, workVars, renderVars,
                   reading, asleep, seek_req, hand, frames, finished>>

OpenBuffering ==
    /\ UserGoes("opened", "pause")
    /\ ChangePlaybackState(User, "BUFFERING")
    /\ UNCHANGED <<boxVars, play_when_ready, paused, seeks, toggles, workVars,
                   renderVars, readerVars, streamVars>>

(* SetPlayWhenReady sets the flag and pauses the reader, then starts or    *)
(* stops the renderers.  Setting it to what it is changes nothing.         *)
SetPlayWhenReady(play) ==
    /\ play_when_ready' = play
    /\ paused' = ~play
    /\ UNCHANGED <<boxVars, player_state, announce, seeks, workVars, renderVars,
                   readerVars, streamVars>>

OpenPaused ==
    /\ UserGoes("pause", "renders")
    /\ SetPlayWhenReady(FALSE)
    /\ UNCHANGED toggles

PlayOrPause ==
    /\ opened
    /\ toggles < MaxToggles
    /\ UserGoes("idle", "renders")
    /\ SetPlayWhenReady(~play_when_ready)
    /\ toggles' = toggles + 1

SwitchRenders ==
    /\ UserGoes("renders", "idle")
    /\ running' = play_when_ready
    /\ UNCHANGED <<boxVars, machineVars, seeks, toggles, workVars, samples,
                   readerVars, streamVars>>

Seek ==
    /\ opened
    /\ seeks < MaxSeeks
    /\ UserGoes("idle", "seek")
    /\ ChangePlaybackState(User, "BUFFERING")
    /\ seeks' = seeks + 1
    /\ UNCHANGED <<boxVars, play_when_ready, paused, toggles, workVars,
                   renderVars, readerVars, streamVars>>

(* SeekToChapter leaves the state alone.                                   *)
SeekToChapter ==
    /\ opened
    /\ seeks < MaxSeeks
    /\ UserGoes("idle", "seek")
    /\ seeks' = seeks + 1
    /\ UNCHANGED <<boxVars, machineVars, toggles, workVars, renderVars,
                   readerVars, streamVars>>

(* DataSource::Seek                                                        *)
RequestSeek ==
    /\ UserGoes("seek", "idle")
    /\ seek_req' = TRUE
    /\ asleep' = FALSE
    /\ UNCHANGED <<boxVars, machineVars, seeks, toggles, workVars, renderVars,
                   file, reading, eof, unread, streamVars>>

-----------------------------------------------------------------------------
(* The message thread: a state goes to the application, DO_SOME_WORK runs  *)
(* DoSomeWork.                                                             *)
TellApplication ==
    /\ messages # <<>> /\ Head(messages) # Work
    /\ Box!Hand
    /\ UNCHANGED <<player_state, play_when_ready, paused, announce, userVars,
                   workVars, renderVars, readerVars, streamVars>>

BeginWork ==
    /\ messages # <<>> /\ Head(messages) = Work
    /\ Box!Hand
    /\ work' = "render"
    /\ unseen' = SetToSeq(Opened)
    /\ UNCHANGED <<machineVars, userVars, allow, done, renderVars, readerVars,
                   streamVars>>

(* First it asks each stream, the renderer and then the decoder.  A cover  *)
(* counts as ready, whatever its renderer says.                            *)
AudioReady(q) == frames[q] > 0 \/ samples[q]

VideoReady(q) == frames[q] > 0

IsReady(q) ==
    \/ q \in Sounds /\ AudioReady(q)
    \/ q \in Opened \ Sounds /\ VideoReady(q)
    \/ q \in Covers

DecoderFinished(q) == finished[q]

AskRender ==
    /\ work = "render" /\ unseen # <<>>
    /\ allow' = (allow /\ IsReady(Head(unseen)))
    /\ work' = "decoder"
    /\ UNCHANGED <<boxVars, machineVars, userVars, unseen, done, renderVars,
                   readerVars, streamVars>>

AskDecoder ==
    /\ work = "decoder"
    /\ done' = (done /\ DecoderFinished(Head(unseen)))
    /\ unseen' = Tail(unseen)
    /\ work' = "render"
    /\ UNCHANGED <<boxVars, machineVars, userVars, allow, renderVars,
                   readerVars, streamVars>>

EndReached == play_when_ready /\ done /\ ~allow

IsReadComplete == ~paused /\ eof

ShouldTransitionToReadyState ==
    /\ allow
    /\ \/ IsReadComplete
       \/ \A q \in Opened \ Covers : Len(queue[q]) > ReadyPackets

(* Then it changes the state, or not.                                      *)
Decided ==
    /\ work = "render" /\ unseen = <<>>
    /\ work' = "idle" /\ allow' = TRUE /\ done' = TRUE
    /\ UNCHANGED <<boxVars, play_when_ready, paused, userVars, unseen,
                   renderVars, readerVars, streamVars>>

(* Mutant of End: the test of the state that the other changes have.       *)
EndFromReady ==
    /\ EndReached /\ player_state = "READY"
    /\ ChangePlaybackState(Loop, "END")
    /\ Decided

End ==
    /\ EndReached
    /\ ChangePlaybackState(Loop, "END")
    /\ Decided

Rebuffer ==
    /\ ~EndReached
    /\ player_state = "READY" /\ ~allow
    /\ ChangePlaybackState(Loop, "BUFFERING")
    /\ Decided

GetReady ==
    /\ ~EndReached
    /\ player_state = "BUFFERING" /\ ShouldTransitionToReadyState
    /\ ChangePlaybackState(Loop, "READY")
    /\ Decided

StayAsIs ==
    /\ ~EndReached
    /\ ~(player_state = "READY" /\ ~allow)
    /\ ~(player_state = "BUFFERING" /\ ShouldTransitionToReadyState)
    /\ UNCHANGED <<player_state, announce>>
    /\ Decided

EndCallback ==
    /\ work = "idle" /\ Through(Loop)
    /\ Box!Handled
    /\ UNCHANGED <<machineVars, userVars, workVars, renderVars, readerVars,
                   streamVars>>

-----------------------------------------------------------------------------
(* A round of the reader serves a seek, sleeps if there is enough, and     *)
(* otherwise posts DO_SOME_WORK and reads; at the end of the file, where   *)
(* it puts the null packets once (a cover has one), it naps instead.       *)
ServeSeek ==
    /\ seek_req /\ ~reading /\ ~asleep
    /\ seek_req' = FALSE
    /\ Fresh(file)
    /\ finished' = [q \in Streams |-> FALSE]
    /\ UNCHANGED <<boxVars, machineVars, userVars, workVars, renderVars,
                   file, reading, asleep, hand, frames>>

isNeedReadMore == \E q \in Opened \ Covers : Len(queue[q]) <= MinFrames

BeginRound ==
    /\ opened /\ ~reading /\ ~asleep /\ ~seek_req
    /\ IF isNeedReadMore
       THEN reading' = TRUE /\ Enqueue(Work) /\ UNCHANGED asleep
       ELSE asleep' = TRUE /\ UNCHANGED <<boxVars, reading>>
    /\ UNCHANGED <<machineVars, userVars, workVars, renderVars, file,
                   seek_req, eof, unread, streamVars>>

ReadPacket(q) ==
    /\ reading /\ unread[q] > 0
    /\ reading' = FALSE
    /\ unread' = [unread EXCEPT ![q] = @ - 1]
    /\ queue' = [queue EXCEPT ![q] = Append(@, "data")]
    /\ UNCHANGED <<boxVars, machineVars, userVars, workVars, renderVars,
                   file, asleep, seek_req, eof, hand, frames, finished>>

ReadEnd ==
    /\ reading /\ \A q \in Streams : unread[q] = 0
    /\ reading' = FALSE
    /\ eof' = TRUE
    /\ queue' = [q \in Streams |->
         IF eof \/ q \notin Opened \ Covers THEN queue[q] ELSE Append(queue[q], "null")]
    /\ UNCHANGED <<boxVars, machineVars, userVars, workVars, renderVars,
                   file, asleep, seek_req, unread, hand, frames, finished>>

(* A decoder that takes a packet wakes the reader (NotifyQueueEmpty); the  *)
(* mutant does not.                                                        *)
TakePacketQuietly(q) ==
    /\ ~hand[q] /\ queue[q] # <<>>
    /\ hand' = [hand EXCEPT ![q] = (Head(queue[q]) = "data")]
    /\ finished' = [finished EXCEPT ![q] = @ \/ Head(queue[q]) = "null"]
    /\ queue' = [queue EXCEPT ![q] = Tail(@)]
    /\ UNCHANGED <<boxVars, machineVars, userVars, workVars, renderVars,
                   readerVars, frames>>

TakePacket(q) ==
    /\ ~hand[q] /\ queue[q] # <<>>
    /\ hand' = [hand EXCEPT ![q] = (Head(queue[q]) = "data")]
    /\ finished' = [finished EXCEPT ![q] = @ \/ Head(queue[q]) = "null"]
    /\ queue' = [queue EXCEPT ![q] = Tail(@)]
    /\ asleep' = FALSE
    /\ UNCHANGED <<boxVars, machineVars, userVars, workVars, renderVars, file,
                   reading, seek_req, eof, unread, frames>>

(* Mutant of PushFrame: it does not wait for room.                         *)
PushFrameAnyway(q) ==
    /\ hand[q]
    /\ hand' = [hand EXCEPT ![q] = FALSE]
    /\ frames' = [frames EXCEPT ![q] = @ + 1]
    /\ UNCHANGED <<boxVars, machineVars, userVars, workVars, renderVars,
                   readerVars, queue, finished>>

PushFrame(q) ==
    /\ hand[q] /\ frames[q] < FrameQueueSize
    /\ hand' = [hand EXCEPT ![q] = FALSE]
    /\ frames' = [frames EXCEPT ![q] = @ + 1]
    /\ UNCHANGED <<boxVars, machineVars, userVars, workVars, renderVars,
                   readerVars, queue, finished>>

(* The audio callback waits for a frame, fills audio_buf and posts         *)
(* DO_SOME_WORK; it copies the samples out.                                *)
FillBuffer(q) ==
    /\ running /\ q \in Sounds /\ ~samples[q] /\ frames[q] > 0
    /\ frames' = [frames EXCEPT ![q] = @ - 1]
    /\ samples' = [samples EXCEPT ![q] = TRUE]
    /\ Enqueue(Work)
    /\ UNCHANGED <<machineVars, userVars, workVars, running, readerVars, queue,
                   hand, finished>>

UseBuffer(q) ==
    /\ running /\ q \in Sounds /\ samples[q]
    /\ samples' = [samples EXCEPT ![q] = FALSE]
    /\ UNCHANGED <<boxVars, machineVars, userVars, workVars, running,
                   readerVars, streamVars>>

(* DrawFrame takes a picture and posts nothing.                            *)
DrawFrame(q) ==
    /\ running /\ q \notin Sounds /\ frames[q] > 0
    /\ frames' = [frames EXCEPT ![q] = @ - 1]
    /\ UNCHANGED <<boxVars, machineVars, userVars, workVars, renderVars,
                   readerVars, queue, hand, finished>>

-----------------------------------------------------------------------------
UserCall == OpenDataSource \/ PlayOrPause \/ Seek \/ SeekToChapter

UserStep ==
    OpenBuffering \/ OpenPaused \/ SwitchRenders \/ RequestSeek

DoSomeWork ==
    \/ BeginWork \/ AskRender \/ AskDecoder
    \/ End \/ Rebuffer \/ GetReady \/ StayAsIs

MessageThread == TellApplication \/ DoSomeWork \/ EndCallback

Reader ==
    \/ ServeSeek \/ BeginRound \/ ReadEnd
    \/ \E q \in Streams : ReadPacket(q)

Decoder(q) == TakePacket(q) \/ PushFrame(q)

Callback(q) == FillBuffer(q) \/ UseBuffer(q)

Next ==
    \/ UserCall \/ UserStep
    \/ MessageThread
    \/ \E t \in Threads : Announce(t)
    \/ Reader
    \/ \E q \in Streams : Decoder(q) \/ Callback(q) \/ DrawFrame(q)

(* Threads that can run do, and calls that have begun end; the interface   *)
(* need not call.                                                          *)
Fairness ==
    /\ WF_vars(UserStep)
    /\ WF_vars(MessageThread)
    /\ \A t \in Threads : WF_vars(Announce(t))
    /\ WF_vars(Reader)
    /\ \A q \in Streams :
         WF_vars(Decoder(q)) /\ WF_vars(Callback(q)) /\ WF_vars(DrawFrame(q))

Spec == Init /\ [][Next]_vars
FairSpec == Spec /\ Fairness

-----------------------------------------------------------------------------
(* The values the fields take.                                             *)
TypeOK ==
    /\ messages \in Seq(States \union {Work})
    /\ current \in States \union {Work, Nothing}
    /\ closed = FALSE
    /\ player_state \in States
    /\ play_when_ready \in BOOLEAN /\ paused \in BOOLEAN
    /\ announce \in [Threads -> States \union {Nothing}]
    /\ user \in {"idle", "opened", "pause", "renders", "seek"}
    /\ seeks \in 0 .. MaxSeeks /\ toggles \in 0 .. MaxToggles
    /\ work \in {"idle", "render", "decoder"}
    /\ unseen \in Seq(Streams)
    /\ allow \in BOOLEAN /\ done \in BOOLEAN /\ running \in BOOLEAN
    /\ samples \in [Streams -> BOOLEAN]
    /\ file \in Files \union {<<>>} /\ reading \in BOOLEAN /\ asleep \in BOOLEAN
    /\ seek_req \in BOOLEAN /\ eof \in BOOLEAN
    /\ unread \in [Streams -> Nat]
    /\ \A q \in Opened : unread[q] <= file[q].packets
    /\ queue \in [Streams -> Seq({"flush", "data", "null"})]
    /\ hand \in [Streams -> BOOLEAN]
    /\ frames \in [Streams -> 0 .. FrameQueueSize]
    /\ finished \in [Streams -> BOOLEAN]

(* Liveness: a player that is left paused, with a frame of each stream and *)
(* packets enough, gets READY, although a reader that sleeps and renderers *)
(* that stand still post no DO_SOME_WORK.                                  *)
LeftPaused ==
    /\ opened /\ ~play_when_ready /\ user = "idle" /\ ~seek_req
    /\ \A q \in Opened : IsReady(q)
    /\ \A q \in Opened \ Covers : Len(queue[q]) > ReadyPackets
PausedGetsReady == <>[]LeftPaused => []<>(player_state = "READY")

(* Liveness: left playing, the player comes to END and stays there,        *)
(* whatever order its seeks and the messages came in.                      *)
LeftPlaying == opened /\ play_when_ready /\ user = "idle"
EndComes == <>[]LeftPlaying => <>[](player_state = "END")

(* The example plays a file again by a seek when it hears of END           *)
(* (main.dart:66): when no message is on its way, no call going on and no  *)
(* seek pending, a player in END has decoded its file to the end.          *)
Quiet ==
    /\ messages = <<>> /\ current = Nothing
    /\ \A t \in Threads : Through(t)
    /\ user = "idle" /\ ~seek_req
EndMeansFinished ==
    Quiet /\ player_state = "END" => \A q \in Opened : finished[q]
=============================================================================
