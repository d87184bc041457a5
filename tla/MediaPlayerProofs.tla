------------------------- MODULE MediaPlayerProofs -------------------------
(* Proofs about MediaPlayer, for any files, streams and bounds.            *)
EXTENDS MediaPlayer, FiniteSetTheorems, TLAPS

(* The type of each group of variables.  DoSomeWork asks a decoder only    *)
(* for a stream it has not asked yet, so the head of unseen is a stream.   *)
BoxOK ==
    /\ messages \in Seq(States \union {Work})
    /\ current \in States \union {Work, Nothing}
    /\ closed = FALSE

MachineOK ==
    /\ player_state \in States
    /\ play_when_ready \in BOOLEAN /\ paused \in BOOLEAN
    /\ announce \in [Threads -> States \union {Nothing}]

UserOK ==
    /\ user \in {"idle", "opened", "pause", "renders", "seek"}
    /\ seeks \in 0 .. MaxSeeks /\ toggles \in 0 .. MaxToggles

WorkOK ==
    /\ work \in {"idle", "render", "decoder"}
    /\ unseen \in Seq(Streams)
    /\ allow \in BOOLEAN /\ done \in BOOLEAN
    /\ work = "decoder" => unseen # <<>>

RenderOK == running \in BOOLEAN /\ samples \in [Streams -> BOOLEAN]

FileOK ==
    /\ file \in Files \union {<<>>}
    /\ unread \in [Streams -> Nat]
    /\ \A q \in Opened : unread[q] <= file[q].packets

LoopOK ==
    /\ reading \in BOOLEAN /\ asleep \in BOOLEAN
    /\ seek_req \in BOOLEAN /\ eof \in BOOLEAN

StreamOK ==
    /\ queue \in [Streams -> Seq({"flush", "data", "null"})]
    /\ hand \in [Streams -> BOOLEAN]
    /\ frames \in [Streams -> 0 .. FrameQueueSize]
    /\ finished \in [Streams -> BOOLEAN]

IInv ==
    /\ BoxOK /\ MachineOK /\ UserOK /\ WorkOK
    /\ RenderOK /\ FileOK /\ LoopOK /\ StreamOK

-----------------------------------------------------------------------------
(* The streams that BeginWork lists are a sequence.                        *)
LEMMA SetToSeqType ==
    ASSUME NEW S, IsFiniteSet(S), NEW T, S \subseteq T
    PROVE  SetToSeq(S) \in Seq(T)
<1>1. /\ Cardinality(S) \in Nat
      /\ ExistsBijection(1 .. Cardinality(S), S)
  BY FS_CardinalityType
<1>2. PICK f \in [1 .. Cardinality(S) -> S] : IsInjective(f)
  BY <1>1 DEF ExistsBijection, Bijection, Injection, IsInjective
<1>3. SetToSeq(S) \in [1 .. Cardinality(S) -> S]
  BY <1>2 DEF SetToSeq
<1>4. SetToSeq(S) \in Seq(S)
  BY <1>1, <1>3
<1>5. QED
  BY <1>4

(* What is opened are streams, with their kind and packets.                *)
LEMMA OpenedType ==
    ASSUME FileOK
    PROVE  /\ Opened \subseteq Streams
           /\ \A q \in Opened : file[q].packets \in Nat
<1>1. CASE file \in Files
  BY <1>1, MediaPlayerAssumption DEF Opened
<1>2. CASE file = <<>>
  BY <1>2 DEF Opened
<1>3. QED
  BY <1>1, <1>2 DEF FileOK

(* Taking and putting, at the ends of a list.                              *)
LEMMA HeadTail ==
    ASSUME NEW S, NEW s \in Seq(S), s # <<>>
    PROVE  Head(s) \in S /\ Tail(s) \in Seq(S)
OBVIOUS

LEMMA AppendType ==
    ASSUME NEW S, NEW s \in Seq(S), NEW x \in S
    PROVE  Append(s, x) \in Seq(S)
OBVIOUS

(* A group that a step leaves alone keeps its type.                        *)
LEMMA LeftAlone ==
    /\ BoxOK /\ UNCHANGED boxVars => BoxOK'
    /\ MachineOK /\ UNCHANGED machineVars => MachineOK'
    /\ UserOK /\ UNCHANGED userVars => UserOK'
    /\ WorkOK /\ UNCHANGED workVars => WorkOK'
    /\ RenderOK /\ UNCHANGED renderVars => RenderOK'
    /\ FileOK /\ UNCHANGED <<file, unread>> => FileOK'
    /\ LoopOK /\ UNCHANGED <<reading, asleep, seek_req, eof>> => LoopOK'
    /\ StreamOK /\ UNCHANGED streamVars => StreamOK'
<1>1. BoxOK /\ UNCHANGED boxVars => BoxOK'
  BY DEF BoxOK, boxVars
<1>2. MachineOK /\ UNCHANGED machineVars => MachineOK'
  BY DEF MachineOK, machineVars
<1>3. UserOK /\ UNCHANGED userVars => UserOK'
  BY DEF UserOK, userVars
<1>4. WorkOK /\ UNCHANGED workVars => WorkOK'
  BY DEF WorkOK, workVars
<1>5. RenderOK /\ UNCHANGED renderVars => RenderOK'
  BY DEF RenderOK, renderVars
<1>6. FileOK /\ UNCHANGED <<file, unread>> => FileOK'
  BY DEF FileOK, Opened
<1>7. LoopOK /\ UNCHANGED <<reading, asleep, seek_req, eof>> => LoopOK'
  BY DEF LoopOK
<1>8. StreamOK /\ UNCHANGED streamVars => StreamOK'
  BY DEF StreamOK, streamVars
<1>9. QED
  BY <1>1, <1>2, <1>3, <1>4, <1>5, <1>6, <1>7, <1>8

-----------------------------------------------------------------------------
(* The steps of the message queue.                                         *)
LEMMA EnqueueType ==
    ASSUME BoxOK, NEW m \in States \union {Work}, Enqueue(m)
    PROVE  BoxOK'
<1>1. CASE UNCHANGED boxVars
  BY <1>1, LeftAlone
<1>2. CASE Box!Post(m)
  BY <1>2, AppendType DEF BoxOK, Box!Post
<1>3. QED
  BY <1>1, <1>2 DEF Enqueue

LEMMA HandType ==
    ASSUME BoxOK, Box!Hand
    PROVE  BoxOK'
  BY HeadTail DEF BoxOK, Box!Hand

LEMMA HandledType ==
    ASSUME BoxOK, Box!Handled
    PROVE  BoxOK'
  BY DEF BoxOK, Box!Handled

(* A change of the state, with what is still to be announced.              *)
LEMMA ChangeType ==
    ASSUME MachineOK, NEW t \in Threads, NEW s \in States,
           ChangePlaybackState(t, s), UNCHANGED <<play_when_ready, paused>>
    PROVE  MachineOK'
  BY DEF MachineOK, ChangePlaybackState

(* The file is opened, or read again from where a seek landed.             *)
LEMMA FreshType ==
    ASSUME NEW f \in Files \union {<<>>}, file' = f, Fresh(f)
    PROVE  /\ FileOK'
           /\ eof' \in BOOLEAN
           /\ queue' \in [Streams -> Seq({"flush", "data", "null"})]
<1>1. /\ DOMAIN f \subseteq Streams
      /\ \A q \in DOMAIN f : f[q].packets \in Nat
  <2>1. CASE f \in Files
    BY <2>1, MediaPlayerAssumption
  <2>2. CASE f = <<>>
    BY <2>2
  <2>3. QED
    BY <2>1, <2>2
<1>2. unread' \in [Streams -> Nat]
  BY <1>1 DEF Fresh
<1>3. \A q \in Opened' : unread'[q] <= file'[q].packets
  BY <1>1 DEF Fresh, Opened
<1>4. queue' \in [Streams -> Seq({"flush", "data", "null"})]
  <2>1. <<>> \in Seq({"flush", "data", "null"})
    OBVIOUS
  <2>2. <<"null">> \in Seq({"flush", "data", "null"})
    OBVIOUS
  <2>3. <<"flush">> \in Seq({"flush", "data", "null"})
    OBVIOUS
  <2>4. QED
    BY <2>1, <2>2, <2>3 DEF Fresh
<1>5. QED
  BY <1>2, <1>3, <1>4 DEF FileOK, Fresh

-----------------------------------------------------------------------------
(* The interface.                                                          *)
LEMMA UserType ==
    ASSUME IInv, UserCall \/ UserStep
    PROVE  IInv'
<1> USE LeftAlone DEF IInv
<1>1. CASE OpenDataSource
  <2>1. PICK f \in Files : file' = f /\ Fresh(f)
    BY <1>1 DEF OpenDataSource
  <2>2. FileOK' /\ eof' \in BOOLEAN
        /\ queue' \in [Streams -> Seq({"flush", "data", "null"})]
    BY <2>1, FreshType
  <2>3. UserOK'
    BY <1>1 DEF OpenDataSource, UserGoes, UserOK
  <2>4. LoopOK' /\ StreamOK'
    BY <1>1, <2>2 DEF OpenDataSource, LoopOK, StreamOK
  <2>5. QED
    BY <1>1, <2>2, <2>3, <2>4 DEF OpenDataSource
<1>2. CASE OpenBuffering
  <2>1. MachineOK'
    BY <1>2, ChangeType DEF OpenBuffering, States, Threads
  <2>2. UserOK'
    BY <1>2 DEF OpenBuffering, UserGoes, UserOK
  <2>3. QED
    BY <1>2, <2>1, <2>2 DEF OpenBuffering, readerVars
<1>3. CASE OpenPaused
  <2>1. MachineOK' /\ UserOK'
    BY <1>3 DEF OpenPaused, UserGoes, SetPlayWhenReady, MachineOK, UserOK
  <2>2. QED
    BY <1>3, <2>1 DEF OpenPaused, SetPlayWhenReady, readerVars
<1>4. CASE PlayOrPause
  <2>1. MachineOK'
    BY <1>4 DEF PlayOrPause, SetPlayWhenReady, MachineOK
  <2>2. UserOK'
    BY <1>4, MediaPlayerAssumption
    DEF PlayOrPause, UserGoes, SetPlayWhenReady, UserOK
  <2>3. QED
    BY <1>4, <2>1, <2>2 DEF PlayOrPause, SetPlayWhenReady, readerVars
<1>5. CASE SwitchRenders
  <2>1. UserOK' /\ RenderOK'
    BY <1>5 DEF SwitchRenders, UserGoes, UserOK, RenderOK, MachineOK
  <2>2. QED
    BY <1>5, <2>1 DEF SwitchRenders, readerVars
<1>6. CASE Seek
  <2>1. MachineOK'
    BY <1>6, ChangeType DEF Seek, States, Threads
  <2>2. UserOK'
    BY <1>6, MediaPlayerAssumption DEF Seek, UserGoes, UserOK
  <2>3. QED
    BY <1>6, <2>1, <2>2 DEF Seek, readerVars
<1>7. CASE SeekToChapter
  <2>1. UserOK'
    BY <1>7, MediaPlayerAssumption DEF SeekToChapter, UserGoes, UserOK
  <2>2. QED
    BY <1>7, <2>1 DEF SeekToChapter, readerVars
<1>8. CASE RequestSeek
  <2>1. UserOK' /\ LoopOK'
    BY <1>8 DEF RequestSeek, UserGoes, UserOK, LoopOK
  <2>2. QED
    BY <1>8, <2>1 DEF RequestSeek
<1>9. QED
  BY <1>1, <1>2, <1>3, <1>4, <1>5, <1>6, <1>7, <1>8 DEF UserCall, UserStep

(* What a thread announces is a state.                                     *)
LEMMA AnnounceType ==
    ASSUME IInv, NEW t \in Threads, Announce(t)
    PROVE  IInv'
<1> USE LeftAlone DEF IInv
<1>1. announce[t] \in States
  BY DEF Announce, MachineOK
<1>2. PICK s \in {announce[t], player_state} : Enqueue(s)
  BY DEF Announce
<1>3. s \in States
  BY <1>1, <1>2 DEF MachineOK
<1>4. BoxOK'
  BY <1>2, <1>3, EnqueueType
<1>5. MachineOK'
  BY DEF Announce, MachineOK
<1>6. QED
  BY <1>4, <1>5 DEF Announce, readerVars

-----------------------------------------------------------------------------
(* The message thread.                                                     *)
LEMMA DecidedType ==
    ASSUME IInv, Decided, MachineOK'
    PROVE  IInv'
<1>1. WorkOK'
  BY DEF IInv, Decided, WorkOK
<1>2. QED
  BY <1>1, LeftAlone DEF IInv, Decided, readerVars

LEMMA MessageThreadType ==
    ASSUME IInv, MessageThread
    PROVE  IInv'
<1> USE LeftAlone DEF IInv
<1>1. CASE TellApplication
  BY <1>1, HandType DEF TellApplication, readerVars, machineVars
<1>2. CASE BeginWork
  <2>1. SetToSeq(Opened) \in Seq(Streams)
    <3>1. Opened \subseteq Streams /\ IsFiniteSet(Opened)
      BY OpenedType, MediaPlayerAssumption, FS_Subset
    <3>2. QED
      BY <3>1, SetToSeqType
  <2>2. WorkOK'
    BY <1>2, <2>1 DEF BeginWork, WorkOK
  <2>3. QED
    BY <1>2, <2>2, HandType DEF BeginWork, readerVars
<1>3. CASE AskRender
  <2>1. IsReady(Head(unseen)) \in BOOLEAN
    BY DEF IsReady
  <2>2. WorkOK'
    BY <1>3, <2>1 DEF AskRender, WorkOK
  <2>3. QED
    BY <1>3, <2>2 DEF AskRender, readerVars
<1>4. CASE AskDecoder
  <2>1. Head(unseen) \in Streams /\ Tail(unseen) \in Seq(Streams)
    BY <1>4, HeadTail DEF AskDecoder, WorkOK
  <2>2. WorkOK'
    BY <1>4, <2>1 DEF AskDecoder, WorkOK, StreamOK, DecoderFinished
  <2>3. QED
    BY <1>4, <2>2 DEF AskDecoder, readerVars
<1>5. CASE End \/ Rebuffer \/ GetReady
  <2>1. PICK s \in States : ChangePlaybackState(Loop, s) /\ Decided
    BY <1>5 DEF End, Rebuffer, GetReady, States
  <2>2. MachineOK'
    BY <2>1, ChangeType DEF Decided, Threads
  <2>3. QED
    BY <2>1, <2>2, DecidedType
<1>6. CASE StayAsIs
  <2>1. MachineOK'
    BY <1>6 DEF StayAsIs, Decided, MachineOK
  <2>2. QED
    BY <1>6, <2>1, DecidedType DEF StayAsIs
<1>7. CASE EndCallback
  BY <1>7, HandledType DEF EndCallback, readerVars
<1>8. QED
  BY <1>1, <1>2, <1>3, <1>4, <1>5, <1>6, <1>7 DEF MessageThread, DoSomeWork

-----------------------------------------------------------------------------
(* The reader.                                                             *)
LEMMA ReaderType ==
    ASSUME IInv, Reader
    PROVE  IInv'
<1> USE LeftAlone DEF IInv
<1>1. CASE ServeSeek
  <2>1. file \in Files \union {<<>>} /\ file' = file /\ Fresh(file)
    BY <1>1 DEF ServeSeek, FileOK
  <2>2. FileOK' /\ eof' \in BOOLEAN
        /\ queue' \in [Streams -> Seq({"flush", "data", "null"})]
    BY <2>1, FreshType
  <2>3. LoopOK' /\ StreamOK'
    BY <1>1, <2>2 DEF ServeSeek, LoopOK, StreamOK
  <2>4. QED
    BY <1>1, <2>2, <2>3 DEF ServeSeek
<1>2. CASE BeginRound
  <2>1. BoxOK'
    <3>1. CASE Enqueue(Work)
      BY <3>1, EnqueueType
    <3>2. CASE UNCHANGED boxVars
      BY <3>2
    <3>3. QED
      BY <1>2, <3>1, <3>2 DEF BeginRound
  <2>2. LoopOK'
    BY <1>2 DEF BeginRound, LoopOK
  <2>3. QED
    BY <1>2, <2>1, <2>2 DEF BeginRound
<1>3. CASE ReadEnd
  <2>1. \A q \in Streams : Append(queue[q], "null") \in Seq({"flush", "data", "null"})
    BY AppendType DEF StreamOK
  <2>2. LoopOK' /\ StreamOK'
    BY <1>3, <2>1 DEF ReadEnd, LoopOK, StreamOK
  <2>3. QED
    BY <1>3, <2>2 DEF ReadEnd
<1>4. CASE \E q \in Streams : ReadPacket(q)
  <2>1. PICK q \in Streams : ReadPacket(q)
    BY <1>4
  <2>2. Append(queue[q], "data") \in Seq({"flush", "data", "null"})
    BY AppendType DEF StreamOK
  <2>3. LoopOK' /\ StreamOK'
    BY <2>1, <2>2 DEF ReadPacket, LoopOK, StreamOK
  <2>4. /\ unread' \in [Streams -> Nat]
        /\ \A p \in Streams : unread'[p] <= unread[p]
    BY <2>1 DEF ReadPacket, FileOK
  <2>5. FileOK'
    <3>1. file' = file
      BY <2>1 DEF ReadPacket
    <3>2. \A p \in Opened : unread'[p] <= file[p].packets
      BY <2>4, OpenedType DEF FileOK
    <3>3. QED
      BY <2>4, <3>1, <3>2 DEF FileOK, Opened
  <2>6. QED
    BY <2>1, <2>3, <2>5 DEF ReadPacket
<1>5. QED
  BY <1>1, <1>2, <1>3, <1>4 DEF Reader

-----------------------------------------------------------------------------
(* Decoders and renderers: a count of frames stays between none and the    *)
(* size of the queue.                                                      *)
LEMMA StreamType ==
    ASSUME IInv, NEW q \in Streams, Decoder(q) \/ Callback(q) \/ DrawFrame(q)
    PROVE  IInv'
<1> USE LeftAlone DEF IInv
<1>1. CASE TakePacket(q)
  <2>1. /\ Head(queue[q]) \in {"flush", "data", "null"}
        /\ Tail(queue[q]) \in Seq({"flush", "data", "null"})
    BY <1>1, HeadTail DEF TakePacket, StreamOK
  <2>2. StreamOK' /\ LoopOK'
    BY <1>1, <2>1 DEF TakePacket, StreamOK, LoopOK
  <2>3. QED
    BY <1>1, <2>2 DEF TakePacket
<1>2. CASE PushFrame(q)
  <2>1. StreamOK'
    BY <1>2, MediaPlayerAssumption DEF PushFrame, StreamOK
  <2>2. QED
    BY <1>2, <2>1 DEF PushFrame, readerVars
<1>3. CASE FillBuffer(q)
  <2>1. StreamOK' /\ RenderOK'
    BY <1>3, MediaPlayerAssumption DEF FillBuffer, StreamOK, RenderOK
  <2>2. BoxOK'
    BY <1>3, EnqueueType DEF FillBuffer
  <2>3. QED
    BY <1>3, <2>1, <2>2 DEF FillBuffer, readerVars
<1>4. CASE UseBuffer(q)
  <2>1. RenderOK'
    BY <1>4 DEF UseBuffer, RenderOK
  <2>2. QED
    BY <1>4, <2>1 DEF UseBuffer, readerVars
<1>5. CASE DrawFrame(q)
  <2>1. StreamOK'
    BY <1>5, MediaPlayerAssumption DEF DrawFrame, StreamOK
  <2>2. QED
    BY <1>5, <2>1 DEF DrawFrame, readerVars
<1>6. QED
  BY <1>1, <1>2, <1>3, <1>4, <1>5 DEF Decoder, Callback

-----------------------------------------------------------------------------
(* TypeOK holds for any files and bounds: the state machine, the lists of  *)
(* the queue and the counts of frames and packets keep their types and     *)
(* sizes, whatever order interface, message thread, reader, decoders and   *)
(* renderers run in (media_player.cc).                                     *)
THEOREM TypeCorrect == Spec => []TypeOK
<1>1. Init => IInv
  <2> SUFFICES ASSUME Init PROVE IInv
    OBVIOUS
  <2>1. BoxOK
    <3>1. <<>> \in Seq(States \union {Work})
      OBVIOUS
    <3>2. QED
      BY <3>1 DEF Init, Box!Init, BoxOK
  <2>2. MachineOK /\ RenderOK /\ LoopOK
    BY DEF Init, MachineOK, RenderOK, LoopOK, States
  <2>3. WorkOK
    BY DEF Init, WorkOK
  <2>4. FileOK
    BY DEF Init, FileOK, Opened
  <2>5. StreamOK
    <3>1. <<>> \in Seq({"flush", "data", "null"})
      OBVIOUS
    <3>2. QED
      BY <3>1, MediaPlayerAssumption DEF Init, StreamOK
  <2>6. UserOK
    BY MediaPlayerAssumption DEF Init, UserOK
  <2>7. QED
    BY <2>1, <2>2, <2>3, <2>4, <2>5, <2>6 DEF IInv
<1>2. IInv /\ [Next]_vars => IInv'
  <2> SUFFICES ASSUME IInv, [Next]_vars PROVE IInv'
    OBVIOUS
  <2>1. CASE UNCHANGED vars
    BY <2>1, LeftAlone DEF IInv, vars, readerVars
  <2>2. CASE Next
    BY <2>2, UserType, MessageThreadType, AnnounceType, ReaderType, StreamType
    DEF Next
  <2>3. QED
    BY <2>1, <2>2
<1>3. IInv => TypeOK
  BY DEF IInv, TypeOK, BoxOK, MachineOK, UserOK, WorkOK, RenderOK, FileOK,
         LoopOK, StreamOK
<1>4. QED
  BY <1>1, <1>2, <1>3, PTL DEF Spec
=============================================================================
