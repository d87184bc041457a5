# A TLA+ model of lychee_player

lychee_player is a Flutter media player around FFmpeg. Its core, in
`src/ffplayer`, derives from ffplay: a reader thread demuxes a file into packet
queues, one decoder thread per stream turns packets into frames, renderers take
the frames, and a message thread runs the player's state machine. Around it are
its owners: a Flutter plugin with its Dart objects, and the example programs.
This directory models the core and what its owners do with it. What is hard
about it is that almost nothing is guarded by one lock: serials, counters,
indices and flags are read by threads that do not own them, and the sleeps of
the reader, the decoders and the renderers depend on notifications that several
of them send without the lock the sleeper tests under.

## The system

| Component | State | Operations | Talks to |
|---|---|---|---|
| `PacketQueue` (ffp_packet_queue) | linked list, `nb_packets`, `size`, `duration`, `serial`, `abort_request`, mutex, cond | Put, PutNullPacket, Flush, Abort, Start, Get, DequeuePacket | reader puts, decoder takes, player reads the counters |
| `FrameQueue` (ffp_frame_queue) | ring of slots, `rindex`, `windex`, `size`, `rindex_shown`, mutex, cond | PeekWritable, Push, PeekReadable, Peek, Next, Signal | decoder fills, device or render thread drains, `Decoder::Abort` signals |
| `DataSource` (data_source) | demuxer, `seek_req_`, `seek_position`, `eof`, `queue_attachments_req_`, `continue_read_thread_` | ReadThread and its steps, Seek, chapters | packet queues, message context; notified by decoders and by Seek |
| `Decoder` (decoder_base, decoder_audio, decoder_video, decoder_ctx) | `pkt_serial`, `finished`, `packet_pending` and `pkt`, the codec | DecodeThread, DecodeFrame, Abort, Join | packet queue, `continue_read_thread_`, frame queue of the render |
| Message queue and loop (message_queue, ffp_msg_queue) | list of messages, `blocked_`, `quitting_` | EnqueueMessage, next, Quit, NotifyMsg, StopAndWait | everyone posts, one thread calls `MediaPlayer::DoSomeWork` or the outside callback |
| `MediaPlayer` (media_player) | `player_state_`, `play_when_ready_` | OpenDataSource, SetPlayWhenReady, Seek, DoSomeWork | all of the above |
| `MediaClock` (media_clock) | pts, drift, speed, serial, paused of three clocks | SetClock, SetSpeed, Sync, GetClock, GetMasterClock | renders and the reader's seek set it, PauseClock stops it, DrawFrame reads it |
| Audio render (render_audio_base, audio_render_basic, SDL / CoreAudio / Oboe) | sample queue, buffer and index, clock of the last frame, volume, the device | Open, PushFrame, ReadAudioData, AudioDecodeFrame, MixAudioVolume, Start, Stop | device callback thread |
| Video render (render_video_base, flutter and SDL front ends) | picture queue, frame timer | PushFrame, DrawFrame, Start, Stop | render thread |
| Flutter plugin and bindings (lychee_player_plugin, lychee_audio_player.dart) | `players_`, a Dart object per handle, the Dart port | create, play, seek, volume, dispose, hot restart | owns players; their messages come back through the port |
| Examples (example/ffplay.cc, example/lib/main.dart) | current player, event queue of SDL | keys, skipping, the player's messages | own players |
| Platform glue, logging, locations, vendored code | - | forwarding | not modelled: I/O and glue |

What is hard, by component, is listed line by line under `hazards` in
PROJECT.json. What makes each component correct:

- PacketQueue: the counters are those of the list; a flush packet separates
  what was put before it from what comes after; nobody sleeps beside work.
- FrameQueue: it is a bounded FIFO, one frame of which stays valid after it has
  been given back; no wake-up is lost between its two threads.
- DataSource and Decoder together: packets become frames in file order, none
  lost or repeated, each under the serial of the seek it was read for;
  `IsFinished()` means finished; reading ahead is bounded; a seek is served and
  the end of the file reached.
- Message loop: every message is delivered once, or dropped for an equal one
  that is delivered; Quit ends the thread.
- MediaPlayer: the state announced last is the state of the player; END only
  when everything has been played.
- MediaClock and the renders: the audio clock, while it is valid, is what is
  heard; the frame timer is not ahead of the time; what is old after a seek, and
  what is lost of the new, is bounded by what the queues hold.
- The life of a player: the destructor returns, whatever the threads wait for;
  what is freed is not used; a seek is executed even when it is asked for
  before the file is open.
- The owners: what their lists, handles and events name is alive.

## Modules

- `PacketQueue` - every packet queue of a player (each variable is a function on
  `Queues`). A method body under the mutex is one action; `waiters` is the set
  of threads asleep on `cond`. The data are abstract packets with a size and a
  duration. `PacketQueueProofs` holds its theorems.
- `FrameFifo` - what a frame queue promises: `Push` appends to a bounded
  sequence, `Advance` moves its head into the place of the kept frame.
- `FrameQueue` - the ring as the code has it: indices without the mutex, only
  `size` under it, and the mutex held from the test of a wait loop to the wait,
  because `abort_request` changes under another mutex. Three threads: decoder
  (PeekWritable, fill, Push), renderer (PeekReadable or Peek, Next, use of the
  frame), aborter (`Decoder::Abort`). `ImplementsFifo` is the refinement of
  `FrameFifo`. `FrameQueueProofs` holds its theorems.
- `DataSource` - the reader loop `ReadStreams`, one action per stretch of code
  between two points where another thread can make a difference, and `Seek`.
  It calls `PacketQueue` through an instance.
- `Decoder` - `DecodeFrame` and the push that follows it, in the same way. The
  codec is external: a sequence of packets, one frame out per packet, that may
  ask for more input at any time, refuse a packet when full, and drain.
- `Pipeline` - DataSource and Decoder composed over the shared packet queues and
  the shared sleep `read_asleep`, with renderers that take frames. The
  properties of reading and decoding are stated here. `FrameQueue` shows that
  the frame queue may be taken for a bounded sequence, so here it is one.
  `PipelineProofs` holds its theorems.
- `Mailbox` - what the message queue promises: messages are handed over one at a
  time and in order, an equal one is not accepted twice behind the head, nothing
  is handed over after Close.
- `MessageQueue` - EnqueueMessage, next with its two locks and the timed wait,
  Quit, and around them `MessageContext`: NotifyMsg with its unlocked test, the
  loop, StopAndWait. The callback is external: it returns, and posts at most
  once. `IsMailbox` is the refinement; `MessageQueueProofs` holds the theorems.
- `MediaPlayer` - the state machine: the calls of the interface in the steps
  between which DoSomeWork can come, DoSomeWork itself stream by stream, and the
  announcements. It posts into a `Mailbox`. Of the reader, the decoders and the
  renderers it keeps what DoSomeWork can see: a packet is flush, data or null, a
  data packet makes a frame, `samples` says that audio_buf is not used up. A
  decoder wakes the reader with each packet it takes; that this can be missed is
  Pipeline's subject. A file is a set of streams with their kind and length,
  and a seek goes to its start. `MediaPlayerProofs` holds its theorem.
- `MediaClock` - the clocks as operators on records: a value, the time it was
  set, a serial and a pause.
- `VideoRender` - DrawFrame in the stretches between which a pause, a seek or
  another clock can come, ComputeTargetDelay, and PushFrame with its drop of
  late frames. The pictures are the slots from `rindex` on, as in FrameQueue.
  `first` is the serial in slot 0, which DrawFrame compares a picture's with
  (`picture_queue->queue` is the array), and `windex` tells when that slot is
  written. `stale` and `skipped` are no fields of the code: they count, since a
  seek, the old pictures drawn and the new ones passed over.
- `AudioRender` - ReadAudioData and AudioDecodeFrame: the one test of `paused_`,
  the wait for samples that follows it whatever is paused meanwhile, the buffer
  that is filled and the clock that is set afterwards, store by store.
- `Playback` - both renders over the clocks they share, with a tick of time that
  may come between any two steps, PauseClock on the thread of the interface, and
  the reader's seek with its two stores into the audio clock. A decoder receives
  a frame, tests whether it is late, writes it into its slot and pushes it in
  separate steps, so that a seek can come between them. The properties of time
  are stated here; `PlaybackProofs` holds its theorems.
- `AudioDevice` - the requests OpenAudioDevice makes of SDL one after another.
- `Volume` - SetVolume, ADJUST_VOLUME and the mixing, with the width of every
  step. `VolumeProofs` holds its theorems.
- `Lifecycle` - one player from construction to the end of its destructor: the
  opening of the file and of the device with their failures, the threads with
  every place where they wait, seeking before and after the file is open, and
  the destructor in the order in which the members go. The file has the
  positions from `FileStart` (`format_ctx_->start_time`) on for `Duration`; a
  seek to `start_time` adds the one, a later one is cut to the other, and either
  can fail. `asked` and `early` say what the last call that was accepted wanted
  and which way it took, `unmet` that it failed. How much is in a queue is
  left open, since the modules above have that; a message is posted once per
  kind.
- `Hosts` - the owners over Lifecycle: the plugin with its list of players, the
  Dart objects with their handles, hot restart and the port; the example with
  its current player, the copy of the old one that an event handler keeps, and
  SDL's event queue. Player 1 has its life in detail; later players are held,
  post and are deleted. `HostsProofs` holds its theorems, `MCHosts` the scenes.
- `MCPacketQueue`, `MCFrameQueue`, `MCPipeline`, `MCMessageQueue`,
  `MCMediaPlayer`, `MCPlayback`, `MCHosts` - instances for TLC.

An epoch, in DataSource, is not a variable of the code: it counts the
successful calls of `avformat_seek_file`. A packet carries the epoch it was read
in, so that the properties can compare it with the serial the code gave it.

Definitions named "mutant" in a comment are wrong on purpose and used by no
specification. Each replaces its neighbour to see a property fail; PROJECT.json
pairs them.

## Runs

| Run | Bounds | What it shows |
|---|---|---|
| `packet_queue` | 1 queue, 2 threads, 2 packets, length <= 4, <= 3 flush packets | counters, serials and sleepers under any order of calls |
| `frame_queue` | 3 slots (the video queue's size), keep_last, 2 frames | ring invariants, refinement, no lost wake-up, a waiting decoder gets a slot |
| `frame_queue_abort` | 2 slots | violation: an abort can miss a thread about to wait |
| `pipeline_seek` | 1 video stream, MIN_FRAMES 9, MAX_QUEUE_SIZE 1, 2 seeks, codec of 1, frame queue of 1 | order, serials, `finished`, bounded read-ahead, late frames dropped, at any moment of a seek |
| `pipeline_cover` | audio and a cover picture, 1 seek | the cover is decoded again after a seek; a draining codec is not fed |
| `pipeline_live` | 1 stream, 1 seek, fairness | a seek is served that finds the reader asleep or before its look at the request; the end is reached, unless a decoder sleeps over a packet |
| `pipeline_mutual_wait` | 1 stream, no seek | violation: reader and decoder wait for each other |
| `message_queue` | 2 posters beside the callback, 3 messages, fairness | the mailbox, prompt wake-ups, delivery and stopping in spite of lost wake-ups |
| `media_player` | 3 files (a song of 2 packets, a film of 1, a cover beside an empty song), 1 frame, 1 seek, 1 change of play/pause, fairness | a playing player comes to END; a paused one with enough packets gets READY |
| `media_player_end` | the same | violation: a seek is played in END |
| `playback` | 6 files (a song; films without sound, one paused and one sought with its queue full; a single picture; short films with sound, one sought and one paused), 2 slots for pictures and 1 for samples, <= 3 changes of play/pause, <= 1 seek, 1 to 3 ticks of time, fairness | frame timer, audio clock, bounds on what is old and on what is lost after a seek, a pause that waits for the device returns |
| `hosts` | 7 scenes: the plugin with 1 player and two seeks, or a pause and the seek of its END listener, or 2 players; the example with 2 players of sound or of pictures; the volume keys of each; file from 1 to 3, 2 events, fairness | the destructor returns, nothing freed is used, hosts hold only what is alive, the last seek accepted is executed, sound is not bent |

The bounds are small and chosen so that the limits are met: the ring wraps and
fills, MIN_FRAMES is 1 so that the reader goes to sleep with two packets queued,
MAX_QUEUE_SIZE is reached with the second packet, the codec of depth 1
refuses packets, two seeks can overlap any phase of each other. More packets
repeat the same situations: all that the code compares are serials, emptiness
and the limits. CHECK_DEADLOCK is off in the runs where the system may stop:
after an abort, after an I/O error, because of a lost wake-up (below), or when
its bounded time and its calls are used up.

In `playback` a tick is the least threshold of synchronisation and
a frame lasts two, so that a picture can be early, in time, late by less and by
more than the largest threshold; a slow thread is one that takes no step while
time passes. Each file multiplies only what it is for, which keeps the others
small. Two slots for pictures are the fewest of which slot 0 is not always the
next to be written. After a seek in the film without sound the ring can be full
of old pictures with one more in the decoder's hands, and a new one can be passed
over: a bound on either that is lower by one fails. In `hosts` a scene does the
same for calls: what two players do to the
lists does not depend on what a seek does to the reader. Of the two seeks the
first goes beyond the end and the second into the file, which does not begin at
0, so that each way, each cut and a request that finds another pending land in
different places. Two channels at 48000
take OpenAudioDevice through fewer channels and through lower rates. A player
beyond a scene's number is not created, so an END that would skip to it is only
shown.

Fairness, where liveness is checked: the decoder, renderer and reader threads
run when they can (weak fairness of each), which is what a preemptive scheduler
gives them, the renderers because playback is not paused; a call of Seek
that has begun ends; a codec that is asked for a frame again and again while it
holds a packet returns one (strong fairness, the contract of libavcodec). The
timed wait of the message loop times out, its callback returns, and a thread
that has begun StopAndWait goes on. The device calls the audio callback while
it is started.
In `playback` the threads and a call of SetPlayWhenReady that has begun go on;
SDL_PauseAudioDevice gets the device's lock, which the callback takes again and
again, if it is free again and again (strong fairness). Time need not pass.
In `hosts` the reader, the decoders, the callback, the message loop and a
destructor that has begun go on; a blocking call of libavformat must return
only once abort_request is set, which is what its interrupt callback is for.
Spurious wake-ups are possible and never relied on. The user need not seek.

## Disagreements with the code's own words

1. `FrameQueue::Signal` (ffp_frame_queue.cc:32) notifies without the mutex and
   `abort_request` is set under the packet queue's. Both can fall between the
   loop condition of PeekWritable and the wait; the decoder sleeps on and Join
   hangs. Run `frame_queue_abort`.
2. `DecodeFrame` (decoder_base.cc:100-107) waits without looking again at the
   queue after it has taken the mutex a second time. In the middle of a file the
   next packet wakes the thread; at the end none comes: `EndIsReached` has to
   except it.
3. `ReadStreams` (data_source.cc:325-327) tests and waits without a lock shared
   with those who notify. Run `pipeline_mutual_wait`. The same gap can swallow
   the notification of a seek: `SeekServed` excepts a request that comes when
   the reader has looked for one and not begun to wait, and no other.
4. `MediaPlayer::Seek` (media_player.cc:252-256) sets BUFFERING before the
   reader has flushed the queues: a DoSomeWork in between finds every decoder
   finished and sets END again. `SeekToChapter` sets no state. Nothing leaves
   END, so the player plays in END. Run `media_player_end`.

Met while modelling, without a run of their own because they are plain in the
code or concern what is left out:

- A player that is paused stays BUFFERING when the rest of the file has no more
  than two packets, because `IsReadComplete` is false while it is paused.
  `PausedGetsReady` asks for packets enough; no document promises more.
- `ext_clock` of a seek is the audio clock (media_player.cc:137). The external
  clock, which is the master of a file without sound, is set by no seek.
- A seek asked for while the file is being opened goes to `start_time`, to which
  the reader adds that of the file (data_source.cc:142); a seek asked for later
  goes to its position as it is, so that in a file that does not begin at 0 the
  two land apart. If the reader has looked at `start_time` already the call is
  dropped; if the duration is not known yet it goes to 0; and a seek that fails
  is only logged (lines 147-151, 365-367). `SeekExecuted` speaks of the last call
  accepted, and leaves the last two of these out as `unmet`.
- After a seek DrawFrame goes by the serial in slot 0 of the ring
  (render_video_base.cc:164): while that slot is old, old pictures are drawn in
  their time and new ones are passed over. Where fewer new pictures follow the
  seek than it takes to reach slot 0, near the end, none is shown and the old one
  stands. No document says what is shown meanwhile; `OldIsShort` has the bounds.
- After a pause the audio clock goes on from where it was set before
  (media_player.cc:120-122) until the next callback sets it.
- A pause at the end of the sound hangs the interface: the callback waits in
  PeekReadable for a frame that never comes and holds SDL's lock
  (audio_render_sdl.cc:29). This is the exception in `PauseReturns`.
- A pause and resume inside one DrawFrame can move the frame timer ahead of the
  time (media_player.cc:106-108, render_video_base.cc:188): both threads add to
  it. This is `overlap` in `FrameTimerNotAhead`; it ends when a picture's time
  has come, since the test of DrawFrame is passed by no timer that is ahead.
- The destructor frees `filename` and closes `format_ctx_` before it joins the
  threads that may look at them (data_source.cc:57, :64). A video decoder that has
  only just started is the exception in `AliveWhenUsed`.
- SDL_FlushEvent (example/ffplay.cc:203) comes while a copy of the old player,
  held by the event handler, still posts: the exception `late` in `HeldAreAlive`.
- An END that is already on its way when a Dart object is disposed of meets the
  assertion that the player is not disposed, since the port stays open.
- An abort that comes between the test and the wait of a thread is lost
  (`overslept`), as in 1 to 3; `ClosingReturns` excepts it.
- The plugin sets the message callback after OpenDataSource, so that what was
  posted before is told to nobody; a file that fails to open is announced to
  nobody (data_source.cc:83).
- BasicAudioRender::Open tests `paused_` and then starts the device
  (audio_render_basic.cc:44): a pause in between leaves it running.
- framedrop is -1, for which ShouldDropFrames never holds;
  `first_video_frame_rendered` is tested before it is set; CheckBuffering and
  SeekToChapter have no caller, and SeekToChapter passes microseconds for
  seconds; SynchronizeAudio does nothing while sound is the master.

## What is proved

Every invariant and every action property that a passing run checks is also a
theorem, as are the two refinements; TLAPS proves each of them for every value
of the constants that the modules' assumptions allow. The runs of the same
properties show that they can be broken (by the mutants) and that the situations
they are about occur.

- `PacketQueueProofs`: `TypeCorrect`, `NbPacketsCorrect` (nb_packets is the
  length of the list), `CountersCorrect` (so are `size` and `duration` the sums
  over it), `NoStarvation`, `EpochCorrect`. Each property is inductive once
  TypeOK is known, so each is proved by a step per action. The sums need
  induction over the list. The library's induction theorem takes an operator as
  a parameter, which the provers cannot instantiate; its theorem of well-founded
  relations does not, and gives the least element of a set of numbers
  (`Smallest`). A fold that exists for all lengths below the least length for
  which none exists is then extended by one place (`FoldStep`, `FoldExists`);
  that folds agree is proved in the same way.
- `FrameQueueProofs`: the inductive invariant `IInv` is TypeOK, RingInv and what
  each thread knows between its steps (`DecoderKnows`: there is room from
  PeekWritable to Push although the mutex is released in between, since only
  the decoder adds frames; `RendererKnows`: likewise there is a frame from
  PeekReadable to Next). From it follow `TypeCorrect`, `RingCorrect`,
  `FillCorrect`, `WakeCorrect` and, with keep_last, `HeldFrameCorrect` and
  `Refinement`: a ring of any size implements FrameFifo.
- `MessageQueueProofs`: the inductive invariant is TypeOK, DistinctBehindHead
  and Progress (what the loop knows between its steps, and that a queue that has
  quit is empty). From it `TypeCorrect`, `DistinctCorrect`,
  `NothingLeftCorrect`, `WakeCorrect`, and `Refinement`: the queue with any
  threads and messages implements Mailbox.
- `VolumeProofs`: `HeardCorrect`. For all samples of 16 bits and all volumes the
  mixing is a division towards 0 (`HeardIsScaled`): the product of a sample and a
  volume is within a hundred times the sample, the quotient fits 16 bits, so
  neither the narrowing nor the clipping of a mix over silence changes it.
- `MediaPlayerProofs`: `TypeCorrect`, for any finite set of streams and any
  files. The type invariant is inductive when the handling of a
  message and what `DoSomeWork` decides are typed as functions on any state
  (`HandledType`, `DecidedType`, `ChangeType`); its parts (`BoxOK` to `StreamOK`)
  follow who writes a field, so that a step has to look at few of them.

`PipelineProofs` is about any file, seeks, streams and sizes. It is assumed that
some stream is open, since OpenStreams fails otherwise (data_source.cc:228), and
that a cover is one of the open streams. Its invariants build on each other:

- `IInv`, from which `EpochCorrect`, `CodecCorrect` and `TypeCorrect`.
  EpochCarried is not inductive: pkt_serial changes when a packet is taken, and
  the codec may still hold packets of another serial. `StreamInv` says for each
  stream that in its queue the first packet of the current serial is the flush
  packet that opened it, unless the decoder has taken that already
  (`QueueKnown`, and `EndKnown` for the end of the queue between Flush and the
  flush packet); that a decoder past its test of the serial, or that would pass
  it, has a codec of one serial or carries the flush packet, and that a codec
  which drains is left only by finishing or by a newer serial (`CodecKnown`).
  `ReaderInv` says which queues a seek has reached: a queue's serial is the
  number of seeks served, one more where the flush packet is in (`EpochKnown`),
  and every one of them is a call of Seek that was accepted (`SeeksKnown`). The
  types follow with what the fields count (`Counted`).
- `ChainInv`, from which `DrainedCorrect` (`finished` means that all has been
  played) and `OrderCorrect` (frames leave in file order without a gap). Neither
  is inductive, and neither can be seen from one place: a packet lost between
  the file and the queue shows only when its successor leaves the decoder. So
  everything on the way has a place in the file (`Place`: a packet its position,
  a flush packet the place before where its seek starts, a null packet the end),
  and each one `Follows` the one before it: no packet of the stream lies
  between the two. The chain goes from the frame that left last (`Shown`) over the
  frame received, the codec, the packet that was refused and the one taken
  (`DecoderChain`), through the queue (`QueueChain`) to what the reader will put
  next (`ReaderChain`). A link is the same for a packet and for a flush or
  null packet, so that a step moves an end of a segment and no induction is
  needed. `NullsLast` says that behind a null packet come only null packets,
  without which a decoder could finish twice, and `QueueSerials` and
  `ThreadSerials` that serials only grow, so that what a seek left behind is never
  mistaken for what it brought.
- `CoverInv`, from which `CoverCorrect`: after a seek a cover's stream is
  finished only when the picture has been decoded again. A null packet must not
  come right behind the flush packet of its serial (`PictureFirst`), so the
  invariant says where the reader is while the queue has a flush packet last
  (`Asked`, `EndsBehind`): between the flush and ProcessAttachedPicture, which
  queue_attachments_req makes it reach before it reads on. A decoder that holds
  a null packet or drains has then had the picture (`NullBehind`). A seek that
  fails queues both once more without a flush, which the invariant has to allow.
- `SizeInv`, from which `BufferCorrect`: what is buffered passes MAX_QUEUE_SIZE
  by no more than a packet for each stream and one more. The reader's place
  tells what it may still put (`ReadBound`), and a seek, which empties one queue
  after the other, has the flush packets of those it has passed and the old
  contents of the others (`SeekBound`). The theorem has two hypotheses, because
  without them the code has no bound: that the source is not a real-time one
  (isNeedReadMore is true for these whatever is queued), and that there is no
  cover picture (a seek that fails queues picture and null packet again, and no
  test comes before that). `pipeline_seek` checks the property under the same
  two.

`HostsProofs` is about any file, duration, wish for an audio device, scenes
and bound on events:

- `AliveCorrect` and `SoundCorrect`. AliveWhenUsed is not inductive: it must be
  known that who used what is freed has ended, and that nobody starts it again.
  `IInv` says so for each thing that is freed (`LoopEnded`, `ReaderEnded`,
  `DecodersEnded`, `CallbackEnded`, `FormatKept`), and `NothingYet` says that
  the one call that starts a reader comes before any of that. A lemma for each
  thread, for the destructor and for the hosts shows that its steps keep `IInv`.
  `SoundCorrect` needs only that every volume has gone through SetVolume.
- `SeekCorrect`: the last seek accepted is executed, whichever way it took.
  `SeekOnItsWay` says where it is meanwhile: in start_time while the reader may
  still look at it, in seek_position, cut to the duration, while a request is
  pending (a call that is dropped then touches neither), and then where the
  reader has landed, with the start of the file added on the early way only.
  `RequestsFollowFormat` excludes the states in which it would be in two places,
  and `AboutToRequest` is the moment between the two stores.
- `HeldCorrect`. A player is deleted by
  who lets go of it, so `HeldInv` says who holds what: the plugin's list and its
  objects name players that are alive, except while a hot restart deletes them
  one by one (`PluginHolds`); the example shows one player and gives up one at a
  time (`ExampleHolds`, with `KindOfHost` keeping the two hosts apart); a message
  loop that has not ended belongs to a player that is still had (`LoopIsHeld`);
  a waiting event names the shown player or was posted late (`EventsNamed`).
  `FieldsCorrect`, the types, follows from both.

`PlaybackProofs` is about any files, durations, buffers and seeks:

- `ClockCorrect`. `ClockInv` says that no sound has a serial that is yet to come
  and, while the reader seeks, none has the new one. So a clock that has the
  queue's serial was set by the callback after the seek, or by the seek;
  `HalfStored` is the moment between the two stores, when the clock does not
  pass for valid or is the seek's.
- `TypeCorrect`, which needs that there is a picture while one is shown or chosen
  (`Pictures`) and that a clock is read only once it has a value (`Values`).
- `TimerCorrect`: the frame timer is not ahead of the time, but from a pause
  that overlaps a DrawFrame to the next picture whose time has come. `TimerInv`
  relates it to the video clock's last update, from which a resume adds the time
  that has passed: DrawFrame moves the timer ahead of that clock in two places
  and brings the clock after it, unless it turns back. Whatever it was before,
  a picture that passes the test of the time has a timer that is not ahead, and
  from there `TimerInv` holds again; `VideoClockInv` holds throughout.
- `OldCorrect`: after a seek no more old pictures are shown than the ring has
  slots and one, fewer new ones are passed over than it has slots, and of old
  sound no more is heard than the callback's buffer held (`SoundOld`).
  `PicturesOld` says that the old pictures are the first of those in the ring
  (`Olds`) and counts (`Counts`): what has been shown, what is yet to be and the
  one in the decoder's hands fit the first bound; and while slot 0 is old the new
  pictures, passed over or still in the ring, have all been written to slots
  before it comes round, so that there are fewer than `windex` tells.

The assumptions are those the modules name and TLC evaluates in each run:
`PacketsAssumption`, `PipelineAssumption`, `PlaybackAssumption` (a picture queue
of at least two slots, durations above 0, a system clock past the thresholds
when a player starts), `DurationAssumption` (the file's start and duration are
not negative),
`HostsAssumption`, `MediaPlayerAssumption` (a file's streams are known, their
number finite) and those of FrameQueue and MessageQueue. They say of the
constants what the code's own constants and FFmpeg's headers do.

Only model-checked: liveness, and with it ENABLED, which the prover cannot do
(`DecoderGetsSlot`, `SeekServed`, `EndIsReached`, `Delivered`, `StopReturns`,
`PausedGetsReady`, `EndComes`, `PauseReturns`, `ClosingReturns`).

## Not modelled, and the plan

Left out of the modelled components: allocation failures; chapters, metadata
and subtitles, for which the code opens no decoder; av_read_pause; resampling;
uploading a picture to a texture; the queries and DumpStatus, which change no
state; SetSpeed, which nobody calls; the audio devices of other platforms than
SDL's, whose callbacks end in the same ReadAudioData; the render threads of
Android and Windows, which no call of the plugin starts; windows, mouse and
screen of the example. In Pipeline the frame drop of the video PushFrame is a
free choice whenever its packet queue is not empty; Playback has the clocks it
depends on. Logging, locations, task runners and the generated runners of the
platforms hold no state of a player. `MediaPlayer` leaves out the calls before
the file is open and the callback of a device that is being stopped, which
`Hosts` and `Playback` have.

Next, in this order:

1. Proofs about MediaPlayer beyond its types: that DoSomeWork sets END only when
   each decoder was finished and each queue of frames empty as it looked at
   them; about Pipeline: in which places a wake-up can be lost, and that it is
   lost in no other.
2. The application's view of the state: what it can miss when an announcement is
   dropped for an equal one.
3. The chapter search and the resampling of SynchronizeAudio, if the code comes
   to use them.
