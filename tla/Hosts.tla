------------------------------- MODULE Hosts -------------------------------
(***************************************************************************)
(* Who owns the players.  Either the Flutter plugin: each Dart object has  *)
(* a handle (lychee_audio_player.dart), and the plugin a list of players   *)
(* to delete when the app is restarted hot (lychee_player_plugin.cc).  Or  *)
(* the example of the library: one current player, replaced when the user  *)
(* skips or the player says END (example/ffplay.cc).                       *)
(*                                                                         *)
(* Messages of a player reach its host as events, which its one thread     *)
(* takes in turn.  Player 1 is the one Lifecycle has in detail; of those   *)
(* after it only what the host holds and the events they post are here.    *)
(***************************************************************************)
EXTENDS Lifecycle, Volume

CONSTANTS
    Scenes,     \* a host, a file, bounds on players and toggles, where the
                \* user seeks to (a seek to Unset is left to the END), and
                \* whether the volume keys are used
    MaxEvents   \* bound on the events that wait

ASSUME HostsAssumption ==
    /\ \A s \in Scenes : s.players \in Nat
    /\ MaxEvents \in Nat

VARIABLES
    scene,              \* the host, "plugin" or "example", and what it does
    created, alive,     \* how many players were built; those not deleted
    listening,          \* player 1 has its message callback
    players, handles,   \* players_; the Dart objects with a handle
    current, old,       \* current_player_; the copy HandleSdlEvent has of it
    volume, volume_before_mute,     \* of the newest player, of the m key
    events, handled,    \* what is posted, what is being handled
    why                 \* what the host deletes for

sceneVars == <<scene, volume, volume_before_mute>>
hostVars == <<sceneVars, created, alive, listening, players, handles, current,
              old, events, handled, why>>
ownVars == <<players, handles, current>>
lifeRest == <<seeks, toggles, renders, file, readerVars, seekVars, seek_req,
              unmet, deviceVars, paused, decoderVars, callback, loopVars,
              abort_request, freed, overslept>>
vars == <<lifeVars, hostVars>>

host == scene.host
MaxPlayers == scene.players
NoPlayer == 0
Kinds == {"metadata", "frame", "end"}
NoEvent == [player |-> NoPlayer, what |-> None, late |-> FALSE]

(* The plugin is built without a render for video where it uses SDL.       *)
Init ==
    /\ scene \in Scenes
    /\ LifeInit
    /\ file = scene.file
    /\ renders = IF host = "plugin" THEN {"audio"} ELSE Streams
    /\ created = 0 /\ alive = {} /\ listening = FALSE
    /\ players = {} /\ handles = {}
    /\ current = NoPlayer /\ old = NoPlayer
    /\ volume = MaxVolume /\ volume_before_mute = 1
    /\ events = <<>> /\ handled = NoEvent
    /\ why = None

-----------------------------------------------------------------------------
(* The message callback of a player posts an event, to the Dart port or to *)
(* the queue of SDL.  Late is what a player posts that the example has     *)
(* replaced already, after SDL_FlushEvent.                                 *)
Event(p, m) ==
    [player |-> p, what |-> m, late |-> p = old /\ main # "flush"]

PostEvent(p, m) ==
    events' = IF Len(events) < MaxEvents THEN Append(events, Event(p, m))
              ELSE events

HandMessage ==
    /\ CallbackReturns
    /\ IF listening THEN PostEvent(1, loop) ELSE UNCHANGED events
    /\ UNCHANGED <<sceneVars, created, alive, listening, ownVars, old, handled, why>>

AnotherPosts ==
    /\ \E p \in alive \ {1} : PostEvent(p, "end")
    /\ UNCHANGED <<lifeVars, sceneVars, created, alive, listening, ownVars, old,
                   handled, why>>

-----------------------------------------------------------------------------
(* lychee_player_create, and PlayItem from the new player on.  Both open   *)
(* the file, which pauses the player; the plugin sets the message callback *)
(* only then, the example before.                                          *)
Create ==
    /\ created < MaxPlayers
    /\ created' = created + 1
    /\ alive' = alive \union {created'}

FirstVolume ==
    /\ volume' = IF host = "example" THEN SetVolume(50) ELSE MaxVolume
    /\ UNCHANGED <<scene, volume_before_mute>>

CreateFirst ==
    /\ created = 0 /\ Create
    /\ MainGoes("idle", "created")
    /\ StartReader
    /\ listening' = (host = "example") /\ FirstVolume
    /\ UNCHANGED <<seeks, toggles, ownVars, old, events, handled, why>>

PauseFirst ==
    /\ MainGoes("created", "pause")
    /\ SetPaused(TRUE)
    /\ UNCHANGED <<seeks, toggles, hostVars>>

StopDevice ==
    /\ MainGoes("pause", IF host = "plugin" THEN "register" ELSE "play")
    /\ SwitchDevice
    /\ UNCHANGED <<seeks, toggles, hostVars>>

Register ==
    /\ MainGoes("register", "idle")
    /\ listening' = TRUE
    /\ players' = players \union {1} /\ handles' = handles \union {1}
    /\ UNCHANGED <<lifeRest, sceneVars, created, alive, current, old, events,
                   handled, why>>

PlayFirst ==
    /\ MainGoes("play", "resume")
    /\ SetPaused(FALSE)
    /\ UNCHANGED <<seeks, toggles, hostVars>>

ShowFirst ==
    /\ MainGoes("resume", "idle")
    /\ SwitchDevice
    /\ current' = 1
    /\ UNCHANGED <<seeks, toggles, sceneVars, created, alive, listening, players,
                   handles, old, events, handled, why>>

CreateInPlugin ==
    /\ host = "plugin" /\ main = "idle"
    /\ created # 0 /\ Create
    /\ players' = players \union {created'}
    /\ handles' = handles \union {created'}
    /\ UNCHANGED <<lifeVars, sceneVars, listening, current, old, events, handled, why>>

(* The calls of the application.                                           *)
Owned == 1 \in handles \/ current = 1

PlayOrPause ==
    /\ Owned /\ toggles < scene.toggles
    /\ MainGoes("idle", "switch")
    /\ SetPaused(~paused)
    /\ toggles' = toggles + 1
    /\ UNCHANGED <<seeks, hostVars>>

Switch ==
    /\ MainGoes("switch", "idle")
    /\ SwitchDevice
    /\ UNCHANGED <<seeks, toggles, hostVars>>

SeekTo(position) ==
    /\ Owned /\ seeks < Len(scene.seeks)
    /\ main' = "seek"
    /\ BeginSeekCall(position)
    /\ seeks' = seeks + 1
    /\ UNCHANGED toggles

Seek ==
    /\ main = "idle"
    /\ \E position \in 0 .. Duration + 1 :
         SeekTo(position) /\ position = scene.seeks[seeks']
    /\ UNCHANGED hostVars

(* The keys m, 0 and 9 of the example, and lychee_player_set_volume: the   *)
(* range is asserted by the Dart object, which a release does not do.      *)
ToggleMute ==
    IF volume # 0 THEN volume' = SetVolume(0) /\ volume_before_mute' = volume
    ELSE /\ volume' = SetVolume(volume_before_mute)
         /\ UNCHANGED volume_before_mute

StepVolume ==
    /\ \E step \in {10, -10} : volume' = SetVolume(volume + step)
    /\ UNCHANGED volume_before_mute

ChooseVolume ==
    /\ \E chosen \in {-10, 0, 55, 110} : volume' = SetVolume(chosen)
    /\ UNCHANGED volume_before_mute

ChangeVolume ==
    /\ Owned /\ main = "idle" /\ scene.volume
    /\ \/ host = "example" /\ (ToggleMute \/ StepVolume)
       \/ host = "plugin" /\ ChooseVolume
    /\ UNCHANGED <<lifeVars, scene, created, alive, listening, ownVars, old,
                   events, handled, why>>

-----------------------------------------------------------------------------
(* A player is deleted; those after the first in one step.                 *)
DeletePlayer(p, reason) ==
    /\ alive' = alive \ {p}
    /\ main' = IF p = 1 THEN "delete" ELSE "deleted"
    /\ why' = reason

(* Mutant of Dispose: the player stays in the list.                        *)
DisposeOnly ==
    /\ main = "idle"
    /\ \E p \in handles :
         /\ handles' = handles \ {p}
         /\ DeletePlayer(p, "dispose")
    /\ UNCHANGED <<lifeRest, sceneVars, created, listening, players, current, old,
                   events, handled>>

(* lychee_player_dispose, and the handle of the object forgotten.          *)
Dispose ==
    /\ main = "idle"
    /\ \E p \in handles :
         /\ handles' = handles \ {p}
         /\ players' = players \ {p}
         /\ DeletePlayer(p, "dispose")
    /\ UNCHANGED <<lifeRest, sceneVars, created, listening, current, old, events,
                   handled>>

(* lychee_player_initialize_dart, when the new isolate first calls it: the *)
(* objects and ports of the old one are gone.                              *)
HotRestart ==
    /\ host = "plugin"
    /\ MainGoes("idle", "restart")
    /\ handles' = {} /\ events' = <<>>
    /\ UNCHANGED <<lifeRest, sceneVars, created, alive, listening, players, current,
                   old, handled, why>>

ReleaseNext ==
    /\ main = "restart"
    /\ \E p \in players \intersect alive : DeletePlayer(p, "restart")
    /\ UNCHANGED <<lifeRest, sceneVars, created, listening, ownVars, old, events,
                   handled>>

ReleasedAll ==
    /\ players \intersect alive = {}
    /\ MainGoes("restart", "idle")
    /\ players' = {}
    /\ UNCHANGED <<lifeRest, sceneVars, created, alive, listening, handles, current,
                   old, events, handled, why>>

-----------------------------------------------------------------------------
(* PlayItem gives up the current player, flushes the events, and creates   *)
(* the next player; only when its caller returns does the copy of the old  *)
(* one go, and the old player with it.                                     *)
GiveUpCurrent ==
    /\ main' = "flush"
    /\ old' = current /\ current' = NoPlayer

SkipKey ==
    /\ current # NoPlayer /\ created < MaxPlayers
    /\ main = "idle" /\ GiveUpCurrent
    /\ UNCHANGED <<lifeRest, sceneVars, created, alive, listening, players, handles,
                   events, handled, why>>

FlushEvents ==
    /\ MainGoes("flush", "create")
    /\ events' = <<>>
    /\ UNCHANGED <<lifeRest, sceneVars, created, alive, listening, ownVars, old,
                   handled, why>>

CreateNext ==
    /\ MainGoes("create", "drop")
    /\ Create /\ FirstVolume
    /\ current' = created'
    /\ UNCHANGED <<lifeRest, listening, players, handles, old, events,
                   handled, why>>

DropOld ==
    /\ main = "drop"
    /\ DeletePlayer(old, "skip")
    /\ UNCHANGED <<lifeRest, sceneVars, created, listening, ownVars, old, events,
                   handled>>

Deleted ==
    /\ MainGoes("deleted", IF why = "restart" THEN "restart" ELSE "idle")
    /\ old' = NoPlayer
    /\ UNCHANGED <<lifeRest, sceneVars, created, alive, listening, ownVars, events,
                   handled, why>>

-----------------------------------------------------------------------------
(* HandleSdlEvent with OnPlayerMessage, and the listener of the Dart port. *)
TakeEvent ==
    /\ events # <<>>
    /\ MainGoes("idle", "handle")
    /\ handled' = Head(events) /\ events' = Tail(events)
    /\ UNCHANGED <<lifeRest, sceneVars, created, alive, listening, ownVars, old, why>>

(* At END the Flutter example seeks to 0, whatever its object plays now.   *)
RestartAtEnd ==
    /\ host = "plugin"
    /\ handled = [player |-> 1, what |-> "end", late |-> FALSE]
    /\ SeekTo(0)
    /\ UNCHANGED <<current, old>>

(* At END the example skips; where MaxPlayers are created, it stays.       *)
SkipAtEnd ==
    /\ host = "example" /\ handled.what = "end" /\ created < MaxPlayers
    /\ GiveUpCurrent
    /\ UNCHANGED lifeRest

(* The other messages are shown, with what the player says of itself.      *)
ShowMessage ==
    /\ main' = "idle"
    /\ UNCHANGED <<lifeRest, current, old>>

HandleEvent ==
    /\ main = "handle"
    /\ handled' = NoEvent
    /\ RestartAtEnd \/ SkipAtEnd \/ ShowMessage
    /\ UNCHANGED <<sceneVars, created, alive, listening, players, handles, events,
                   why>>

-----------------------------------------------------------------------------
PlayerStep ==
    /\ \/ Running \/ Blocked
       \/ \E q \in Streams : Decoder(q)
       \/ Callback
       \/ DoSomeWork \/ TakeMessage \/ EndLoop
    /\ UNCHANGED hostVars

OpenCall ==
    \/ CreateFirst \/ PauseFirst \/ StopDevice \/ Register \/ PlayFirst
    \/ ShowFirst \/ CreateInPlugin

HostStep ==
    \/ OpenCall \/ PlayOrPause \/ Switch \/ Seek \/ ChangeVolume
    \/ Dispose \/ HotRestart \/ ReleaseNext \/ ReleasedAll
    \/ SkipKey \/ FlushEvents \/ CreateNext \/ DropOld \/ Deleted
    \/ TakeEvent \/ HandleEvent

Draw ==
    /\ DrawFrame
    /\ UNCHANGED <<mainVars, renders, file, format, landed, seekVars, seek_req,
                   unmet, deviceVars, paused, aborted, abort_request, freed,
                   hostVars>>

Next ==
    \/ PlayerStep \/ HandMessage \/ AnotherPosts
    \/ SeekCall /\ UNCHANGED hostVars
    \/ Delete /\ UNCHANGED hostVars
    \/ HostStep \/ Draw

(* The threads of the player run, and so does a destructor that has begun; *)
(* a blocking call of the reader must return only when it is interrupted.  *)
Fairness ==
    /\ WF_vars(Running /\ UNCHANGED hostVars)
    /\ WF_vars(Interrupted /\ UNCHANGED hostVars)
    /\ \A q \in Streams : WF_vars(Decoder(q) /\ UNCHANGED hostVars)
    /\ WF_vars(Callback /\ UNCHANGED hostVars)
    /\ WF_vars(EndLoop /\ UNCHANGED hostVars)
    /\ WF_vars(HandMessage)
    /\ WF_vars(Delete /\ UNCHANGED hostVars)

Spec == Init /\ [][Next]_vars /\ Fairness

-----------------------------------------------------------------------------
(* The values the fields take.                                             *)
TypeOK ==
    /\ scene \in Scenes /\ renders \subseteq Streams
    /\ format \in {"null", "fresh", "open"}
    /\ landed \in FileStart .. FileStart + Duration
    /\ seek_position \in 0 .. Duration
    /\ {start_time, wanted, asked} \subseteq 0 .. Duration + 1 \union {Unset}
    /\ request.rate \in 0 .. 4 \/ NoMoreCombinations(request)
    /\ device \in {None, "stopped", "running"}
    /\ decoder \in [Streams -> {None, "starting", "measuring", "checking",
                    "hungry", "asleep", "pushing", "full", "blocked", "ended"}]
    /\ callback \in {"idle", "peek", "empty", "blocked"}
    /\ loop \in Kinds \union {"idle", "ended"}
    /\ box \in Seq(Kinds) /\ posted \subseteq Kinds
    /\ freed \subseteq Streams \union {"player", "render"}
    /\ alive \subseteq 1 .. created /\ created \in 0 .. MaxPlayers
    /\ players \subseteq 1 .. created /\ handles \subseteq 1 .. created
    /\ current \in 0 .. created /\ old \in 0 .. created
    /\ Len(events) <= MaxEvents

(* Whatever keys and calls set the volume, a sample is scaled and never    *)
(* bent: it keeps its sign, is not louder than it was, and of two samples  *)
(* the higher stays the higher, up to the limits of 16 bits.               *)
Samples == <<-32768, -101, -1, 0, 1, 99, 256, 32767>>
SoundUndistorted ==
    LET heard(i) == Heard(Samples[i], volume) IN
    /\ \A i \in 1 .. 4 : heard(i) \in Samples[i] .. 0
    /\ \A i \in 4 .. 8 : heard(i) \in 0 .. Samples[i]
    /\ \A i \in 1 .. 7 : heard(i) <= heard(i + 1)

(* Liveness: the destructor returns, wherever the threads are when it      *)
(* begins and whatever blocks the reader, unless a thread lies down after  *)
(* the wake-up that was meant for it.                                      *)
ClosingReturns == main = "delete" ~> main = "deleted" \/ overslept

(* Nothing that is freed is used: the message loop ends before the player  *)
(* does, the reader before the format context, a decoder and the callback  *)
(* before their renders.  A video decoder that has only just looked at     *)
(* format_ctx is not joined when that is freed, and is the exception.      *)
AliveWhenUsed ==
    /\ loop \in Kinds => "player" \notin freed
    /\ reader \notin {None, "start", "done"} => format # "null"
    /\ \A q \in Streams : decoder[q] \notin {None, "ended"} => q \notin freed
    /\ callback # "idle" => "render" \notin freed

(* What a host holds between two of its steps is alive, and the example    *)
(* handles an event of the player it shows, unless it was posted late: the *)
(* copy of the old player that HandleSdlEvent has keeps it posting after   *)
(* SDL_FlushEvent.                                                         *)
HeldAreAlive ==
    /\ main = "idle" => players \union handles \subseteq alive
    /\ main = "idle" /\ current # NoPlayer => current \in alive
    /\ handled # NoEvent /\ host = "example" /\ ~handled.late =>
         handled.player = current /\ current \in alive

(* A reader that has served every request reads from where the last one    *)
(* that was accepted went: one that came while the file was being opened,  *)
(* which counts from the start of the file, or a later one, which does     *)
(* not.  A request that is dropped, because another waits or start_time is *)
(* looked at no more, leaves that one alone.  Only a seek that fails and   *)
(* one cut to a duration not yet known go elsewhere.                       *)
Destination == Landing(IF early THEN asked + FileStart ELSE Min({asked, Duration}))

SeekExecuted ==
    /\ reader \in {"enough", "asleep", "reading"} /\ ~seek_req
    /\ main # "request" /\ asked # Unset /\ ~unmet
    => landed = Destination
=============================================================================
