----------------------------- MODULE MCPlayback -----------------------------
(* Bounded instances of Playback for TLC: a song; films without sound, one *)
(* paused and one sought with the queue full; short films with sound, one  *)
(* sought and one paused.                                                  *)
EXTENDS Playback

File(a, v, s, t, u) ==
    [audio |-> a, video |-> v, seeks |-> s, toggles |-> t, until |-> u]

Song == File(2, None, 1, 2, 5)
Silent == File(None, 4, 0, 3, 5)
Film == File(None, 4, 1, 1, 6)
Picture == File(None, 0, 1, 3, 4)
Sought == File(0, 0, 1, 1, 4)
Paused == File(0, 2, 0, 2, 4)

MCFiles == {Song, Silent, Film, Picture, Sought, Paused}
=============================================================================
