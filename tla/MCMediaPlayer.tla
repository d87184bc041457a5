--------------------------- MODULE MCMediaPlayer ---------------------------
(* Bounded instances of MediaPlayer for TLC.                               *)
EXTENDS MediaPlayer, TLC

CONSTANTS track, picture

(* A song, a film without sound, and a cover beside a song.  A song with a *)
(* packet more beside the cover has twice the states.                      *)
Song(n) == track :> [kind |-> "audio", packets |-> n]
Film(n) == picture :> [kind |-> "video", packets |-> n]
Cover == picture :> [kind |-> "cover", packets |-> 0]

MCFiles == {Song(2), Film(1), Song(0) @@ Cover}
=============================================================================
