----------------------------- MODULE MCPipeline -----------------------------
(* Bounded instances of Pipeline for TLC.                                  *)
EXTENDS Pipeline

(* Two packets of sound, or of pictures, which may be dropped when late; a *)
(* cover picture, which the demuxer also returns as a packet of its stream. *)
AudioFile == <<Audio, Audio>>
VideoFile == <<Video, Video>>
CoverFile == <<Video>>
=============================================================================
