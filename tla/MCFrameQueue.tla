---------------------------- MODULE MCFrameQueue ----------------------------
(* A bounded instance of FrameQueue for TLC.                               *)
EXTENDS FrameQueue
=============================================================================
