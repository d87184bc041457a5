--------------------------- MODULE MCMessageQueue ---------------------------
(* A bounded instance of MessageQueue for TLC.                             *)
EXTENDS MessageQueue
=============================================================================
