----------------------------- MODULE MCBroadcast -----------------------------
(* A small instance of Broadcast for TLC.  One viewer: viewers write no    *)
(* state that another viewer or the recorder reads.                        *)
EXTENDS Broadcast
=============================================================================
