---------------------------- MODULE MCIdleTimeout ----------------------------
(* Small instances of IdleTimeout for TLC.                                 *)
EXTENDS IdleTimeout
=============================================================================
