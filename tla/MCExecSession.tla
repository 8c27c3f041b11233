---------------------------- MODULE MCExecSession ----------------------------
(* Small instances of ExecSession for TLC.                                 *)
EXTENDS ExecSession
=============================================================================
