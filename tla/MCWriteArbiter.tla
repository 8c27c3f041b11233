---------------------------- MODULE MCWriteArbiter ----------------------------
(* Small instances of WriteArbiter for TLC.                                *)
EXTENDS WriteArbiter
=============================================================================
