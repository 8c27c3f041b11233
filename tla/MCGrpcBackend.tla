---------------------------- MODULE MCGrpcBackend ----------------------------
(* Small instances of GrpcBackend for TLC.                                 *)
EXTENDS GrpcBackend, TLC

CONSTANTS c1, c2, s1, s2

\* c1 is on one server, c2 on a daemon that two servers share.
Placement == c1 :> {s1} @@ c2 :> {s1, s2}
=============================================================================
