--------------------------- MODULE MCDockerBackend ---------------------------
(* Small instances of DockerBackend for TLC.                               *)
EXTENDS DockerBackend, TLC

CONSTANTS c1, c2

\* c1 has bash and sh, c2 only sh.
Images == c1 :> {1, 3} @@ c2 :> {3}
=============================================================================
