----------------------------- MODULE MCDockerLogs -----------------------------
(* A small instance of DockerLogs for TLC.                                 *)
EXTENDS DockerLogs

\* A line, and a part of one.
LineAndPart == {<<97, NewLine>>, <<98>>}
=============================================================================
