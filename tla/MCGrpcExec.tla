------------------------------ MODULE MCGrpcExec ------------------------------
(* A small instance of GrpcExec for TLC.                                   *)
EXTENDS GrpcExec

TwoOutputs == <<"x", "y">>
=============================================================================
