------------------------------- MODULE MCBridge -------------------------------
(* A small instance of Bridge for TLC.                                     *)
EXTENDS Bridge, TLC

\* "paste" is longer than a Read, which returns "head" of it.
FirstRead == "a" :> "a" @@ "paste" :> "head"

TwoOutputs == <<"x", "y">>
=============================================================================
