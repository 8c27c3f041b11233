-------------------------------- MODULE Relay --------------------------------
(***************************************************************************)
(* What one direction of a terminal's connection promises, whichever pipes *)
(* and goroutines it is made of (third-part/gotty/webtty/webtty.go:14-16,  *)
(* "WebTTY bridges a PTY slave and its PTY master"; the two loops of       *)
(* proxy/server.go, containerService.Exec): what is put in at one end      *)
(* comes out at the other one, in order, unchanged, without a gap and      *)
(* without repetition.  It may stop at any point.                          *)
(***************************************************************************)
EXTENDS Naturals, Sequences

CONSTANT Data      \* what is carried

VARIABLES
  source,          \* all that was put in at one end
  sink             \* all that came out at the other end

Init == source = <<>> /\ sink = <<>>

Feed ==
  /\ \E d \in Data : source' = Append(source, d)
  /\ UNCHANGED sink

Deliver ==
  /\ Len(sink) < Len(source)
  /\ sink' = Append(sink, source[Len(sink) + 1])
  /\ UNCHANGED source

Next == Feed \/ Deliver

Spec == Init /\ [][Next]_<<source, sink>>

\* What that comes to in each state: what came out is a beginning of what was
\* put in.
TypeOK == source \in Seq(Data) /\ sink \in Seq(Data)
InOrder ==
  /\ Len(sink) <= Len(source)
  /\ \A i \in 1 .. Len(sink) : sink[i] = source[i]
=============================================================================
