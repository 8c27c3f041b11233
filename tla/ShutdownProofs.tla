---------------------------- MODULE ShutdownProofs ----------------------------
(***************************************************************************)
(* Proofs about Shutdown, for every set of clients and streams and every   *)
(* configuration: its types, among them that the channel errs never blocks *)
(* a server, and that an HTTP server that is alone only answers a graceful *)
(* stop after every session that was there when it was asked for.          *)
(***************************************************************************)
EXTENDS Shutdown, SequenceTheorems, TLAPS

-----------------------------------------------------------------------------
(* Types.                                                                  *)

Answers == {"nil", "listen", "canceled"}

Returned(server) == IF server = "returned" THEN 1 ELSE 0

\* What is in errs was put there by a server that returned.
AnsweredOnce == Len(errs) <= Returned(http) + Returned(grpc)

TypeInv == TypeOK /\ AnsweredOnce

\* A server puts one answer into errs.
LEMMA PutAnswer ==
  ASSUME NEW S, NEW q \in Seq(S), NEW e \in S
  PROVE  Append(q, e) \in Seq(S) /\ Len(q) \in Nat /\ Len(Append(q, e)) = Len(q) + 1
BY AppendProperties, LenProperties

\* WaitSignals takes one answer out of errs.
LEMMA TakeAnswer ==
  ASSUME NEW S, NEW q \in Seq(S), q # <<>>
  PROVE  Tail(q) \in Seq(S) /\ Len(q) \in Nat /\ Len(Tail(q)) = Len(q) - 1
BY HeadTailProperties, LenProperties

\* The initial state.
LEMMA TypeInit == Init => TypeInv
<1> SUFFICES ASSUME Init PROVE TypeInv
  OBVIOUS
<1>1. <<>> \in Seq(Answers) /\ Len(<<>>) = 0
  BY EmptySeq
<1>2. TypeOK
  <2>1. errs \in Seq({"nil", "listen", "canceled"}) /\ Len(errs) <= 2
    BY <1>1 DEF Init, Answers
  <2>2. /\ http \in {"off", "select"} /\ stopper \in {"off", "select"}
        /\ grpc \in {"off", "serving"} /\ listening \in BOOLEAN
    BY ShutdownAssumption DEF Init
  <2> QED
    BY <2>1, <2>2 DEF Init, TypeOK
<1>3. AnsweredOnce
  BY <1>1 DEF Init, AnsweredOnce, Returned
<1> QED
  BY <1>2, <1>3 DEF TypeInv

\* The steps of WaitSignals.
LEMMA TypeMain ==
  ASSUME TypeInv, (\E s \in {"INT", "TERM"} : Signal(s)) \/ MainStep
  PROVE  TypeInv'
<1> USE DEF TypeInv, TypeOK, AnsweredOnce, Returned
<1>1. ASSUME NEW s \in {"INT", "TERM"}, Signal(s) PROVE TypeInv'
  BY <1>1 DEF Signal, httpVars
<1>2. CASE ServerAnswered
  <2>1. errs \in Seq(Answers) /\ errs # <<>> /\ errs' = Tail(errs)
    BY <1>2 DEF ServerAnswered, Answers
  <2>2. errs' \in Seq(Answers) /\ Len(errs) \in Nat /\ Len(errs') = Len(errs) - 1
    BY <2>1, TakeAnswer
  <2> QED
    BY <1>2, <2>2 DEF ServerAnswered, Leave, httpVars, Answers
<1>3. CASE StopGracefully
  <2>1. sigChan' = <<>>
    BY <1>3 DEF StopGracefully
  <2> QED
    BY <1>3, <2>1 DEF StopGracefully, httpVars
<1>4. CASE ForceStop
  <2>1. sigChan = <<"INT">> \/ sigChan = <<"TERM">>
    BY <1>4 DEF ForceStop
  <2>2. Tail(<<"INT">>) = <<>> /\ Tail(<<"TERM">>) = <<>>
    OBVIOUS
  <2>3. sigChan' = <<>>
    BY <1>4, <2>1, <2>2 DEF ForceStop
  <2>4. main' = "leaving" /\ outcome' = "forced" /\ ctxDone' = TRUE /\ gCtxDone' = TRUE
    BY <1>4 DEF ForceStop, Leave
  <2>5. UNCHANGED <<errs, httpVars, request, grpc, stream, promised>>
    BY <1>4 DEF ForceStop
  <2> QED
    BY <2>3, <2>4, <2>5 DEF httpVars
<1>5. CASE ProcessExits
  BY <1>5 DEF ProcessExits, httpVars
<1> QED
  BY <1>1, <1>2, <1>3, <1>4, <1>5 DEF MainStep

\* The steps of the two servers.
LEMMA TypeServers ==
  ASSUME TypeInv,
         StopperStep \/ HttpStep \/ GrpcStep \/ ListenFails \/ GrpcListenFails
  PROVE  TypeInv'
<1> USE DEF TypeInv, TypeOK, AnsweredOnce, Returned
<1>1. CASE StopperStep
  BY <1>1 DEF StopperStep, StopperQuits, ShutdownBegins, ShutdownEnds, ShutdownTimesOut,
              mainVars, httpVars
<1>2. CASE ServerClosed \/ ServerCancelled \/ ListenFails \/ GrpcStopBegins
  BY <1>2 DEF ServerClosed, ServerCancelled, ListenFails, GrpcStopBegins, mainVars, httpVars
<1>3. CASE CounterWaited
  <2>1. errs \in Seq(Answers) /\ httpErr \in Answers /\ errs' = Append(errs, httpErr)
    BY <1>3 DEF CounterWaited, Answers
  <2>2. errs' \in Seq(Answers) /\ Len(errs) \in Nat /\ Len(errs') = Len(errs) + 1
    BY <2>1, PutAnswer
  <2> QED
    BY <1>3, <2>2 DEF CounterWaited, mainVars, Answers
<1>4. CASE GrpcStopEnds
  <2>1. errs \in Seq(Answers) /\ "nil" \in Answers /\ errs' = Append(errs, "nil")
    BY <1>4 DEF GrpcStopEnds, Answers
  <2>2. errs' \in Seq(Answers) /\ Len(errs) \in Nat /\ Len(errs') = Len(errs) + 1
    BY <2>1, PutAnswer
  <2> QED
    BY <1>4, <2>2 DEF GrpcStopEnds, mainVars, httpVars, Answers
<1>5. CASE GrpcListenFails
  <2>1. errs \in Seq(Answers) /\ "listen" \in Answers /\ errs' = Append(errs, "listen")
    BY <1>5 DEF GrpcListenFails, Answers
  <2>2. errs' \in Seq(Answers) /\ Len(errs) \in Nat /\ Len(errs') = Len(errs) + 1
    BY <2>1, PutAnswer
  <2> QED
    BY <1>5, <2>2 DEF GrpcListenFails, mainVars, httpVars, Answers
<1> QED
  BY <1>1, <1>2, <1>3, <1>4, <1>5 DEF HttpStep, GrpcStep

\* The steps of the handlers and of the streams.
LEMMA TypeHandlers ==
  ASSUME TypeInv,
         \/ \E k \in Clients : Accept(k) \/ HandlerStep(k) \/ SessionEnds(k)
         \/ \E s \in Streams : OpenStream(s) \/ StreamEnds(s)
  PROVE  TypeInv'
<1> USE DEF TypeInv, TypeOK, AnsweredOnce, Returned
<1>1. ASSUME NEW k \in Clients, Accept(k) \/ HandlerStep(k) \/ SessionEnds(k) PROVE TypeInv'
  BY <1>1 DEF Accept, HandlerStep, SessionEnds, Answer, View, Count, Upgrade, Move,
              mainVars, httpVars
<1>2. ASSUME NEW s \in Streams, OpenStream(s) \/ StreamEnds(s) PROVE TypeInv'
  BY <1>2 DEF OpenStream, StreamEnds, mainVars, httpVars
<1> QED
  BY <1>1, <1>2

\* Each step keeps the types.
LEMMA TypeStep == TypeInv /\ [Next]_vars => TypeInv'
<1>1. ASSUME TypeInv, UNCHANGED vars PROVE TypeInv'
  BY <1>1 DEF TypeInv, TypeOK, AnsweredOnce, vars
<1> QED
  BY <1>1, TypeMain, TypeServers, TypeHandlers DEF Next, Running, Exited

\* Types; no server ever blocks on errs (run.go:39, util/util.go:98-108).
THEOREM TypeCorrect == Spec => []TypeOK
<1>1. TypeInv => TypeOK
  BY DEF TypeInv
<1> QED
  BY <1>1, TypeInit, TypeStep, PTL DEF Spec

-----------------------------------------------------------------------------
(* The graceful stop of an HTTP server that is alone.                      *)

\* Before the operator asked, a server that does not listen served nobody.
BeforeStop ==
  /\ main \in {"wait", "grace"} => ~ctxDone
  /\ main = "wait" => ~gCtxDone
  /\ ctxDone => gCtxDone
  /\ http \in {"waiting", "returned"} => ~listening
  /\ ~gCtxDone => stopper # "shutdown" /\ promised = {}
  /\ ~gCtxDone /\ ~listening => http # "select" /\ \A k \in Clients : request[k] = "none"

\* The promised sessions only ever end, and server.Run returns after them.
Promise ==
  /\ \A k \in promised : request[k] \in {"counted", "session", "done"}
  /\ http = "returned" => \A k \in promised : request[k] = "done"

\* Without a gRPC server only server.Run answers.
OnlyHttp ==
  /\ grpc = "off" /\ errs # <<>> => http = "returned"
  /\ grpc = "off" /\ outcome = "answered" => http = "returned"

StopInv == BeforeStop /\ Promise /\ OnlyHttp

\* The initial state.
LEMMA StopInit == Init => StopInv
BY ShutdownAssumption DEF Init, StopInv, BeforeStop, Promise, OnlyHttp

\* Each step keeps it.
LEMMA StopStep == TypeInv /\ StopInv /\ [Next]_vars => StopInv'
<1> SUFFICES ASSUME TypeInv, StopInv, [Next]_vars PROVE StopInv'
  OBVIOUS
<1> USE DEF TypeInv, TypeOK, StopInv, BeforeStop, Promise, OnlyHttp
<1>1. ASSUME NEW s \in {"INT", "TERM"}, Signal(s) PROVE StopInv'
  BY <1>1 DEF Signal, httpVars
<1>2. CASE ServerAnswered
  BY <1>2 DEF ServerAnswered, Leave, httpVars
<1>3. CASE StopGracefully
  BY <1>3 DEF StopGracefully, Counted, httpVars
<1>4. CASE ForceStop
  <2>1. main' = "leaving" /\ outcome' = "forced" /\ ctxDone' = TRUE /\ gCtxDone' = TRUE
    BY <1>4 DEF ForceStop, Leave
  <2>2. UNCHANGED <<errs, httpVars, request, grpc, stream, promised>>
    BY <1>4 DEF ForceStop
  <2> QED
    BY <2>1, <2>2 DEF httpVars
<1>5. CASE ProcessExits
  BY <1>5 DEF ProcessExits, httpVars
<1>6. CASE StopperStep
  BY <1>6 DEF StopperStep, StopperQuits, ShutdownBegins, ShutdownEnds, ShutdownTimesOut,
              mainVars, httpVars
<1>7. CASE ServerClosed \/ ServerCancelled \/ ListenFails
  <2>1. CASE ServerClosed
    BY <2>1 DEF ServerClosed, mainVars
  <2>2. CASE ServerCancelled
    BY <2>2 DEF ServerCancelled, mainVars
  <2>3. CASE ListenFails
    BY <2>3 DEF ListenFails, mainVars
  <2> QED
    BY <1>7, <2>1, <2>2, <2>3
<1>8. CASE CounterWaited
  BY <1>8 DEF CounterWaited, Counted, mainVars
<1>9. CASE GrpcStep \/ GrpcListenFails
  BY <1>9 DEF GrpcStep, GrpcStopBegins, GrpcStopEnds, GrpcListenFails, mainVars, httpVars
<1>10. ASSUME NEW k \in Clients, Accept(k) PROVE StopInv'
  BY <1>10 DEF Accept, mainVars, httpVars
<1>11. ASSUME NEW k \in Clients, HandlerStep(k) \/ SessionEnds(k) PROVE StopInv'
  <2>1. PICK from, to \in {"handling", "counted", "session", "viewer", "done"} :
          /\ Move(k, from, to)
          /\ from \in {"counted", "session"} => to \in {"counted", "session", "done"}
          /\ from # "done"
    BY <1>11 DEF HandlerStep, SessionEnds, Answer, View, Count, Upgrade
  <2> QED
    BY <2>1 DEF Move, mainVars, httpVars
<1>12. ASSUME NEW s \in Streams, OpenStream(s) \/ StreamEnds(s) PROVE StopInv'
  BY <1>12 DEF OpenStream, StreamEnds, mainVars, httpVars
<1>13. CASE UNCHANGED vars
  BY <1>13 DEF vars
<1> QED
  BY <1>1, <1>2, <1>3, <1>4, <1>5, <1>6, <1>7, <1>8, <1>9, <1>10, <1>11, <1>12, <1>13
     DEF Next, Running, Exited, MainStep, HttpStep

\* When the process of an HTTP server that is alone exits because its server
\* answered, no session is left of those that were there when the operator
\* asked for a graceful stop (route/route.go:197-236, util/util.go:98-108).
THEOREM GracefulStop == Spec => []HttpAloneWaits
<1>1. TypeInv /\ StopInv => HttpAloneWaits
  BY DEF TypeInv, TypeOK, StopInv, Promise, OnlyHttp, HttpAloneWaits
<1> QED
  BY <1>1, TypeInit, TypeStep, StopInit, StopStep, PTL DEF Spec
=============================================================================
