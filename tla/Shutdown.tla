------------------------------- MODULE Shutdown -------------------------------
(***************************************************************************)
(* How the process stops: run (run.go) starts the HTTP server              *)
(* (route/route.go, Run) and the gRPC server (proxy/proxy.go, Run) and     *)
(* then waits in util.WaitSignals for the first answer of a server or for  *)
(* the operator.  The first SIGINT asks for a graceful stop, a SIGTERM or  *)
(* a second signal forces it.                                              *)
(*                                                                         *)
(* server.Run waits for the sessions with counter.wait(); http.Server no   *)
(* longer knows of them once their connection was hijacked.  When run      *)
(* returns the process exits, and every other goroutine with it.           *)
(***************************************************************************)
EXTENDS Naturals, Sequences

CONSTANTS
  Clients,       \* HTTP requests
  Streams,       \* exec and logs streams of the gRPC server
  PortsTaken,    \* a server may find its port taken when it starts
  SlowRequests   \* a request may last longer than the 5 s of srv.Shutdown

ASSUME ShutdownAssumption ==
  /\ PortsTaken \in BOOLEAN
  /\ SlowRequests \in BOOLEAN

VARIABLES
  sigChan,    \* the signals that wait in WaitSignals' channel, at most one
  main,       \* WaitSignals: wait, grace (the inner select); then leaving, exited
  outcome,    \* why the process leaves
  ctxDone,    \* cancel() was called
  gCtxDone,   \* gCtx is done: gracefullCancel(), or cancel() of its parent
  errs,       \* what the servers answered
  http,       \* server.Run: select, waiting (in counter.wait) or returned
  httpErr,    \* the error that server.Run will return
  listening,  \* the HTTP listener is open
  stopper,    \* the goroutine of server.Run that calls srv.Shutdown
  request,    \* where the goroutine of each HTTP request is
  grpc,       \* grpcServer.Run: serving, stopping or returned
  stream,     \* the streams of the gRPC server
  promised    \* history: the sessions counted when the operator asked to stop

vars == <<sigChan, main, outcome, ctxDone, gCtxDone, errs, http, httpErr,
          listening, stopper, request, grpc, stream, promised>>
httpVars == <<http, httpErr, listening, stopper>>
mainVars == <<sigChan, main, outcome, ctxDone, gCtxDone, promised>>

Counted(k) == request[k] \in {"counted", "session"}   \* between counter.add and counter.done
Active(k)  == request[k] \in {"handling", "counted"}  \* a connection that srv.Shutdown waits for

\* Port > 0 and GrpcPort > 0 decide which servers are started; run refuses a
\* configuration with neither.
Init ==
  /\ sigChan = <<>>
  /\ main = "wait"
  /\ outcome = "none"
  /\ ctxDone = FALSE
  /\ gCtxDone = FALSE
  /\ errs = <<>>
  /\ http \in {"off", "select"}
  /\ httpErr = "nil"
  /\ listening = (http = "select")
  /\ stopper = http
  /\ request = [k \in Clients |-> "none"]
  /\ grpc \in {"off", "serving"}
  /\ http # "off" \/ grpc # "off"
  /\ stream = [s \in Streams |-> "none"]
  /\ promised = {}

-----------------------------------------------------------------------------
(* The operator and util.WaitSignals.                                      *)

\* signal.Notify does not wait for room in sigChan.
Signal(s) ==
  /\ sigChan' = IF sigChan = <<>> THEN <<s>> ELSE sigChan
  /\ UNCHANGED <<main, outcome, ctxDone, gCtxDone, errs, httpVars, request, grpc, stream,
                 promised>>

Leave(reason) ==
  /\ main' = "leaving"
  /\ outcome' = reason

\* Faulty variant: the inner select only waits for a signal.
ServerAnsweredFirst ==
  /\ main = "wait"
  /\ errs # <<>>
  /\ errs' = Tail(errs)
  /\ Leave("answered")
  /\ UNCHANGED <<sigChan, ctxDone, gCtxDone, httpVars, request, grpc, stream, promised>>

\* case err := <-errs, in either select: run returns, whichever server answered.
ServerAnswered ==
  /\ main \in {"wait", "grace"}
  /\ errs # <<>>
  /\ errs' = Tail(errs)
  /\ Leave("answered")
  /\ UNCHANGED <<sigChan, ctxDone, gCtxDone, httpVars, request, grpc, stream, promised>>

\* case s := <-sigChan with SIGINT: gracefullCancel().
StopGracefully ==
  /\ main = "wait"
  /\ sigChan # <<>> /\ Head(sigChan) = "INT"
  /\ sigChan' = Tail(sigChan)
  /\ gCtxDone' = TRUE
  /\ main' = "grace"
  /\ promised' = {k \in Clients : Counted(k)}
  /\ UNCHANGED <<outcome, ctxDone, errs, httpVars, request, grpc, stream>>

\* Faulty variant: only a SIGTERM forces the stop.
ForceByTerm ==
  /\ sigChan # <<>> /\ Head(sigChan) # "INT"
  /\ main \in {"wait", "grace"}
  /\ sigChan' = Tail(sigChan)
  /\ ctxDone' = TRUE
  /\ gCtxDone' = TRUE
  /\ Leave("forced")
  /\ UNCHANGED <<errs, httpVars, request, grpc, stream, promised>>

\* SIGTERM, or any signal while the stop is under way: cancel(), return nil.
ForceStop ==
  /\ sigChan # <<>>
  /\ main = "grace" \/ (main = "wait" /\ Head(sigChan) # "INT")
  /\ sigChan' = Tail(sigChan)
  /\ ctxDone' = TRUE
  /\ gCtxDone' = TRUE
  /\ Leave("forced")
  /\ UNCHANGED <<errs, httpVars, request, grpc, stream, promised>>

\* run returns (or logs the server's error fatally): the process is gone.
ProcessExits ==
  /\ main = "leaving"
  /\ main' = "exited"
  /\ UNCHANGED <<sigChan, outcome, ctxDone, gCtxDone, errs, httpVars, request, grpc, stream,
                 promised>>

-----------------------------------------------------------------------------
(* The HTTP server: server.Run and the goroutine that shuts it down.       *)

\* A request arrives.
Accept(k) ==
  /\ listening
  /\ request[k] = "none"
  /\ request' = [request EXCEPT ![k] = "handling"]
  /\ UNCHANGED <<mainVars, errs, httpVars, grpc, stream>>

\* ListenAndServe fails; server.Run cancels its own context.
ListenFails ==
  /\ PortsTaken
  /\ http = "select" /\ listening
  /\ \A k \in Clients : request[k] = "none"
  /\ listening' = FALSE
  /\ http' = "waiting"
  /\ httpErr' = "listen"
  /\ UNCHANGED <<mainVars, errs, stopper, request, grpc, stream>>

\* The graceful context is done: srv.Shutdown closes the listener, and
\* ListenAndServe returns http.ErrServerClosed there and then.
ShutdownBegins ==
  /\ stopper = "select" /\ gCtxDone
  /\ stopper' = "shutdown"
  /\ listening' = FALSE
  /\ UNCHANGED <<mainVars, errs, http, httpErr, request, grpc, stream>>

\* case <-cctx.Done(): ctx is done, or server.Run failed or returned.
StopperQuits ==
  /\ stopper = "select"
  /\ ctxDone \/ httpErr = "listen" \/ http = "returned"
  /\ stopper' = "done"
  /\ UNCHANGED <<mainVars, errs, http, httpErr, listening, request, grpc, stream>>

\* No connection is left that was not hijacked.
ShutdownEnds ==
  /\ stopper = "shutdown"
  /\ \A k \in Clients : ~Active(k)
  /\ stopper' = "done"
  /\ UNCHANGED <<mainVars, errs, http, httpErr, listening, request, grpc, stream>>

\* The 5 s are over: log.Fatal.
ShutdownTimesOut ==
  /\ SlowRequests
  /\ stopper = "shutdown"
  /\ \E k \in Clients : Active(k)
  /\ main' = "exited"
  /\ outcome' = "fatal"
  /\ UNCHANGED <<sigChan, ctxDone, gCtxDone, errs, httpVars, request, grpc, stream, promised>>

\* case err = <-srvErr with ErrServerClosed, which becomes nil.
ServerClosed ==
  /\ http = "select" /\ ~listening
  /\ http' = "waiting"
  /\ UNCHANGED <<mainVars, errs, httpErr, listening, stopper, request, grpc, stream>>

\* Faulty variant: the cancellation is answered at once, and again at the end.
ServerCancelledAnswers ==
  /\ http = "select" /\ ctxDone
  /\ http' = "waiting"
  /\ httpErr' = "canceled"
  /\ errs' = Append(errs, "canceled")
  /\ listening' = FALSE
  /\ UNCHANGED <<mainVars, stopper, request, grpc, stream>>

\* case <-cctx.Done(): srv.Close().
ServerCancelled ==
  /\ http = "select" /\ ctxDone
  /\ http' = "waiting"
  /\ httpErr' = "canceled"
  /\ listening' = FALSE
  /\ UNCHANGED <<mainVars, errs, stopper, request, grpc, stream>>

\* Faulty variant: server.Run returns without counter.wait().
CounterNotWaited ==
  /\ http = "waiting"
  /\ http' = "returned"
  /\ errs' = Append(errs, httpErr)
  /\ UNCHANGED <<mainVars, httpErr, listening, stopper, request, grpc, stream>>

\* counter.wait() returns and so does server.Run.
CounterWaited ==
  /\ http = "waiting"
  /\ \A k \in Clients : ~Counted(k)
  /\ http' = "returned"
  /\ errs' = Append(errs, httpErr)
  /\ UNCHANGED <<mainVars, httpErr, listening, stopper, request, grpc, stream>>

-----------------------------------------------------------------------------
(* The handlers (ExecSession), as far as the shutdown tells them apart.    *)

Move(k, from, to) ==
  /\ request[k] = from
  /\ request' = [request EXCEPT ![k] = to]
  /\ UNCHANGED <<mainVars, errs, httpVars, grpc, stream>>

\* The handler answers the request.
Answer(k) == Move(k, "handling", "done")

\* processShare or handleLogs upgrades the connection, and counts nothing.
View(k) == Move(k, "handling", "viewer")

\* generateHandleWS: counter.add(1).
Count(k) == Move(k, "handling", "counted")

\* The connection is hijacked by the upgrade, or the handler gives up.
Upgrade(k) == Move(k, "counted", "session") \/ Move(k, "counted", "done")

\* The session or the viewer ends, with the deferred counter.done().
SessionEnds(k) == Move(k, "session", "done") \/ Move(k, "viewer", "done")

-----------------------------------------------------------------------------
(* The gRPC server: grpcServer.Run.                                        *)

\* net.Listen fails, before anything is served.
GrpcListenFails ==
  /\ PortsTaken
  /\ grpc = "serving"
  /\ \A s \in Streams : stream[s] = "none"
  /\ grpc' = "returned"
  /\ errs' = Append(errs, "listen")
  /\ UNCHANGED <<mainVars, httpVars, request, stream>>

OpenStream(s) ==
  /\ grpc = "serving"
  /\ stream[s] = "none"
  /\ stream' = [stream EXCEPT ![s] = "open"]
  /\ UNCHANGED <<mainVars, errs, httpVars, request, grpc>>

StreamEnds(s) ==
  /\ stream[s] = "open"
  /\ stream' = [stream EXCEPT ![s] = "done"]
  /\ UNCHANGED <<mainVars, errs, httpVars, request, grpc>>

\* <-gCtx.Done(): srv.GracefulStop() in a goroutine of its own.
GrpcStopBegins ==
  /\ grpc = "serving" /\ gCtxDone
  /\ grpc' = "stopping"
  /\ UNCHANGED <<mainVars, errs, httpVars, request, stream>>

\* Every stream ended, or ctx is done and srv.Stop() ends them.
GrpcStopEnds ==
  /\ grpc = "stopping"
  /\ \/ \A s \in Streams : stream[s] # "open"
     \/ ctxDone
  /\ grpc' = "returned"
  /\ errs' = Append(errs, "nil")
  /\ stream' = [s \in Streams |-> IF stream[s] = "open" THEN "done" ELSE stream[s]]
  /\ UNCHANGED <<mainVars, httpVars, request>>

-----------------------------------------------------------------------------
\* What the program does by itself.
MainStep    == ServerAnswered \/ StopGracefully \/ ForceStop \/ ProcessExits
StopperStep == StopperQuits \/ ShutdownBegins \/ ShutdownEnds \/ ShutdownTimesOut
HttpStep    == ServerClosed \/ ServerCancelled \/ CounterWaited
GrpcStep    == GrpcStopBegins \/ GrpcStopEnds
HandlerStep(k) == Answer(k) \/ View(k) \/ Count(k) \/ Upgrade(k)

Running ==
  \/ \E s \in {"INT", "TERM"} : Signal(s)
  \/ MainStep \/ StopperStep \/ HttpStep \/ GrpcStep
  \/ ListenFails \/ GrpcListenFails
  \/ \E k \in Clients : Accept(k) \/ HandlerStep(k) \/ SessionEnds(k)
  \/ \E s \in Streams : OpenStream(s) \/ StreamEnds(s)

Exited == main = "exited" /\ UNCHANGED vars

Next == (main # "exited" /\ Running) \/ Exited

Spec == Init /\ [][Next]_vars

\* Goroutines that can run do, and handlers answer or upgrade.  Nothing is
\* assumed of the operator, of the clients and of how long sessions last.
Fairness ==
  /\ WF_vars(main # "exited" /\ MainStep)
  /\ WF_vars(main # "exited" /\ StopperStep)
  /\ WF_vars(main # "exited" /\ HttpStep)
  /\ WF_vars(main # "exited" /\ GrpcStep)
  /\ \A k \in Clients : WF_vars(main # "exited" /\ HandlerStep(k))

FairSpec == Spec /\ Fairness

-----------------------------------------------------------------------------
(* Properties.                                                             *)

\* Every variable has its type.  Each server answers at most once: the
\* channel errs, with its two places, never blocks one of them.
TypeOK ==
  /\ sigChan \in {<<>>, <<"INT">>, <<"TERM">>}
  /\ main \in {"wait", "grace", "leaving", "exited"}
  /\ outcome \in {"none", "answered", "forced", "fatal"}
  /\ ctxDone \in BOOLEAN /\ gCtxDone \in BOOLEAN
  /\ errs \in Seq({"nil", "listen", "canceled"}) /\ Len(errs) <= 2
  /\ http \in {"off", "select", "waiting", "returned"}
  /\ httpErr \in {"nil", "listen", "canceled"}
  /\ listening \in BOOLEAN
  /\ stopper \in {"off", "select", "shutdown", "done"}
  /\ request \in [Clients -> {"none", "handling", "counted", "session", "viewer", "done"}]
  /\ grpc \in {"off", "serving", "stopping", "returned"}
  /\ stream \in [Streams -> {"none", "open", "done"}]
  /\ promised \subseteq Clients

\* SessionsOutliveStop as far as the code delivers it: the process of an HTTP server
\* that is alone may be forced to exit, or exit because a request was not
\* answered within the 5 s of srv.Shutdown, but a server that answers has
\* outwaited its sessions.
HttpAloneWaits ==
  grpc = "off" /\ main = "exited" /\ outcome = "answered" =>
    \A k \in promised : request[k] = "done"

\* A stop that was asked for ends: once no session and no stream is open, the
\* process exits, unless one was about to open.
DrainedStops ==
  (gCtxDone /\ (\A k \in Clients : ~Counted(k)) /\ (\A s \in Streams : stream[s] # "open"))
    ~> (\/ main = "exited"
        \/ \E k \in Clients : request[k] = "session"
        \/ \E s \in Streams : stream[s] = "open")

\* A second signal, or a SIGTERM that is the first, ends the process whatever is
\* still open.
ForceStops ==
  (\E s \in {"INT", "TERM"} : sigChan = <<s>> /\ (s = "TERM" \/ main = "grace"))
    ~> (main = "exited")

-----------------------------------------------------------------------------
(* What a message of the code promises and the code does not do.           *)

\* route/route.go:231-232, "Waiting for %d connections to be closed" and
\* "Ctl-C to force close": unless the operator forces it, the process does
\* not exit while a session runs that was there when the stop was asked.
SessionsOutliveStop ==
  main = "exited" /\ outcome # "forced" => \A k \in promised : request[k] = "done"
=============================================================================
