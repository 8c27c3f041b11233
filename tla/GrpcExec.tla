------------------------------- MODULE GrpcExec -------------------------------
(***************************************************************************)
(* One exec over gRPC: the execWrapper that the bridge of a browser reads, *)
(* writes and exits (container/grpc/grpc_tty.go), the stream, the handler  *)
(* of the remote server with its two loops (proxy/server.go, Exec), and    *)
(* the TTY of the backend there.                                           *)
(*                                                                         *)
(* The client's goroutines are those of the bridge that read and write the *)
(* wrapper, and the handler, which exits it when the bridge has returned;  *)
(* the remote ones are the handler, which forwards output, and the         *)
(* receiver.  Each direction of the stream is a queue whose length is      *)
(* bounded by flow control.                                                *)
(***************************************************************************)
EXTENDS Naturals, Sequences

CONSTANTS
  Inputs,      \* what browsers type
  Outputs,     \* what processes print
  Printout,    \* what this process prints, at most
  Window,      \* flow control: the messages in flight in one direction
  MaxInputs,   \* bound: messages that browsers cause, of input or resize
  Faults       \* the connection between client and server may break

Interrupt == "^C"
EndOfText == "^D"
Resize == "resize"
Empty == "empty"       \* an output of no bytes
Nothing == "nothing"   \* no message in hand

ASSUME GrpcAssumption ==
  /\ Printout \in Seq(Outputs)
  /\ Window \in Nat \ {0}
  /\ MaxInputs \in Nat
  /\ Faults \in BOOLEAN
  /\ Nothing \notin Inputs \union Outputs
  /\ Empty \notin Outputs

VARIABLES
  handler,     \* processTTY of the client: running, and the steps of Exit
  reader,      \* the bridge's goroutine in execWrapper.Read
  sent,        \* history: every message accepted by exec.Send after the first
  up,          \* messages to the server that it has not received
  reset,       \* the server learnt that the client's context is cancelled
  broken,      \* the connection broke
  server,      \* containerService.Exec
  out,         \* bs[:n], what the server's loop is about to send
  receiver,    \* the goroutine that it starts
  held,        \* the message that the receiver handles
  down,        \* messages to the client that it has not received
  tty,         \* the TTY of the backend
  printed,     \* how much of Printout the process printed
  taken,       \* how much of it tty.Read returned
  handled,     \* history: the messages that reached the TTY
  shown        \* history: the outputs that reached the browser

clientVars == <<handler, reader>>
upVars == <<sent, up>>
streamVars == <<reset, broken>>
loopVars == <<server, out>>
receiverVars == <<receiver, held>>
ttyVars == <<tty, printed, taken>>
vars == <<clientVars, upVars, streamVars, loopVars, receiverVars, down, ttyVars, handled, shown>>

Messages == Inputs \union {Interrupt, EndOfText, Resize}

\* The server's handler returned, and the stream with it.
finished == server = "done"

\* exec.CloseSend() was called.
closedSend == handler = "done"

Init ==
  /\ handler = "running" /\ reader = "reading"
  /\ sent = <<>> /\ up = <<>> /\ down = <<>>
  /\ reset = FALSE /\ broken = FALSE
  /\ server = "opening" /\ out = Nothing
  /\ receiver = "none" /\ held = Nothing
  /\ tty = "none" /\ printed = 0 /\ taken = 0
  /\ handled = <<>> /\ shown = <<>>

-----------------------------------------------------------------------------
(* The client: execWrapper.                                                *)

\* exec.Send returns an error (io.EOF once the server has returned).
SendRefused == broken \/ finished

\* exec.Send: waits for the window of the stream.
Send(m) ==
  /\ ~SendRefused
  /\ Len(up) < Window
  /\ up' = Append(up, m)
  /\ sent' = Append(sent, m)

\* Write: a browser types; mutexWriter lets one writer in at a time, but Exit
\* does not wait for it.  ResizeTerminal: one of its three attempts.
Write(m) ==
  /\ ~closedSend
  /\ Len(sent) < MaxInputs
  /\ Send(m)
  /\ UNCHANGED <<clientVars, streamVars, loopVars, receiverVars, down, ttyVars, handled, shown>>

\* Faulty variant: empty outputs are not told from others.
ReadShowsEmpty ==
  /\ reader = "reading" /\ handler # "done"
  /\ down # <<>>
  /\ down' = Tail(down)
  /\ shown' = Append(shown, Head(down))
  /\ UNCHANGED <<clientVars, upVars, streamVars, loopVars, receiverVars, ttyVars, handled>>

\* Read: exec.Recv, and masterWrite with what it returned.  An empty output shows
\* nothing.
Read ==
  /\ reader = "reading" /\ handler # "done"
  /\ down # <<>>
  /\ down' = Tail(down)
  /\ shown' = IF Head(down) = Empty THEN shown ELSE Append(shown, Head(down))
  /\ UNCHANGED <<clientVars, upVars, streamVars, loopVars, receiverVars, ttyVars, handled>>

\* Faulty variant: the status of the stream overtakes its last messages.
ReadFailsEarly ==
  /\ reader = "reading"
  /\ finished \/ broken \/ handler = "done"
  /\ reader' = "ended"
  /\ UNCHANGED <<handler, upVars, streamVars, loopVars, receiverVars, down, ttyVars, handled, shown>>

\* exec.Recv returns an error, io.EOF after the last message of the server.
ReadFails ==
  /\ reader = "reading"
  /\ \/ finished /\ down = <<>>
     \/ broken
     \/ handler = "done"
  /\ reader' = "ended"
  /\ UNCHANGED <<handler, upVars, streamVars, loopVars, receiverVars, down, ttyVars, handled, shown>>

\* What was received cannot be written to a browser that left.
ShowFails ==
  /\ reader = "reading" /\ handler # "running"
  /\ down # <<>>
  /\ down' = Tail(down)
  /\ reader' = "ended"
  /\ UNCHANGED <<handler, upVars, streamVars, loopVars, receiverVars, ttyVars, handled, shown>>

\* The tab is closed or the idle timer fires.
Leave ==
  /\ handler = "running"
  /\ handler' = "interrupting"
  /\ UNCHANGED <<reader, upVars, streamVars, loopVars, receiverVars, down, ttyVars, handled, shown>>

\* webtty.Run returns because its reader ended.
RunReturns ==
  /\ handler = "running"
  /\ reader = "ended"
  /\ handler' = "interrupting"
  /\ UNCHANGED <<reader, upVars, streamVars, loopVars, receiverVars, down, ttyVars, handled, shown>>

\* Faulty variant: ^C and ^D are repeated until they are sent.
ExitTypesSurely(m, from, to) ==
  /\ handler = from
  /\ handler' = to
  /\ Send(m)
  /\ UNCHANGED <<reader, streamVars, loopVars, receiverVars, down, ttyVars, handled, shown>>

\* Exit: enj.Write of one byte, whose error is ignored.
ExitTypes(m, from, to) ==
  /\ handler = from
  /\ handler' = to
  /\ Send(m) \/ (SendRefused /\ UNCHANGED upVars)
  /\ UNCHANGED <<reader, streamVars, loopVars, receiverVars, down, ttyVars, handled, shown>>

\* Exit: close(activeChan) and exec.CloseSend(); then the handler returns, and
\* its context is cancelled.
CloseSend ==
  /\ handler = "closing"
  /\ handler' = "done"
  /\ UNCHANGED <<reader, upVars, streamVars, loopVars, receiverVars, down, ttyVars, handled, shown>>

Exit ==
  \/ ExitTypes(Interrupt, "interrupting", "ending")
  \/ ExitTypes(EndOfText, "ending", "closing")
  \/ CloseSend

-----------------------------------------------------------------------------
(* The stream.                                                             *)

\* The cancellation arrives at the server.
Reset ==
  /\ handler = "done" /\ ~reset /\ ~broken
  /\ reset' = TRUE
  /\ UNCHANGED <<clientVars, upVars, broken, loopVars, receiverVars, down, ttyVars, handled, shown>>

Break ==
  /\ Faults /\ ~broken
  /\ broken' = TRUE
  /\ UNCHANGED <<clientVars, upVars, reset, loopVars, receiverVars, down, ttyVars, handled, shown>>

-----------------------------------------------------------------------------
(* The server: containerService.Exec.                                      *)

\* stream.Recv of the first message, checkAuth, the container is not nil, and
\* svc.cli.Exec with a context of its own; then the receiver is started.
Exec ==
  /\ server = "opening"
  /\ server' = "looping"
  /\ receiver' = "open"
  /\ tty' = "alive"
  /\ UNCHANGED <<clientVars, upVars, streamVars, held, out, down, printed, taken, handled, shown>>

\* One of these checks fails, or the backend's Exec does.
Refuse ==
  /\ server = "opening"
  /\ server' = "done"
  /\ UNCHANGED <<clientVars, upVars, streamVars, receiverVars, out, down, ttyVars, handled, shown>>

\* Faulty variant: bs is filled again while it is being sent.
ReadOutputAhead ==
  /\ server = "looping"
  /\ tty \in {"alive", "ended"} /\ taken < printed
  /\ taken' = taken + 1
  /\ out' = Printout[taken + 1]
  /\ UNCHANGED <<clientVars, upVars, streamVars, server, receiverVars, down, tty, printed, handled, shown>>

\* tty.Read(bs)
ReadOutput ==
  /\ server = "looping" /\ out = Nothing
  /\ tty \in {"alive", "ended"} /\ taken < printed
  /\ taken' = taken + 1
  /\ out' = Printout[taken + 1]
  /\ UNCHANGED <<clientVars, upVars, streamVars, server, receiverVars, down, tty, printed, handled, shown>>

\* tty.Read returns an error that is not io.EOF: n is 0, and the loop goes on.
ReadError ==
  /\ server = "looping" /\ out = Nothing
  /\ tty = "broken"
  /\ out' = Empty
  /\ UNCHANGED <<clientVars, upVars, streamVars, server, receiverVars, down, ttyVars, handled, shown>>

\* Faulty variant: io.EOF is repeated like any other error of tty.Read.
ReadEOFRepeats ==
  /\ server = "looping" /\ out = Nothing
  /\ tty = "ended" /\ taken = printed
  /\ out' = Empty
  /\ UNCHANGED <<clientVars, upVars, streamVars, server, receiverVars, down, ttyVars, handled, shown>>

\* tty.Read returns io.EOF.
ReadEOF ==
  /\ server = "looping" /\ out = Nothing
  /\ tty = "ended" /\ taken = printed
  /\ server' = "exiting"
  /\ UNCHANGED <<clientVars, upVars, streamVars, out, receiverVars, down, ttyVars, handled, shown>>

\* stream.Send waits for the window of the stream.
SendOutput ==
  /\ server = "looping" /\ out # Nothing
  /\ ~reset /\ ~broken
  /\ Len(down) < Window
  /\ down' = Append(down, out)
  /\ out' = Nothing
  /\ UNCHANGED <<clientVars, upVars, streamVars, server, receiverVars, ttyVars, handled, shown>>

\* Faulty variant: the loop goes on whatever stream.Send returned.
SendFailsOnwards ==
  /\ server = "looping" /\ out # Nothing
  /\ reset \/ broken
  /\ out' = Nothing
  /\ UNCHANGED <<clientVars, upVars, streamVars, server, receiverVars, down, ttyVars, handled, shown>>

\* stream.Send returns an error.
SendFails ==
  /\ server = "looping" /\ out # Nothing
  /\ reset \/ broken
  /\ server' = "exiting"
  /\ out' = Nothing
  /\ UNCHANGED <<clientVars, upVars, streamVars, receiverVars, down, ttyVars, handled, shown>>

\* The deferred tty.Exit() and the return of the handler.
ExitTTY ==
  /\ server = "exiting"
  /\ tty' = "exited"
  /\ server' = "done"
  /\ UNCHANGED <<clientVars, upVars, streamVars, out, receiverVars, down, printed, taken, handled, shown>>

\* Faulty variant: the next message is received while one is being handled.
ReceiveAhead ==
  /\ receiver = "open"
  /\ up # <<>>
  /\ held' = Head(up)
  /\ up' = Tail(up)
  /\ UNCHANGED <<clientVars, sent, streamVars, loopVars, receiver, down, ttyVars, handled, shown>>

\* stream.Recv in the receiver.
Receive ==
  /\ receiver = "open" /\ held = Nothing
  /\ up # <<>>
  /\ held' = Head(up)
  /\ up' = Tail(up)
  /\ UNCHANGED <<clientVars, sent, streamVars, loopVars, receiver, down, ttyVars, handled, shown>>

\* stream.Recv returns an error: the client closed its side and all was
\* received; or the stream ended, with messages that were not received.
ReceiveEnds ==
  /\ receiver = "open" /\ held = Nothing
  /\ (closedSend /\ up = <<>>) \/ reset \/ broken \/ finished
  /\ receiver' = "ended"
  /\ UNCHANGED <<clientVars, upVars, streamVars, loopVars, held, down, ttyVars, handled, shown>>

\* tty.Write or tty.ResizeTerminal returned: what is handled is a call that was
\* made.  A resize that a live TTY still refuses at its last try is passed over
\* (server.go:190-193, docker/slave.go:57-67) and not told from one that it took.
Handle ==
  /\ held # Nothing
  /\ tty = "alive"
  /\ handled' = Append(handled, held)
  /\ held' = Nothing
  /\ UNCHANGED <<clientVars, upVars, streamVars, loopVars, receiver, down, ttyVars, shown>>

\* The TTY is gone.  A failed resize or io.EOF is passed over, any other
\* error of tty.Write ends the receiver.
HandleFails ==
  /\ held # Nothing
  /\ tty # "alive"
  /\ held' = Nothing
  /\ receiver' \in IF held = Resize THEN {receiver} ELSE {receiver, "ended"}
  /\ UNCHANGED <<clientVars, upVars, streamVars, loopVars, down, ttyVars, handled, shown>>

-----------------------------------------------------------------------------
(* The process in the container and its connection to the backend.         *)

Prints ==
  /\ tty = "alive"
  /\ printed < Len(Printout)
  /\ printed' = printed + 1
  /\ UNCHANGED <<clientVars, upVars, streamVars, loopVars, receiverVars, down, tty, taken, handled, shown>>

\* The process ends, or the connection to it breaks; in the second case
\* what was not read is lost and tty.Read never returns io.EOF.
Stops(how) ==
  /\ tty = "alive"
  /\ tty' = how
  /\ UNCHANGED <<clientVars, upVars, streamVars, loopVars, receiverVars, down, printed, taken, handled, shown>>

-----------------------------------------------------------------------------
ClientReader == Read \/ ReadFails \/ ShowFails
ServerLoop == ReadOutput \/ ReadError \/ ReadEOF \/ SendOutput \/ SendFails \/ ExitTTY
ServerReceiver == Receive \/ ReceiveEnds \/ Handle \/ HandleFails

Environment ==
  \/ \E m \in Inputs \union {Resize} : Write(m)
  \/ Leave \/ Break
  \/ Prints \/ Stops("ended") \/ Stops("broken")

AllEnded ==
  /\ handler = "done" /\ reader = "ended"
  /\ server = "done" /\ receiver # "open"
  /\ UNCHANGED vars

Next ==
  \/ Environment
  \/ ClientReader \/ RunReturns \/ Exit
  \/ Reset
  \/ Exec \/ Refuse
  \/ ServerLoop \/ ServerReceiver
  \/ AllEnded

Spec == Init /\ [][Next]_vars

\* Goroutines run on, the stream carries what it may, the backend answers
\* Exec, and a TTY that is alive takes its bytes.  That a browser which is open
\* takes what it is shown is assumed too: masterWrite has no deadline
\* (webtty.go:150-160), and a reader that waits there neither reads nor fails.
\* What happens when an open browser does not is in Bridge.  Of the process in the
\* container, and of when a browser leaves, nothing is assumed.
Fairness ==
  /\ WF_vars(ClientReader) /\ WF_vars(RunReturns) /\ WF_vars(Exit)
  /\ WF_vars(Reset)
  /\ WF_vars(Exec \/ Refuse)
  /\ WF_vars(ServerLoop) /\ WF_vars(ServerReceiver)

FairSpec == Spec /\ Fairness

-----------------------------------------------------------------------------
(* Properties.                                                             *)

\* Every variable has its type, and no queue is longer than its window.
TypeOK ==
  /\ handler \in {"running", "interrupting", "ending", "closing", "done"}
  /\ reader \in {"reading", "ended"}
  /\ sent \in Seq(Messages)
  /\ up \in Seq(Messages) /\ Len(up) <= Window
  /\ reset \in BOOLEAN /\ broken \in BOOLEAN
  /\ server \in {"opening", "looping", "exiting", "done"}
  /\ out \in Outputs \union {Empty, Nothing}
  /\ receiver \in {"none", "open", "ended"}
  /\ held \in Messages \union {Nothing}
  /\ down \in Seq(Outputs \union {Empty}) /\ Len(down) <= Window
  /\ tty \in {"none", "alive", "ended", "broken", "exited"}
  /\ printed \in 0 .. Len(Printout)
  /\ taken \in 0 .. printed
  /\ handled \in Seq(Messages)
  /\ shown \in Seq(Outputs)

\* Input and resizes reach the TTY in the order in which exec.Send took them,
\* with nothing left out and nothing twice, through the stream, the receiver
\* and whatever ends on the way.
InputDirection == INSTANCE Relay WITH Data <- Messages, source <- sent, sink <- handled
InputRelayed == InputDirection!Spec

\* The browser is shown what the process printed, in order and without a gap,
\* although one buffer is filled again and again and read errors are sent on
\* as empty outputs.
OutputDirection == INSTANCE Relay WITH
  Data <- Outputs, source <- SubSeq(Printout, 1, printed), sink <- shown
OutputRelayed == OutputDirection!Spec

\* The last words of a process are seen: if the reader ends while its browser
\* is there and the connection holds, everything that was printed was shown.
LastWordsSeen ==
  reader = "ended" /\ handler = "running" /\ ~broken => Len(shown) = printed

\* When the client left, or the connection broke, the server's handler and
\* its receiver end as soon as the TTY has anything to tell: an output, the
\* end, an error.  (While the TTY is silent nothing tells the handler.)
ServerFreed ==
  (reset \/ broken) /\ (tty \in {"ended", "broken"} \/ taken < printed)
    ~> server = "done" /\ receiver # "open"

\* A process that ends takes the session with it, at both ends, if its browser takes
\* what is left to show or leaves.
SessionEnds == tty = "ended" ~> server = "done" /\ handler = "done"

\* A handler whose bridge returned gets through Exit, although exec.Send may
\* block, and the reader ends with it; unless the receiver gave up on a TTY
\* whose read error is repeated for ever, and the window is full: then
\* neither end frees the other.
ExitCompletes ==
  handler # "running" ~>
    \/ handler = "done" /\ reader = "ended"
    \/ tty = "broken" /\ receiver = "ended" /\ Len(up) = Window
=============================================================================
