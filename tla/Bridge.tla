-------------------------------- MODULE Bridge --------------------------------
(***************************************************************************)
(* One terminal from the browser (js/src/webtty.ts) over the websocket and *)
(* the bridge (third-part/gotty/webtty/webtty.go, route/ws_wrapper.go) to  *)
(* a TTY of the Kubernetes backend (container/kube/tty.go) and the Stream  *)
(* of its exec (container/kube/kubectl.go).                                *)
(*                                                                         *)
(* WebTTY.Run starts two goroutines, one that forwards output and one that *)
(* handles the browser's messages, and returns when one of them ends or    *)
(* its context is cancelled.  The handler then calls Exit, and closes the  *)
(* websocket after that.  The TTY is two pipes without a buffer, between   *)
(* the bridge and the goroutine that runs Stream, and a channel without a  *)
(* buffer for the sizes of the window.                                     *)
(***************************************************************************)
EXTENDS Naturals, Sequences

CONSTANTS
  Inputs,       \* what browsers type, or paste at once
  Cut,          \* what a Read of 1024 bytes returns of each
  Outputs, Printout,
  MaxMessages   \* bound: inputs in all, and messages in flight

Interrupt == "^C"
EndOfText == "^D"
Ping == "ping"
ResizeTerminal == "resize"
Nothing == "nothing"
Resizes == 3    \* how often ResizeTerminal repeats itself

Pieces == {Cut[m] : m \in Inputs}

ASSUME BridgeAssumption ==
  /\ DOMAIN Cut = Inputs
  /\ Printout \in Seq(Outputs)
  /\ MaxMessages \in Nat
  /\ Inputs \cap {Ping, ResizeTerminal} = {}
  /\ Pieces \cap {Interrupt, EndOfText, Nothing} = {}
  /\ Nothing \notin Outputs

VARIABLES
  browser,     \* the tab is open or closed
  wire,        \* messages that the server has not read
  typed,       \* history: all the inputs among them
  shown,       \* history: what the terminal of the tab was given
  handler,     \* processTTY: in Run, then the steps of Exit, then gone
  cancelled,   \* the context of Run is cancelled
  errs,        \* how many results are in the channel errs
  reader,      \* Run's goroutine that reads the slave
  out,         \* buffer[:n] of it
  writer,      \* Run's goroutine that reads the websocket
  held,        \* the input that it writes
  tries,       \* how many sizes ResizeTerminal has yet to send
  pipe,        \* a Write to w that Stream has not read
  offer,       \* a Write of Stream to ttyOut that the bridge has not read
  stream,      \* exec.Stream and the goroutine that calls it
  printed,     \* how much of Printout it brought
  taken        \* history: the inputs that it read from ttyIn

clientVars == <<browser, typed>>
runVars == <<handler, cancelled>>
readerVars == <<reader, out>>
writerVars == <<writer, held, tries>>
streamVars == <<stream, printed>>
vars == <<clientVars, wire, shown, runVars, errs, readerVars, writerVars,
          pipe, offer, streamVars, taken>>

\* Exit has closed the pipes and the channels.
exited == handler \in {"exited", "gone"}

\* Both ends of a pipe fail, or end, when either is closed.
closed == exited \/ stream = "ended"

Init ==
  /\ browser = "open" /\ wire = <<>> /\ typed = <<>> /\ shown = <<>>
  /\ handler = "starting" /\ cancelled = FALSE /\ errs = 0
  /\ reader = "none" /\ out = Nothing
  /\ writer = "none" /\ held = Nothing /\ tries = 0
  /\ pipe = Nothing /\ offer = Nothing
  /\ stream = "running" /\ printed = 0 /\ taken = <<>>

-----------------------------------------------------------------------------
(* The browser.                                                            *)

\* Input, a new size, or the ping of every 30 seconds.  A message that is empty or of
\* an unknown type, which webtty.ts does not send, ends Run as a size that cannot be
\* read does, and is not told from it.
SendMessage(m) ==
  /\ browser = "open" /\ handler # "gone"
  /\ Len(wire) < MaxMessages /\ (m \in Inputs => Len(typed) < MaxMessages)
  /\ wire' = Append(wire, m)
  /\ typed' = IF m \in Inputs THEN Append(typed, m) ELSE typed
  /\ UNCHANGED <<browser, shown, runVars, errs, readerVars, writerVars, pipe, offer, streamVars, taken>>

\* The tab is closed.  What the server has not read may be lost.
CloseTab ==
  /\ browser = "open"
  /\ browser' = "closed"
  /\ wire' \in {wire, <<>>}
  /\ UNCHANGED <<typed, shown, runVars, errs, readerVars, writerVars, pipe, offer, streamVars, taken>>

-----------------------------------------------------------------------------
(* The goroutine that forwards output.                                     *)

ReaderEnds == reader' = "ended" /\ out' = Nothing /\ errs' = errs + 1

\* slave.Read
ReadSlave ==
  /\ reader = "reading"
  /\ \/ /\ offer # Nothing /\ ~closed
        /\ reader' = "writing" /\ out' = offer /\ offer' = Nothing
        /\ UNCHANGED errs
     \/ /\ closed
        /\ ReaderEnds
        /\ UNCHANGED offer
  /\ UNCHANGED <<clientVars, wire, shown, runVars, writerVars, pipe, streamVars, taken>>

\* handleSlaveReadEvent.  A write to a tab that is closed fails, or is lost.
WriteMaster ==
  /\ reader = "writing"
  /\ \/ /\ handler # "gone"
        /\ shown' = IF browser = "open" THEN Append(shown, out) ELSE shown
        /\ reader' = "reading" /\ out' = Nothing
        /\ UNCHANGED errs
     \/ /\ browser = "closed" \/ handler = "gone"
        /\ ReaderEnds
        /\ UNCHANGED shown
  /\ UNCHANGED <<clientVars, wire, runVars, writerVars, pipe, offer, streamVars, taken>>

Reader == ReadSlave \/ WriteMaster

-----------------------------------------------------------------------------
(* The goroutine that handles messages.                                    *)

WriterEnds ==
  writer' = "ended" /\ held' = Nothing /\ tries' = 0 /\ errs' = errs + 1

\* masterConn.Read, of at most 1024 bytes of a message, and what
\* handleMasterReadEvent does first.  The pong cannot be told from no pong.  The size
\* in a message may be missing or malformed, the pong may not reach a closed tab.
ReadMessage ==
  /\ writer = "reading" /\ wire # <<>> /\ handler # "gone"
  /\ wire' = Tail(wire)
  /\ LET m == Head(wire) IN
     \/ /\ m \in Inputs
        /\ writer' = "typing" /\ held' = Cut[m]
        /\ UNCHANGED <<tries, errs>>
     \/ /\ m = ResizeTerminal
        /\ writer' = "resizing" /\ tries' = Resizes
        /\ UNCHANGED <<held, errs>>
     \/ /\ m = Ping
        /\ UNCHANGED <<writerVars, errs>>
     \/ /\ m = ResizeTerminal \/ (m = Ping /\ browser = "closed")
        /\ WriterEnds
  /\ UNCHANGED <<clientVars, shown, runVars, readerVars, pipe, offer, streamVars, taken>>

\* masterConn.Read of a websocket that either side closed.
ReadFails ==
  /\ writer = "reading"
  /\ (browser = "closed" /\ wire = <<>>) \/ handler = "gone"
  /\ WriterEnds
  /\ UNCHANGED <<clientVars, wire, shown, runVars, readerVars, pipe, offer, streamVars, taken>>

\* Faulty variant: an input is dropped while another Write is under way.
WriteSlaveDrops ==
  /\ writer = "typing"
  /\ \/ /\ pipe = Nothing /\ ~closed
        /\ pipe' = held
        /\ writer' = "blocked" /\ held' = Nothing
        /\ UNCHANGED <<tries, errs>>
     \/ /\ pipe # Nothing /\ ~closed
        /\ writer' = "reading" /\ held' = Nothing
        /\ UNCHANGED <<tries, errs, pipe>>
     \/ /\ closed
        /\ WriterEnds
        /\ UNCHANGED pipe
  /\ UNCHANGED <<clientVars, wire, shown, runVars, readerVars, offer, streamVars, taken>>

\* slave.Write: a Write of the pipe begins when no other one is under way.
WriteSlave ==
  /\ writer = "typing"
  /\ \/ /\ pipe = Nothing /\ ~closed
        /\ pipe' = held
        /\ writer' = "blocked" /\ held' = Nothing
        /\ UNCHANGED <<tries, errs>>
     \/ /\ closed
        /\ WriterEnds
        /\ UNCHANGED pipe
  /\ UNCHANGED <<clientVars, wire, shown, runVars, readerVars, offer, streamVars, taken>>

\* The pipe is closed during the Write.
WriteFails ==
  /\ writer = "blocked" /\ closed
  /\ WriterEnds
  /\ pipe' = Nothing
  /\ UNCHANGED <<clientVars, wire, shown, runVars, readerVars, offer, streamVars, taken>>

\* Faulty variant: Exit leaves resizeChan open.
ResizeStays == FALSE /\ UNCHANGED vars

\* A send on resizeChan after Exit closed it panics, which resize recovers from.
ResizePanics ==
  /\ writer = "resizing" /\ exited
  /\ writer' = "reading" /\ tries' = 0
  /\ UNCHANGED <<held, errs, clientVars, wire, shown, runVars, readerVars, pipe, offer, streamVars, taken>>

Writer == ReadMessage \/ ReadFails \/ WriteSlave \/ WriteFails \/ ResizePanics

-----------------------------------------------------------------------------
(* Stream, and the process at its other end.                               *)

\* Stream reads ttyIn.
TakeInput ==
  /\ pipe # Nothing /\ ~closed
  /\ pipe' = Nothing
  /\ taken' = IF pipe \in Pieces THEN Append(taken, pipe) ELSE taken
  /\ IF writer = "blocked"
       THEN writer' = "reading" /\ UNCHANGED handler
       ELSE UNCHANGED writer /\ handler' = IF handler = "^C blocked" THEN "^D" ELSE "exiting"
  /\ UNCHANGED <<clientVars, wire, shown, cancelled, errs, readerVars, held, tries, offer, streamVars>>

\* Stream writes to ttyOut.
BringOutput ==
  /\ stream = "running" /\ ~exited
  /\ offer = Nothing /\ printed < Len(Printout)
  /\ offer' = Printout[printed + 1]
  /\ printed' = printed + 1
  /\ UNCHANGED <<clientVars, wire, shown, runVars, errs, readerVars, writerVars, pipe, stream, taken>>

\* Faulty variant: ResizeTerminal does not count.
NextSizeAlways ==
  /\ stream = "running" /\ writer = "resizing" /\ ~exited
  /\ tries' = IF tries = 0 THEN Resizes + 1 ELSE tries - 1
  /\ UNCHANGED <<writer, held, clientVars, wire, shown, runVars, errs, readerVars, pipe, offer, streamVars, taken>>

\* TerminalSizeQueue.Next
NextSize ==
  /\ stream = "running" /\ writer = "resizing" /\ ~exited
  /\ tries' = tries - 1
  /\ writer' = IF tries = 1 THEN "reading" ELSE "resizing"
  /\ UNCHANGED <<held, clientVars, wire, shown, runVars, errs, readerVars, pipe, offer, streamVars, taken>>

\* The process ended, or the connection to it: Stream returns when its copy of the
\* output has, and ttyIn and ttyOut are closed.
StreamEnds ==
  /\ stream = "running"
  /\ offer = Nothing \/ exited
  /\ stream' = "ended"
  /\ UNCHANGED <<clientVars, wire, shown, runVars, errs, readerVars, writerVars, pipe, offer, printed, taken>>

-----------------------------------------------------------------------------
(* Run and Exit.                                                           *)

\* The idle timeout or the end of the request cancels the context.
Cancel ==
  /\ handler \in {"starting", "running"} /\ ~cancelled
  /\ cancelled' = TRUE
  /\ UNCHANGED <<clientVars, wire, shown, handler, errs, readerVars, writerVars, pipe, offer, streamVars, taken>>

\* Run sends the title and starts the two goroutines, or returns when that fails.
SendInitializeMessage ==
  /\ handler = "starting"
  /\ \/ handler' = "running" /\ reader' = "reading" /\ writer' = "reading"
     \/ browser = "closed" /\ handler' = "^C" /\ reader' = "ended" /\ writer' = "ended"
  /\ UNCHANGED <<clientVars, wire, shown, cancelled, errs, out, held, tries, pipe, offer, streamVars, taken>>

\* Run returns and processTTY calls Exit.
RunReturns ==
  /\ handler = "running"
  /\ handler' = "^C"
  /\ \/ cancelled /\ UNCHANGED errs
     \/ errs > 0 /\ errs' = errs - 1
  /\ UNCHANGED <<clientVars, wire, shown, cancelled, readerVars, writerVars, pipe, offer, streamVars, taken>>

\* Exit writes ^C and ^D.  A Write to a closed pipe fails, which Exit ignores.
ExitWrites(at, char, blocked, next) ==
  /\ handler = at
  /\ \/ /\ pipe = Nothing /\ ~closed
        /\ pipe' = char
        /\ handler' = blocked
     \/ /\ closed
        /\ handler' = next
        /\ UNCHANGED pipe
  /\ UNCHANGED <<clientVars, wire, shown, cancelled, errs, readerVars, writerVars, offer, streamVars, taken>>

\* The pipe is closed during such a Write.
ExitWriteFails(blocked, next) ==
  /\ handler = blocked /\ closed
  /\ handler' = next
  /\ pipe' = Nothing
  /\ UNCHANGED <<clientVars, wire, shown, cancelled, errs, readerVars, writerVars, offer, streamVars, taken>>

\* Exit closes the pipes and the channels.
ExitCloses ==
  /\ handler = "exiting"
  /\ handler' = "exited"
  /\ offer' = Nothing
  /\ UNCHANGED <<clientVars, wire, shown, cancelled, errs, readerVars, writerVars, pipe, streamVars, taken>>

\* The handler closes the websocket.
CloseConn ==
  /\ handler = "exited"
  /\ handler' = "gone"
  /\ UNCHANGED <<clientVars, wire, shown, cancelled, errs, readerVars, writerVars, pipe, offer, streamVars, taken>>

Handler ==
  \/ SendInitializeMessage \/ RunReturns \/ ExitCloses \/ CloseConn
  \/ ExitWrites("^C", Interrupt, "^C blocked", "^D")
  \/ ExitWrites("^D", EndOfText, "^D blocked", "exiting")
  \/ ExitWriteFails("^C blocked", "^D") \/ ExitWriteFails("^D blocked", "exiting")

-----------------------------------------------------------------------------
ended == handler = "gone" /\ reader = "ended" /\ writer = "ended"

\* The session is over.
Over == ended /\ UNCHANGED vars

Next ==
  \/ \E m \in Inputs \union {Ping, ResizeTerminal} : SendMessage(m)
  \/ CloseTab \/ Cancel \/ Reader \/ Writer \/ Handler
  \/ TakeInput \/ BringOutput \/ NextSize \/ StreamEnds
  \/ Over

Spec == Init /\ [][Next]_vars

\* What waits for an open browser to take it: output, the title, a pong.  masterWrite
\* has no deadline (webtty.go:150-160).
OutputWaits == reader = "writing" /\ browser = "open" /\ handler # "gone"
TitleWaits == handler = "starting" /\ browser = "open"
PongWaits ==
  writer = "reading" /\ wire # <<>> /\ Head(wire) = Ping /\ browser = "open" /\ handler # "gone"

\* Goroutines run on, and what is written to the stdin of an exec is read.  Nothing
\* is said of the browser, of the process, or of when Stream asks for a size.
Fairness ==
  /\ WF_vars(~OutputWaits /\ Reader) /\ WF_vars(~PongWaits /\ Writer)
  /\ WF_vars(~TitleWaits /\ Handler) /\ WF_vars(TakeInput)

FairSpec == Spec /\ Fairness

-----------------------------------------------------------------------------
(* Properties.                                                             *)

\* The handler and its context ...
RunTypes ==
  /\ handler \in {"starting", "running", "^C", "^C blocked", "^D", "^D blocked", "exiting", "exited", "gone"}
  /\ cancelled \in BOOLEAN

\* ... and what it bridges.
BridgeTypes ==
  /\ browser \in {"open", "closed"}
  /\ wire \in Seq(Inputs \union {Ping, ResizeTerminal})
  /\ typed \in Seq(Inputs) /\ shown \in Seq(Outputs)
  /\ errs \in 0 .. 2
  /\ reader \in {"none", "reading", "writing", "ended"} /\ out \in Outputs \union {Nothing}
  /\ writer \in {"none", "reading", "typing", "blocked", "resizing", "ended"}
  /\ held \in Pieces \union {Nothing}
  /\ tries \in 0 .. Resizes
  /\ pipe \in Pieces \union {Interrupt, EndOfText, Nothing}
  /\ offer \in Outputs \union {Nothing}
  /\ stream \in {"running", "ended"} /\ printed \in 0 .. Len(Printout)
  /\ taken \in Seq(Pieces)

\* Every variable has its type: webtty.go:69 makes errs for two results, and no third
\* one ever comes.
TypeOK == RunTypes /\ BridgeTypes

\* What Reads make of all that was typed: an input longer than a Read loses the rest.
Pasted == [i \in 1 .. Len(typed) |-> Cut[typed[i]]]

\* What is typed, and what the process prints.
In == INSTANCE Relay WITH
  Data <- Pieces,
  source <- Pasted,
  sink <- taken

Out == INSTANCE Relay WITH
  Data <- Outputs,
  source <- SubSeq(Printout, 1, printed),
  sink <- shown

\* webtty.go:14-16, "WebTTY bridges a PTY slave and its PTY master", in both
\* directions, whatever the session's end and Exit's own input do at the same time.
Bridges == In!Spec /\ Out!Spec

\* The tab is closed and its last messages change no size.
LeftQuietly ==
  /\ browser = "closed" /\ writer # "resizing"
  /\ \A i \in 1 .. Len(wire) : wire[i] # ResizeTerminal

\* An open browser takes what is written to it.
BrowserTakes == []<>~(OutputWaits \/ TitleWaits)

\* The session ends, with both goroutines of the bridge, after the tab was closed and
\* once Run was cancelled, also when a goroutine waits in a Write or in a change of
\* the size that nobody will take; and after the process ended, if the browser takes
\* what is left.
SessionEnds ==
  /\ (LeftQuietly \/ (cancelled /\ handler # "starting")) ~> ended
  /\ BrowserTakes => ((cancelled \/ stream = "ended") ~> ended)
=============================================================================
