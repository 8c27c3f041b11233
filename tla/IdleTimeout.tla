------------------------------ MODULE IdleTimeout ------------------------------
(***************************************************************************)
(* The idle timeout of one session.  Every Read of a backend's TTY starts  *)
(* a helper goroutine that signals activity on activeChan                  *)
(* (container/docker/slave.go, container/grpc/grpc_tty.go,                 *)
(* container/kube/tty.go); the watcher goroutine of processTTY             *)
(* (route/exec.go:138-160) restarts its timer on each signal and cancels   *)
(* the session when the timer fires; the handler's deferred Exit closes    *)
(* activeChan.                                                             *)
(*                                                                         *)
(* Time is counted down by the timer.  A tick of the clock is long against *)
(* the scheduling of goroutines: it does not pass while one of them can    *)
(* run on (Busy).  Output may wait for a slow browser for many ticks.      *)
(***************************************************************************)
EXTENDS Naturals

CONSTANTS
  IdleTime,   \* options.IdleTime in ticks, not 0
  Helpers,    \* bound: the helper goroutines that may be alive at once
  ChanCap     \* the capacity of activeChan (5)

ASSUME IdleAssumption ==
  /\ IdleTime \in Nat \ {0}
  /\ ChanCap \in Nat \ {0}

VARIABLES
  reader,     \* webtty.Run's goroutine that reads the TTY
  helper,     \* the helper goroutines that Read started
  signals,    \* len(activeChan)
  closed,     \* close(activeChan) was called
  watcher,    \* the goroutine that watches activeChan and the timer
  timer,      \* ticks until the timer fires
  cancelled,  \* timeoutCancel was called
  handler,    \* processTTY: running, and the steps of leaving it
  gone,       \* the browser closed the tab
  quiet,      \* history: ticks since the last output, up to IdleTime
  slow,       \* history: since the last signal, a tick passed while output
              \* waited for the browser
  crashed     \* a goroutine panicked, and the process with it

vars == <<reader, helper, signals, closed, watcher, timer, cancelled,
          handler, gone, quiet, slow, crashed>>
rest == <<quiet, slow, crashed>>

Init ==
  /\ reader = "forwarding"
  /\ helper = [h \in Helpers |-> "none"]
  /\ signals = 0
  /\ closed = FALSE
  /\ watcher = "select"
  /\ timer = IdleTime
  /\ cancelled = FALSE
  /\ handler = "running"
  /\ gone = FALSE
  /\ quiet = 0
  /\ slow = FALSE
  /\ crashed = FALSE

-----------------------------------------------------------------------------
(* The goroutine that reads the TTY, and the helpers of its Reads.         *)

\* The previous output is with the browser: Read again, which starts a
\* helper and then waits for the backend.
Read ==
  /\ reader = "forwarding"
  /\ handler # "done"
  /\ reader' = "reading"
  /\ \E h \in Helpers :
       /\ helper[h] = "none"
       /\ helper' = [helper EXCEPT ![h] = "checking"]
  /\ UNCHANGED <<signals, closed, watcher, timer, cancelled, handler, gone, rest>>

\* The output cannot be written to a browser that left or was disconnected.
ForwardFails ==
  /\ reader = "forwarding"
  /\ gone \/ handler = "done"
  /\ reader' = "ended"
  /\ UNCHANGED <<helper, signals, closed, watcher, timer, cancelled, handler, gone, rest>>

\* The process in the container outputs something.
Output ==
  /\ reader = "reading"
  /\ handler \notin {"disconnected", "done"}
  /\ reader' = "forwarding"
  /\ quiet' = 0
  /\ UNCHANGED <<helper, signals, closed, watcher, timer, cancelled, handler, gone, slow, crashed>>

\* The process ended.
OutputEnds ==
  /\ reader = "reading"
  /\ handler \notin {"disconnected", "done"}
  /\ reader' = "ended"
  /\ UNCHANGED <<helper, signals, closed, watcher, timer, cancelled, handler, gone, rest>>

\* The connection to the backend was closed by Exit.
ReadFails ==
  /\ reader = "reading"
  /\ handler \in {"disconnected", "done"}
  /\ reader' = "ended"
  /\ UNCHANGED <<helper, signals, closed, watcher, timer, cancelled, handler, gone, rest>>

\* if len(activeChan) != 0 { return }
Check(h) ==
  /\ helper[h] = "checking"
  /\ helper' = [helper EXCEPT ![h] = IF signals # 0 THEN "none" ELSE "sending"]
  /\ UNCHANGED <<reader, signals, closed, watcher, timer, cancelled, handler, gone, rest>>

\* activeChan <- struct{}{}, which panics if the channel is closed by then.
Send(h) ==
  /\ helper[h] = "sending"
  /\ \/ /\ closed
        /\ crashed' = TRUE
        /\ UNCHANGED <<helper, signals>>
     \/ /\ ~closed /\ signals < ChanCap
        /\ signals' = signals + 1
        /\ helper' = [helper EXCEPT ![h] = "none"]
        /\ UNCHANGED crashed
  /\ UNCHANGED <<reader, closed, watcher, timer, cancelled, handler, gone, quiet, slow>>

-----------------------------------------------------------------------------
(* The watcher.                                                            *)

\* Faulty variant: the signal is received and the timer runs on.
ReceiveOnly ==
  /\ watcher = "select"
  /\ signals > 0
  /\ signals' = signals - 1
  /\ UNCHANGED <<reader, helper, closed, watcher, timer, cancelled, handler, gone, rest>>

\* Faulty variant: the idle time is added to what is left of it.
ReceiveExtends ==
  /\ watcher = "select"
  /\ signals > 0
  /\ signals' = signals - 1
  /\ timer' = timer + IdleTime
  /\ UNCHANGED <<reader, helper, closed, watcher, cancelled, handler, gone, rest>>

\* The connection is active, reset the timer (Reset also withdraws a firing
\* that the watcher has not received).
Receive ==
  /\ watcher = "select"
  /\ signals > 0
  /\ signals' = signals - 1
  /\ timer' = IdleTime
  /\ slow' = FALSE
  /\ UNCHANGED <<reader, helper, closed, watcher, cancelled, handler, gone, quiet, crashed>>

\* activeChan is closed and drained.
ReceiveClosed ==
  /\ watcher = "select"
  /\ closed /\ signals = 0
  /\ watcher' = "done"
  /\ UNCHANGED <<reader, helper, signals, closed, timer, cancelled, handler, gone, rest>>

\* Faulty variant: the watcher gives up without cancelling the session.
ExpireSilently ==
  /\ watcher = "select"
  /\ timer = 0
  /\ watcher' = "done"
  /\ UNCHANGED <<reader, helper, signals, closed, timer, cancelled, handler, gone, rest>>

\* The timer fired.  select may prefer it to a signal that is also there.
Expire ==
  /\ watcher = "select"
  /\ timer = 0
  /\ cancelled' = TRUE
  /\ watcher' = "done"
  /\ UNCHANGED <<reader, helper, signals, closed, timer, handler, gone, rest>>

-----------------------------------------------------------------------------
(* The handler.                                                            *)

\* webtty.Run returns.
RunReturns ==
  /\ handler = "running"
  /\ cancelled \/ gone \/ reader = "ended"
  /\ handler' = "exiting"
  /\ UNCHANGED <<reader, helper, signals, closed, watcher, timer, cancelled, gone, rest>>

\* Exit types ^C and ^D into the process, then close(activeChan).
CloseActive ==
  /\ handler = "exiting"
  /\ handler' = "closing"
  /\ closed' = TRUE
  /\ UNCHANGED <<reader, helper, signals, watcher, timer, cancelled, gone, rest>>

\* The rest of Exit: the connection to the backend is closed.
Disconnect ==
  /\ handler = "closing"
  /\ handler' = "disconnected"
  /\ UNCHANGED <<reader, helper, signals, closed, watcher, timer, cancelled, gone, rest>>

\* conn.Close(), the WebSocket to the browser.
Finish ==
  /\ handler = "disconnected"
  /\ handler' = "done"
  /\ UNCHANGED <<reader, helper, signals, closed, watcher, timer, cancelled, gone, rest>>

CloseTab ==
  /\ ~gone /\ handler = "running"
  /\ gone' = TRUE
  /\ UNCHANGED <<reader, helper, signals, closed, watcher, timer, cancelled, handler, rest>>

-----------------------------------------------------------------------------
\* A goroutine can run on without waiting for the container or the clock.
Busy ==
  \/ reader = "forwarding" /\ (gone \/ handler = "done")
  \/ reader = "reading" /\ handler \in {"disconnected", "done"}
  \/ \E h \in Helpers : helper[h] = "checking"
  \/ \E h \in Helpers : helper[h] = "sending" /\ (closed \/ signals < ChanCap)
  \/ watcher = "select" /\ (signals > 0 \/ closed \/ timer = 0)
  \/ handler = "running" /\ (cancelled \/ gone \/ reader = "ended")
  \/ handler \in {"exiting", "closing", "disconnected"}

Tick ==
  /\ ~Busy /\ handler # "done"
  /\ timer > 0
  /\ timer' = timer - 1
  /\ quiet' = IF quiet < IdleTime THEN quiet + 1 ELSE quiet
  /\ slow' = (slow \/ reader = "forwarding")
  /\ UNCHANGED <<reader, helper, signals, closed, watcher, cancelled, handler, gone, crashed>>

Ended ==
  /\ crashed \/ (handler = "done" /\ reader = "ended" /\ watcher = "done" /\ ~Busy)
  /\ UNCHANGED vars

ReaderStep == Read \/ ForwardFails \/ ReadFails
HelperStep(h) == Check(h) \/ Send(h)
WatcherStep == Receive \/ ReceiveClosed \/ Expire
HandlerStep == RunReturns \/ CloseActive \/ Disconnect \/ Finish

Running ==
  \/ ReaderStep \/ WatcherStep \/ HandlerStep
  \/ \E h \in Helpers : HelperStep(h)
  \/ Output \/ OutputEnds \/ CloseTab
  \/ Tick

Next == (~crashed /\ Running) \/ Ended

Spec == Init /\ [][Next]_vars

\* Goroutines that can run do, and time passes.  Nothing is assumed of the
\* process in the container and of the browser.
Fairness ==
  /\ WF_vars(~crashed /\ ReaderStep)
  /\ \A h \in Helpers : WF_vars(~crashed /\ HelperStep(h))
  /\ WF_vars(~crashed /\ WatcherStep)
  /\ WF_vars(~crashed /\ HandlerStep)
  /\ WF_vars(~crashed /\ Tick)

FairSpec == Spec /\ Fairness

-----------------------------------------------------------------------------
(* Properties.                                                             *)

\* Every variable has its type.
TypeOK ==
  /\ reader \in {"forwarding", "reading", "ended"}
  /\ helper \in [Helpers -> {"none", "checking", "sending"}]
  /\ signals \in 0 .. ChanCap
  /\ closed \in BOOLEAN
  /\ watcher \in {"select", "done"}
  /\ timer \in 0 .. IdleTime
  /\ cancelled \in BOOLEAN
  /\ handler \in {"running", "exiting", "closing", "disconnected", "done"}
  /\ gone \in BOOLEAN
  /\ quiet \in 0 .. IdleTime
  /\ slow \in BOOLEAN
  /\ crashed \in BOOLEAN

\* A session that outputs something more often than every IdleTime is not cut
\* as long as its browser keeps up: when the timer fires there was no output
\* for a whole IdleTime, except perhaps in the very tick that it fires in.
\* (Nothing is signalled while output waits for a slow browser.)
OnlyIdleIsCut ==
  [][Expire => quiet = 0 \/ quiet = IdleTime \/ slow]_vars

\* An idle session ends: after an IdleTime without output the handler gets
\* its TTY exited and the browser disconnected, unless output resumes.
IdleIsCut == (quiet = IdleTime) ~> (handler = "done" \/ quiet = 0 \/ crashed)

-----------------------------------------------------------------------------
(* What a comment of the code promises and the code does not do.           *)

\* types/tty.go:20, "ActiveChan is to notify that the connection is active":
\* notifying it is all a helper does, in particular it never panics.
NotifyingIsSafe == ~crashed
=============================================================================
