-------------------------- MODULE IdleTimeoutProofs --------------------------
(***************************************************************************)
(* Proofs about IdleTimeout, for every idle time, every capacity of the    *)
(* channel and every number of helpers: its types, and that only an idle   *)
(* session is cut.                                                         *)
(***************************************************************************)
EXTENDS IdleTimeout, TLAPS

\* The last output has yet to restart the timer, or the session is at its end.
Pending ==
  \/ reader \in {"forwarding", "ended"}
  \/ signals > 0
  \/ \E h \in Helpers : helper[h] # "none"

\* The timer is not ahead of the time without output, unless no time has passed
\* since an output whose signal is on its way.
TimerFollows ==
  watcher = "select" /\ ~slow => timer + quiet >= IdleTime \/ (quiet = 0 /\ Pending)

IInv == TypeOK /\ TimerFollows

-----------------------------------------------------------------------------

LEMMA TypeInit == Init => TypeOK
<1> SUFFICES ASSUME Init PROVE TypeOK
  OBVIOUS
<1>1. timer \in 0 .. IdleTime /\ quiet \in 0 .. IdleTime /\ signals \in 0 .. ChanCap
  BY IdleAssumption DEF Init
<1>2. helper \in [Helpers -> {"none", "checking", "sending"}]
  BY DEF Init
<1> QED
  BY <1>1, <1>2 DEF Init, TypeOK

\* A helper moves on and the others stay where they are.
LEMMA HelperMoves ==
  ASSUME TypeOK, NEW h \in Helpers, NEW s \in {"none", "checking", "sending"},
         helper' = [helper EXCEPT ![h] = s]
  PROVE  helper' \in [Helpers -> {"none", "checking", "sending"}]
  BY DEF TypeOK

LEMMA TypeStep == TypeOK /\ [Next]_vars => TypeOK'
<1> SUFFICES ASSUME TypeOK, [Next]_vars PROVE TypeOK'
  OBVIOUS
<1> USE IdleAssumption DEF rest
<1>1. ASSUME Read PROVE TypeOK'
  <2>1. helper' \in [Helpers -> {"none", "checking", "sending"}]
    BY <1>1, HelperMoves DEF Read
  <2>2. reader' \in {"forwarding", "reading", "ended"}
    BY <1>1 DEF Read
  <2>3. UNCHANGED <<signals, closed, watcher, timer, cancelled, handler, gone, rest>>
    BY <1>1 DEF Read
  <2> QED
    BY <2>1, <2>2, <2>3 DEF TypeOK
<1>2. ASSUME ForwardFails \/ ReadFails PROVE TypeOK'
  BY <1>2 DEF ForwardFails, ReadFails, TypeOK
<1>3. ASSUME Output PROVE TypeOK'
  <2>1. quiet' \in 0 .. IdleTime
    BY <1>3 DEF Output
  <2>2. reader' \in {"forwarding", "reading", "ended"}
    BY <1>3 DEF Output
  <2>3. UNCHANGED <<helper, signals, closed, watcher, timer, cancelled, handler, gone, slow, crashed>>
    BY <1>3 DEF Output
  <2> QED
    BY <2>1, <2>2, <2>3 DEF TypeOK
<1>4. ASSUME OutputEnds \/ CloseTab PROVE TypeOK'
  BY <1>4 DEF OutputEnds, CloseTab, TypeOK
<1>5. ASSUME NEW h \in Helpers, Check(h) PROVE TypeOK'
  <2>1. helper' \in [Helpers -> {"none", "checking", "sending"}]
    BY <1>5, HelperMoves DEF Check
  <2> QED
    BY <1>5, <2>1 DEF Check, TypeOK
<1>6. ASSUME NEW h \in Helpers, Send(h) PROVE TypeOK'
  <2>1. helper' \in [Helpers -> {"none", "checking", "sending"}]
    <3>1. CASE closed
      BY <1>6, <3>1 DEF Send, TypeOK
    <3>2. CASE ~closed
      BY <1>6, <3>2, HelperMoves DEF Send
    <3> QED
      BY <3>1, <3>2
  <2>2. signals' \in 0 .. ChanCap
    BY <1>6 DEF Send, TypeOK
  <2>3. crashed' \in BOOLEAN
    BY <1>6 DEF Send, TypeOK
  <2>4. UNCHANGED <<reader, closed, watcher, timer, cancelled, handler, gone, quiet, slow>>
    BY <1>6 DEF Send
  <2> QED
    BY <2>1, <2>2, <2>3, <2>4 DEF TypeOK
<1>7. ASSUME ReceiveClosed \/ Expire PROVE TypeOK'
  BY <1>7 DEF ReceiveClosed, Expire, TypeOK
<1>8. ASSUME Receive PROVE TypeOK'
  <2>1. signals' \in 0 .. ChanCap
    BY <1>8 DEF Receive, TypeOK
  <2>2. timer' \in 0 .. IdleTime
    BY <1>8 DEF Receive
  <2>3. slow' \in BOOLEAN
    BY <1>8 DEF Receive
  <2>4. UNCHANGED <<reader, helper, closed, watcher, cancelled, handler, gone, quiet, crashed>>
    BY <1>8 DEF Receive
  <2> QED
    BY <2>1, <2>2, <2>3, <2>4 DEF TypeOK
<1>9. ASSUME RunReturns \/ CloseActive \/ Disconnect \/ Finish PROVE TypeOK'
  BY <1>9 DEF RunReturns, CloseActive, Disconnect, Finish, TypeOK
<1>10. ASSUME Tick PROVE TypeOK'
  BY <1>10 DEF Tick, TypeOK
<1>11. CASE UNCHANGED vars
  BY <1>11 DEF vars, TypeOK
<1> QED
  BY <1>1, <1>2, <1>3, <1>4, <1>5, <1>6, <1>7, <1>8, <1>9, <1>10, <1>11
     DEF Next, Running, Ended, ReaderStep, WatcherStep, HandlerStep, HelperStep

\* No time passes while a signal is on its way, but while output waits for the
\* browser.
LEMMA PendingIsBusy ==
  ASSUME TypeOK, watcher = "select", Pending, Tick
  PROVE  slow'
<1> USE IdleAssumption
<1>1. CASE reader = "forwarding"
  BY <1>1 DEF Tick, TypeOK
<1>2. CASE reader = "ended"
  BY <1>2 DEF Tick, Busy, TypeOK
<1>3. CASE signals > 0
  BY <1>3 DEF Tick, Busy
<1>4. CASE signals = 0 /\ \E h \in Helpers : helper[h] # "none"
  <2>1. PICK h \in Helpers : helper[h] \in {"checking", "sending"}
    BY <1>4 DEF TypeOK
  <2> QED
    BY <1>4, <2>1 DEF Tick, Busy
<1> QED
  BY <1>1, <1>2, <1>3, <1>4 DEF Pending, TypeOK

LEMMA TimerInit == Init => TimerFollows
  BY IdleAssumption DEF Init, TimerFollows

LEMMA TimerStep == TypeOK /\ TimerFollows /\ [Next]_vars => TimerFollows'
<1> SUFFICES ASSUME TypeOK, TimerFollows, [Next]_vars, watcher' = "select", ~slow'
             PROVE  timer' + quiet' >= IdleTime \/ (quiet' = 0 /\ Pending')
  BY DEF TimerFollows
<1> USE IdleAssumption DEF rest
<1>1. ASSUME UNCHANGED <<watcher, slow, timer, quiet>>, Pending => Pending'
      PROVE  timer' + quiet' >= IdleTime \/ (quiet' = 0 /\ Pending')
  BY <1>1 DEF TimerFollows
<1>2. CASE Read
  <2>1. Pending'
    BY <1>2 DEF Read, Pending, TypeOK
  <2> QED
    BY <1>1, <1>2, <2>1 DEF Read
<1>3. CASE ForwardFails \/ ReadFails \/ OutputEnds
  BY <1>1, <1>3 DEF ForwardFails, ReadFails, OutputEnds, Pending
<1>4. CASE Output
  BY <1>4 DEF Output, Pending
<1>5. ASSUME NEW h \in Helpers, Check(h)
      PROVE  timer' + quiet' >= IdleTime \/ (quiet' = 0 /\ Pending')
  <2>1. Pending'
    BY <1>5 DEF Check, Pending, TypeOK
  <2> QED
    BY <1>1, <1>5, <2>1 DEF Check
<1>6. ASSUME NEW h \in Helpers, Send(h)
      PROVE  timer' + quiet' >= IdleTime \/ (quiet' = 0 /\ Pending')
  <2>1. Pending'
    BY <1>6 DEF Send, Pending, TypeOK
  <2> QED
    BY <1>1, <1>6, <2>1 DEF Send
<1>7. CASE Receive
  BY <1>7 DEF Receive, TypeOK
<1>8. CASE ReceiveClosed \/ Expire
  BY <1>8 DEF ReceiveClosed, Expire
<1>9. CASE RunReturns \/ CloseActive \/ Disconnect \/ Finish \/ CloseTab
  BY <1>1, <1>9 DEF RunReturns, CloseActive, Disconnect, Finish, CloseTab, Pending
<1>10. CASE Tick
  <2>1. watcher = "select" /\ ~slow /\ ~Pending
    BY <1>10, PendingIsBusy DEF Tick
  <2>2. timer + quiet >= IdleTime
    BY <2>1 DEF TimerFollows
  <2> QED
    BY <1>10, <2>2 DEF Tick, TypeOK
<1>11. CASE UNCHANGED vars
  BY <1>1, <1>11 DEF vars, Pending
<1> QED
  BY <1>2, <1>3, <1>4, <1>5, <1>6, <1>7, <1>8, <1>9, <1>10, <1>11
     DEF Next, Running, Ended, ReaderStep, WatcherStep, HandlerStep, HelperStep

LEMMA IInvAlways == Spec => []IInv
<1>1. Init => IInv
  BY TypeInit, TimerInit DEF IInv
<1>2. IInv /\ [Next]_vars => IInv'
  BY TypeStep, TimerStep DEF IInv
<1> QED
  BY <1>1, <1>2, PTL DEF Spec

-----------------------------------------------------------------------------

\* The types of the timer, the channel, the goroutines and their histories.
THEOREM TypeCorrect == Spec => []TypeOK
<1>1. IInv => TypeOK
  BY DEF IInv
<1> QED
  BY <1>1, IInvAlways, PTL

\* The timer cuts no session that outputs something more often than every IdleTime
\* to a browser that keeps up, for every idle time and every number of helpers.
THEOREM CutsOnlyIdle == Spec => OnlyIdleIsCut
<1>1. IInv /\ [Next]_vars => [Expire => quiet = 0 \/ quiet = IdleTime \/ slow]_vars
  BY IdleAssumption DEF IInv, TypeOK, TimerFollows, Expire
<1> QED
  BY <1>1, IInvAlways, PTL DEF Spec, OnlyIdleIsCut
=============================================================================
