----------------------------- MODULE ExecSession -----------------------------
(***************************************************************************)
(* The life of the WebSocket connections to /exec/:eid/ws (route/exec.go,  *)
(* route/share.go, route/id.go) and of the three pieces of server state    *)
(* they share: server.execs, server.masters (both under server.m) and the  *)
(* connection counter (route/handler_atomic.go).                           *)
(*                                                                         *)
(* Every connection is a goroutine.  A step of this module is what one     *)
(* goroutine does between two points at which another one may observe or   *)
(* change shared state: a critical section of server.m or of the counter,  *)
(* a call to the container backend, a read from the browser.               *)
(*                                                                         *)
(* A connection either HOSTS the exec ID (it creates the MasterTTY, so the *)
(* connection itself names that master) or VIEWS it (it forks a SlaveTTY   *)
(* from a master it found in server.masters).                              *)
(***************************************************************************)
EXTENDS Naturals, FiniteSets

CONSTANTS
  Conns,          \* WebSocket requests, each served by one goroutine
  ExecIDs,        \* the IDs util.ID can hand out
  MaxConnection,  \* options.MaxConnection, 0 = no limit
  IdleTimeout,    \* options.IdleTime # 0
  Collaborate,    \* options.Collaborate
  NoMaster,       \* absence of a key in server.masters
  NoExec          \* a connection that has not asked for an exec ID yet

ASSUME SessionAssumption ==
  /\ IsFiniteSet(Conns)
  /\ NoMaster \notin Conns
  /\ NoExec \notin ExecIDs
  /\ MaxConnection \in Nat
  /\ IdleTimeout \in BOOLEAN
  /\ Collaborate \in BOOLEAN

VARIABLES
  execs,        \* the keys of server.execs (the container behind a key never changes)
  minted,       \* the exec IDs ever handed out: util.ID does not repeat one
  masters,      \* server.masters: exec ID -> the connection that owns the master
  connections,  \* counter.connections, and the count of counter.wg
  pc,           \* where each connection's goroutine is
  eid,          \* c.Param("eid") of each connection
  via,          \* the *MasterTTY a viewer found in server.masters
  tty,          \* the exec'd process of a host: none, open, ended by itself, exited by us
  gone,         \* the browser closed the WebSocket
  typing,       \* whose last message is still in slave.Write or ResizeTerminal
  writing,      \* whose last output, or title, is still in masterWrite
  regs          \* history: the connections that ever registered a master for an ID

runVars == <<typing, writing>>
vars == <<execs, minted, masters, connections, pc, eid, via, tty, gone, runVars, regs>>

AdmittedPCs == {"upgrade", "exec", "register", "running", "cleanup", "exit", "closing"}
PCs == AdmittedPCs \union
       {"idle", "lookup", "getinfo", "rejected",
        "shareUpgrade", "shareCheck", "fork", "viewing", "done"}

Admitted == {k \in Conns : pc[k] \in AdmittedPCs}
Counted  == {k \in Conns : pc[k] \in AdmittedPCs \union {"rejected"}}

Goto(k, from, to) == pc[k] = from /\ pc' = [pc EXCEPT ![k] = to]

Init ==
  /\ execs = {}
  /\ minted = {}
  /\ masters = [e \in ExecIDs |-> NoMaster]
  /\ connections = 0
  /\ pc  = [k \in Conns |-> "idle"]
  /\ eid = [k \in Conns |-> NoExec]
  /\ via = [k \in Conns |-> NoMaster]
  /\ tty = [k \in Conns |-> "none"]
  /\ gone = [k \in Conns |-> FALSE]
  /\ typing = {}
  /\ writing = {}
  /\ regs = [e \in ExecIDs |-> {}]

-----------------------------------------------------------------------------
(* Exec IDs and the choice between hosting and viewing.                    *)

\* GET /e/:cid/: mint an exec ID and redirect to it.
Redirect(e) ==
  /\ e \notin minted
  /\ minted' = minted \union {e}
  /\ execs' = execs \union {e}
  /\ UNCHANGED <<masters, connections, pc, eid, via, tty, gone, runVars, regs>>

\* GET /exec/:eid/ws: getContainerID, the first critical section of handleExec.
Connect(k, e) ==
  /\ pc[k] = "idle"
  /\ pc' = [pc EXCEPT ![k] = IF e \in execs THEN "lookup" ELSE "done"]
  /\ eid' = [eid EXCEPT ![k] = e]
  /\ UNCHANGED <<execs, minted, masters, connections, via, tty, gone, runVars, regs>>

\* The second critical section of handleExec: is there a master already?
LookupMaster(k) ==
  LET m == masters[eid[k]] IN
  /\ Goto(k, "lookup", IF m # NoMaster THEN "shareUpgrade" ELSE "getinfo")
  /\ via' = [via EXCEPT ![k] = m]
  /\ UNCHANGED <<execs, minted, masters, connections, eid, tty, gone, runVars, regs>>

-----------------------------------------------------------------------------
(* Hosting: generateHandleWS and processTTY.                               *)

\* Faulty variant: the limit is tested against the count before counter.add.
OverLimitBeforeAdd(num) == MaxConnection # 0 /\ num - 1 > MaxConnection

\* The answer of counter.add(1) exceeds the maximum number of connections.
OverLimit(num) == MaxConnection # 0 /\ num > MaxConnection

\* GetInfo answered: without a shell the handler returns, otherwise it takes
\* a slot of the counter, which a rejected connection also holds until Close.
GetInfo(k) ==
  /\ \/ /\ Goto(k, "getinfo", "done")
        /\ UNCHANGED connections
     \/ /\ Goto(k, "getinfo",
                IF OverLimit(connections + 1) THEN "rejected" ELSE "upgrade")
        /\ connections' = connections + 1
  /\ UNCHANGED <<execs, minted, masters, eid, via, tty, gone, runVars, regs>>

\* Upgrade, readInitMessage and parseQuery: the browser's first message is
\* accepted, or it (or the upgrade) is refused.
InitMessage(k) ==
  /\ ~gone[k]
  /\ Goto(k, "upgrade", "exec") \/ Goto(k, "upgrade", "closing")
  /\ UNCHANGED <<execs, minted, masters, connections, eid, via, tty, gone, runVars, regs>>

\* readInitMessage fails because the browser left.
InitMessageLost(k) ==
  /\ gone[k]
  /\ Goto(k, "upgrade", "closing")
  /\ UNCHANGED <<execs, minted, masters, connections, eid, via, tty, gone, runVars, regs>>

\* Faulty variant: a failed Exec also unlinks the exec ID.
ExecUnlinksOnFailure(k) ==
  /\ \/ /\ Goto(k, "exec", "register")
        /\ tty' = [tty EXCEPT ![k] = "open"]
        /\ UNCHANGED execs
     \/ /\ Goto(k, "exec", "closing")
        /\ execs' = execs \ {eid[k]}
        /\ UNCHANGED tty
  /\ UNCHANGED <<minted, masters, connections, eid, via, gone, runVars, regs>>

\* containerCli.Exec answers: a TTY whose Exit is deferred, or an error.
Exec(k) ==
  /\ \/ /\ Goto(k, "exec", "register")
        /\ tty' = [tty EXCEPT ![k] = "open"]
     \/ /\ Goto(k, "exec", "closing")
        /\ UNCHANGED tty
  /\ UNCHANGED <<execs, minted, masters, connections, eid, via, gone, runVars, regs>>

\* A goroutine of k's Run may be in a call to the other side or not.  Only a call that
\* is under way when its own side is gone delays anything, so it is chosen then.
InCall(set, k, may) == IF may THEN {set, set \union {k}} ELSE {set}

\* makeTitleBuff and NewMasterTTY, then the critical section that publishes
\* the master, and Run; an error of the first two leaves through the deferred Exit.
Register(k) ==
  /\ \/ /\ Goto(k, "register", "running")
        /\ masters' = [masters EXCEPT ![eid[k]] = k]
        /\ regs' = [regs EXCEPT ![eid[k]] = @ \union {k}]
        /\ typing' \in InCall(typing, k, gone[k])
        /\ writing' \in InCall(writing, k, tty[k] = "ended" /\ ~gone[k])
     \/ /\ Goto(k, "register", "exit")
        /\ UNCHANGED <<masters, regs, runVars>>
  /\ UNCHANGED <<execs, minted, connections, eid, via, tty, gone>>

\* Run of k returns; what its goroutines still do is in Bridge.
Return(k, from, to) ==
  /\ Goto(k, from, to)
  /\ typing' = typing \ {k} /\ writing' = writing \ {k}
  /\ UNCHANGED <<execs, minted, masters, connections, eid, via, tty, gone, regs>>

\* Faulty variant: Run only notices that the backend closed.
TabIgnored(k) ==
  /\ tty[k] = "ended" /\ k \notin writing
  /\ Return(k, "running", "cleanup")

\* masterConn.Read fails, ErrMasterClosed: the goroutine that reads messages
\* notices the tab once the call for the one before has returned.
TabClosed(k) ==
  /\ gone[k] /\ k \notin typing
  /\ Return(k, "running", "cleanup")

\* slave.Read fails, ErrSlaveClosed: the goroutine that reads output notices the
\* end of the process once it has written what came before.
BackendClosed(k) ==
  /\ tty[k] = "ended" /\ k \notin writing
  /\ Return(k, "running", "cleanup")

\* Run returns because the idle goroutine cancelled the context.
RunTimesOut(k) ==
  /\ IdleTimeout
  /\ Return(k, "running", "cleanup")

\* Run returns an error of handleMasterReadEvent or handleSlaveReadEvent: an
\* empty, unknown or malformed message, a write that failed.
RunFails(k) == Return(k, "running", "cleanup")

\* The TTY took the message.
MessageHandled(k) ==
  /\ k \in typing
  /\ typing' = typing \ {k}
  /\ UNCHANGED <<execs, minted, masters, connections, pc, eid, via, tty, gone, writing, regs>>

\* The browser took the output.
OutputWritten(k) ==
  /\ k \in writing
  /\ writing' = writing \ {k}
  /\ UNCHANGED <<execs, minted, masters, connections, pc, eid, via, tty, gone, typing, regs>>

\* Faulty variant: the master stays in server.masters.
CleanupKeepsMaster(k) ==
  /\ Goto(k, "cleanup", "exit")
  /\ execs' = execs \ {eid[k]}
  /\ UNCHANGED <<minted, masters, connections, eid, via, tty, gone, runVars, regs>>

\* The deferred critical section: both maps forget the exec ID, whichever
\* master is registered under it by then.
Cleanup(k) ==
  /\ Goto(k, "cleanup", "exit")
  /\ masters' = [masters EXCEPT ![eid[k]] = NoMaster]
  /\ execs' = execs \ {eid[k]}
  /\ UNCHANGED <<minted, connections, eid, via, tty, gone, runVars, regs>>

\* The deferred containerTTY.Exit() has returned.  It writes ^C first, which may
\* wait for a process that does not read (docker/slave.go:44, kube/tty.go:58,
\* grpc_tty.go:52).
Exit(k) ==
  /\ Goto(k, "exit", "closing")
  /\ tty' = [tty EXCEPT ![k] = "exited"]
  /\ UNCHANGED <<execs, minted, masters, connections, eid, via, gone, runVars, regs>>

\* Faulty variant: a rejected connection returns without counter.done.
CloseForgetsRejected(k) ==
  /\ Goto(k, "closing", "done") \/ Goto(k, "rejected", "done")
  /\ connections' = IF pc[k] = "rejected" THEN connections ELSE connections - 1
  /\ UNCHANGED <<execs, minted, masters, eid, via, tty, gone, runVars, regs>>

\* Faulty variant: the branch that rejects a connection calls counter.done
\* itself, and the deferred call gives the slot back a second time.
CloseReleasesRejectedTwice(k) ==
  /\ Goto(k, "closing", "done") \/ Goto(k, "rejected", "done")
  /\ connections' = IF pc[k] = "rejected" THEN connections - 2 ELSE connections - 1
  /\ UNCHANGED <<execs, minted, masters, eid, via, tty, gone, runVars, regs>>

\* conn.Close() and the deferred counter.done().
Close(k) ==
  /\ Goto(k, "closing", "done") \/ Goto(k, "rejected", "done")
  /\ connections' = connections - 1
  /\ UNCHANGED <<execs, minted, masters, eid, via, tty, gone, runVars, regs>>

-----------------------------------------------------------------------------
(* Viewing: processShare.                                                  *)

\* The upgrade fails, or readInitMessage returns; its error is not looked at.
ShareUpgrade(k) ==
  /\ Goto(k, "shareUpgrade", "shareCheck") \/ Goto(k, "shareUpgrade", "done")
  /\ UNCHANGED <<execs, minted, masters, connections, eid, via, tty, gone, runVars, regs>>

\* getContainerID a second time.
ShareCheck(k) ==
  /\ Goto(k, "shareCheck", IF eid[k] \in execs THEN "fork" ELSE "done")
  /\ UNCHANGED <<execs, minted, masters, connections, eid, via, tty, gone, runVars, regs>>

\* GetInfo answered; fork the master found by LookupMaster, or fail on the title.
Fork(k) ==
  /\ \/ /\ Goto(k, "fork", "viewing")
        /\ typing' \in InCall(typing, k, Collaborate /\ gone[k])
     \/ /\ Goto(k, "fork", "done")
        /\ UNCHANGED typing
  /\ UNCHANGED <<execs, minted, masters, connections, eid, via, tty, gone, writing, regs>>

\* The viewer's Run returns because its own browser left.  SlaveTTY.Read never
\* returns an error, so that nothing else ends a viewer that does not type.
ViewerLeaves(k) ==
  /\ gone[k] /\ k \notin typing
  /\ Return(k, "viewing", "done")

\* The viewer's Run returns because of a message: SlaveTTY.Write could not write to
\* the TTY, or it was empty, unknown or malformed.
ViewerFails(k) == Return(k, "viewing", "done")

-----------------------------------------------------------------------------
(* The environment: browsers leave, processes in containers end.           *)

\* The last message may be in slave.Write or ResizeTerminal: a host's, or that of a
\* viewer that may type (it goes to the arbiter first).  Nothing looks at a tab
\* before the upgrade and once Run has returned; output to it fails at once.
CloseTab(k) ==
  /\ pc[k] \in {"upgrade", "exec", "register", "running",
                "shareUpgrade", "shareCheck", "fork", "viewing"}
  /\ ~gone[k]
  /\ gone' = [gone EXCEPT ![k] = TRUE]
  /\ typing' \in InCall(typing, k, pc[k] = "running" \/ (pc[k] = "viewing" /\ Collaborate))
  /\ writing' = writing \ {k}
  /\ UNCHANGED <<execs, minted, masters, connections, pc, eid, via, tty, regs>>

\* The last output, or the title, may be in masterWrite, which has no deadline.
TTYEnds(k) ==
  /\ tty[k] = "open"
  /\ tty' = [tty EXCEPT ![k] = "ended"]
  /\ writing' \in InCall(writing, k, pc[k] = "running" /\ ~gone[k])
  /\ UNCHANGED <<execs, minted, masters, connections, pc, eid, via, gone, typing, regs>>

\* Every request was served: the model has no further clients.
AllServed ==
  /\ \A k \in Conns : pc[k] = "done"
  /\ ExecIDs = minted
  /\ UNCHANGED vars

\* What the goroutines of k do without waiting for its browser or its process.
ServerStep(k) ==
  \/ LookupMaster(k) \/ GetInfo(k) \/ InitMessageLost(k) \/ Exec(k) \/ Register(k)
  \/ TabClosed(k) \/ BackendClosed(k)
  \/ Cleanup(k) \/ (tty[k] = "ended" /\ Exit(k)) \/ Close(k)
  \/ ShareCheck(k) \/ Fork(k) \/ ViewerLeaves(k)
  \/ (gone[k] /\ ShareUpgrade(k))

BrowserStep(k) ==
  \/ \E e \in ExecIDs : Connect(k, e)
  \/ InitMessage(k) \/ RunTimesOut(k) \/ RunFails(k)
  \/ OutputWritten(k) \/ (~gone[k] /\ ShareUpgrade(k))
  \/ ViewerFails(k) \/ CloseTab(k)

\* What the process in the container does, or the TTY that leads to it.
ProcessStep(k) == MessageHandled(k) \/ (tty[k] = "open" /\ Exit(k)) \/ TTYEnds(k)

Next ==
  \/ \E e \in ExecIDs : Redirect(e)
  \/ \E k \in Conns : ServerStep(k) \/ BrowserStep(k) \/ ProcessStep(k)
  \/ AllServed

Spec == Init /\ [][Next]_vars

\* Go schedules every runnable goroutine, the backend answers each call of its API,
\* and Exit returns once the process has ended.  Nothing is assumed of browsers and
\* of the processes in the containers.
Fairness == \A k \in Conns : WF_vars(ServerStep(k))

FairSpec == Spec /\ Fairness

-----------------------------------------------------------------------------
(* Properties.                                                             *)

\* Every variable has its type; in particular the counter never goes below
\* zero (sync.WaitGroup panics when it does) nor above one slot a connection.
TypeOK ==
  /\ execs \subseteq minted
  /\ minted \subseteq ExecIDs
  /\ masters \in [ExecIDs -> Conns \union {NoMaster}]
  /\ connections \in Nat
  /\ pc \in [Conns -> PCs]
  /\ eid \in [Conns -> ExecIDs \union {NoExec}]
  /\ via \in [Conns -> Conns \union {NoMaster}]
  /\ tty \in [Conns -> {"none", "open", "ended", "exited"}]
  /\ gone \in [Conns -> BOOLEAN]
  /\ typing \subseteq Conns /\ writing \subseteq Conns
  /\ regs \in [ExecIDs -> SUBSET Conns]

\* A master found in server.masters belongs to a connection that asked for
\* that very exec ID, has not run its deferred cleanup and has not exited its
\* TTY: the lookup of handleExec never returns a dead master, not even when
\* several connections host the same ID and delete each other's entries.
RegistryLive ==
  \A e \in ExecIDs : masters[e] # NoMaster =>
    LET k == masters[e] IN
      /\ pc[k] \in {"running", "cleanup"}
      /\ eid[k] = e
      /\ tty[k] \in {"open", "ended"}

\* As long as one connection only ever registered a master for an exec ID,
\* that running session can be shared: both maps hold the ID, whatever other
\* connections looked up, failed or left in the meantime.
SoleHostShareable ==
  \A k \in Conns :
    /\ pc[k] = "running"
    /\ regs[eid[k]] = {k}
    => eid[k] \in execs /\ masters[eid[k]] = k

\* Never more admitted host connections than options.MaxConnection, although
\* the counter itself also counts the connections that are being turned away.
AdmissionBound ==
  MaxConnection # 0 => Cardinality(Admitted) <= MaxConnection

\* The counter that server.Run waits for counts exactly the connections
\* between counter.add and counter.done: no return path of generateHandleWS
\* and processTTY leaks a slot or gives one back twice.
CountExact == connections = Cardinality(Counted)

\* The process reads what is written to its TTY: no message of k, and no ^C of its
\* Exit, waits for ever.
ProcessReads(k) == []<>(k \notin typing /\ (pc[k] = "exit" => tty[k] # "open"))

\* The browser of k takes what is written to it.
BrowserTakes(k) == []<>(k \notin writing)

Freed(k) == pc[k] = "done" /\ tty[k] \in {"none", "exited"}

\* A connection's goroutine finishes, whatever it was doing, with its TTY exited and
\* its slot returned, when its browser leaves, if the process reads, and when its
\* process ends, if the browser takes the output that is left.  The premises are
\* what the code needs: the goroutine that would notice may be in a call to the
\* other side (webtty.go:80, 97), and so may Exit.
LeaversFreed ==
  \A k \in Conns :
    /\ ProcessReads(k) => (gone[k] ~> Freed(k))
    /\ BrowserTakes(k) => ((tty[k] = "ended") ~> Freed(k))

-----------------------------------------------------------------------------
(* What comments of the code promise and the code does not do.             *)

\* "exec ID exist, use the same master" (route/exec.go:42): two connections
\* never host the same exec ID at the same time.
OneMasterPerExec ==
  \A j, k \in Conns :
    pc[j] = "running" /\ pc[k] = "running" /\ eid[j] = eid[k] => j = k

\* "if master dead, all slaves dead" (route/exec.go:183): a viewer whose
\* master exited ends.
SlavesDieWithMaster ==
  \A k \in Conns :
    (pc[k] = "viewing" /\ via[k] # NoMaster /\ tty[via[k]] = "exited") ~> (pc[k] = "done")
=============================================================================
