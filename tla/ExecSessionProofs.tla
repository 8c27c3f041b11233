-------------------------- MODULE ExecSessionProofs --------------------------
(***************************************************************************)
(* Proofs about ExecSession, for every set of connections, every set of    *)
(* exec IDs and every limit of connections.                                *)
(*                                                                         *)
(*   TypeCorrect        TypeOK and CountExact together: the counter cannot *)
(*                      go below zero because it counts the connections    *)
(*                      that still have to give a slot back.               *)
(*   Admission          AdmissionBound, from CountExact.                   *)
(*   Registry           RegistryLive, strengthened with what the program   *)
(*                      counter of a host says of its exec ID and TTY.     *)
(*   Shareable          SoleHostShareable, strengthened with who may       *)
(*                      appear in the history of an exec ID.               *)
(***************************************************************************)
EXTENDS ExecSession, FiniteSetTheorems, TLAPS

\* The ways in which a host's Run returns ...
RunEnds(k) == TabClosed(k) \/ BackendClosed(k) \/ RunTimesOut(k) \/ RunFails(k)

\* ... and the steps around it that move no connection to another place.
Around(k) == CloseTab(k) \/ TTYEnds(k) \/ MessageHandled(k) \/ OutputWritten(k)

-----------------------------------------------------------------------------
(* Typing and counting.                                                    *)

\* The sets of connections that are counted and admitted are finite.
LEMMA CountedFinite ==
  /\ IsFiniteSet(Counted) /\ IsFiniteSet(Admitted)
  /\ Admitted \subseteq Counted
  /\ Cardinality(Admitted) \in Nat /\ Cardinality(Counted) \in Nat
  /\ Cardinality(Admitted) <= Cardinality(Counted)
<1>1. Counted \in SUBSET Conns /\ Admitted \in SUBSET Conns /\ Admitted \in SUBSET Counted
  BY DEF Counted, Admitted
<1>2. IsFiniteSet(Counted) /\ IsFiniteSet(Admitted)
  BY <1>1, SessionAssumption, FS_Subset
<1>3. Cardinality(Admitted) \in Nat /\ Cardinality(Counted) \in Nat
  BY <1>2, FS_CardinalityType
<1>4. Cardinality(Admitted) <= Cardinality(Counted)
  BY <1>1, <1>2, FS_Subset
<1> QED
  BY <1>1, <1>2, <1>3, <1>4

\* A connection that has asked for something knows its exec ID.
EidKnown == \A k \in Conns : pc[k] # "idle" => eid[k] \in ExecIDs

\* The inductive invariant of this section.
CountInv == TypeOK /\ EidKnown /\ CountExact

\* The initial state is well typed and counts nobody.
LEMMA CountInit == Init => CountInv
<1> SUFFICES ASSUME Init PROVE CountInv
  OBVIOUS
<1>1. TypeOK /\ EidKnown
  BY SessionAssumption DEF Init, TypeOK, EidKnown, PCs, AdmittedPCs
<1>2. Counted = {}
  BY DEF Init, Counted, AdmittedPCs
<1>3. CountExact
  BY <1>2, FS_EmptySet DEF Init, CountExact
<1> QED
  BY <1>1, <1>3 DEF CountInv

\* Every step keeps the types; Close does because a connection about to
\* close is counted, so that the counter is above zero.
LEMMA TypeStep == CountInv /\ [Next]_vars => TypeOK' /\ EidKnown'
<1> SUFFICES ASSUME CountInv, [Next]_vars PROVE TypeOK' /\ EidKnown'
  OBVIOUS
<1> USE SessionAssumption DEF CountInv, TypeOK, EidKnown, PCs, AdmittedPCs, Goto, runVars
<1>1. ASSUME NEW e \in ExecIDs, Redirect(e) PROVE TypeOK' /\ EidKnown'
  BY <1>1 DEF Redirect
<1>2. ASSUME NEW k \in Conns, NEW e \in ExecIDs, Connect(k, e)
      PROVE  TypeOK' /\ EidKnown'
  BY <1>2 DEF Connect
<1>3. ASSUME NEW k \in Conns, LookupMaster(k) \/ GetInfo(k) \/ InitMessage(k)
      PROVE  TypeOK' /\ EidKnown'
  BY <1>3 DEF LookupMaster, GetInfo, InitMessage
<1>4. ASSUME NEW k \in Conns, InitMessageLost(k) \/ Exec(k) \/ Register(k)
      PROVE  TypeOK' /\ EidKnown'
  BY <1>4 DEF InitMessageLost, Exec, Register, InCall, runVars
<1>5. ASSUME NEW k \in Conns, RunEnds(k)
      PROVE  TypeOK' /\ EidKnown'
  BY <1>5 DEF RunEnds, TabClosed, BackendClosed, RunTimesOut, RunFails, Return
<1>6. ASSUME NEW k \in Conns, Cleanup(k) \/ Exit(k)
      PROVE  TypeOK' /\ EidKnown'
  BY <1>6 DEF Cleanup, Exit
<1>7. ASSUME NEW k \in Conns, Close(k) PROVE TypeOK' /\ EidKnown'
  <2>1. k \in Counted
    BY <1>7 DEF Close, Counted
  <2>2. connections # 0
    BY <2>1, CountedFinite, FS_EmptySet DEF CountExact
  <2> QED
    BY <1>7, <2>2 DEF Close
<1>8. ASSUME NEW k \in Conns, ShareUpgrade(k) \/ ShareCheck(k) \/ Fork(k)
      PROVE  TypeOK' /\ EidKnown'
  BY <1>8 DEF ShareUpgrade, ShareCheck, Fork, InCall
<1>9. ASSUME NEW k \in Conns, ViewerLeaves(k) \/ ViewerFails(k)
      PROVE  TypeOK' /\ EidKnown'
  BY <1>9 DEF ViewerLeaves, ViewerFails, Return
<1>10. ASSUME NEW k \in Conns, Around(k)
       PROVE  TypeOK' /\ EidKnown'
  <2>1. CASE CloseTab(k)
    BY <2>1 DEF CloseTab, InCall
  <2>2. CASE TTYEnds(k)
    BY <2>2 DEF TTYEnds, InCall
  <2>3. CASE MessageHandled(k) \/ OutputWritten(k)
    BY <2>3 DEF MessageHandled, OutputWritten
  <2> QED
    BY <1>10, <2>1, <2>2, <2>3 DEF Around
<1>11. CASE AllServed \/ UNCHANGED vars
  BY <1>11 DEF AllServed, vars, runVars
<1> QED
  BY <1>1, <1>2, <1>3, <1>4, <1>5, <1>6, <1>7, <1>8, <1>9, <1>10, <1>11
  DEF Next, ServerStep, BrowserStep, ProcessStep, RunEnds, Around

\* Every step keeps the count: only GetInfo adds a slot, for the connection
\* that becomes counted, and only Close returns one.
LEMMA CountStep == CountInv /\ [Next]_vars => CountExact'
<1> SUFFICES ASSUME CountInv, [Next]_vars PROVE CountExact'
  OBVIOUS
<1> USE DEF CountInv, TypeOK, Goto
<1>0. ASSUME UNCHANGED connections, Counted' = Counted PROVE CountExact'
  BY <1>0 DEF CountExact
<1>1. ASSUME NEW e \in ExecIDs, Redirect(e) PROVE CountExact'
  BY <1>0, <1>1 DEF Redirect, Counted
<1>2. ASSUME NEW k \in Conns, NEW e \in ExecIDs, Connect(k, e) PROVE CountExact'
  BY <1>0, <1>2 DEF Connect, Counted, AdmittedPCs
<1>3. ASSUME NEW k \in Conns, GetInfo(k) PROVE CountExact'
  <2>1. CASE Goto(k, "getinfo", "done") /\ UNCHANGED connections
    BY <1>0, <2>1 DEF Counted, AdmittedPCs
  <2>2. CASE connections' = connections + 1 /\ k \notin Counted /\ Counted' = Counted \union {k}
    BY <2>2, CountedFinite, FS_AddElement DEF CountExact
  <2>3. connections' = connections + 1
        => k \notin Counted /\ Counted' = Counted \union {k}
    BY <1>3 DEF GetInfo, Counted, AdmittedPCs
  <2> QED
    BY <1>3, <2>1, <2>2, <2>3 DEF GetInfo
<1>4. ASSUME NEW k \in Conns, Close(k) PROVE CountExact'
  <2>1. k \in Counted /\ Counted' = Counted \ {k}
    BY <1>4 DEF Close, Counted, AdmittedPCs
  <2>2. connections' = connections - 1
    BY <1>4 DEF Close
  <2> QED
    BY <2>1, <2>2, CountedFinite, FS_RemoveElement DEF CountExact
<1>5. ASSUME NEW k \in Conns,
             LookupMaster(k) \/ InitMessage(k) \/ InitMessageLost(k) \/ Exec(k) \/ Register(k)
      PROVE  CountExact'
  BY <1>0, <1>5 DEF LookupMaster, InitMessage, InitMessageLost, Exec, Register,
                    Counted, AdmittedPCs
<1>6. ASSUME NEW k \in Conns,
             RunEnds(k) \/ Cleanup(k) \/ Exit(k)
      PROVE  CountExact'
  BY <1>0, <1>6 DEF RunEnds, TabClosed, BackendClosed, RunTimesOut, RunFails, Return,
                    Cleanup, Exit, Counted, AdmittedPCs
<1>7. ASSUME NEW k \in Conns,
             ShareUpgrade(k) \/ ShareCheck(k) \/ Fork(k) \/ ViewerLeaves(k) \/ ViewerFails(k)
      PROVE  CountExact'
  BY <1>0, <1>7 DEF ShareUpgrade, ShareCheck, Fork, ViewerLeaves, ViewerFails, Return,
                    Counted, AdmittedPCs
<1>8. ASSUME NEW k \in Conns, Around(k) PROVE CountExact'
  BY <1>0, <1>8 DEF Around, CloseTab, TTYEnds, MessageHandled, OutputWritten, Counted
<1>9. CASE AllServed \/ UNCHANGED vars
  BY <1>0, <1>9 DEF AllServed, vars, runVars, Counted
<1> QED
  BY <1>1, <1>2, <1>3, <1>4, <1>5, <1>6, <1>7, <1>8, <1>9
  DEF Next, ServerStep, BrowserStep, ProcessStep, RunEnds, Around

\* In every reachable state the variables have their types and the counter
\* is the number of connections between counter.add and counter.done, so
\* that neither it nor its sync.WaitGroup ever goes negative.
THEOREM CountCorrect == Spec => []CountInv
<1>1. Init => CountInv
  BY CountInit
<1>2. CountInv /\ [Next]_vars => CountInv'
  BY TypeStep, CountStep DEF CountInv
<1> QED
  BY <1>1, <1>2, PTL DEF Spec

\* The types alone (route/exec.go, route/handler_atomic.go).
THEOREM TypeCorrect == Spec => []TypeOK
  BY CountCorrect, PTL DEF CountInv

\* The count alone: no return path of generateHandleWS and processTTY leaks
\* a slot or gives one back twice (route/exec.go:60-71).
THEOREM SlotsCounted == Spec => []CountExact
  BY CountCorrect, PTL DEF CountInv

-----------------------------------------------------------------------------
(* The limit of connections.                                               *)

\* A step that admits nobody keeps the bound; GetInfo admits a connection
\* only if the counter, which counts every admitted connection, has room.
LEMMA AdmissionStep == CountInv /\ AdmissionBound /\ [Next]_vars => AdmissionBound'
<1> SUFFICES ASSUME CountInv, AdmissionBound, [Next]_vars, MaxConnection # 0
             PROVE  Cardinality(Admitted') <= MaxConnection
  BY DEF AdmissionBound, Admitted
<1> USE SessionAssumption DEF CountInv, TypeOK, Goto
<1>0. ASSUME Admitted' \subseteq Admitted PROVE Cardinality(Admitted') <= MaxConnection
  <2>1. Cardinality(Admitted') <= Cardinality(Admitted) /\ Cardinality(Admitted') \in Nat
    BY <1>0, CountedFinite, FS_Subset, FS_CardinalityType
  <2> QED
    BY <2>1, CountedFinite DEF AdmissionBound
<1>1. ASSUME NEW k \in Conns, GetInfo(k) PROVE Cardinality(Admitted') <= MaxConnection
  <2>1. CASE Admitted' \subseteq Admitted
    BY <1>0, <2>1
  <2>2. CASE /\ ~OverLimit(connections + 1)
             /\ Admitted' = Admitted \union {k}
             /\ k \notin Admitted
    <3>1. Cardinality(Admitted') = Cardinality(Admitted) + 1
      BY <2>2, CountedFinite, FS_AddElement
    <3>2. connections + 1 <= MaxConnection
      BY <2>2 DEF OverLimit
    <3> QED
      BY <3>1, <3>2, CountedFinite DEF CountExact
  <2>3. Admitted' \subseteq Admitted
        \/ (~OverLimit(connections + 1) /\ Admitted' = Admitted \union {k} /\ k \notin Admitted)
    BY <1>1 DEF GetInfo, Admitted, AdmittedPCs
  <2> QED
    BY <2>1, <2>2, <2>3
<1>2. ASSUME NEW k \in Conns,
             LookupMaster(k) \/ InitMessage(k) \/ InitMessageLost(k) \/ Exec(k) \/ Register(k)
      PROVE  Cardinality(Admitted') <= MaxConnection
  BY <1>0, <1>2 DEF LookupMaster, InitMessage, InitMessageLost, Exec, Register,
                    Admitted, AdmittedPCs
<1>3. ASSUME NEW k \in Conns,
             RunEnds(k) \/ Cleanup(k) \/ Exit(k) \/ Close(k)
      PROVE  Cardinality(Admitted') <= MaxConnection
  BY <1>0, <1>3 DEF RunEnds, TabClosed, BackendClosed, RunTimesOut, RunFails, Return,
                    Cleanup, Exit, Close, Admitted, AdmittedPCs
<1>4. ASSUME NEW k \in Conns,
             ShareUpgrade(k) \/ ShareCheck(k) \/ Fork(k) \/ ViewerLeaves(k) \/ ViewerFails(k)
      PROVE  Cardinality(Admitted') <= MaxConnection
  BY <1>0, <1>4 DEF ShareUpgrade, ShareCheck, Fork, ViewerLeaves, ViewerFails, Return,
                    Admitted, AdmittedPCs
<1>5. ASSUME NEW k \in Conns, NEW e \in ExecIDs, Redirect(e) \/ Connect(k, e)
      PROVE  Cardinality(Admitted') <= MaxConnection
  BY <1>0, <1>5 DEF Redirect, Connect, Admitted, AdmittedPCs
<1>6. ASSUME NEW k \in Conns, Around(k)
      PROVE  Cardinality(Admitted') <= MaxConnection
  BY <1>0, <1>6 DEF Around, CloseTab, TTYEnds, MessageHandled, OutputWritten, Admitted
<1>7. ASSUME NEW e \in ExecIDs, Redirect(e) PROVE Cardinality(Admitted') <= MaxConnection
  BY <1>0, <1>7 DEF Redirect, Admitted
<1>8. CASE AllServed \/ UNCHANGED vars
  BY <1>0, <1>8 DEF AllServed, vars, runVars, Admitted
<1> QED
  BY <1>1, <1>2, <1>3, <1>4, <1>5, <1>6, <1>7, <1>8
  DEF Next, ServerStep, BrowserStep, ProcessStep, RunEnds, Around

\* Never more hosts than options.MaxConnection (route/exec.go:73-78), with
\* any number of connections arriving, being rejected and leaving at once.
THEOREM Admission == Spec => []AdmissionBound
<1>1. Init => AdmissionBound
  <2> SUFFICES ASSUME Init PROVE AdmissionBound
    OBVIOUS
  <2>1. Admitted = {}
    BY DEF Init, Admitted, AdmittedPCs
  <2> QED
    BY <2>1, FS_EmptySet, SessionAssumption DEF AdmissionBound
<1>2. CountInv /\ AdmissionBound /\ [Next]_vars => AdmissionBound'
  BY AdmissionStep
<1> QED
  BY <1>1, <1>2, CountCorrect, PTL DEF Spec

-----------------------------------------------------------------------------
(* The registry of masters.                                                *)

\* From Exec to the deferred Exit a host's TTY is there to be exited.
TTYOfHost ==
  \A k \in Conns : pc[k] \in {"register", "running", "cleanup"} => tty[k] \in {"open", "ended"}

\* RegistryLive needs to know which TTY a registration publishes, and that a
\* goroutine past Connect does not change its exec ID.
RegistryInv == TTYOfHost /\ RegistryLive

\* Only Register adds a master, its own; only its Cleanup ends its running,
\* and that removes the entry, if another host's Cleanup did not before.
LEMMA RegistryStep == CountInv /\ RegistryInv /\ [Next]_vars => RegistryInv'
<1> SUFFICES ASSUME CountInv, RegistryInv, [Next]_vars PROVE TTYOfHost' /\ RegistryLive'
  BY DEF RegistryInv
<1> USE SessionAssumption DEF CountInv, TypeOK, EidKnown, RegistryInv, TTYOfHost,
                              RegistryLive, Goto
<1>1. ASSUME NEW e \in ExecIDs, Redirect(e) PROVE TTYOfHost' /\ RegistryLive'
  BY <1>1 DEF Redirect
<1>2. ASSUME NEW k \in Conns, NEW e \in ExecIDs, Connect(k, e)
      PROVE  TTYOfHost' /\ RegistryLive'
  BY <1>2 DEF Connect
<1>3. ASSUME NEW k \in Conns, LookupMaster(k) \/ GetInfo(k) \/ InitMessage(k) \/ InitMessageLost(k)
      PROVE  TTYOfHost' /\ RegistryLive'
  BY <1>3 DEF LookupMaster, GetInfo, InitMessage, InitMessageLost
<1>4. ASSUME NEW k \in Conns, Exec(k) PROVE TTYOfHost' /\ RegistryLive'
  BY <1>4 DEF Exec
<1>5. ASSUME NEW k \in Conns, Register(k) PROVE TTYOfHost' /\ RegistryLive'
  <2>1. TTYOfHost'
    BY <1>5 DEF Register
  <2>2. RegistryLive'
    BY <1>5 DEF Register
  <2> QED
    BY <2>1, <2>2
<1>6. ASSUME NEW k \in Conns, RunEnds(k)
      PROVE  TTYOfHost' /\ RegistryLive'
  BY <1>6 DEF RunEnds, TabClosed, BackendClosed, RunTimesOut, RunFails, Return
<1>7. ASSUME NEW k \in Conns, Cleanup(k) PROVE TTYOfHost' /\ RegistryLive'
  BY <1>7 DEF Cleanup
<1>8. ASSUME NEW k \in Conns, Exit(k) \/ Close(k) PROVE TTYOfHost' /\ RegistryLive'
  BY <1>8 DEF Exit, Close
<1>9. ASSUME NEW k \in Conns,
             ShareUpgrade(k) \/ ShareCheck(k) \/ Fork(k) \/ ViewerLeaves(k) \/ ViewerFails(k)
      PROVE  TTYOfHost' /\ RegistryLive'
  BY <1>9 DEF ShareUpgrade, ShareCheck, Fork, ViewerLeaves, ViewerFails, Return
<1>10. ASSUME NEW k \in Conns, Around(k) PROVE TTYOfHost' /\ RegistryLive'
  BY <1>10 DEF Around, CloseTab, TTYEnds, MessageHandled, OutputWritten
<1>11. CASE AllServed \/ UNCHANGED vars
  BY <1>11 DEF AllServed, vars, runVars
<1> QED
  BY <1>1, <1>2, <1>3, <1>4, <1>5, <1>6, <1>7, <1>8, <1>9, <1>10, <1>11
  DEF Next, ServerStep, BrowserStep, ProcessStep, RunEnds, Around

\* handleExec never finds a dead master in server.masters (route/exec.go:39-46),
\* although hosts of the same exec ID delete each other's entries (182-189).
THEOREM Registry == Spec => []RegistryLive
<1>1. Init => RegistryInv
  BY DEF Init, RegistryInv, TTYOfHost, RegistryLive
<1>2. CountInv /\ RegistryInv /\ [Next]_vars => RegistryInv'
  BY RegistryStep
<1>3. RegistryInv => RegistryLive
  BY DEF RegistryInv
<1> QED
  BY <1>1, <1>2, <1>3, CountCorrect, PTL DEF Spec

-----------------------------------------------------------------------------
(* Sharing an exec ID that has one host.                                   *)

PastRegister == {"running", "cleanup", "exit", "closing", "done"}

\* The history of an exec ID holds only hosts that went through Register.
HistorySound ==
  \A e \in ExecIDs : \A k \in regs[e] : eid[k] = e /\ pc[k] \in PastRegister

\* It holds every host that has not run its Cleanup ...
HistoryComplete ==
  \A k \in Conns : pc[k] \in {"running", "cleanup"} => k \in regs[eid[k]]

\* ... and somebody once hosted an ID that is gone from server.execs.
UnlinkedWasHosted == \A e \in minted : e \notin execs => regs[e] # {}

\* A host registers an ID that was minted.
HostMinted ==
  \A k \in Conns : pc[k] \notin {"idle", "done"} => eid[k] \in minted

\* SoleHostShareable, one step longer: until its own Cleanup.
SoleHostLinked ==
  \A k \in Conns :
    pc[k] \in {"running", "cleanup"} /\ regs[eid[k]] = {k}
    => eid[k] \in execs /\ masters[eid[k]] = k

ShareInv ==
  HistorySound /\ HistoryComplete /\ UnlinkedWasHosted /\ HostMinted /\ SoleHostLinked

\* The steps that touch neither the maps nor the history, and move a
\* connection around without making it a host.
LEMMA ShareQuiet ==
  ASSUME CountInv, ShareInv, NEW k \in Conns,
         UNCHANGED <<execs, minted, masters, eid, regs>>,
         NEW q, pc' = [pc EXCEPT ![k] = q],
         pc[k] \notin {"idle", "done"},
         q \in {"running", "cleanup"} => pc[k] \in {"running", "cleanup"},
         pc[k] \in PastRegister => q \in PastRegister
  PROVE  ShareInv'
  BY DEF CountInv, TypeOK, EidKnown, ShareInv, HistorySound, HistoryComplete,
         UnlinkedWasHosted, HostMinted, SoleHostLinked, PastRegister

\* What each step does to the maps and to the history agrees: the two
\* critical sections that delete an ID run in a host that is in its history.
LEMMA ShareStep == CountInv /\ ShareInv /\ [Next]_vars => ShareInv'
<1> SUFFICES ASSUME CountInv, ShareInv, [Next]_vars PROVE ShareInv'
  OBVIOUS
<1> USE SessionAssumption DEF CountInv, TypeOK, EidKnown, ShareInv, HistorySound,
          HistoryComplete, UnlinkedWasHosted, HostMinted, SoleHostLinked, PastRegister, Goto
<1>1. ASSUME NEW e \in ExecIDs, Redirect(e) PROVE ShareInv'
  BY <1>1 DEF Redirect
<1>2. ASSUME NEW k \in Conns, NEW e \in ExecIDs, Connect(k, e) PROVE ShareInv'
  BY <1>2 DEF Connect
<1>3. ASSUME NEW k \in Conns, LookupMaster(k) \/ GetInfo(k) PROVE ShareInv'
  BY <1>3, ShareQuiet DEF LookupMaster, GetInfo
<1>4. ASSUME NEW k \in Conns, InitMessage(k) \/ InitMessageLost(k) \/ Exec(k) PROVE ShareInv'
  BY <1>4 DEF InitMessage, InitMessageLost, Exec
<1>5. ASSUME NEW k \in Conns, Register(k) PROVE ShareInv'
  <2>1. CASE Goto(k, "register", "exit") /\ UNCHANGED <<masters, regs>>
    BY <1>5, <2>1, ShareQuiet DEF Register
  <2>2. CASE /\ Goto(k, "register", "running")
             /\ masters' = [masters EXCEPT ![eid[k]] = k]
             /\ regs' = [regs EXCEPT ![eid[k]] = @ \union {k}]
    <3> UNCHANGED <<execs, minted, eid>>
      BY <1>5 DEF Register
    <3>1. HistorySound' /\ HistoryComplete' /\ HostMinted'
      BY <2>2
    <3>2. UnlinkedWasHosted'
      BY <2>2
    <3>3. SoleHostLinked'
      BY <2>2
    <3> QED
      BY <3>1, <3>2, <3>3
  <2> QED
    BY <1>5, <2>1, <2>2 DEF Register
<1>6. ASSUME NEW k \in Conns, RunEnds(k) PROVE ShareInv'
  BY <1>6 DEF RunEnds, TabClosed, BackendClosed, RunTimesOut, RunFails, Return
<1>7. ASSUME NEW k \in Conns, Cleanup(k) PROVE ShareInv'
  BY <1>7 DEF Cleanup
<1>8. ASSUME NEW k \in Conns, Exit(k) \/ Close(k) PROVE ShareInv'
  BY <1>8 DEF Exit, Close
<1>9. ASSUME NEW k \in Conns,
             ShareUpgrade(k) \/ ShareCheck(k) \/ Fork(k) \/ ViewerLeaves(k) \/ ViewerFails(k)
      PROVE  ShareInv'
  BY <1>9 DEF ShareUpgrade, ShareCheck, Fork, ViewerLeaves, ViewerFails, Return
<1>10. ASSUME NEW k \in Conns, Around(k) PROVE ShareInv'
  BY <1>10 DEF Around, CloseTab, TTYEnds, MessageHandled, OutputWritten
<1>11. CASE AllServed \/ UNCHANGED vars
  BY <1>11 DEF AllServed, vars, runVars
<1> QED
  BY <1>1, <1>2, <1>3, <1>4, <1>5, <1>6, <1>7, <1>8, <1>9, <1>10, <1>11
  DEF Next, ServerStep, BrowserStep, ProcessStep, RunEnds, Around

\* A session whose exec ID was never hosted by anybody else can be shared as
\* long as it runs (route/exec.go:31-46, README.md:133).
THEOREM Shareable == Spec => []SoleHostShareable
<1>1. Init => ShareInv
  BY DEF Init, ShareInv, HistorySound, HistoryComplete, UnlinkedWasHosted, HostMinted,
         SoleHostLinked
<1>2. CountInv /\ ShareInv /\ [Next]_vars => ShareInv'
  BY ShareStep
<1>3. ShareInv => SoleHostShareable
  BY DEF ShareInv, SoleHostLinked, SoleHostShareable
<1> QED
  BY <1>1, <1>2, <1>3, CountCorrect, PTL DEF Spec
=============================================================================
