----------------------------- MODULE WriteArbiter -----------------------------
(***************************************************************************)
(* The inputs of one shared TTY (types/tty.go): the master's browser and   *)
(* the browsers that view it with collaboration switched on all type into  *)
(* the same process.  A mutexWriter, shared by the MasterTTY and the       *)
(* SlaveTTYs forked from it, decides whose input reaches the TTY; the      *)
(* input it refuses is dropped without an error.                           *)
(*                                                                         *)
(* Time is a discrete clock that may advance between any two steps, also   *)
(* while a writer waits for the mutex or for the TTY to take its bytes.    *)
(***************************************************************************)
EXTENDS Integers

CONSTANTS
  Collaborators,   \* the SlaveTTYs forked with collaborate = true
  Master,    \* the MasterTTY
  Wait,      \* _waiteWaitDuration, in ticks
  MaxTime,   \* bound: the clock stops here
  NoSlave,   \* lastWroteSlave = nil
  Nobody     \* the mutex is free

ASSUME ArbiterAssumption ==
  /\ Master \notin Collaborators
  /\ NoSlave \notin Collaborators
  /\ Nobody \notin Collaborators /\ Nobody # Master
  /\ Wait \in Nat \ {0}
  /\ MaxTime \in Nat

VARIABLES
  now,             \* time.Now()
  mutex,           \* mutexWriter.mutex: the writer that holds it
  lastMaster,      \* mutexWriter.lastMasterWriteTime
  lastSlave,       \* mutexWriter.lastSlaveWriteTime
  lastWroteSlave,  \* mutexWriter.lastWroteSlave
  pc,              \* where each writer's goroutine is in Write
  wrote            \* history: the stamp of each writer's last accepted input

arbiterVars == <<now, mutex, lastMaster, lastSlave, lastWroteSlave, pc, wrote>>

Writers == Collaborators \union {Master}

\* The zero time.Time, whose time.Since exceeds Wait at any moment.
Never == 0 - Wait - 1

Since(t) == now - t

ArbiterInit ==
  /\ now = 0
  /\ mutex = Nobody
  /\ lastMaster = Never
  /\ lastSlave = Never
  /\ lastWroteSlave = NoSlave
  /\ pc = [w \in Writers |-> "idle"]
  /\ wrote = [w \in Writers |-> Never]

-----------------------------------------------------------------------------
\* Faulty variant: the master is measured against its own last input.
MasterCanWriteAgain == Since(lastMaster) > Wait

MasterCanWrite == Since(lastSlave) > Wait

\* Faulty variant: a slave is also held back by its own last input.
SlaveCanWriteOnce(s) ==
  /\ ~(Since(lastMaster) < Wait)
  /\ lastWroteSlave = NoSlave \/ Since(lastSlave) > Wait

SlaveCanWrite(s) ==
  /\ ~(Since(lastMaster) < Wait)
  /\ lastWroteSlave \in {NoSlave, s} \/ Since(lastSlave) > Wait

CanWrite(w) == IF w = Master THEN MasterCanWrite ELSE SlaveCanWrite(w)

\* The browser of w sends input and its goroutine calls Write.
Type(w) ==
  /\ pc[w] = "idle"
  /\ pc' = [pc EXCEPT ![w] = "locking"]
  /\ UNCHANGED <<now, mutex, lastMaster, lastSlave, lastWroteSlave, wrote>>

\* Faulty variant: MasterTTY.Write does not wait for the mutex.
LockUnlessMaster(w) ==
  /\ pc[w] = "locking"
  /\ w = Master \/ mutex = Nobody
  /\ mutex' = IF w = Master THEN mutex ELSE w
  /\ pc' = [pc EXCEPT ![w] = "deciding"]
  /\ UNCHANGED <<now, lastMaster, lastSlave, lastWroteSlave, wrote>>

\* mutex.Lock()
Lock(w) ==
  /\ pc[w] = "locking"
  /\ mutex = Nobody
  /\ mutex' = w
  /\ pc' = [pc EXCEPT ![w] = "deciding"]
  /\ UNCHANGED <<now, lastMaster, lastSlave, lastWroteSlave, wrote>>

\* CanWrite is true.
Accept(w) ==
  /\ pc[w] = "deciding"
  /\ CanWrite(w)
  /\ pc' = [pc EXCEPT ![w] = "stamping"]
  /\ UNCHANGED <<now, mutex, lastMaster, lastSlave, lastWroteSlave, wrote>>

\* Faulty variant: a refused write is tried again until it is accepted.
RefuseRetries(w) ==
  /\ pc[w] = "deciding"
  /\ ~CanWrite(w)
  /\ mutex' = Nobody
  /\ pc' = [pc EXCEPT ![w] = "locking"]
  /\ UNCHANGED <<now, lastMaster, lastSlave, lastWroteSlave, wrote>>

\* CanWrite is false: return (0, nil), through the deferred mutex.Unlock().
Refuse(w) ==
  /\ pc[w] = "deciding"
  /\ ~CanWrite(w)
  /\ mutex' = Nobody
  /\ pc' = [pc EXCEPT ![w] = "idle"]
  /\ UNCHANGED <<now, lastMaster, lastSlave, lastWroteSlave, wrote>>

\* Faulty variant: every writer is recorded as the last slave.
StampAnySlave(w) ==
  /\ pc[w] = "stamping"
  /\ lastMaster' = IF w = Master THEN now ELSE lastMaster
  /\ lastSlave' = IF w = Master THEN lastSlave ELSE now
  /\ lastWroteSlave' = w
  /\ wrote' = [wrote EXCEPT ![w] = now]
  /\ pc' = [pc EXCEPT ![w] = "writing"]
  /\ UNCHANGED <<now, mutex>>

\* The stamp is taken before the bytes are handed to the TTY.
Stamp(w) ==
  /\ pc[w] = "stamping"
  /\ IF w = Master
       THEN lastMaster' = now /\ UNCHANGED <<lastSlave, lastWroteSlave>>
       ELSE lastSlave' = now /\ lastWroteSlave' = w /\ UNCHANGED lastMaster
  /\ wrote' = [wrote EXCEPT ![w] = now]
  /\ pc' = [pc EXCEPT ![w] = "writing"]
  /\ UNCHANGED <<now, mutex>>

\* TTY.Write returns, with or without an error, and the mutex is released.
Written(w) ==
  /\ pc[w] = "writing"
  /\ mutex' = Nobody
  /\ pc' = [pc EXCEPT ![w] = "idle"]
  /\ UNCHANGED <<now, lastMaster, lastSlave, lastWroteSlave, wrote>>

Tick ==
  /\ now < MaxTime
  /\ now' = now + 1
  /\ UNCHANGED <<mutex, lastMaster, lastSlave, lastWroteSlave, pc, wrote>>

InWrite(w) == Accept(w) \/ Refuse(w) \/ Stamp(w) \/ Written(w)

ArbiterNext == Tick \/ \E w \in Writers : Type(w) \/ Lock(w) \/ InWrite(w)

ArbiterSpec == ArbiterInit /\ [][ArbiterNext]_arbiterVars

\* A goroutine inside Write runs on and the TTY takes its bytes; sync.Mutex
\* hands itself to a waiter that was passed over, so nobody waits forever
\* for a mutex that keeps being released.
ArbiterFairness == \A w \in Writers : WF_arbiterVars(InWrite(w)) /\ SF_arbiterVars(Lock(w))

ArbiterFairSpec == ArbiterSpec /\ ArbiterFairness

-----------------------------------------------------------------------------
(* Properties.                                                             *)

Times == {Never} \union (0 .. now)

\* Every variable has its type and no stamp lies in the future.
ArbiterTypeOK ==
  /\ now \in 0 .. MaxTime
  /\ mutex \in Writers \union {Nobody}
  /\ lastMaster \in Times
  /\ lastSlave \in Times
  /\ lastWroteSlave \in Collaborators \union {NoSlave}
  /\ pc \in [Writers -> {"idle", "locking", "deciding", "stamping", "writing"}]
  /\ wrote \in [Writers -> Times]

\* The input of two browsers is never inside TTY.Write at the same time.
OneWriterAtTTY ==
  \A v, w \in Writers : pc[v] = "writing" /\ pc[w] = "writing" => v = w

\* mutexWriter only keeps the last slave and two times; with them it passes
\* the turn exactly as if it knew when every browser last wrote.
Turns == INSTANCE TurnTaking WITH
  Writers <- Writers, Wait <- Wait, now <- now, wrote <- wrote
TakesTurns == Turns!Spec

\* Nobody loses input without cause: a write is refused only if another
\* browser wrote within Wait, so whoever types alone is never refused.
NoSpuriousRefusal ==
  [][\A w \in Writers :
       Refuse(w) => \E v \in Writers \ {w} : now - wrote[v] <= Wait]_arbiterVars

\* Every call of Write returns, whatever the other browsers do: no path keeps
\* the mutex, and a write that is refused is given up rather than retried.
EveryWriteReturns == \A w \in Writers : (pc[w] # "idle") ~> (pc[w] = "idle")
=============================================================================
