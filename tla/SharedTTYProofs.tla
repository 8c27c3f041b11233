---------------------------- MODULE SharedTTYProofs ----------------------------
(***************************************************************************)
(* Proofs about the two halves of a shared TTY.                            *)
(*                                                                         *)
(* Its inputs (WriteArbiter), for every set of browsers that type, every   *)
(* Wait and every clock bound: the types, that one browser at a time is    *)
(* inside TTY.Write, that two times and one pointer are enough to take     *)
(* turns (the refinement of TurnTaking), and that no refusal is spurious.  *)
(*                                                                         *)
(* Its output (Broadcast), for every set of viewers, every Limit, Buffer   *)
(* and length of the output: the types, that the recorder keeps the tail   *)
(* of what it took, and that a viewer that forks while the recorder is     *)
(* caught up misses nothing, however Fork interleaves with the recorder.   *)
(***************************************************************************)
EXTENDS WriteArbiter, Broadcast, SequenceTheorems, TLAPS

-----------------------------------------------------------------------------
(* Inputs: the mutex.                                                      *)

Inside == {"deciding", "stamping", "writing"}

\* Who is between Lock and Unlock holds the mutex.
HoldsMutex == \A w \in Writers : pc[w] \in Inside => mutex = w

MutexInv == ArbiterTypeOK /\ HoldsMutex

\* Facts about the constants that the leaves below use.
LEMMA ArbiterConstants ==
  /\ Wait \in Nat /\ Wait > 0 /\ MaxTime \in Nat
  /\ Never \in Int /\ Never < 0 /\ Never + Wait < 0
  /\ NoSlave \notin Collaborators /\ Master \notin Collaborators /\ Nobody \notin Writers
BY ArbiterAssumption DEF Never, Writers

\* The initial state.
LEMMA MutexInit == ArbiterInit => MutexInv
BY ArbiterConstants DEF ArbiterInit, MutexInv, ArbiterTypeOK, HoldsMutex, Inside, Times, Writers

\* Each step keeps the types and leaves the mutex with who is inside.
LEMMA MutexStep == MutexInv /\ [ArbiterNext]_arbiterVars => MutexInv'
<1> SUFFICES ASSUME MutexInv, [ArbiterNext]_arbiterVars PROVE ArbiterTypeOK' /\ HoldsMutex'
  BY DEF MutexInv
<1> USE ArbiterConstants DEF MutexInv, ArbiterTypeOK, HoldsMutex, Inside, Writers, Times
<1>1. ASSUME NEW w \in Writers, Type(w) PROVE ArbiterTypeOK' /\ HoldsMutex'
  BY <1>1 DEF Type
<1>2. ASSUME NEW w \in Writers, Lock(w) PROVE ArbiterTypeOK' /\ HoldsMutex'
  BY <1>2 DEF Lock
<1>3. ASSUME NEW w \in Writers, Accept(w) PROVE ArbiterTypeOK' /\ HoldsMutex'
  BY <1>3 DEF Accept
<1>4. ASSUME NEW w \in Writers, Refuse(w) PROVE ArbiterTypeOK' /\ HoldsMutex'
  BY <1>4 DEF Refuse
<1>5. ASSUME NEW w \in Writers, Stamp(w) PROVE ArbiterTypeOK' /\ HoldsMutex'
  BY <1>5 DEF Stamp
<1>6. ASSUME NEW w \in Writers, Written(w) PROVE ArbiterTypeOK' /\ HoldsMutex'
  BY <1>6 DEF Written
<1>7. CASE Tick
  BY <1>7 DEF Tick
<1>8. CASE UNCHANGED arbiterVars
  BY <1>8 DEF arbiterVars
<1> QED
  BY <1>1, <1>2, <1>3, <1>4, <1>5, <1>6, <1>7, <1>8 DEF ArbiterNext, InWrite

\* The invariant of the mutex holds in every reachable state.
LEMMA MutexCorrect == ArbiterSpec => []MutexInv
BY MutexInit, MutexStep, PTL DEF ArbiterSpec

\* Types (types/tty.go:154-160).
THEOREM ArbiterTypes == ArbiterSpec => []ArbiterTypeOK
BY MutexCorrect, PTL DEF MutexInv

\* Two inputs are never inside TTY.Write at once (types/tty.go:52-60, 90-97).
THEOREM Exclusion == ArbiterSpec => []OneWriterAtTTY
<1>1. MutexInv => OneWriterAtTTY
  BY DEF MutexInv, HoldsMutex, Inside, OneWriterAtTTY
<1> QED
  BY <1>1, MutexCorrect, PTL

-----------------------------------------------------------------------------
(* Taking turns.                                                           *)

\* What the three fields remember of the history: when the master wrote,
\* when the last slave wrote and which one it was.
FieldsTrue ==
  /\ lastMaster = wrote[Master]
  /\ lastWroteSlave \in Collaborators => lastSlave = wrote[lastWroteSlave]
  /\ lastWroteSlave = NoSlave => lastSlave = Never

\* What they need not remember: every other slave wrote more than Wait before
\* the last one did.
OthersLongAgo ==
  /\ \A v \in Collaborators \ {lastWroteSlave} : wrote[v] = Never \/ lastSlave - wrote[v] > Wait
  /\ lastWroteSlave = NoSlave => \A v \in Collaborators : wrote[v] = Never

\* Whoever was accepted still finds everybody else silent when it stamps.
SilenceKept ==
  \A w \in Writers : pc[w] = "stamping" =>
    /\ \A v \in Writers \ {w} : now - wrote[v] >= Wait
    /\ \A v \in Collaborators \ {w} : now - wrote[v] > Wait

TurnInv == FieldsTrue /\ OthersLongAgo /\ SilenceKept

\* The initial state: nobody wrote.
LEMMA TurnInit == ArbiterInit => TurnInv
BY ArbiterConstants DEF ArbiterInit, TurnInv, FieldsTrue, OthersLongAgo, SilenceKept, Writers

\* An acceptance is right about every other browser, also about the slaves
\* the arbiter no longer knows of.
LEMMA AcceptSilence ==
  ASSUME MutexInv, TurnInv, NEW w \in Writers, CanWrite(w)
  PROVE  /\ \A v \in Writers \ {w} : now - wrote[v] >= Wait
         /\ \A v \in Collaborators \ {w} : now - wrote[v] > Wait
<1> USE ArbiterConstants DEF MutexInv, ArbiterTypeOK, TurnInv, FieldsTrue, OthersLongAgo, Times, Writers
<1>1. CASE w = Master
  BY <1>1 DEF CanWrite, MasterCanWrite, Since, Never
<1>2. CASE w \in Collaborators
  BY <1>2 DEF CanWrite, SlaveCanWrite, Since, Never
<1> QED
  BY <1>1, <1>2

\* Each step keeps the account of turns; the mutex keeps it between the
\* decision and the stamp.
LEMMA TurnStep == MutexInv /\ TurnInv /\ [ArbiterNext]_arbiterVars => TurnInv'
<1> SUFFICES ASSUME MutexInv, TurnInv, [ArbiterNext]_arbiterVars
             PROVE  FieldsTrue' /\ OthersLongAgo' /\ SilenceKept'
  BY DEF TurnInv
<1> USE ArbiterConstants DEF TurnInv, FieldsTrue, OthersLongAgo, SilenceKept
<1>1. ASSUME NEW w \in Writers, Type(w) \/ Lock(w) \/ Refuse(w) \/ Written(w)
      PROVE  FieldsTrue' /\ OthersLongAgo' /\ SilenceKept'
  BY <1>1 DEF Type, Lock, Refuse, Written, MutexInv, ArbiterTypeOK
<1>2. ASSUME NEW w \in Writers, Accept(w)
      PROVE  FieldsTrue' /\ OthersLongAgo' /\ SilenceKept'
  <2>1. SilenceKept'
    BY <1>2, AcceptSilence DEF Accept, MutexInv, ArbiterTypeOK
  <2> QED
    BY <1>2, <2>1 DEF Accept
<1>3. ASSUME NEW w \in Writers, Stamp(w)
      PROVE  FieldsTrue' /\ OthersLongAgo' /\ SilenceKept'
  <2>1. FieldsTrue'
    BY <1>3 DEF Stamp, MutexInv, ArbiterTypeOK, Writers
  <2>2. OthersLongAgo'
    <3>1. CASE w = Master
      BY <1>3, <3>1 DEF Stamp, MutexInv, ArbiterTypeOK, Writers
    <3>2. CASE w \in Collaborators
      BY <1>3, <3>2 DEF Stamp, MutexInv, ArbiterTypeOK, Writers
    <3> QED
      BY <3>1, <3>2 DEF Writers
  <2>3. SilenceKept'
    BY <1>3 DEF Stamp, MutexInv, ArbiterTypeOK, HoldsMutex, Inside
  <2> QED
    BY <2>1, <2>2, <2>3
<1>4. CASE Tick
  BY <1>4 DEF Tick, MutexInv, ArbiterTypeOK, Times, Writers
<1>5. CASE UNCHANGED arbiterVars
  BY <1>5 DEF arbiterVars
<1> QED
  BY <1>1, <1>2, <1>3, <1>4, <1>5 DEF ArbiterNext, InWrite

\* Both invariants hold in every reachable state.
LEMMA TurnCorrect == ArbiterSpec => [](MutexInv /\ TurnInv)
<1>1. ArbiterInit => MutexInv /\ TurnInv
  BY MutexInit, TurnInit
<1>2. MutexInv /\ TurnInv /\ [ArbiterNext]_arbiterVars => (MutexInv /\ TurnInv)'
  BY MutexStep, TurnStep
<1> QED
  BY <1>1, <1>2, PTL DEF ArbiterSpec

\* The mutexWriter implements TurnTaking (types/tty.go:152-180): its two
\* times and one pointer decide as if every browser's last input were known.
THEOREM Refinement == ArbiterSpec => TakesTurns
<1>1. ArbiterInit => Turns!Init
  BY DEF ArbiterInit, Turns!Init, Never, Turns!Never
<1>2. MutexInv /\ TurnInv /\ [ArbiterNext]_arbiterVars => [Turns!Next]_<<now, wrote>>
  <2> SUFFICES ASSUME MutexInv, TurnInv, [ArbiterNext]_arbiterVars PROVE [Turns!Next]_<<now, wrote>>
    OBVIOUS
  <2>1. ASSUME NEW w \in Writers, Stamp(w) PROVE Turns!Write(w)
    BY <2>1 DEF Stamp, Turns!Write, TurnInv, SilenceKept
  <2>2. CASE Tick
    BY <2>2 DEF Tick, Turns!Next, Turns!Tick
  <2>3. ASSUME NEW w \in Writers, Type(w) \/ Lock(w) \/ Accept(w) \/ Refuse(w) \/ Written(w)
        PROVE  UNCHANGED <<now, wrote>>
    BY <2>3 DEF Type, Lock, Accept, Refuse, Written
  <2>4. CASE UNCHANGED arbiterVars
    BY <2>4 DEF arbiterVars
  <2> QED
    BY <2>1, <2>2, <2>3, <2>4 DEF ArbiterNext, InWrite, Turns!Next
<1> QED
  BY <1>1, <1>2, TurnCorrect, PTL DEF ArbiterSpec, TakesTurns, Turns!Spec

\* The last inputs of any two browsers that reached the TTY are at least Wait
\* apart, whoever is master and however often slaves come and go
\* (types/tty.go:152-180).
THEOREM InputsApart == ArbiterSpec => []Turns!Apart
<1>1. ArbiterInit => Turns!Apart
  BY DEF ArbiterInit, Turns!Apart, Never, Turns!Never
<1>2. MutexInv /\ TurnInv /\ Turns!Apart /\ [ArbiterNext]_arbiterVars => Turns!Apart'
  <2> SUFFICES ASSUME MutexInv, TurnInv, Turns!Apart, [ArbiterNext]_arbiterVars PROVE Turns!Apart'
    OBVIOUS
  <2>0. now \in Int /\ Wait \in Int /\ wrote \in [Writers -> Int]
    BY ArbiterConstants DEF MutexInv, ArbiterTypeOK, Times
  <2>1. ASSUME NEW w \in Writers, Stamp(w) PROVE Turns!Apart'
    <3>1. wrote' = [wrote EXCEPT ![w] = now]
      BY <2>1 DEF Stamp
    <3>2. \A v \in Writers \ {w} : now - wrote[v] >= Wait
      BY <2>1 DEF Stamp, TurnInv, SilenceKept
    <3> QED
      BY <2>0, <3>1, <3>2 DEF Turns!Apart
  <2>2. ASSUME wrote' = wrote PROVE Turns!Apart'
    BY <2>2 DEF Turns!Apart
  <2>3. ASSUME NEW w \in Writers, Type(w) \/ Lock(w) \/ Accept(w) \/ Refuse(w) \/ Written(w)
        PROVE  wrote' = wrote
    BY <2>3 DEF Type, Lock, Accept, Refuse, Written
  <2>4. Tick \/ UNCHANGED arbiterVars => wrote' = wrote
    BY DEF Tick, arbiterVars
  <2> QED
    BY <2>1, <2>2, <2>3, <2>4 DEF ArbiterNext, InWrite
<1> QED
  BY <1>1, <1>2, TurnCorrect, PTL DEF ArbiterSpec

\* A write is refused only if another browser wrote within Wait
\* (types/tty.go:54-56, 92-94).
THEOREM RefusalsJustified == ArbiterSpec => NoSpuriousRefusal
<1>1. MutexInv /\ TurnInv /\ [ArbiterNext]_arbiterVars
      => [\A w \in Writers :
            Refuse(w) => \E v \in Writers \ {w} : now - wrote[v] <= Wait]_arbiterVars
  <2> SUFFICES ASSUME MutexInv, TurnInv, NEW w \in Writers, Refuse(w)
               PROVE  \E v \in Writers \ {w} : now - wrote[v] <= Wait
    OBVIOUS
  <2> USE ArbiterConstants DEF Writers, MutexInv, ArbiterTypeOK, Times, TurnInv, FieldsTrue
  <2>1. ~CanWrite(w)
    BY DEF Refuse
  <2>2. CASE w = Master
    <3>1. now - lastSlave <= Wait
      BY <2>1, <2>2 DEF CanWrite, MasterCanWrite, Since
    <3>2. lastWroteSlave \in Collaborators
      BY <3>1 DEF Never
    <3> QED
      BY <3>1, <3>2, <2>2
  <2>3. CASE w \in Collaborators
    <3>1. CASE now - lastMaster < Wait
      BY <3>1, <2>3
    <3>2. CASE lastWroteSlave \notin {NoSlave, w} /\ now - lastSlave <= Wait
      BY <3>2, <2>3
    <3> QED
      BY <2>1, <2>3, <3>1, <3>2 DEF CanWrite, SlaveCanWrite, Since
  <2> QED
    BY <2>2, <2>3
<1> QED
  BY <1>1, TurnCorrect, PTL DEF ArbiterSpec, NoSpuriousRefusal

-----------------------------------------------------------------------------
(* Output: inboxes as sequences.                                           *)

\* Taking the first chunk of an inbox.
LEMMA TakeChunk ==
  ASSUME NEW S, NEW q \in Seq(S), q # <<>>
  PROVE  /\ Len(q) \in Nat /\ Len(q) >= 1
         /\ Head(q) = q[1] /\ Head(q) \in S
         /\ Tail(q) \in Seq(S) /\ Len(Tail(q)) = Len(q) - 1
         /\ \A i \in 1 .. Len(Tail(q)) : Tail(q)[i] = q[i + 1]
         /\ Tail(q) = <<>> <=> Len(q) = 1
<1>1. Len(q) \in Nat /\ Len(q) >= 1
  BY EmptySeq
<1>2. Tail(q) = <<>> <=> Len(Tail(q)) = 0
  BY HeadTailProperties, EmptySeq
<1> QED
  BY <1>1, <1>2, HeadTailProperties, ElementOfSeq

\* Appending a chunk to an inbox.
LEMMA AddChunk ==
  ASSUME NEW S, NEW q \in Seq(S), NEW e \in S
  PROVE  /\ Append(q, e) \in Seq(S) /\ Append(q, e) # <<>>
         /\ Len(q) \in Nat /\ Len(Append(q, e)) = Len(q) + 1
         /\ \A i \in 1 .. Len(q) : Append(q, e)[i] = q[i]
         /\ Append(q, e)[Len(q) + 1] = e
  BY AppendProperties, LenProperties

\* Appending a chunk that is no earlier than the others keeps them in order.
LEMMA AppendOrdered ==
  ASSUME NEW q \in Seq(Nat), NEW e \in Nat, NEW low \in Nat, low <= e,
         \A i \in 1 .. Len(q) : low <= q[i] /\ q[i] <= e,
         \A i, j \in 1 .. Len(q) : i <= j => q[i] <= q[j]
  PROVE  /\ \A i \in 1 .. Len(Append(q, e)) : low <= Append(q, e)[i]
         /\ \A i, j \in 1 .. Len(Append(q, e)) : i <= j => Append(q, e)[i] <= Append(q, e)[j]
<1> DEFINE n == Len(q)
           p == Append(q, e)
<1>1. n \in Nat /\ Len(p) = n + 1 /\ p[n + 1] = e /\ \A i \in 1 .. n : p[i] = q[i]
  BY AddChunk
<1>2. \A i \in 1 .. n : low <= q[i] /\ q[i] <= e
  OBVIOUS
<1>3. \A i, j \in 1 .. n : i <= j => q[i] <= q[j]
  OBVIOUS
<1> HIDE DEF n, p
<1>4. \A i \in 1 .. Len(p) : i \in 1 .. n \/ i = n + 1
  BY <1>1
<1>5. \A i \in 1 .. Len(p) : low <= p[i]
  BY <1>1, <1>2, <1>4
<1>6. ASSUME NEW i \in 1 .. Len(p), NEW j \in 1 .. Len(p), i <= j PROVE p[i] <= p[j]
  <2>1. CASE j \in 1 .. n
    <3>1. i \in 1 .. n
      BY <1>1, <1>6, <2>1
    <3> QED
      BY <1>1, <1>3, <1>6, <2>1, <3>1
  <2>2. CASE j = n + 1 /\ i \in 1 .. n
    BY <1>1, <1>2, <2>2
  <2>3. CASE j = n + 1 /\ i = n + 1
    BY <1>1, <2>3
  <2> QED
    BY <1>4, <2>1, <2>2, <2>3
<1> QED
  BY <1>5, <1>6 DEF p

-----------------------------------------------------------------------------
(* The recorder.                                                           *)

\* The chunks that wait for the recorder follow what it took, in order.
InboxOrdered ==
  /\ \A i \in 1 .. Len(inbox[Recorder]) : recorded <= inbox[Recorder][i]
  /\ \A i, j \in 1 .. Len(inbox[Recorder]) :
        i <= j => inbox[Recorder][i] <= inbox[Recorder][j]

\* Where the words of outputs are in each step of the recorder's loop.
Window ==
  /\ rec = "idle"        => outLen = Limit /\ outFrom + Limit - 1 = recorded
  /\ rec = "trim"        => outLen > Limit /\ outFrom + outLen - 1 = recorded
  /\ rec = "trimmedFrom" => outLen >= Limit /\ outFrom + Limit - 1 = recorded
  /\ rec = "trimmedLen"  => outLen = Limit /\ outFrom + Limit - 1 <= recorded

RecorderInv == BroadcastTypeOK /\ InboxOrdered /\ Window

\* Facts about the constants that the leaves below use.
LEMMA BroadcastConstants ==
  /\ Limit \in Nat /\ Limit > 0 /\ Buffer \in Nat /\ MaxBytes \in Nat
  /\ Recorder \in Subscribers /\ Viewers \subseteq Subscribers /\ Recorder \notin Viewers
  /\ Unread \notin Int /\ Unread \notin Nat
BY BroadcastAssumption DEF Subscribers

\* The initial state.
LEMMA RecorderInit == BroadcastInit => RecorderInv
<1> SUFFICES ASSUME BroadcastInit PROVE RecorderInv
  OBVIOUS
<1> USE BroadcastConstants DEF BroadcastInit
<1>1. BroadcastTypeOK
  <2>1. <<>> \in Seq(1 .. 0)
    BY EmptySeq
  <2>2. inbox \in [Subscribers -> Seq(1 .. published)]
    BY <2>1
  <2>3. outFrom \in Int /\ outLen \in Nat
    OBVIOUS
  <2>4. published \in 0 .. MaxBytes /\ recorded \in 0 .. published
    OBVIOUS
  <2>5. /\ subAt \in [Viewers -> 0 .. published] /\ seen \in [Viewers -> 0 .. published]
        /\ sized \in [Viewers -> Nat] /\ caughtUp \in [Viewers -> BOOLEAN]
    OBVIOUS
  <2>6. hLen \in [Viewers -> Nat \union {Unread}] /\ hFrom \in [Viewers -> Int \union {Unread}]
    OBVIOUS
  <2>7. stage \in [Viewers -> {"new", "sizing", "copying", "live"}]
    OBVIOUS
  <2> QED
    BY <2>2, <2>3, <2>4, <2>5, <2>6, <2>7 DEF BroadcastTypeOK
<1>2. InboxOrdered
  BY DEF InboxOrdered
<1>3. Window
  BY DEF Window
<1> QED
  BY <1>1, <1>2, <1>3 DEF RecorderInv

\* Each step keeps the types.
LEMMA TypeStep == RecorderInv /\ [BroadcastNext]_broadcastVars => BroadcastTypeOK'
<1> SUFFICES ASSUME RecorderInv, [BroadcastNext]_broadcastVars PROVE BroadcastTypeOK'
  OBVIOUS
<1> USE BroadcastConstants DEF RecorderInv, BroadcastTypeOK
<1>1. ASSUME NEW c \in 1 .. Buffer, Publish(c) PROVE BroadcastTypeOK'
  <2>1. published' \in 0 .. MaxBytes /\ published <= published'
    BY <1>1 DEF Publish
  <2>2. ASSUME NEW s \in Subscribers PROVE inbox'[s] \in Seq(1 .. published')
    <3>1. 1 .. published \subseteq 1 .. published'
      BY <2>1
    <3>2. inbox[s] \in Seq(1 .. published')
      BY <3>1, SeqMonotonic
    <3>3. published + c \in 1 .. published'
      BY <1>1 DEF Publish
    <3>4. Append(inbox[s], published + c) \in Seq(1 .. published')
      BY <3>2, <3>3, AddChunk
    <3> QED
      BY <1>1, <3>2, <3>4 DEF Publish
  <2>3. inbox' \in [Subscribers -> Seq(1 .. published')]
    BY <1>1, <2>2 DEF Publish
  <2> QED
    BY <1>1, <2>1, <2>3 DEF Publish, viewerVars
<1>2. CASE Record
  <2> DEFINE q == inbox[Recorder]
  <2>1. q \in Seq(1 .. published) /\ q # <<>>
    BY <1>2 DEF Record
  <2>2. /\ Head(q) \in 1 .. published /\ Tail(q) \in Seq(1 .. published)
        /\ Head(q) = q[1] /\ 1 \in 1 .. Len(q)
    BY <2>1, TakeChunk
  <2>3. recorded <= Head(q)
    BY <2>2 DEF InboxOrdered
  <2>4. inbox' \in [Subscribers -> Seq(1 .. published)]
    BY <1>2, <2>2 DEF Record
  <2>5. recorded' \in 0 .. published
    BY <1>2, <2>2 DEF Record
  <2>6. outLen' \in Nat
    <3> DEFINE h == Head(q)
    <3>1. h \in Nat /\ recorded <= h /\ outLen' = outLen + h - recorded
      BY <1>2, <2>2, <2>3 DEF Record
    <3> HIDE DEF h
    <3> QED
      BY <3>1
  <2>7. rec' \in {"idle", "trim", "trimmedFrom", "trimmedLen"}
    BY <1>2 DEF Record
  <2>8. UNCHANGED <<published, outFrom, viewerVars>>
    BY <1>2 DEF Record
  <2> QED
    BY <2>4, <2>5, <2>6, <2>7, <2>8 DEF viewerVars
<1>3. CASE TrimFrom \/ TrimLen
  BY <1>3 DEF TrimFrom, TrimLen, viewerVars
<1>4. ASSUME NEW v \in Viewers, Subscribe(v) PROVE BroadcastTypeOK'
  BY <1>4 DEF Subscribe
<1>5. ASSUME NEW v \in Viewers, Size(v) \/ CopyLen(v) \/ CopyFrom(v) PROVE BroadcastTypeOK'
  BY <1>5 DEF Size, CopyLen, CopyFrom
<1>6. ASSUME NEW v \in Viewers, FirstRead(v) PROVE BroadcastTypeOK'
  BY <1>6 DEF FirstRead
<1>7. ASSUME NEW v \in Viewers, LiveRead(v) PROVE BroadcastTypeOK'
  <2>1. inbox[v] \in Seq(1 .. published) /\ inbox[v] # <<>>
    BY <1>7 DEF LiveRead
  <2>2. Head(inbox[v]) \in 1 .. published /\ Tail(inbox[v]) \in Seq(1 .. published)
    BY <2>1, TakeChunk
  <2> QED
    BY <1>7, <2>2 DEF LiveRead
<1>8. CASE UNCHANGED broadcastVars
  BY <1>8 DEF broadcastVars, viewerVars
<1> QED
  BY <1>1, <1>2, <1>3, <1>4, <1>5, <1>6, <1>7, <1>8 DEF BroadcastNext, View, Quiet

\* Each step keeps the order of the recorder's inbox and the account of the
\* two words of outputs.
LEMMA RecorderStep == RecorderInv /\ [BroadcastNext]_broadcastVars => InboxOrdered' /\ Window'
<1> SUFFICES ASSUME RecorderInv, [BroadcastNext]_broadcastVars PROVE InboxOrdered' /\ Window'
  OBVIOUS
<1> USE BroadcastConstants DEF RecorderInv, BroadcastTypeOK
<1>1. ASSUME NEW c \in 1 .. Buffer, Publish(c) PROVE InboxOrdered' /\ Window'
  <2>1. inbox'[Recorder] = Append(inbox[Recorder], published + c)
    BY <1>1 DEF Publish, Subscribed
  <2> DEFINE q == inbox[Recorder]
             p == Append(q, published + c)
  <2>2. /\ q \in Seq(1 .. published) /\ q \in Seq(Nat) /\ published + c \in Nat
        /\ published \in Nat /\ recorded <= published + c
    BY <1>1, SeqMonotonic, 1 .. published \subseteq Nat DEF Publish
  <2>3. \A i \in 1 .. Len(q) : q[i] \in Nat /\ q[i] <= published + c
    BY <2>2, ElementOfSeq
  <2>4. recorded \in Nat /\ \A i \in 1 .. Len(q) : recorded <= q[i]
    BY DEF InboxOrdered
  <2>5. \A i, j \in 1 .. Len(q) : i <= j => q[i] <= q[j]
    BY DEF InboxOrdered
  <2>6. /\ \A i \in 1 .. Len(p) : recorded <= p[i]
        /\ \A i, j \in 1 .. Len(p) : i <= j => p[i] <= p[j]
    <3> HIDE DEF q
    <3> QED
      BY <2>2, <2>3, <2>4, <2>5, AppendOrdered
  <2>7. recorded' = recorded
    BY <1>1 DEF Publish
  <2>8. InboxOrdered'
    BY <2>1, <2>6, <2>7 DEF InboxOrdered
  <2> QED
    BY <1>1, <2>8 DEF Publish, Window
<1>2. CASE Record
  <2> DEFINE q == inbox[Recorder]
  <2>1. q \in Seq(1 .. published) /\ q # <<>> /\ inbox'[Recorder] = Tail(q)
    BY <1>2 DEF Record
  <2>2. /\ Head(q) = q[1] /\ 1 \in 1 .. Len(q) /\ q[1] \in 1 .. published
        /\ Len(Tail(q)) = Len(q) - 1
        /\ \A i \in 1 .. Len(Tail(q)) : Tail(q)[i] = q[i + 1] /\ i + 1 \in 1 .. Len(q)
    <3>1. /\ Len(q) \in Nat /\ Len(q) >= 1 /\ Head(q) = q[1] /\ Head(q) \in 1 .. published
          /\ Len(Tail(q)) = Len(q) - 1
          /\ \A i \in 1 .. Len(Tail(q)) : Tail(q)[i] = q[i + 1]
      BY <2>1, TakeChunk
    <3> QED
      BY <3>1
  <2>3. InboxOrdered'
    BY <1>2, <2>1, <2>2 DEF Record, InboxOrdered
  <2>4. recorded <= recorded' /\ recorded' \in Nat
    BY <1>2, <2>2 DEF Record, InboxOrdered
  <2>5. outLen' = outLen + recorded' - recorded /\ outFrom' = outFrom
    BY <1>2 DEF Record
  <2>6. rec = "idle" /\ rec' = IF outLen' > Limit THEN "trim" ELSE "idle"
    BY <1>2 DEF Record
  <2>7. outLen = Limit /\ outFrom + Limit - 1 = recorded
    BY <2>6 DEF Window
  <2>8. recorded \in Nat /\ recorded' \in Nat /\ recorded <= recorded' /\ outFrom \in Int
    BY <2>4
  <2> HIDE DEF RecorderInv, BroadcastTypeOK
  <2>9. outLen' >= Limit /\ outFrom' + outLen' - 1 = recorded' /\ outLen' \in Nat
    <3>1. ASSUME NEW r \in Nat, recorded <= r, recorded' = r
          PROVE  outLen' >= Limit /\ outFrom' + outLen' - 1 = recorded' /\ outLen' \in Nat
      BY <2>5, <2>7, <2>8, <3>1
    <3> QED
      BY <2>8, <3>1
  <2>10. outLen' > Limit \/ outLen' = Limit
    BY <2>9
  <2>11. Window'
    BY <2>6, <2>8, <2>9, <2>10 DEF Window
  <2> QED
    BY <2>3, <2>11
<1>3. CASE TrimFrom \/ TrimLen
  BY <1>3 DEF TrimFrom, TrimLen, InboxOrdered, Window
<1>4. ASSUME NEW v \in Viewers, Subscribe(v) \/ Size(v) \/ CopyLen(v) \/ CopyFrom(v) \/ FirstRead(v)
      PROVE  InboxOrdered' /\ Window'
  BY <1>4 DEF Subscribe, Size, CopyLen, CopyFrom, FirstRead, InboxOrdered, Window
<1>5. ASSUME NEW v \in Viewers, LiveRead(v) PROVE InboxOrdered' /\ Window'
  <2>1. inbox'[Recorder] = inbox[Recorder]
    BY <1>5 DEF LiveRead
  <2> QED
    BY <1>5, <2>1 DEF LiveRead, InboxOrdered, Window
<1>6. CASE UNCHANGED broadcastVars
  BY <1>6 DEF broadcastVars, InboxOrdered, Window
<1> QED
  BY <1>1, <1>2, <1>3, <1>4, <1>5, <1>6 DEF BroadcastNext, View, Quiet

\* The invariant of the recorder holds in every reachable state.
LEMMA RecorderCorrect == BroadcastSpec => []RecorderInv
<1>1. RecorderInv /\ [BroadcastNext]_broadcastVars => RecorderInv'
  BY TypeStep, RecorderStep DEF RecorderInv
<1> QED
  BY <1>1, RecorderInit, PTL DEF BroadcastSpec

\* Types, and nobody ahead of what was published (types/tty.go:77-85).
THEOREM BroadcastTypes == BroadcastSpec => []BroadcastTypeOK
BY RecorderCorrect, PTL DEF RecorderInv

\* The recorder keeps the last Limit bytes it took (types/tty.go:139-147).
THEOREM TailKept == BroadcastSpec => []KeepsTheTail
<1>1. RecorderInv => KeepsTheTail
  BY BroadcastConstants DEF RecorderInv, BroadcastTypeOK, Window, KeepsTheTail
<1> QED
  BY <1>1, RecorderCorrect, PTL

-----------------------------------------------------------------------------
(* The viewer that forks while the recorder is caught up.                  *)

\* From its subscription on, outputs begins no earlier than the Limit bytes
\* before it, and what Fork read of outputs was long enough.
ForkCovers ==
  \A v \in Viewers : stage[v] # "new" /\ caughtUp[v] =>
    /\ outFrom >= subAt[v] - Limit + 1
    /\ stage[v] \in {"copying", "live"} => sized[v] >= Limit
    /\ hLen[v] # Unread => hLen[v] >= Limit
    /\ hFrom[v] # Unread => hFrom[v] >= subAt[v] - Limit + 1

\* A viewer reads the words of outputs before it shows them, and not before
\* it subscribes.
ForkOrder ==
  \A v \in Viewers :
    /\ stage[v] \in {"new", "sizing"} => hLen[v] = Unread /\ hFrom[v] = Unread
    /\ stage[v] = "live" => hLen[v] # Unread /\ hFrom[v] # Unread

\* A recorder that is idle with an empty inbox took all that was published.
RecorderUpToDate == inbox[Recorder] = <<>> => recorded = published

\* The last chunk in the recorder's inbox is the last one published.
InboxComplete ==
  inbox[Recorder] # <<>> => inbox[Recorder][Len(inbox[Recorder])] = published

ForkInv == ForkCovers /\ ForkOrder /\ RecorderUpToDate /\ InboxComplete

\* Each step keeps it: the beginning of outputs only moves forward.
LEMMA ForkStep == RecorderInv /\ RecorderInv' /\ ForkInv /\ [BroadcastNext]_broadcastVars => ForkInv'
<1> SUFFICES ASSUME RecorderInv, RecorderInv', ForkInv, [BroadcastNext]_broadcastVars PROVE ForkInv'
  OBVIOUS
<1> USE BroadcastConstants DEF RecorderInv, BroadcastTypeOK, ForkInv, ForkCovers, ForkOrder
<1>1. ASSUME NEW c \in 1 .. Buffer, Publish(c) PROVE ForkInv'
  <2>1. inbox'[Recorder] = Append(inbox[Recorder], published + c)
    BY <1>1 DEF Publish, Subscribed
  <2>2. inbox'[Recorder] # <<>> /\ inbox'[Recorder][Len(inbox'[Recorder])] = published'
    <3> DEFINE q == inbox[Recorder]
    <3>1. 1 .. published \subseteq 1 .. published' /\ published' = published + c
      BY <1>1 DEF Publish
    <3>2. q \in Seq(1 .. published')
      BY <3>1, SeqMonotonic
    <3>3. published + c \in 1 .. published'
      BY <1>1 DEF Publish
    <3> HIDE DEF q
    <3>4. Append(q, published + c) # <<>>
      <4>1. Len(Append(q, published + c)) # 0
        BY <3>2, <3>3, AddChunk
      <4>2. Len(<<>>) = 0
        OBVIOUS
      <4> QED
        BY <4>1, <4>2, Zenon
    <3>5. Append(q, published + c)[Len(Append(q, published + c))] = published + c
      BY <3>2, <3>3, AddChunk
    <3> QED
      BY <2>1, <3>1, <3>4, <3>5 DEF q
  <2>3. RecorderUpToDate' /\ InboxComplete'
    BY <2>2 DEF RecorderUpToDate, InboxComplete
  <2> QED
    BY <1>1, <2>3 DEF Publish, viewerVars
<1>2. CASE Record
  <2> DEFINE q == inbox[Recorder]
  <2>1. q \in Seq(1 .. published) /\ q # <<>> /\ inbox'[Recorder] = Tail(q) /\ recorded' = Head(q)
    BY <1>2 DEF Record
  <2>2. /\ Len(q) \in Nat /\ Len(q) >= 1 /\ Head(q) = q[1] /\ Len(Tail(q)) = Len(q) - 1
        /\ \A i \in 1 .. Len(Tail(q)) : Tail(q)[i] = q[i + 1]
        /\ Tail(q) = <<>> <=> Len(q) = 1
    BY <2>1, TakeChunk
  <2>3. q[Len(q)] = published
    BY <2>1 DEF InboxComplete
  <2>4. RecorderUpToDate' /\ InboxComplete'
    <3>1. published' = published
      BY <1>2 DEF Record
    <3>2. CASE Len(q) = 1
      BY <2>1, <2>2, <2>3, <3>1, <3>2 DEF RecorderUpToDate, InboxComplete
    <3>3. CASE Len(q) # 1
      <4>1. Len(q) - 1 \in 1 .. Len(Tail(q)) /\ Tail(q)[Len(Tail(q))] = q[Len(q)]
        BY <2>2, <3>3
      <4> QED
        BY <2>1, <2>2, <2>3, <3>1, <3>3, <4>1 DEF RecorderUpToDate, InboxComplete
    <3> QED
      BY <3>2, <3>3
  <2> QED
    BY <1>2, <2>4 DEF Record, viewerVars
<1>3. CASE TrimFrom \/ TrimLen
  <2>1. outFrom <= outFrom'
    BY <1>3 DEF TrimFrom, TrimLen, Window
  <2>2. RecorderUpToDate' /\ InboxComplete'
    BY <1>3 DEF TrimFrom, TrimLen, RecorderUpToDate, InboxComplete
  <2> QED
    BY <1>3, <2>1, <2>2 DEF TrimFrom, TrimLen, viewerVars
<1>4. ASSUME NEW v \in Viewers, Subscribe(v) PROVE ForkInv'
  <2>1. caughtUp'[v] = (rec = "idle" /\ inbox[Recorder] = <<>>) /\ subAt'[v] = published
    BY <1>4 DEF Subscribe
  <2>2. rec = "idle" /\ inbox[Recorder] = <<>> => outFrom = published - Limit + 1
    BY DEF Window, RecorderUpToDate
  <2>3. caughtUp'[v] => outFrom = subAt'[v] - Limit + 1
    BY <2>1, <2>2
  <2>4. RecorderUpToDate' /\ InboxComplete'
    BY <1>4 DEF Subscribe, RecorderUpToDate, InboxComplete
  <2> QED
    BY <1>4, <2>3, <2>4 DEF Subscribe
<1>5. ASSUME NEW v \in Viewers, Size(v) \/ CopyLen(v) \/ CopyFrom(v) PROVE ForkInv'
  <2>1. outLen >= Limit /\ outLen # Unread
    BY DEF Window
  <2>2. RecorderUpToDate' /\ InboxComplete'
    BY <1>5 DEF Size, CopyLen, CopyFrom, RecorderUpToDate, InboxComplete
  <2>3. CASE Size(v)
    BY <2>1, <2>2, <2>3 DEF Size
  <2>4. CASE CopyLen(v)
    BY <2>1, <2>2, <2>4 DEF CopyLen
  <2>5. CASE CopyFrom(v)
    BY <2>2, <2>5 DEF CopyFrom
  <2> QED
    BY <1>5, <2>3, <2>4, <2>5
<1>6. ASSUME NEW v \in Viewers, FirstRead(v) PROVE ForkInv'
  <2>1. RecorderUpToDate' /\ InboxComplete'
    BY <1>6 DEF FirstRead, RecorderUpToDate, InboxComplete
  <2> QED
    BY <1>6, <2>1 DEF FirstRead
<1>7. ASSUME NEW v \in Viewers, LiveRead(v) PROVE ForkInv'
  <2>1. inbox'[Recorder] = inbox[Recorder]
    BY <1>7 DEF LiveRead
  <2>2. RecorderUpToDate' /\ InboxComplete'
    BY <1>7, <2>1 DEF LiveRead, RecorderUpToDate, InboxComplete
  <2> QED
    BY <1>7, <2>2 DEF LiveRead
<1>8. CASE UNCHANGED broadcastVars
  BY <1>8 DEF broadcastVars, RecorderUpToDate, InboxComplete
<1> QED
  BY <1>1, <1>2, <1>3, <1>4, <1>5, <1>6, <1>7, <1>8 DEF BroadcastNext, View, Quiet

\* A viewer whose Fork began with the recorder caught up is given everything
\* up to where the topic takes over (types/tty.go:105-122), because Fork
\* subscribes before it copies.
THEOREM NothingMissed == BroadcastSpec => []CaughtUpMissesNothing
<1>1. BroadcastInit => ForkInv
  BY BroadcastConstants DEF BroadcastInit, ForkInv, ForkCovers, ForkOrder, RecorderUpToDate, InboxComplete
<1>2. RecorderInv /\ RecorderInv' /\ ForkInv /\ [BroadcastNext]_broadcastVars => ForkInv'
  BY ForkStep
<1>3. RecorderInv /\ ForkInv => CaughtUpMissesNothing
  BY BroadcastConstants DEF RecorderInv, BroadcastTypeOK, ForkInv, ForkCovers, ForkOrder,
                   CaughtUpMissesNothing, SnapshotEnd, Least
<1> QED
  BY <1>1, <1>2, <1>3, RecorderCorrect, PTL DEF BroadcastSpec
=============================================================================
