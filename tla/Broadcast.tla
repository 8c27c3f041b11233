------------------------------ MODULE Broadcast ------------------------------
(***************************************************************************)
(* Sharing the output of a TTY (types/tty.go).  The goroutine that serves  *)
(* the master's browser publishes every chunk it reads from the TTY to the *)
(* topic of the session.  A recorder goroutine follows the topic and keeps *)
(* the last bytes in MasterTTY.outputs; MasterTTY.Fork, called by the      *)
(* handler of a viewer, subscribes and then copies outputs, which no lock  *)
(* protects; the viewer's goroutine shows the copy and then the topic.     *)
(*                                                                         *)
(* Bytes are numbered by their place in the TTY's output, from 1 on, so a  *)
(* slice of the output is its first byte and its length: outputs is the    *)
(* pair outFrom, outLen, two words that are read and written one by one.   *)
(* The bytes up to 0 are the NULs that NewMasterTTY fills outputs with.    *)
(* Which array the slice points into is abstracted.  The topic is external *)
(* (wrfly/pubsub): every subscriber gets every later chunk, in order.      *)
(***************************************************************************)
EXTENDS Integers, Sequences

CONSTANTS
  Viewers,   \* handlers that call Fork once
  Recorder,  \* the goroutine that NewMasterTTY starts
  Limit,     \* how many bytes outputs keeps (1e3)
  Buffer,    \* webtty's bufferSize (1024)
  MaxBytes,  \* bound: the TTY outputs no more
  Unread     \* a word of outputs that Fork has not read yet

ASSUME BroadcastAssumption ==
  /\ Recorder \notin Viewers
  /\ Limit \in Nat \ {0} /\ Buffer \in Nat /\ Limit <= Buffer
  /\ MaxBytes \in Nat
  /\ Unread \notin Int

VARIABLES
  published,  \* the last byte published
  inbox,      \* per subscriber: the last byte of each chunk it has yet to take
  recorded,   \* the last byte the recorder took
  outFrom,    \* MasterTTY.outputs: its first byte ...
  outLen,     \* ... and its length
  rec,        \* where the recorder is in its loop
  stage,      \* where each viewer is
  subAt,      \* the last byte published before the viewer subscribed
  caughtUp,   \* history: the recorder had nothing to do when it subscribed
  sized,      \* len(outputs) of the make in Fork
  hLen,       \* the length that the copy in Fork reads ...
  hFrom,      \* ... and the first byte
  seen,       \* the last byte the viewer got from the topic
  crashed     \* a goroutine panicked, and the process with it

broadcastVars == <<published, inbox, recorded, outFrom, outLen, rec,
          stage, subAt, caughtUp, sized, hLen, hFrom, seen, crashed>>
viewerVars == <<stage, subAt, caughtUp, sized, hLen, hFrom, seen, crashed>>

Subscribers == Viewers \union {Recorder}

Least(a, b) == IF a < b THEN a ELSE b

BroadcastInit ==
  /\ published = 0
  /\ inbox = [s \in Subscribers |-> <<>>]
  /\ recorded = 0
  /\ outFrom = 1 - Limit
  /\ outLen = Limit
  /\ rec = "idle"
  /\ stage = [v \in Viewers |-> "new"]
  /\ subAt = [v \in Viewers |-> 0]
  /\ caughtUp = [v \in Viewers |-> FALSE]
  /\ sized = [v \in Viewers |-> 0]
  /\ hLen = [v \in Viewers |-> Unread]
  /\ hFrom = [v \in Viewers |-> Unread]
  /\ seen = [v \in Viewers |-> 0]
  /\ crashed = FALSE

-----------------------------------------------------------------------------
(* The master's reader and the recorder.                                   *)

Subscribed(s) == s = Recorder \/ stage[s] # "new"

\* Faulty variant: the whole buffer is published instead of the c bytes read.
PublishBuffer(c) ==
  /\ published + c <= MaxBytes
  /\ published' = published + c
  /\ inbox' = [s \in Subscribers |->
                 IF Subscribed(s) THEN Append(inbox[s], published + Buffer) ELSE inbox[s]]
  /\ UNCHANGED <<recorded, outFrom, outLen, rec, viewerVars>>

\* MasterTTY.Read: c bytes from the TTY go to the topic.
Publish(c) ==
  /\ published + c <= MaxBytes
  /\ published' = published + c
  /\ inbox' = [s \in Subscribers |->
                 IF Subscribed(s) THEN Append(inbox[s], published + c) ELSE inbox[s]]
  /\ UNCHANGED <<recorded, outFrom, outLen, rec, viewerVars>>

\* The recorder takes a chunk and appends it: the length of outputs grows.
Record ==
  /\ rec = "idle"
  /\ inbox[Recorder] # <<>>
  /\ recorded' = Head(inbox[Recorder])
  /\ outLen' = outLen + Head(inbox[Recorder]) - recorded
  /\ rec' = IF outLen' > Limit THEN "trim" ELSE "idle"
  /\ inbox' = [inbox EXCEPT ![Recorder] = Tail(@)]
  /\ UNCHANGED <<published, outFrom, viewerVars>>

\* Faulty variant: the first bytes are kept instead of the last.
TrimKeepsFirst ==
  /\ rec \in {"trim", "trimmedLen"}
  /\ UNCHANGED outFrom
  /\ rec' = IF rec = "trim" THEN "trimmedFrom" ELSE "idle"
  /\ UNCHANGED <<published, inbox, recorded, outLen, viewerVars>>

\* outputs = outputs[len(outputs)-1e3:], the word that holds the first byte.
TrimFrom ==
  /\ rec \in {"trim", "trimmedLen"}
  /\ outFrom' = recorded - Limit + 1
  /\ rec' = IF rec = "trim" THEN "trimmedFrom" ELSE "idle"
  /\ UNCHANGED <<published, inbox, recorded, outLen, viewerVars>>

\* The same assignment, the word that holds the length.
TrimLen ==
  /\ rec \in {"trim", "trimmedFrom"}
  /\ outLen' = Limit
  /\ rec' = IF rec = "trim" THEN "trimmedLen" ELSE "idle"
  /\ UNCHANGED <<published, inbox, recorded, outFrom, viewerVars>>

-----------------------------------------------------------------------------
(* A viewer: Fork, then SlaveTTY.Read.                                     *)

\* Fork subscribes first.
Subscribe(v) ==
  /\ stage[v] = "new"
  /\ stage' = [stage EXCEPT ![v] = "sizing"]
  /\ subAt' = [subAt EXCEPT ![v] = published]
  /\ caughtUp' = [caughtUp EXCEPT ![v] = rec = "idle" /\ inbox[Recorder] = <<>>]
  /\ UNCHANGED <<published, inbox, recorded, outFrom, outLen, rec,
                 sized, hLen, hFrom, seen, crashed>>

\* make([]byte, len(m.outputs))
Size(v) ==
  /\ stage[v] = "sizing"
  /\ stage' = [stage EXCEPT ![v] = "copying"]
  /\ sized' = [sized EXCEPT ![v] = outLen]
  /\ UNCHANGED <<published, inbox, recorded, outFrom, outLen, rec,
                 subAt, caughtUp, hLen, hFrom, seen, crashed>>

\* copy(outputs, m.outputs), reading the length of the source.
CopyLen(v) ==
  /\ stage[v] = "copying"
  /\ hLen[v] = Unread
  /\ hLen' = [hLen EXCEPT ![v] = outLen]
  /\ UNCHANGED <<published, inbox, recorded, outFrom, outLen, rec,
                 stage, subAt, caughtUp, sized, hFrom, seen, crashed>>

\* Faulty variant: Fork subscribes only after it took the copy.
CopyFromThenSubscribe(v) ==
  /\ stage[v] = "copying"
  /\ hFrom[v] = Unread
  /\ hFrom' = [hFrom EXCEPT ![v] = outFrom]
  /\ subAt' = [subAt EXCEPT ![v] = published]
  /\ inbox' = [inbox EXCEPT ![v] = <<>>]
  /\ UNCHANGED <<published, recorded, outFrom, outLen, rec,
                 stage, caughtUp, sized, hLen, seen, crashed>>

\* The same copy, reading where the source begins.
CopyFrom(v) ==
  /\ stage[v] = "copying"
  /\ hFrom[v] = Unread
  /\ hFrom' = [hFrom EXCEPT ![v] = outFrom]
  /\ UNCHANGED <<published, inbox, recorded, outFrom, outLen, rec,
                 stage, subAt, caughtUp, sized, hLen, seen, crashed>>

\* The first SlaveTTY.Read: p[:len(s.masterOutputs)] panics when the copy is
\* longer than the buffer of webtty.Run, in a goroutine nobody recovers.
FirstRead(v) ==
  /\ stage[v] = "copying"
  /\ hLen[v] # Unread /\ hFrom[v] # Unread
  /\ IF sized[v] > Buffer
       THEN crashed' = TRUE /\ UNCHANGED stage
       ELSE stage' = [stage EXCEPT ![v] = "live"] /\ UNCHANGED crashed
  /\ UNCHANGED <<published, inbox, recorded, outFrom, outLen, rec,
                 subAt, caughtUp, sized, hLen, hFrom, seen>>

\* Every later SlaveTTY.Read: the next chunk of the topic.
LiveRead(v) ==
  /\ stage[v] = "live"
  /\ inbox[v] # <<>>
  /\ seen' = [seen EXCEPT ![v] = Head(inbox[v])]
  /\ inbox' = [inbox EXCEPT ![v] = Tail(@)]
  /\ UNCHANGED <<published, recorded, outFrom, outLen, rec,
                 stage, subAt, caughtUp, sized, hLen, hFrom, crashed>>

View(v) ==
  Subscribe(v) \/ Size(v) \/ CopyLen(v) \/ CopyFrom(v) \/ FirstRead(v) \/ LiveRead(v)

\* The TTY is silent and every viewer is up to date, or the process is dead.
Quiet ==
  /\ \/ crashed
     \/ /\ published = MaxBytes
        /\ \A s \in Subscribers : inbox[s] = <<>>
        /\ rec = "idle"
        /\ \A v \in Viewers : stage[v] = "live"
  /\ UNCHANGED broadcastVars

BroadcastNext ==
  \/ /\ ~crashed
     /\ \/ \E c \in 1 .. Buffer : Publish(c)
        \/ Record \/ TrimFrom \/ TrimLen
        \/ \E v \in Viewers : View(v)
  \/ Quiet

BroadcastSpec == BroadcastInit /\ [][BroadcastNext]_broadcastVars

-----------------------------------------------------------------------------
(* Properties.                                                             *)

\* The last byte of the outputs a viewer was given.
SnapshotEnd(v) == hFrom[v] + Least(sized[v], hLen[v]) - 1

\* Every variable has its type, and nobody is ahead of what was published.
BroadcastTypeOK ==
  /\ published \in 0 .. MaxBytes
  /\ inbox \in [Subscribers -> Seq(1 .. published)]
  /\ recorded \in 0 .. published
  /\ outFrom \in Int
  /\ outLen \in Nat
  /\ rec \in {"idle", "trim", "trimmedFrom", "trimmedLen"}
  /\ stage \in [Viewers -> {"new", "sizing", "copying", "live"}]
  /\ subAt \in [Viewers -> 0 .. published]
  /\ caughtUp \in [Viewers -> BOOLEAN]
  /\ sized \in [Viewers -> Nat]
  /\ hLen \in [Viewers -> Nat \union {Unread}]
  /\ hFrom \in [Viewers -> Int \union {Unread}]
  /\ seen \in [Viewers -> 0 .. published]
  /\ crashed \in BOOLEAN

\* Between two chunks the recorder holds exactly the last Limit bytes of what
\* it took; in the middle of one it never holds fewer, nor skips ahead of it.
KeepsTheTail ==
  /\ rec = "idle" => outLen = Limit /\ outFrom + outLen - 1 = recorded
  /\ outLen >= Limit
  /\ outFrom + Limit - 1 <= recorded

\* A viewer that forks when the recorder is caught up misses nothing: what it
\* is given reaches at least up to the first byte that the topic sends it,
\* whatever is published, recorded and trimmed while Fork copies.
CaughtUpMissesNothing ==
  \A v \in Viewers : stage[v] = "live" /\ caughtUp[v] => SnapshotEnd(v) >= subAt[v]

\* README.md:133, "You can always share the container's inputs and outputs
\* with others": a viewer's arrival does not bring the server down.
SharingIsSafe == ~crashed
=============================================================================
