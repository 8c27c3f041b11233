----------------------------- MODULE BridgeProofs -----------------------------
(***************************************************************************)
(* Proofs about Bridge, for every set of inputs, whatever a Read makes of  *)
(* them, every printout and every bound: its types, among them that the    *)
(* channel errs never has to hold a third result, and that each direction  *)
(* implements Relay.                                                       *)
(***************************************************************************)
EXTENDS Bridge, TLAPS

-----------------------------------------------------------------------------
(* Sequences and constants.                                                *)

\* What Append does to the length and the elements of a sequence.
LEMMA AppendFacts ==
  ASSUME NEW S, NEW s \in Seq(S), NEW e \in S
  PROVE  /\ Append(s, e) \in Seq(S)
         /\ Len(s) \in Nat
         /\ Len(Append(s, e)) = Len(s) + 1
         /\ \A i \in 1 .. Len(s) : Append(s, e)[i] = s[i]
         /\ Append(s, e)[Len(s) + 1] = e
OBVIOUS

\* What is at the head and in the tail of a sequence that is not empty.
LEMMA TailFacts ==
  ASSUME NEW S, NEW s \in Seq(S), s # <<>>
  PROVE  /\ Head(s) \in S /\ Head(s) = s[1]
         /\ Tail(s) \in Seq(S)
         /\ Len(s) \in Nat \ {0}
         /\ Len(Tail(s)) = Len(s) - 1
         /\ \A i \in 1 .. Len(s) - 1 : Tail(s)[i] = s[i + 1]
OBVIOUS

\* What the constants are, and that marks, inputs and outputs are apart.
LEMMA Constants ==
  /\ Printout \in Seq(Outputs) /\ Len(Printout) \in Nat
  /\ \A i \in 1 .. Len(Printout) : Printout[i] \in Outputs
  /\ Ping \notin Inputs /\ ResizeTerminal \notin Inputs /\ Ping # ResizeTerminal
  /\ Interrupt \notin Pieces /\ EndOfText \notin Pieces /\ Nothing \notin Pieces
  /\ Interrupt # EndOfText /\ Interrupt # Nothing /\ EndOfText # Nothing
  /\ Nothing \notin Outputs
  /\ \A m \in Inputs : Cut[m] \in Pieces
  /\ Resizes = 3
<1>1. /\ Printout \in Seq(Outputs) /\ Len(Printout) \in Nat
      /\ \A i \in 1 .. Len(Printout) : Printout[i] \in Outputs
  BY BridgeAssumption
<1>2. /\ Ping \notin Inputs /\ ResizeTerminal \notin Inputs /\ Nothing \notin Outputs
      /\ Interrupt \notin Pieces /\ EndOfText \notin Pieces /\ Nothing \notin Pieces
  BY BridgeAssumption
<1>3. /\ Ping # ResizeTerminal
      /\ Interrupt # EndOfText /\ Interrupt # Nothing /\ EndOfText # Nothing
  BY DEF Ping, ResizeTerminal, Interrupt, EndOfText, Nothing
<1>4. \A m \in Inputs : Cut[m] \in Pieces
  BY DEF Pieces
<1> QED
  BY <1>1, <1>2, <1>3, <1>4 DEF Resizes

-----------------------------------------------------------------------------
(* Where everybody is.                                                     *)

\* What a goroutine holds goes with the place where it is: who is in a Write of
\* the pipe is told by what is in the pipe, and a size is being sent while some
\* are left.
Held ==
  /\ writer = "typing" <=> held # Nothing
  /\ writer = "blocked" <=> pipe \in Pieces
  /\ handler = "^C blocked" <=> pipe = Interrupt
  /\ handler = "^D blocked" <=> pipe = EndOfText
  /\ reader = "writing" <=> out # Nothing
  /\ writer = "resizing" <=> tries # 0
  /\ reader = "none" <=> handler = "starting"
  /\ writer = "none" <=> handler = "starting"
  /\ exited => offer = Nothing

\* A result in errs is that of a goroutine of Run that ended.
Results ==
  /\ errs > 0 => reader = "ended" \/ writer = "ended"
  /\ errs > 1 => reader = "ended" /\ writer = "ended"

Places == Held /\ Results

\* The initial state is well typed, and everybody is where they start.
LEMMA PlacesInit == Init => TypeOK /\ Places
<1> SUFFICES ASSUME Init PROVE TypeOK /\ Places
  OBVIOUS
<1>1. /\ wire \in Seq(Inputs \union {Ping, ResizeTerminal})
      /\ typed \in Seq(Inputs) /\ shown \in Seq(Outputs) /\ taken \in Seq(Pieces)
  BY DEF Init
<1>2. printed \in 0 .. Len(Printout) /\ tries \in 0 .. Resizes /\ errs \in 0 .. 2
  BY Constants DEF Init
<1>3. TypeOK
  BY <1>1, <1>2 DEF Init, TypeOK, RunTypes, BridgeTypes
<1>4. Places
  BY Constants DEF Init, Places, Held, Results, exited
<1> QED
  BY <1>3, <1>4

\* Every step keeps the types of the handler and its context.
LEMMA RunStep == TypeOK /\ Places /\ [Next]_vars => RunTypes'
<1> SUFFICES ASSUME RunTypes, [Next]_vars PROVE RunTypes'
  BY DEF TypeOK
<1> USE DEF RunTypes, runVars
<1>1. ASSUME NEW m, SendMessage(m) PROVE RunTypes'
  BY <1>1 DEF SendMessage
<1>2. CASE CloseTab \/ Cancel
  BY <1>2 DEF CloseTab, Cancel
<1>3. CASE Reader \/ Writer
  BY <1>3 DEF Reader, ReadSlave, WriteMaster,
    Writer, ReadMessage, ReadFails, WriteSlave, WriteFails, ResizePanics
<1>4. CASE SendInitializeMessage \/ RunReturns \/ ExitCloses \/ CloseConn
  BY <1>4 DEF SendInitializeMessage, RunReturns, ExitCloses, CloseConn
<1>5. CASE \/ ExitWrites("^C", Interrupt, "^C blocked", "^D")
           \/ ExitWrites("^D", EndOfText, "^D blocked", "exiting")
  BY <1>5 DEF ExitWrites
<1>6. CASE ExitWriteFails("^C blocked", "^D") \/ ExitWriteFails("^D blocked", "exiting")
  BY <1>6 DEF ExitWriteFails
<1>7. CASE TakeInput
  BY <1>7 DEF TakeInput
<1>8. CASE BringOutput \/ NextSize \/ StreamEnds
  BY <1>8 DEF BringOutput, NextSize, StreamEnds
<1>9. CASE Over \/ UNCHANGED vars
  BY <1>9 DEF Over, vars
<1> QED
  BY <1>1, <1>2, <1>3, <1>4, <1>5, <1>6, <1>7, <1>8, <1>9 DEF Next, Handler

\* A step of Run's reader keeps the types.
LEMMA ReaderTypes == TypeOK /\ Places /\ Reader => BridgeTypes'
<1> SUFFICES ASSUME BridgeTypes, Places, Reader PROVE BridgeTypes'
  BY DEF TypeOK
<1> USE DEF clientVars, runVars, writerVars, streamVars
<1>1. errs' = errs \/ (errs' = errs + 1 /\ reader # "ended")
  BY DEF Reader, ReadSlave, WriteMaster, ReaderEnds
<1>2. errs' \in 0 .. 2
  <2>1. errs \in 0 .. 2
    BY DEF BridgeTypes
  <2>2. errs > 1 => reader = "ended" /\ writer = "ended"
    BY DEF Places, Results
  <2> QED
    BY <1>1, <2>1, <2>2
<1>3. CASE ReadSlave
  BY <1>2, <1>3 DEF ReadSlave, ReaderEnds, BridgeTypes
<1>4. CASE WriteMaster
  <2>1. shown' \in Seq(Outputs)
    <3>1. shown \in Seq(Outputs) /\ out \in Outputs \union {Nothing}
      BY DEF BridgeTypes
    <3>2. out # Nothing
      BY <1>4 DEF WriteMaster, Places, Held
    <3>3. shown' = Append(shown, out) \/ shown' = shown
      BY <1>4 DEF WriteMaster
    <3> QED
      BY <3>1, <3>2, <3>3, AppendFacts
  <2> QED
    BY <1>2, <1>4, <2>1 DEF WriteMaster, ReaderEnds, BridgeTypes
<1> QED
  BY <1>3, <1>4 DEF Reader

\* A step of Run's writer keeps the types.
LEMMA WriterTypes == TypeOK /\ Places /\ Writer => BridgeTypes'
<1> SUFFICES ASSUME BridgeTypes, Places, Writer PROVE BridgeTypes'
  BY DEF TypeOK
<1> USE DEF clientVars, runVars, readerVars, writerVars, streamVars
<1>1. errs' = errs \/ (errs' = errs + 1 /\ writer # "ended")
  BY DEF Writer, ReadMessage, ReadFails, WriteSlave, WriteFails, ResizePanics, WriterEnds
<1>2. errs' \in 0 .. 2
  <2>1. errs \in 0 .. 2
    BY DEF BridgeTypes
  <2>2. errs > 1 => reader = "ended" /\ writer = "ended"
    BY DEF Places, Results
  <2> QED
    BY <1>1, <2>1, <2>2
<1>3. tries' \in 0 .. Resizes
  BY Constants DEF Writer, ReadMessage, ReadFails, WriteSlave, WriteFails, ResizePanics, WriterEnds, BridgeTypes
<1>4. CASE ReadMessage
  <2>1. wire' \in Seq(Inputs \union {Ping, ResizeTerminal})
    BY <1>4, TailFacts DEF ReadMessage, BridgeTypes
  <2>2. held' \in Pieces \union {Nothing}
    BY <1>4, Constants DEF ReadMessage, WriterEnds, BridgeTypes
  <2> QED
    BY <1>2, <1>3, <1>4, <2>1, <2>2 DEF ReadMessage, WriterEnds, BridgeTypes
<1>5. CASE ReadFails
  BY <1>2, <1>3, <1>5 DEF ReadFails, WriterEnds, BridgeTypes
<1>6. CASE WriteSlave
  BY <1>2, <1>3, <1>6 DEF WriteSlave, WriterEnds, BridgeTypes
<1>7. CASE WriteFails \/ ResizePanics
  BY <1>2, <1>3, <1>7 DEF WriteFails, ResizePanics, WriterEnds, BridgeTypes
<1> QED
  BY <1>4, <1>5, <1>6, <1>7 DEF Writer

\* A step of the handler keeps the types.
LEMMA HandlerTypes == TypeOK /\ Places /\ Handler => BridgeTypes'
<1> SUFFICES ASSUME BridgeTypes, Places, Handler PROVE BridgeTypes'
  BY DEF TypeOK
<1> USE DEF clientVars, runVars, readerVars, writerVars, streamVars
<1>1. CASE RunReturns
  <2>1. errs' \in 0 .. 2
    BY <1>1 DEF RunReturns, BridgeTypes
  <2> QED
    BY <1>1, <2>1 DEF RunReturns, BridgeTypes
<1>2. CASE SendInitializeMessage \/ ExitCloses \/ CloseConn
  BY <1>2 DEF SendInitializeMessage, ExitCloses, CloseConn, BridgeTypes
<1>3. CASE ExitWrites("^C", Interrupt, "^C blocked", "^D")
  BY <1>3 DEF ExitWrites, BridgeTypes
<1>4. CASE ExitWrites("^D", EndOfText, "^D blocked", "exiting")
  BY <1>4 DEF ExitWrites, BridgeTypes
<1>5. CASE ExitWriteFails("^C blocked", "^D") \/ ExitWriteFails("^D blocked", "exiting")
  BY <1>5 DEF ExitWriteFails, BridgeTypes
<1> QED
  BY <1>1, <1>2, <1>3, <1>4, <1>5 DEF Handler

\* Every step keeps the types.
LEMMA TypeStep == TypeOK /\ Places /\ [Next]_vars => TypeOK'
<1> SUFFICES ASSUME TypeOK, Places, [Next]_vars PROVE BridgeTypes'
  BY RunStep DEF TypeOK
<1> USE DEF clientVars, runVars, readerVars, writerVars, streamVars
<1>0. BridgeTypes
  BY DEF TypeOK
<1>1. ASSUME NEW m \in Inputs \union {Ping, ResizeTerminal}, SendMessage(m) PROVE BridgeTypes'
  <2>1. wire' \in Seq(Inputs \union {Ping, ResizeTerminal})
    <3>1. wire \in Seq(Inputs \union {Ping, ResizeTerminal}) /\ wire' = Append(wire, m)
      BY <1>0, <1>1 DEF SendMessage, BridgeTypes
    <3> QED
      BY <3>1, AppendFacts
  <2>2. typed' \in Seq(Inputs)
    <3>1. typed \in Seq(Inputs) /\ typed' = IF m \in Inputs THEN Append(typed, m) ELSE typed
      BY <1>0, <1>1 DEF SendMessage, BridgeTypes
    <3> QED
      BY <3>1, AppendFacts
  <2> QED
    BY <1>0, <1>1, <2>1, <2>2 DEF SendMessage, BridgeTypes
<1>2. CASE CloseTab
  <2>1. wire' \in Seq(Inputs \union {Ping, ResizeTerminal})
    <3>1. wire \in Seq(Inputs \union {Ping, ResizeTerminal}) /\ (wire' = wire \/ wire' = <<>>)
      BY <1>0, <1>2 DEF CloseTab, BridgeTypes
    <3>2. <<>> \in Seq(Inputs \union {Ping, ResizeTerminal})
      OBVIOUS
    <3> QED
      BY <3>1, <3>2 DEF Ping, ResizeTerminal
  <2> QED
    BY <1>0, <1>2, <2>1 DEF CloseTab, BridgeTypes
<1>3. CASE Cancel
  BY <1>0, <1>3 DEF Cancel, BridgeTypes
<1>4. CASE Reader \/ Writer \/ Handler
  BY <1>4, ReaderTypes, WriterTypes, HandlerTypes
<1>5. CASE TakeInput
  <2>1. taken' \in Seq(Pieces)
    <3>1. taken \in Seq(Pieces)
      BY <1>0 DEF BridgeTypes
    <3>2. taken' = IF pipe \in Pieces THEN Append(taken, pipe) ELSE taken
      BY <1>5 DEF TakeInput
    <3> QED
      BY <3>1, <3>2, AppendFacts
  <2> QED
    BY <1>0, <1>5, <2>1 DEF TakeInput, BridgeTypes
<1>6. CASE BringOutput
  <2>1. offer' \in Outputs /\ printed' \in 0 .. Len(Printout)
    <3>1. printed \in 0 .. Len(Printout)
      BY <1>0 DEF BridgeTypes
    <3>2. printed < Len(Printout) /\ printed' = printed + 1 /\ offer' = Printout[printed + 1]
      BY <1>6 DEF BringOutput
    <3> QED
      BY <3>1, <3>2, Constants
  <2> QED
    BY <1>0, <1>6, <2>1 DEF BringOutput, BridgeTypes
<1>7. CASE NextSize
  <2>1. tries' \in 0 .. Resizes
    <3>1. tries \in 0 .. Resizes /\ tries # 0 /\ tries' = tries - 1
      BY <1>0, <1>7 DEF NextSize, BridgeTypes, Places, Held
    <3> QED
      BY <3>1, Constants
  <2> QED
    BY <1>0, <1>7, <2>1 DEF NextSize, BridgeTypes
<1>8. CASE StreamEnds \/ Over \/ UNCHANGED vars
  BY <1>0, <1>8 DEF StreamEnds, Over, vars, BridgeTypes
<1> QED
  BY <1>1, <1>2, <1>3, <1>4, <1>5, <1>6, <1>7, <1>8 DEF Next

\* Every step keeps what is held with its holder.
LEMMA HeldStep == TypeOK /\ Held /\ [Next]_vars => Held'
<1> SUFFICES ASSUME TypeOK, Held, [Next]_vars PROVE Held'
  OBVIOUS
<1> USE DEF clientVars, runVars, readerVars, writerVars, streamVars, exited
<1>0. /\ tries \in Nat
      /\ held \in Pieces \union {Nothing}
      /\ pipe \in Pieces \union {Interrupt, EndOfText, Nothing}
      /\ \A m \in Inputs : Cut[m] \in Pieces /\ Cut[m] # Nothing
      /\ Interrupt \notin Pieces /\ EndOfText \notin Pieces /\ Nothing \notin Pieces
      /\ Interrupt # EndOfText /\ Interrupt # Nothing /\ EndOfText # Nothing
      /\ Nothing \notin Outputs /\ offer \in Outputs \union {Nothing} /\ Resizes = 3
  BY Constants DEF TypeOK, BridgeTypes
<1>1. ASSUME NEW m, SendMessage(m) PROVE Held'
  BY <1>1 DEF SendMessage, Held
<1>2. CASE CloseTab \/ StreamEnds \/ Over \/ UNCHANGED vars
  BY <1>2 DEF CloseTab, StreamEnds, Over, vars, Held
<1>3. CASE Cancel
  BY <1>3 DEF Cancel, Held
<1>4. CASE ReadSlave
  BY <1>0, <1>4 DEF ReadSlave, ReaderEnds, Held
<1>5. CASE WriteMaster
  BY <1>0, <1>5 DEF WriteMaster, ReaderEnds, Held
<1>6. CASE ReadMessage
  <2>1. /\ writer = "reading" /\ UNCHANGED <<pipe, handler, reader, out, offer>>
        /\ \/ writer' = "typing" /\ tries' = tries /\ \E m \in Inputs : held' = Cut[m]
           \/ writer' = "resizing" /\ tries' = Resizes /\ held' = held
           \/ writer' = writer /\ tries' = tries /\ held' = held
           \/ writer' = "ended" /\ tries' = 0 /\ held' = Nothing
    BY <1>6 DEF ReadMessage, WriterEnds
  <2>2. /\ tries = 0 /\ held = Nothing /\ pipe \notin Pieces /\ handler # "starting"
    BY <2>1 DEF Held
  <2>3. /\ writer' = "typing" <=> held' # Nothing
        /\ writer' # "blocked" /\ writer' # "none"
    BY <1>0, <2>1, <2>2
  <2>4. writer' = "resizing" <=> tries' # 0
    BY <1>0, <2>1, <2>2
  <2> QED
    BY <2>1, <2>2, <2>3, <2>4 DEF Held
<1>7. CASE ReadFails \/ WriteFails
  BY <1>0, <1>7 DEF ReadFails, WriteFails, WriterEnds, Held
<1>8. CASE WriteSlave
  BY <1>0, <1>8 DEF WriteSlave, WriterEnds, Held
<1>9. CASE ResizePanics \/ NextSize
  <2>1. /\ writer = "resizing" /\ UNCHANGED <<held, pipe, handler, reader, out, offer>>
        /\ \/ writer' = "reading" /\ tries' = 0
           \/ tries' = tries - 1 /\ writer' = IF tries = 1 THEN "reading" ELSE "resizing"
    BY <1>9 DEF ResizePanics, NextSize
  <2>2. tries # 0 /\ held = Nothing /\ pipe \notin Pieces /\ handler # "starting"
    BY <2>1 DEF Held
  <2>3. writer' \in {"reading", "resizing"} /\ (writer' = "resizing" <=> tries' # 0)
    <3>1. tries \in Nat
      BY <1>0
    <3> QED
      BY <2>1, <2>2, <3>1
  <2> QED
    BY <2>1, <2>2, <2>3 DEF Held
<1>10. CASE SendInitializeMessage
  BY <1>0, <1>10 DEF SendInitializeMessage, Held
<1>11. CASE RunReturns
  BY <1>0, <1>11 DEF RunReturns, Held
<1>12. CASE ExitWrites("^C", Interrupt, "^C blocked", "^D")
  BY <1>0, <1>12 DEF ExitWrites, Held
<1>13. CASE ExitWrites("^D", EndOfText, "^D blocked", "exiting")
  BY <1>0, <1>13 DEF ExitWrites, Held
<1>14. CASE ExitWriteFails("^C blocked", "^D") \/ ExitWriteFails("^D blocked", "exiting")
  BY <1>0, <1>14 DEF ExitWriteFails, Held
<1>15. CASE ExitCloses \/ CloseConn
  BY <1>0, <1>15 DEF ExitCloses, CloseConn, Held
<1>16. CASE TakeInput
  BY <1>0, <1>16 DEF TakeInput, Held
<1>17. CASE BringOutput
  BY <1>0, <1>17 DEF BringOutput, Held
<1> QED
  BY <1>1, <1>2, <1>3, <1>4, <1>5, <1>6, <1>7, <1>8, <1>9, <1>10, <1>11, <1>12, <1>13,
     <1>14, <1>15, <1>16, <1>17
  DEF Next, Reader, Writer, Handler

\* Every step keeps a result for an end.
LEMMA ResultsStep == TypeOK /\ Places /\ [Next]_vars => Results'
<1> SUFFICES ASSUME errs \in 0 .. 2, handler = "starting" => reader = "none" /\ writer = "none",
                    Results, [Next]_vars
             PROVE  Results'
  BY DEF TypeOK, BridgeTypes, Places, Held
<1> USE DEF runVars, readerVars, writerVars, Results
<1>1. ASSUME NEW m, SendMessage(m) PROVE Results'
  BY <1>1 DEF SendMessage
<1>2. CASE CloseTab \/ Cancel \/ StreamEnds \/ BringOutput
  BY <1>2 DEF CloseTab, Cancel, StreamEnds, BringOutput
<1>3. CASE Reader
  BY <1>3 DEF Reader, ReadSlave, WriteMaster, ReaderEnds
<1>4. CASE ReadMessage \/ ReadFails
  BY <1>4 DEF ReadMessage, ReadFails, WriterEnds
<1>5. CASE WriteSlave \/ WriteFails \/ ResizePanics \/ NextSize
  BY <1>5 DEF WriteSlave, WriteFails, ResizePanics, NextSize, WriterEnds
<1>6. CASE SendInitializeMessage \/ RunReturns \/ ExitCloses \/ CloseConn
  BY <1>6 DEF SendInitializeMessage, RunReturns, ExitCloses, CloseConn
<1>7. CASE \/ ExitWrites("^C", Interrupt, "^C blocked", "^D")
           \/ ExitWrites("^D", EndOfText, "^D blocked", "exiting")
  BY <1>7 DEF ExitWrites
<1>8. CASE ExitWriteFails("^C blocked", "^D") \/ ExitWriteFails("^D blocked", "exiting")
  BY <1>8 DEF ExitWriteFails
<1>9. CASE TakeInput
  BY <1>9 DEF TakeInput
<1>10. CASE Over \/ UNCHANGED vars
  BY <1>10 DEF Over, vars
<1> QED
  BY <1>1, <1>2, <1>3, <1>4, <1>5, <1>6, <1>7, <1>8, <1>9, <1>10 DEF Next, Writer, Handler

\* Every step keeps everybody where their program has them.
LEMMA PlacesStep == TypeOK /\ Places /\ [Next]_vars => Places'
BY HeldStep, ResultsStep DEF Places

\* Every variable keeps its type; the channel errs, made for two results, never has
\* to take a third one (webtty.go:69-112).
THEOREM TypeCorrect == Spec => []TypeOK
BY PlacesInit, TypeStep, PlacesStep, PTL DEF Spec

-----------------------------------------------------------------------------
(* The input.                                                              *)

\* How many inputs left the wire: those that Stream took, and the one that Run's
\* writer is about to write or writes.
Passed == Len(taken) + (IF writer \in {"typing", "blocked"} THEN 1 ELSE 0)

\* While Run's writer is there, what Stream took, what the writer has in hand and
\* what is on the wire are, in this order, what was typed.  place[k] is how many
\* inputs there are up to the kth message of the wire.
InFlow ==
  writer # "ended" =>
    \E place \in [0 .. Len(wire) -> 0 .. Len(typed)] :
      /\ place[0] = Passed
      /\ writer = "typing" => held = Cut[typed[place[0]]]
      /\ writer = "blocked" => pipe = Cut[typed[place[0]]]
      /\ \A k \in 1 .. Len(wire) :
           IF wire[k] \in Inputs
             THEN place[k] = place[k - 1] + 1 /\ wire[k] = typed[place[k]]
             ELSE place[k] = place[k - 1]
      /\ browser = "open" => place[Len(wire)] = Len(typed)

\* Nothing is on its way in the beginning.
LEMMA InInit == Init => InFlow
<1> SUFFICES ASSUME Init PROVE InFlow
  OBVIOUS
<1>1. wire = <<>> /\ typed = <<>> /\ taken = <<>> /\ writer = "none"
  BY DEF Init
<1>2. Len(wire) = 0 /\ Len(typed) = 0 /\ Len(taken) = 0
  BY <1>1
<1>3. Passed = 0
  BY <1>1, <1>2 DEF Passed
<1> DEFINE place == [k \in 0 .. 0 |-> 0]
<1>4. place \in [0 .. Len(wire) -> 0 .. Len(typed)] /\ place[0] = 0
  BY <1>2
<1> HIDE DEF place
<1> QED
  BY <1>1, <1>2, <1>3, <1>4 DEF InFlow

\* A step that moves no input leaves the flow as it is.
LEMMA InFrame ==
  ASSUME InFlow, UNCHANGED <<wire, typed, taken, browser>>,
         \/ UNCHANGED writer /\ UNCHANGED held /\ (writer = "blocked" => UNCHANGED pipe)
         \/ writer' \in {"reading", "resizing", "ended"} /\ writer \notin {"typing", "blocked", "ended"}
         \/ writer' = "ended"
  PROVE  InFlow'
<1> SUFFICES ASSUME writer' # "ended" PROVE InFlow'
  BY DEF InFlow
<1>1. writer # "ended" /\ Passed' = Passed
  BY DEF Passed
<1>2. /\ writer' = "typing" => writer = "typing" /\ held' = held
      /\ writer' = "blocked" => writer = "blocked" /\ pipe' = pipe
  OBVIOUS
<1> QED
  BY <1>1, <1>2 DEF InFlow

\* A message joins the end of the wire.
LEMMA InSend ==
  ASSUME TypeOK, InFlow, NEW m \in Inputs \union {Ping, ResizeTerminal}, SendMessage(m)
  PROVE  InFlow'
<1> USE DEF clientVars, runVars, readerVars, writerVars, streamVars
<1> SUFFICES ASSUME writer # "ended" PROVE InFlow'
  BY DEF InFlow, SendMessage
<1>1. /\ wire \in Seq(Inputs \union {Ping, ResizeTerminal}) /\ typed \in Seq(Inputs)
      /\ Len(wire) \in Nat /\ Len(typed) \in Nat
  BY DEF TypeOK, BridgeTypes
<1>2. /\ browser = "open" /\ wire' = Append(wire, m)
      /\ typed' = IF m \in Inputs THEN Append(typed, m) ELSE typed
      /\ UNCHANGED <<browser, writer, held, pipe, taken>>
  BY DEF SendMessage
<1>3. PICK place \in [0 .. Len(wire) -> 0 .. Len(typed)] :
      /\ place[0] = Passed
      /\ writer = "typing" => held = Cut[typed[place[0]]]
      /\ writer = "blocked" => pipe = Cut[typed[place[0]]]
      /\ \A k \in 1 .. Len(wire) :
           IF wire[k] \in Inputs
             THEN place[k] = place[k - 1] + 1 /\ wire[k] = typed[place[k]]
             ELSE place[k] = place[k - 1]
      /\ place[Len(wire)] = Len(typed)
  BY <1>2 DEF InFlow
<1>4. /\ Len(wire') = Len(wire) + 1 /\ wire'[Len(wire) + 1] = m
      /\ \A k \in 1 .. Len(wire) : wire'[k] = wire[k]
  BY <1>1, <1>2, AppendFacts
<1>5. /\ Len(typed') = Len(typed) + (IF m \in Inputs THEN 1 ELSE 0)
      /\ \A i \in 1 .. Len(typed) : typed'[i] = typed[i]
      /\ m \in Inputs => typed'[Len(typed')] = m
  BY <1>1, <1>2, AppendFacts
<1> DEFINE placeN == [k \in 0 .. Len(wire') |-> IF k = Len(wire') THEN Len(typed') ELSE place[k]]
<1>6. /\ placeN \in [0 .. Len(wire') -> 0 .. Len(typed')]
      /\ \A k \in 0 .. Len(wire) : placeN[k] = place[k]
      /\ placeN[Len(wire')] = Len(typed')
  <2>1. Len(typed') \in Nat /\ Len(typed) <= Len(typed')
    BY <1>1, <1>5
  <2>2. /\ \A k \in 0 .. Len(wire') : k = Len(wire') \/ k \in 0 .. Len(wire)
        /\ \A k \in 0 .. Len(wire) : k \in 0 .. Len(wire') /\ k # Len(wire')
        /\ Len(wire') \in 0 .. Len(wire')
    BY <1>1, <1>4
  <2>3. ASSUME NEW k \in 0 .. Len(wire)
        PROVE  place[k] \in 0 .. Len(typed')
    <3>1. place[k] \in 0 .. Len(typed)
      BY <1>3
    <3> QED
      BY <1>1, <2>1, <3>1
  <2>4. Len(typed') \in 0 .. Len(typed')
    BY <2>1
  <2> QED
    BY <2>2, <2>3, <2>4
<1>7. /\ placeN[0] = Passed /\ Passed' = Passed
      /\ place[0] \in 0 .. Len(typed)
  <2> HIDE DEF placeN
  <2>1. 0 \in 0 .. Len(wire)
    BY <1>1
  <2>2. Passed' = Passed
    BY <1>2 DEF Passed
  <2> QED
    BY <1>3, <1>6, <2>1, <2>2
<1>8. writer \in {"typing", "blocked"} => typed'[placeN[0]] = typed[place[0]]
  <2> SUFFICES ASSUME writer \in {"typing", "blocked"} PROVE typed'[place[0]] = typed[place[0]]
    BY <1>3, <1>7
  <2>1. Len(taken) \in Nat
    BY DEF TypeOK, BridgeTypes
  <2>2. place[0] \in 1 .. Len(typed)
    BY <1>3, <1>7, <2>1 DEF Passed
  <2> QED
    BY <1>5, <2>2
<1>9. ASSUME NEW k \in 1 .. Len(wire')
      PROVE  IF wire'[k] \in Inputs
               THEN placeN[k] = placeN[k - 1] + 1 /\ wire'[k] = typed'[placeN[k]]
               ELSE placeN[k] = placeN[k - 1]
  <2> HIDE DEF placeN
  <2>1. CASE k = Len(wire')
    <3>1. k - 1 = Len(wire) /\ placeN[k - 1] = Len(typed) /\ wire'[k] = m
      BY <1>1, <1>3, <1>4, <1>6, <2>1
    <3> QED
      BY <1>1, <1>5, <1>6, <2>1, <3>1
  <2>2. CASE k # Len(wire')
    <3>1. /\ k \in 1 .. Len(wire) /\ k - 1 \in 0 .. Len(wire)
          /\ wire'[k] = wire[k] /\ placeN[k] = place[k] /\ placeN[k - 1] = place[k - 1]
      BY <1>1, <1>4, <1>6, <2>2
    <3>2. CASE wire[k] \in Inputs
      <4>1. place[k] = place[k - 1] + 1 /\ wire[k] = typed[place[k]]
        BY <1>3, <3>1, <3>2
      <4>2. place[k] \in 1 .. Len(typed)
        <5>1. place[k - 1] \in 0 .. Len(typed) /\ place[k] \in 0 .. Len(typed)
          BY <1>3, <3>1
        <5> QED
          BY <4>1, <5>1
      <4> QED
        BY <1>5, <3>1, <3>2, <4>1, <4>2
    <3>3. CASE wire[k] \notin Inputs
      BY <1>3, <3>1, <3>3
    <3> QED
      BY <3>2, <3>3
  <2> QED
    BY <2>1, <2>2
<1> HIDE DEF placeN
<1> QED
  BY <1>2, <1>3, <1>6, <1>7, <1>8, <1>9 DEF InFlow

\* What is lost of the wire is its end, with the tab that typed it.
LEMMA InClose == TypeOK /\ InFlow /\ CloseTab => InFlow'
<1> SUFFICES ASSUME TypeOK, InFlow, CloseTab, writer # "ended" PROVE InFlow'
  BY DEF InFlow, CloseTab, writerVars
<1> USE DEF clientVars, runVars, readerVars, writerVars, streamVars
<1>1. /\ browser' = "closed" /\ (wire' = wire \/ wire' = <<>>)
      /\ UNCHANGED <<writer, held, pipe, typed, taken>>
  BY DEF CloseTab
<1>2. Passed' = Passed /\ Len(wire) \in Nat /\ Len(typed) \in Nat
  BY <1>1 DEF Passed, TypeOK, BridgeTypes
<1>3. PICK place \in [0 .. Len(wire) -> 0 .. Len(typed)] :
      /\ place[0] = Passed
      /\ writer = "typing" => held = Cut[typed[place[0]]]
      /\ writer = "blocked" => pipe = Cut[typed[place[0]]]
      /\ \A k \in 1 .. Len(wire) :
           IF wire[k] \in Inputs
             THEN place[k] = place[k - 1] + 1 /\ wire[k] = typed[place[k]]
             ELSE place[k] = place[k - 1]
  BY DEF InFlow
<1>4. CASE wire' = wire
  BY <1>1, <1>2, <1>3, <1>4 DEF InFlow
<1>5. CASE wire' = <<>>
  <2>1. Len(wire') = 0
    BY <1>5
  <2> DEFINE placeN == [k \in 0 .. 0 |-> place[0]]
  <2>2. placeN \in [0 .. Len(wire') -> 0 .. Len(typed')] /\ placeN[0] = place[0]
    BY <1>1, <1>2, <1>3, <2>1
  <2>3. \A k \in 1 .. Len(wire') : FALSE
    BY <2>1
  <2> HIDE DEF placeN
  <2> QED
    BY <1>1, <1>2, <1>3, <2>2, <2>3 DEF InFlow
<1> QED
  BY <1>1, <1>4, <1>5

\* Run's writer takes the first message of the wire.
LEMMA InRead == TypeOK /\ Places /\ InFlow /\ ReadMessage => InFlow'
<1> SUFFICES ASSUME TypeOK, Places, InFlow, ReadMessage, writer' # "ended" PROVE InFlow'
  BY DEF InFlow
<1> USE DEF clientVars, runVars, readerVars, writerVars, streamVars
<1>1. /\ wire \in Seq(Inputs \union {Ping, ResizeTerminal}) /\ Len(typed) \in Nat
      /\ Len(taken) \in Nat
  BY DEF TypeOK, BridgeTypes
<1>2. /\ writer = "reading" /\ wire # <<>> /\ wire' = Tail(wire)
      /\ UNCHANGED <<browser, typed, pipe, taken>>
      /\ IF Head(wire) \in Inputs
           THEN writer' = "typing" /\ held' = Cut[Head(wire)]
           ELSE writer' \in {"reading", "resizing"}
  BY Constants DEF ReadMessage, WriterEnds
<1>3. /\ Head(wire) = wire[1] /\ Len(wire) \in Nat \ {0} /\ Len(wire') = Len(wire) - 1
      /\ \A k \in 1 .. Len(wire') : wire'[k] = wire[k + 1]
  BY <1>1, <1>2, TailFacts
<1>4. PICK place \in [0 .. Len(wire) -> 0 .. Len(typed)] :
      /\ place[0] = Passed
      /\ \A k \in 1 .. Len(wire) :
           IF wire[k] \in Inputs
             THEN place[k] = place[k - 1] + 1 /\ wire[k] = typed[place[k]]
             ELSE place[k] = place[k - 1]
      /\ browser = "open" => place[Len(wire)] = Len(typed)
  BY <1>2 DEF InFlow
<1> DEFINE placeN == [k \in 0 .. Len(wire') |-> place[k + 1]]
<1>5. /\ placeN \in [0 .. Len(wire') -> 0 .. Len(typed')]
      /\ \A k \in 0 .. Len(wire') : placeN[k] = place[k + 1]
      /\ placeN[0] = place[1] /\ placeN[Len(wire')] = place[Len(wire)]
  <2>1. \A k \in 0 .. Len(wire') : k + 1 \in 0 .. Len(wire)
    BY <1>3
  <2>2. Len(wire') + 1 = Len(wire) /\ 0 \in 0 .. Len(wire') /\ Len(wire') \in 0 .. Len(wire')
    BY <1>3
  <2> QED
    BY <1>2, <2>1, <2>2
<1>6. /\ placeN[0] = Passed'
      /\ writer' = "typing" => held' = Cut[typed'[placeN[0]]]
  <2>1. 1 \in 1 .. Len(wire)
    BY <1>3
  <2>2. CASE Head(wire) \in Inputs
    <3>1. place[1] = place[1 - 1] + 1 /\ wire[1] = typed[place[1]]
      BY <1>3, <1>4, <2>1, <2>2
    <3>2. Passed = Len(taken) /\ Passed' = Len(taken) + 1
      BY <1>1, <1>2, <2>2 DEF Passed
    <3> QED
      BY <1>2, <1>3, <1>4, <1>5, <2>2, <3>1, <3>2
  <2>3. CASE Head(wire) \notin Inputs
    <3>1. place[1] = place[1 - 1]
      BY <1>3, <1>4, <2>1, <2>3
    <3>2. Passed = Len(taken) /\ Passed' = Len(taken)
      BY <1>1, <1>2, <2>3 DEF Passed
    <3> QED
      BY <1>2, <1>4, <1>5, <2>3, <3>1, <3>2
  <2> QED
    BY <2>2, <2>3
<1>7. ASSUME NEW k \in 1 .. Len(wire')
      PROVE  IF wire'[k] \in Inputs
               THEN placeN[k] = placeN[k - 1] + 1 /\ wire'[k] = typed'[placeN[k]]
               ELSE placeN[k] = placeN[k - 1]
  <2> HIDE DEF placeN
  <2>1. /\ k + 1 \in 1 .. Len(wire) /\ wire'[k] = wire[k + 1]
        /\ k \in 0 .. Len(wire') /\ k - 1 \in 0 .. Len(wire') /\ (k - 1) + 1 = k /\ (k + 1) - 1 = k
    BY <1>3
  <2>2. placeN[k] = place[k + 1] /\ placeN[k - 1] = place[k]
    BY <1>5, <2>1
  <2>3. IF wire[k + 1] \in Inputs
          THEN place[k + 1] = place[k] + 1 /\ wire[k + 1] = typed[place[k + 1]]
          ELSE place[k + 1] = place[k]
    BY <1>4, <2>1
  <2> QED
    BY <1>2, <2>1, <2>2, <2>3
<1> HIDE DEF placeN
<1>8. writer' # "blocked"
  BY <1>2
<1> QED
  BY <1>2, <1>4, <1>5, <1>6, <1>7, <1>8 DEF InFlow

\* The input in hand goes into the pipe, and from there to Stream.
LEMMA InWrite == TypeOK /\ Places /\ InFlow /\ (WriteSlave \/ TakeInput) => InFlow'
<1> SUFFICES ASSUME TypeOK, Places, InFlow, WriteSlave \/ TakeInput, writer' # "ended" PROVE InFlow'
  BY DEF InFlow
<1> USE DEF clientVars, runVars, readerVars, writerVars, streamVars
<1>1. CASE WriteSlave
  <2>1. /\ writer = "typing" /\ writer' = "blocked" /\ pipe' = held
        /\ UNCHANGED <<browser, wire, typed, taken>>
    BY <1>1 DEF WriteSlave, WriterEnds
  <2>2. Passed' = Passed
    BY <2>1 DEF Passed
  <2> QED
    BY <2>1, <2>2 DEF InFlow
<1>2. CASE TakeInput /\ writer = "blocked"
  <2>1. /\ writer' = "reading" /\ pipe \in Pieces /\ taken' = Append(taken, pipe)
        /\ UNCHANGED <<browser, wire, typed>>
    BY <1>2 DEF TakeInput, Places, Held
  <2>2. Len(taken') = Len(taken) + 1 /\ Len(taken) \in Nat
    BY <2>1, AppendFacts DEF TypeOK, BridgeTypes
  <2>3. Passed' = Passed
    BY <1>2, <2>1, <2>2 DEF Passed
  <2> QED
    BY <1>2, <2>1, <2>3 DEF InFlow
<1>3. CASE TakeInput /\ writer # "blocked"
  <2>1. UNCHANGED <<browser, wire, typed, taken, writer, held>>
    BY <1>3 DEF TakeInput, Places, Held
  <2> QED
    BY <1>3, <2>1, InFrame
<1> QED
  BY <1>1, <1>2, <1>3

\* Every step keeps the input in order and complete.
LEMMA InStep == TypeOK /\ Places /\ InFlow /\ [Next]_vars => InFlow'
<1> SUFFICES ASSUME TypeOK, Places, InFlow, [Next]_vars PROVE InFlow'
  OBVIOUS
<1> USE DEF clientVars, runVars, readerVars, writerVars, streamVars
<1>1. ASSUME NEW m \in Inputs \union {Ping, ResizeTerminal}, SendMessage(m) PROVE InFlow'
  BY <1>1, InSend
<1>2. CASE CloseTab \/ ReadMessage \/ WriteSlave \/ TakeInput
  BY <1>2, InClose, InRead, InWrite
<1>3. CASE Cancel \/ Reader
  BY <1>3, InFrame DEF Cancel, Reader, ReadSlave, WriteMaster
<1>4. CASE ReadFails \/ WriteFails
  BY <1>4 DEF ReadFails, WriteFails, WriterEnds, InFlow
<1>5. CASE ResizePanics \/ NextSize
  BY <1>5, InFrame DEF ResizePanics, NextSize
<1>6. CASE SendInitializeMessage
  <2>1. writer = "none"
    BY <1>6 DEF SendInitializeMessage, Places, Held
  <2> QED
    BY <1>6, <2>1, InFrame DEF SendInitializeMessage
<1>7. CASE RunReturns \/ ExitCloses \/ CloseConn
  BY <1>7, InFrame DEF RunReturns, ExitCloses, CloseConn
<1>8. ASSUME NEW at, NEW char, NEW blocked, NEW next, ExitWrites(at, char, blocked, next)
      PROVE  InFlow'
  <2>1. UNCHANGED <<browser, wire, typed, taken, writer, held>> /\ (pipe = Nothing \/ UNCHANGED pipe)
    BY <1>8 DEF ExitWrites
  <2>2. writer = "blocked" => pipe # Nothing
    BY Constants DEF Places, Held
  <2> QED
    BY <2>1, <2>2, InFrame
<1>9. ASSUME NEW next, \/ ExitWriteFails("^C blocked", next)
                       \/ ExitWriteFails("^D blocked", next)
      PROVE  InFlow'
  <2>1. UNCHANGED <<browser, wire, typed, taken, writer, held>>
    BY <1>9 DEF ExitWriteFails
  <2>2. handler \in {"^C blocked", "^D blocked"}
    BY <1>9 DEF ExitWriteFails
  <2>3. writer # "blocked"
    BY <2>2, Constants DEF Places, Held
  <2> QED
    BY <2>1, <2>3, InFrame
<1>10. CASE BringOutput \/ StreamEnds \/ Over \/ UNCHANGED vars
  BY <1>10, InFrame DEF BringOutput, StreamEnds, Over, vars
<1> QED
  BY <1>1, <1>2, <1>3, <1>4, <1>5, <1>6, <1>7, <1>8, <1>9, <1>10 DEF Next, Writer, Handler

\* Another input that is typed is another piece at the end.
LEMMA PastedAppend ==
  ASSUME TypeOK, NEW m \in Inputs, typed' = Append(typed, m)
  PROVE  Pasted' = Append(Pasted, Cut[m])
<1>1. typed \in Seq(Inputs) /\ Len(typed) \in Nat
  BY DEF TypeOK, BridgeTypes
<1>2. /\ Len(typed') = Len(typed) + 1 /\ typed'[Len(typed) + 1] = m
      /\ \A i \in 1 .. Len(typed) : typed'[i] = typed[i]
  BY <1>1, AppendFacts
<1>3. \A i \in 1 .. Len(typed) : Cut[typed[i]] \in Pieces
  BY <1>1, Constants
<1>4. Pasted \in Seq(Pieces) /\ Len(Pasted) = Len(typed) /\ Cut[m] \in Pieces
  BY <1>1, <1>3, Constants DEF Pasted
<1>5. DOMAIN Pasted' = 1 .. Len(typed) + 1 /\ Pasted' = [i \in 1 .. Len(typed) + 1 |-> Cut[typed'[i]]]
  BY <1>2 DEF Pasted
<1>6. \A i \in 1 .. Len(typed) : Pasted'[i] = Pasted[i]
  BY <1>1, <1>2, <1>5 DEF Pasted
<1>7. Pasted'[Len(typed) + 1] = Cut[m]
  BY <1>1, <1>2, <1>5
<1> DEFINE longer == Append(Pasted, Cut[m])
<1>8. /\ longer \in Seq(Pieces) /\ Len(longer) = Len(typed) + 1
      /\ \A i \in 1 .. Len(typed) : longer[i] = Pasted[i]
      /\ longer[Len(typed) + 1] = Cut[m]
  BY <1>4, AppendFacts
<1>9. /\ longer = [i \in 1 .. Len(typed) + 1 |-> longer[i]]
      /\ \A i \in 1 .. Len(typed) + 1 : i \in 1 .. Len(typed) \/ i = Len(typed) + 1
  <2> HIDE DEF longer
  <2> QED
    BY <1>1, <1>8
<1>10. Pasted' = [i \in 1 .. Len(typed) + 1 |-> Pasted'[i]]
  BY <1>5
<1>11. \A i \in 1 .. Len(typed) + 1 : Pasted'[i] = longer[i]
  BY <1>6, <1>7, <1>8, <1>9
<1> HIDE DEF longer
<1>12. Pasted' = longer
  BY <1>9, <1>10, <1>11
<1> QED
  BY <1>12 DEF longer

\* What Stream takes next is the next of what was typed.
LEMMA InputSteps ==
  TypeOK /\ Places /\ InFlow /\ [Next]_vars => [In!Next]_<<Pasted, taken>>
<1> SUFFICES ASSUME TypeOK, Places, InFlow, [Next]_vars
    PROVE  In!Next \/ (UNCHANGED Pasted /\ UNCHANGED taken)
  OBVIOUS
<1> USE DEF clientVars, runVars, readerVars, writerVars, streamVars
<1>0. ASSUME UNCHANGED typed PROVE UNCHANGED Pasted
  BY <1>0 DEF Pasted
<1>1. ASSUME NEW m \in Inputs, SendMessage(m) PROVE In!Next
  <2>1. typed' = Append(typed, m) /\ UNCHANGED taken /\ Cut[m] \in Pieces
    BY <1>1, Constants DEF SendMessage
  <2>2. Pasted' = Append(Pasted, Cut[m])
    BY <2>1, PastedAppend
  <2> QED
    BY <2>1, <2>2 DEF In!Next, In!Feed
<1>2. ASSUME NEW m \in {Ping, ResizeTerminal}, SendMessage(m) PROVE UNCHANGED <<typed, taken>>
  BY <1>2, Constants DEF SendMessage
<1>3. CASE TakeInput /\ pipe \in Pieces
  <2>1. /\ writer = "blocked" /\ taken' = Append(taken, pipe) /\ UNCHANGED typed
    BY <1>3 DEF TakeInput, Places, Held
  <2>2. PICK place \in [0 .. Len(wire) -> 0 .. Len(typed)] :
          place[0] = Passed /\ pipe = Cut[typed[place[0]]]
    BY <2>1 DEF InFlow
  <2>3. Len(taken) \in Nat /\ Len(wire) \in Nat /\ Len(typed) \in Nat
    BY DEF TypeOK, BridgeTypes
  <2>4. place[0] \in 0 .. Len(typed) /\ place[0] = Len(taken) + 1
    BY <2>1, <2>2, <2>3 DEF Passed
  <2>5. Len(taken) < Len(Pasted) /\ pipe = Pasted[Len(taken) + 1]
    BY <2>2, <2>3, <2>4 DEF Pasted
  <2> QED
    BY <1>0, <2>1, <2>5 DEF In!Next, In!Deliver
<1>4. ASSUME TakeInput /\ pipe \notin Pieces PROVE UNCHANGED <<typed, taken>>
  BY <1>4 DEF TakeInput
<1>5. ASSUME CloseTab \/ Cancel \/ Reader \/ Writer PROVE UNCHANGED <<typed, taken>>
  BY <1>5 DEF CloseTab, Cancel, Reader, ReadSlave, WriteMaster,
    Writer, ReadMessage, ReadFails, WriteSlave, WriteFails, ResizePanics
<1>6. ASSUME Handler PROVE UNCHANGED <<typed, taken>>
  BY <1>6 DEF Handler, SendInitializeMessage, RunReturns, ExitCloses, CloseConn, ExitWrites, ExitWriteFails
<1>7. ASSUME BringOutput \/ NextSize \/ StreamEnds \/ Over \/ UNCHANGED vars PROVE UNCHANGED <<typed, taken>>
  BY <1>7 DEF BringOutput, NextSize, StreamEnds, Over, vars
<1>8. CASE UNCHANGED <<typed, taken>>
  BY <1>0, <1>8
<1> QED
  BY <1>1, <1>2, <1>3, <1>4, <1>5, <1>6, <1>7, <1>8 DEF Next

-----------------------------------------------------------------------------
(* The output.                                                             *)

\* One if there is something, none otherwise.
Count(x) == IF x = Nothing THEN 0 ELSE 1

\* While the tab is there, what it was shown, what Run's reader has in hand and what
\* Stream offers are, in this order, what was printed; only the end of a pipe, by
\* Exit, loses an offer.  Run's reader does not end before the tab or a pipe does.
OutFlow ==
  /\ reader = "ended" => browser = "closed" \/ closed
  /\ browser = "open" =>
       /\ Len(shown) + Count(out) + Count(offer) <= printed
       /\ exited \/ reader = "ended" \/ Len(shown) + Count(out) + Count(offer) = printed
       /\ out # Nothing => out = Printout[Len(shown) + 1]
       /\ offer # Nothing => offer = Printout[printed] /\ Len(shown) + Count(out) + 1 = printed

\* Nothing is printed in the beginning.
LEMMA OutInit == Init => OutFlow
<1> SUFFICES ASSUME Init PROVE OutFlow
  OBVIOUS
<1>1. shown = <<>> /\ out = Nothing /\ offer = Nothing /\ printed = 0 /\ reader = "none"
  BY DEF Init
<1>2. Len(shown) = 0
  BY <1>1
<1> QED
  BY <1>1, <1>2 DEF OutFlow, Count

\* A step that moves no output leaves the flow as it is.
LEMMA OutFrame ==
  ASSUME OutFlow, UNCHANGED <<shown, out, offer, printed>>,
         UNCHANGED browser \/ browser' = "closed",
         exited => exited', closed => closed',
         UNCHANGED reader \/ (reader' = "reading" /\ reader # "ended") \/ browser' = "closed"
  PROVE  OutFlow'
BY DEF OutFlow, Count

\* Run's reader takes an offer, or ends with the pipe.
LEMMA OutRead == TypeOK /\ Places /\ OutFlow /\ ReadSlave => OutFlow'
<1> SUFFICES ASSUME TypeOK, Places, OutFlow, ReadSlave PROVE OutFlow'
  OBVIOUS
<1> USE DEF clientVars, runVars, readerVars, writerVars, streamVars
<1>1. /\ Len(shown) \in Nat /\ printed \in Nat
      /\ UNCHANGED <<browser, shown, printed, handler, stream>>
      /\ closed' = closed /\ exited' = exited
  BY DEF TypeOK, BridgeTypes, ReadSlave, closed, exited
<1>2. out = Nothing /\ reader = "reading"
  BY DEF ReadSlave, Places, Held
<1>3. CASE offer # Nothing /\ ~closed /\ out' = offer /\ offer' = Nothing /\ reader' = "writing"
  BY <1>1, <1>2, <1>3 DEF OutFlow, Count
<1>4. CASE closed /\ out' = Nothing /\ offer' = offer /\ reader' = "ended"
  BY <1>1, <1>2, <1>4 DEF OutFlow, Count
<1> QED
  BY <1>3, <1>4 DEF ReadSlave, ReaderEnds

\* Run's reader writes what it has to the tab, or ends with the tab.
LEMMA OutWrite == TypeOK /\ Places /\ OutFlow /\ WriteMaster => OutFlow'
<1> SUFFICES ASSUME TypeOK, Places, OutFlow, WriteMaster PROVE OutFlow'
  OBVIOUS
<1> USE DEF clientVars, runVars, readerVars, writerVars, streamVars
<1>0. /\ UNCHANGED <<browser, printed, handler, stream, offer>>
      /\ out' = Nothing /\ reader = "writing"
  BY DEF WriteMaster, ReaderEnds
<1>1. /\ Len(shown) \in Nat /\ printed \in Nat
      /\ shown \in Seq(Outputs) /\ out \in Outputs
      /\ UNCHANGED <<browser, printed, handler, stream, offer>>
      /\ closed' = closed /\ exited' = exited
      /\ out # Nothing /\ out' = Nothing /\ reader = "writing"
  <2>1. /\ shown \in Seq(Outputs) /\ printed \in Nat
        /\ out \in Outputs \union {Nothing}
    BY DEF TypeOK, BridgeTypes
  <2>2. out # Nothing
    BY <1>0 DEF Places, Held
  <2>3. closed' = closed /\ exited' = exited
    BY <1>0 DEF closed, exited
  <2> QED
    BY <1>0, <2>1, <2>2, <2>3
<1>2. CASE browser = "closed"
  BY <1>1, <1>2 DEF OutFlow
<1>3. CASE browser = "open" /\ shown' = Append(shown, out) /\ reader' = "reading"
  <2>1. Len(shown') = Len(shown) + 1
    BY <1>1, <1>3, AppendFacts
  <2> QED
    BY <1>1, <1>3, <2>1 DEF OutFlow, Count
<1>4. CASE browser = "open" /\ handler = "gone" /\ shown' = shown /\ reader' = "ended"
  <2>1. exited /\ offer = Nothing
    BY <1>4 DEF exited, Places, Held
  <2> QED
    BY <1>1, <1>4, <2>1 DEF OutFlow, Count, closed
<1> QED
  BY <1>2, <1>3, <1>4 DEF WriteMaster, ReaderEnds, TypeOK, BridgeTypes

\* Stream offers the next of the printout.
LEMMA OutBring == TypeOK /\ Places /\ OutFlow /\ BringOutput => OutFlow'
<1> SUFFICES ASSUME TypeOK, Places, OutFlow, BringOutput PROVE OutFlow'
  OBVIOUS
<1> USE DEF clientVars, runVars, readerVars, writerVars, streamVars
<1>1. /\ Len(shown) \in Nat /\ printed \in Nat
      /\ stream = "running" /\ ~exited /\ offer = Nothing
      /\ printed' = printed + 1 /\ offer' = Printout[printed + 1] /\ printed < Len(Printout)
      /\ UNCHANGED <<browser, shown, out, reader, handler, stream>>
      /\ ~closed /\ ~closed' /\ ~exited'
  BY DEF TypeOK, BridgeTypes, BringOutput, closed, exited
<1>2. offer' # Nothing
  BY <1>1, Constants
<1> QED
  BY <1>1, <1>2 DEF OutFlow, Count

\* Exit closes the pipes: an offer is lost, and none comes after it.
LEMMA OutClose == TypeOK /\ OutFlow /\ ExitCloses => OutFlow'
<1> SUFFICES ASSUME TypeOK, OutFlow, ExitCloses PROVE OutFlow'
  OBVIOUS
<1> USE DEF clientVars, runVars, readerVars, writerVars, streamVars
<1>1. /\ Len(shown) \in Nat /\ printed \in Nat
      /\ offer' = Nothing /\ exited' /\ closed'
      /\ UNCHANGED <<browser, shown, out, reader, printed>>
  BY DEF TypeOK, BridgeTypes, ExitCloses, closed, exited
<1>2. /\ Count(out') = Count(out) /\ Count(out) \in Nat
      /\ Count(offer') = 0 /\ Count(offer) \in Nat
  BY <1>1 DEF Count
<1> HIDE DEF Count
<1>3. browser = "open" => Len(shown) + Count(out) <= printed
  BY <1>1, <1>2 DEF OutFlow
<1> QED
  BY <1>1, <1>2, <1>3 DEF OutFlow

\* Every step keeps the output in order and complete.
LEMMA OutStep == TypeOK /\ Places /\ OutFlow /\ [Next]_vars => OutFlow'
<1> SUFFICES ASSUME TypeOK, Places, OutFlow, [Next]_vars PROVE OutFlow'
  OBVIOUS
<1> USE DEF clientVars, runVars, readerVars, writerVars, streamVars, closed, exited
<1>1. ASSUME NEW m, SendMessage(m) PROVE OutFlow'
  BY <1>1, OutFrame DEF SendMessage
<1>2. CASE CloseTab \/ Cancel \/ StreamEnds \/ TakeInput \/ NextSize
  <2>1. CASE CloseTab \/ Cancel
    BY <2>1, OutFrame DEF CloseTab, Cancel
  <2>2. CASE StreamEnds \/ NextSize
    BY <2>2, OutFrame DEF StreamEnds, NextSize
  <2>3. CASE TakeInput
    BY <2>3, OutFrame DEF TakeInput
  <2> QED
    BY <1>2, <2>1, <2>2, <2>3
<1>3. CASE Reader
  BY <1>3, OutRead, OutWrite DEF Reader
<1>4. CASE Writer
  BY <1>4, OutFrame DEF Writer, ReadMessage, ReadFails, WriteSlave, WriteFails, ResizePanics
<1>5. CASE SendInitializeMessage
  <2>1. reader = "none"
    BY <1>5 DEF SendInitializeMessage, Places, Held
  <2> QED
    BY <1>5, <2>1, OutFrame DEF SendInitializeMessage
<1>6. CASE RunReturns \/ CloseConn
  BY <1>6, OutFrame DEF RunReturns, CloseConn
<1>7. CASE \/ ExitWrites("^C", Interrupt, "^C blocked", "^D")
           \/ ExitWrites("^D", EndOfText, "^D blocked", "exiting")
  BY <1>7, OutFrame DEF ExitWrites
<1>8. CASE ExitWriteFails("^C blocked", "^D") \/ ExitWriteFails("^D blocked", "exiting")
  BY <1>8, OutFrame DEF ExitWriteFails
<1>9. CASE ExitCloses
  BY <1>9, OutClose
<1>10. CASE BringOutput
  BY <1>10, OutBring
<1>11. CASE Over \/ UNCHANGED vars
  BY <1>11, OutFrame DEF Over, vars
<1> QED
  BY <1>1, <1>2, <1>3, <1>4, <1>5, <1>6, <1>7, <1>8, <1>9, <1>10, <1>11 DEF Next, Handler

\* The beginning of the printout, as a sequence.
LEMMA PrintoutFacts ==
  ASSUME NEW n \in 0 .. Len(Printout)
  PROVE  /\ Len(SubSeq(Printout, 1, n)) = n
         /\ \A o \in 1 .. n : SubSeq(Printout, 1, n)[o] = Printout[o]
         /\ n < Len(Printout) =>
              SubSeq(Printout, 1, n + 1) = Append(SubSeq(Printout, 1, n), Printout[n + 1])
<1>1. Printout \in Seq(Outputs) /\ Len(Printout) \in Nat
  BY BridgeAssumption
<1>2. /\ SubSeq(Printout, 1, n) \in Seq(Outputs)
      /\ Len(SubSeq(Printout, 1, n)) = n
      /\ \A o \in 1 .. n : SubSeq(Printout, 1, n)[o] = Printout[o]
  BY <1>1
<1>3. ASSUME n < Len(Printout)
      PROVE  SubSeq(Printout, 1, n + 1) = Append(SubSeq(Printout, 1, n), Printout[n + 1])
  BY <1>1, <1>2, <1>3
<1> QED
  BY <1>2, <1>3

\* What the tab is shown next is the next of what was printed.
LEMMA OutputSteps ==
  TypeOK /\ Places /\ OutFlow /\ [Next]_vars
    => [Out!Next]_<<SubSeq(Printout, 1, printed), shown>>
<1> SUFFICES ASSUME TypeOK, Places, OutFlow, [Next]_vars
    PROVE  Out!Next \/ (UNCHANGED printed /\ UNCHANGED shown)
  OBVIOUS
<1> USE DEF clientVars, runVars, readerVars, writerVars, streamVars
<1>0. printed \in 0 .. Len(Printout) /\ Len(Printout) \in Nat /\ Len(shown) \in Nat
  BY Constants DEF TypeOK, BridgeTypes
<1>1. CASE BringOutput
  <2>1. printed < Len(Printout) /\ printed' = printed + 1 /\ UNCHANGED shown
    BY <1>1 DEF BringOutput
  <2>2. Printout[printed + 1] \in Outputs
    BY <1>0, <2>1, Constants
  <2> QED
    BY <1>0, <2>1, <2>2, PrintoutFacts DEF Out!Next, Out!Feed
<1>2. CASE WriteMaster /\ shown' # shown
  <2>1. /\ browser = "open" /\ shown' = Append(shown, out) /\ UNCHANGED printed /\ out # Nothing
    BY <1>2 DEF WriteMaster, Places, Held
  <2>2. Len(shown) + 1 <= printed /\ out = Printout[Len(shown) + 1]
    <3>1. Count(out) = 1 /\ Count(offer) \in Nat
      BY <2>1 DEF Count
    <3> QED
      BY <1>0, <2>1, <3>1 DEF OutFlow
  <2>3. /\ Len(shown) < Len(SubSeq(Printout, 1, printed))
        /\ SubSeq(Printout, 1, printed)[Len(shown) + 1] = out
    BY <1>0, <2>2, PrintoutFacts
  <2> QED
    BY <2>1, <2>3 DEF Out!Next, Out!Deliver
<1>3. ASSUME WriteMaster, shown' = shown PROVE UNCHANGED <<printed, shown>>
  BY <1>3 DEF WriteMaster
<1>4. ASSUME NEW m, SendMessage(m) PROVE UNCHANGED <<printed, shown>>
  BY <1>4 DEF SendMessage
<1>5. ASSUME CloseTab \/ Cancel \/ ReadSlave \/ TakeInput \/ NextSize \/ StreamEnds
      PROVE  UNCHANGED <<printed, shown>>
  BY <1>5 DEF CloseTab, Cancel, ReadSlave, TakeInput, NextSize, StreamEnds
<1>6. ASSUME Writer PROVE UNCHANGED <<printed, shown>>
  BY <1>6 DEF Writer, ReadMessage, ReadFails, WriteSlave, WriteFails, ResizePanics
<1>7. ASSUME Handler PROVE UNCHANGED <<printed, shown>>
  BY <1>7 DEF Handler, SendInitializeMessage, RunReturns, ExitCloses, CloseConn, ExitWrites, ExitWriteFails
<1>8. ASSUME Over \/ UNCHANGED vars PROVE UNCHANGED <<printed, shown>>
  BY <1>8 DEF Over, vars
<1> QED
  BY <1>1, <1>2, <1>3, <1>4, <1>5, <1>6, <1>7, <1>8 DEF Next, Reader

-----------------------------------------------------------------------------
(* The refinement.                                                         *)

\* What is typed reaches the process, and what it prints the tab, in order and
\* complete up to where the session stops, whatever Exit types meanwhile: the bridge
\* implements Relay in both directions (webtty.go:14-16, 63-112).
THEOREM BridgeRelays == Spec => Bridges
<1>1. Init => In!Init
  <2>1. ASSUME Init PROVE Pasted = <<>>
    <3>1. typed = <<>> /\ Len(typed) = 0
      BY <2>1 DEF Init
    <3> QED
      BY <3>1 DEF Pasted
  <2> QED
    BY <2>1 DEF Init, In!Init
<1>2. Init => Out!Init
  <2>1. ASSUME Init PROVE SubSeq(Printout, 1, printed) = <<>>
    <3>1. printed = 0 /\ Printout \in Seq(Outputs)
      BY <2>1, BridgeAssumption DEF Init
    <3> QED
      BY <3>1
  <2> QED
    BY <2>1 DEF Init, Out!Init
<1>3. Spec => In!Spec
  BY <1>1, PlacesInit, TypeStep, PlacesStep, InInit, InStep, InputSteps, PTL DEF Spec, In!Spec
<1>4. Spec => Out!Spec
  BY <1>2, PlacesInit, TypeStep, PlacesStep, OutInit, OutStep, OutputSteps, PTL DEF Spec, Out!Spec
<1> QED
  BY <1>3, <1>4 DEF Bridges

-----------------------------------------------------------------------------
(* What the refinement comes to.                                           *)

\* A step of Relay leaves what came out a beginning of what was put in.
LEMMA RelayStep ==
  ASSUME NEW D, NEW a \in Seq(D), NEW b \in Seq(D), NEW a2, NEW b2,
         Len(b) <= Len(a), \A i \in 1 .. Len(b) : b[i] = a[i],
         \/ b2 = b /\ \E d \in D : a2 = Append(a, d)
         \/ Len(b) < Len(a) /\ b2 = Append(b, a[Len(b) + 1]) /\ a2 = a
         \/ a2 = a /\ b2 = b
  PROVE  /\ a2 \in Seq(D) /\ b2 \in Seq(D)
         /\ Len(b2) <= Len(a2) /\ \A i \in 1 .. Len(b2) : b2[i] = a2[i]
<1>0. Len(a) \in Nat /\ Len(b) \in Nat
  OBVIOUS
<1>1. CASE b2 = b /\ \E d \in D : a2 = Append(a, d)
  <2>1. PICK d \in D : a2 = Append(a, d)
    BY <1>1
  <2>2. /\ a2 \in Seq(D) /\ Len(a2) = Len(a) + 1
        /\ \A i \in 1 .. Len(a) : a2[i] = a[i]
    BY <2>1, AppendFacts
  <2> QED
    BY <1>0, <1>1, <2>2
<1>2. CASE Len(b) < Len(a) /\ b2 = Append(b, a[Len(b) + 1]) /\ a2 = a
  <2>1. a[Len(b) + 1] \in D
    BY <1>0, <1>2
  <2>2. /\ b2 \in Seq(D) /\ Len(b2) = Len(b) + 1
        /\ \A i \in 1 .. Len(b) : b2[i] = b[i]
        /\ b2[Len(b) + 1] = a[Len(b) + 1]
    BY <1>2, <2>1, AppendFacts
  <2> QED
    BY <1>0, <1>2, <2>2
<1>3. CASE a2 = a /\ b2 = b
  BY <1>3
<1> QED
  BY <1>1, <1>2, <1>3

\* What was taken is a beginning of what was put in at first, and each step of
\* the inputs keeps it.
LEMMA InKept ==
  /\ In!Init => In!TypeOK /\ In!InOrder
  /\ In!TypeOK /\ In!InOrder /\ [In!Next]_<<Pasted, taken>> => (In!TypeOK /\ In!InOrder)'
<1>1. In!Init => In!TypeOK /\ In!InOrder
  BY DEF In!Init, In!TypeOK, In!InOrder
<1>2. ASSUME In!TypeOK, In!InOrder, [In!Next]_<<Pasted, taken>> PROVE (In!TypeOK /\ In!InOrder)'
  BY <1>2, RelayStep DEF In!TypeOK, In!InOrder, In!Next, In!Feed, In!Deliver
<1> QED
  BY <1>1, <1>2

\* The same of the outputs.
LEMMA OutKept ==
  /\ Out!Init => Out!TypeOK /\ Out!InOrder
  /\ Out!TypeOK /\ Out!InOrder /\ [Out!Next]_<<SubSeq(Printout, 1, printed), shown>>
       => (Out!TypeOK /\ Out!InOrder)'
<1>1. ASSUME Out!Init PROVE Out!TypeOK /\ Out!InOrder
  <2>1. \A s, t : s = <<>> /\ t = <<>> =>
           /\ s \in Seq(Outputs) /\ t \in Seq(Outputs)
           /\ Len(t) <= Len(s) /\ \A i \in 1 .. Len(t) : t[i] = s[i]
    OBVIOUS
  <2> QED
    BY <1>1, <2>1, Zenon DEF Out!Init, Out!TypeOK, Out!InOrder
<1>2. ASSUME Out!TypeOK, Out!InOrder, [Out!Next]_<<SubSeq(Printout, 1, printed), shown>>
      PROVE  (Out!TypeOK /\ Out!InOrder)'
  <2>1. PICK a : a = SubSeq(Printout, 1, printed)
    OBVIOUS
  <2>2. PICK b : b = SubSeq(Printout, 1, printed')
    OBVIOUS
  <2>3. a \in Seq(Outputs) /\ shown \in Seq(Outputs)
    BY <1>2, <2>1, Zenon DEF Out!TypeOK
  <2>4. Len(shown) <= Len(a) /\ \A i \in 1 .. Len(shown) : shown[i] = a[i]
    BY <1>2, <2>1, Zenon DEF Out!InOrder
  <2>5. \/ shown' = shown /\ \E d \in Outputs : b = Append(a, d)
        \/ Len(shown) < Len(a) /\ shown' = Append(shown, a[Len(shown) + 1]) /\ b = a
        \/ b = a /\ shown' = shown
    <3>1. CASE Out!Feed
      BY <2>1, <2>2, <3>1, Zenon DEF Out!Feed
    <3>2. CASE Out!Deliver
      BY <2>1, <2>2, <3>2, Zenon DEF Out!Deliver
    <3>3. CASE UNCHANGED <<SubSeq(Printout, 1, printed), shown>>
      BY <2>1, <2>2, <3>3, Zenon
    <3> QED
      BY <1>2, <3>1, <3>2, <3>3, Zenon DEF Out!Next
  <2>6. /\ b \in Seq(Outputs) /\ shown' \in Seq(Outputs)
        /\ Len(shown') <= Len(b) /\ \A i \in 1 .. Len(shown') : shown'[i] = b[i]
    BY <2>3, <2>4, <2>5, RelayStep
  <2> QED
    BY <2>2, <2>6, Zenon DEF Out!TypeOK, Out!InOrder
<1> QED
  BY <1>1, <1>2

\* At any moment what the TTY took of what was pasted is a beginning of it, and
\* what the tab was shown is a beginning of what was printed (webtty.go:78-104).
THEOREM NothingOutOfOrder == Spec => [](In!InOrder /\ Out!InOrder)
<1>1. In!Spec => []In!InOrder
  BY InKept, PTL DEF In!Spec
<1>2. Out!Spec => []Out!InOrder
  BY OutKept, PTL DEF Out!Spec
<1> QED
  BY <1>1, <1>2, BridgeRelays, PTL DEF Bridges
=============================================================================
