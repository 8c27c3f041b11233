---------------------------- MODULE GrpcExecProofs ----------------------------
(***************************************************************************)
(* Proofs about GrpcExec, for every input, output, window and bound, with  *)
(* or without faults: its types, that each direction of the stream         *)
(* implements Relay, and that the last words of a process are seen.        *)
(***************************************************************************)
EXTENDS GrpcExec, TLAPS

-----------------------------------------------------------------------------
(* Sequences.                                                              *)

\* What Append does to the length and the elements of a sequence.
LEMMA AppendFacts ==
  ASSUME NEW S, NEW s \in Seq(S), NEW e \in S
  PROVE  /\ Append(s, e) \in Seq(S)
         /\ Len(s) \in Nat
         /\ Len(Append(s, e)) = Len(s) + 1
         /\ \A i \in 1 .. Len(s) : Append(s, e)[i] = s[i]
         /\ Append(s, e)[Len(s) + 1] = e
OBVIOUS

\* What is at the head and in the tail of a sequence that is not empty.
LEMMA TailFacts ==
  ASSUME NEW S, NEW s \in Seq(S), s # <<>>
  PROVE  /\ Head(s) \in S /\ Head(s) = s[1]
         /\ Tail(s) \in Seq(S)
         /\ Len(s) \in Nat \ {0}
         /\ Len(Tail(s)) = Len(s) - 1
         /\ \A i \in 1 .. Len(s) - 1 : Tail(s)[i] = s[i + 1]
OBVIOUS

-----------------------------------------------------------------------------
(* Types.                                                                  *)

\* The initial state is well typed.
LEMMA TypeInit == Init => TypeOK
<1> SUFFICES ASSUME Init PROVE TypeOK
  OBVIOUS
<1>1. Len(Printout) \in Nat /\ Window \in Nat
  BY GrpcAssumption
<1>2. /\ sent \in Seq(Messages) /\ up \in Seq(Messages) /\ handled \in Seq(Messages)
      /\ down \in Seq(Outputs \union {Empty}) /\ shown \in Seq(Outputs)
  BY DEF Init
<1>3. Len(up) <= Window /\ Len(down) <= Window
  BY <1>1 DEF Init
<1>4. printed \in 0 .. Len(Printout) /\ taken \in 0 .. printed
  BY <1>1 DEF Init
<1> QED
  BY <1>2, <1>3, <1>4 DEF Init, TypeOK

\* What a Send does to the types of the client's direction.
LEMMA SendTypes ==
  ASSUME TypeOK, NEW m \in Messages, Send(m)
  PROVE  sent' \in Seq(Messages) /\ up' \in Seq(Messages) /\ Len(up') <= Window
<1>1. sent \in Seq(Messages) /\ up \in Seq(Messages)
  BY DEF TypeOK
<1>2. /\ sent' = Append(sent, m) /\ up' = Append(up, m) /\ Len(up) < Window
  BY DEF Send
<1>3. Len(up') = Len(up) + 1 /\ Len(up) \in Nat
  BY <1>1, <1>2, AppendFacts
<1>4. Window \in Nat
  BY GrpcAssumption
<1> QED
  BY <1>1, <1>2, <1>3, <1>4, AppendFacts

\* Every step keeps the types.
LEMMA TypeStep == TypeOK /\ [Next]_vars => TypeOK'
<1> SUFFICES ASSUME TypeOK, [Next]_vars PROVE TypeOK'
  OBVIOUS
<1> USE DEF clientVars, upVars, streamVars, loopVars, receiverVars, ttyVars
<1>0. /\ Interrupt \in Messages /\ EndOfText \in Messages
      /\ Inputs \union {Resize} \subseteq Messages
      /\ Len(Printout) \in Nat /\ Window \in Nat
      /\ \A i \in 1 .. Len(Printout) : Printout[i] \in Outputs
  BY GrpcAssumption DEF Messages
<1>1. ASSUME NEW m \in Inputs \union {Resize}, Write(m) PROVE TypeOK'
  <2>1. m \in Messages /\ Send(m)
    BY <1>0, <1>1 DEF Write
  <2>2. sent' \in Seq(Messages) /\ up' \in Seq(Messages) /\ Len(up') <= Window
    BY <2>1, SendTypes
  <2> QED
    BY <1>1, <2>2 DEF Write, TypeOK
<1>2. CASE Read
  <2>1. /\ Tail(down) \in Seq(Outputs \union {Empty})
        /\ Len(Tail(down)) <= Window
        /\ Head(down) \in Outputs \union {Empty}
    BY <1>0, <1>2, TailFacts DEF Read, TypeOK
  <2>2. shown' \in Seq(Outputs)
    BY <1>2, <2>1, AppendFacts DEF Read, TypeOK
  <2> QED
    BY <1>2, <2>1, <2>2 DEF Read, TypeOK
<1>3. CASE ShowFails
  <2>1. /\ Tail(down) \in Seq(Outputs \union {Empty})
        /\ Len(Tail(down)) <= Window
    BY <1>0, <1>3, TailFacts DEF ShowFails, TypeOK
  <2> QED
    BY <1>3, <2>1 DEF ShowFails, TypeOK
<1>4. CASE ReadFails \/ Leave \/ RunReturns \/ CloseSend \/ Reset \/ Break
  <2>1. CASE ReadFails
    BY <2>1 DEF ReadFails, TypeOK
  <2>2. CASE Leave \/ RunReturns \/ CloseSend
    BY <2>2 DEF Leave, RunReturns, CloseSend, TypeOK
  <2>3. CASE Reset \/ Break
    BY <2>3 DEF Reset, Break, TypeOK
  <2> QED
    BY <1>4, <2>1, <2>2, <2>3
<1>5. ASSUME NEW m \in Messages, NEW from,
             NEW to \in {"running", "interrupting", "ending", "closing", "done"},
             ExitTypes(m, from, to)
      PROVE  TypeOK'
  <2>1. sent' \in Seq(Messages) /\ up' \in Seq(Messages) /\ Len(up') <= Window
    BY <1>5, SendTypes DEF ExitTypes, TypeOK
  <2> QED
    BY <1>5, <2>1 DEF ExitTypes, TypeOK
<1>6. CASE Exec \/ Refuse \/ ReadEOF \/ ReadError \/ SendFails \/ ExitTTY
  BY <1>6 DEF Exec, Refuse, ReadEOF, ReadError, SendFails, ExitTTY, TypeOK
<1>7. CASE ReadOutput
  <2>1. taken + 1 \in 0 .. printed /\ Printout[taken + 1] \in Outputs
    BY <1>0, <1>7 DEF ReadOutput, TypeOK
  <2> QED
    BY <1>7, <2>1 DEF ReadOutput, TypeOK
<1>8. CASE SendOutput
  <2>1. out \in Outputs \union {Empty} /\ down \in Seq(Outputs \union {Empty})
    BY <1>8 DEF SendOutput, TypeOK
  <2>2. /\ Append(down, out) \in Seq(Outputs \union {Empty})
        /\ Len(Append(down, out)) <= Window
    BY <1>0, <1>8, <2>1, AppendFacts DEF SendOutput, TypeOK
  <2> QED
    BY <1>8, <2>2 DEF SendOutput, TypeOK
<1>9. CASE Receive
  <2>1. /\ Head(up) \in Messages /\ Tail(up) \in Seq(Messages)
        /\ Len(Tail(up)) <= Window
    BY <1>0, <1>9, TailFacts DEF Receive, TypeOK
  <2> QED
    BY <1>9, <2>1 DEF Receive, TypeOK
<1>10. CASE Handle
  <2>1. held \in Messages /\ handled \in Seq(Messages)
    BY <1>10 DEF Handle, TypeOK
  <2>2. Append(handled, held) \in Seq(Messages)
    BY <2>1, AppendFacts
  <2> QED
    BY <1>10, <2>2 DEF Handle, TypeOK
<1>11. CASE ReceiveEnds \/ HandleFails
  BY <1>11 DEF ReceiveEnds, HandleFails, TypeOK
<1>12. CASE Prints \/ Stops("ended") \/ Stops("broken")
  BY <1>0, <1>12 DEF Prints, Stops, TypeOK
<1>13. CASE AllEnded \/ UNCHANGED vars
  BY <1>13 DEF AllEnded, vars, TypeOK
<1> QED
  BY <1>0, <1>1, <1>2, <1>3, <1>4, <1>5, <1>6, <1>7, <1>8, <1>9, <1>10, <1>11, <1>12, <1>13
  DEF Next, Environment, ClientReader, Exit, ServerLoop, ServerReceiver

\* Types, and queues within the window (container/grpc/grpc_tty.go,
\* proxy/server.go:152-234).
THEOREM TypeCorrect == Spec => []TypeOK
BY TypeInit, TypeStep, PTL DEF Spec

-----------------------------------------------------------------------------
(* The server and its TTY.                                                 *)

\* What the place of the server's handler says of its TTY and of the output:
\* nothing happened before Exec, and nothing happens after Exit.
ServerTTY ==
  /\ server = "opening" =>
       /\ tty = "none" /\ printed = 0 /\ down = <<>> /\ shown = <<>> /\ out = Nothing
  /\ server \in {"looping", "exiting"} => tty \in {"alive", "ended", "broken"}
  /\ server = "done" => tty \in {"none", "exited"} /\ (tty = "none" => printed = 0)
  /\ tty = "none" => held = Nothing /\ receiver = "none"
  /\ reset => handler = "done"

\* The server's invariant holds initially and is kept by every step.
LEMMA ServerInit == Init => ServerTTY
BY DEF Init, ServerTTY

LEMMA ServerStep == TypeOK /\ ServerTTY /\ [Next]_vars => ServerTTY'
<1> SUFFICES ASSUME TypeOK, ServerTTY, [Next]_vars PROVE ServerTTY'
  OBVIOUS
<1> USE DEF clientVars, upVars, streamVars, loopVars, receiverVars, ttyVars, ServerTTY
<1>1. ASSUME NEW m \in Messages, Write(m) PROVE ServerTTY'
  BY <1>1 DEF Write
<1>2. CASE Read \/ ShowFails
  BY <1>2 DEF Read, ShowFails
<1>3. CASE ReadFails \/ Leave \/ RunReturns \/ CloseSend \/ Reset \/ Break
  BY <1>3 DEF ReadFails, Leave, RunReturns, CloseSend, Reset, Break
<1>4. ASSUME NEW m \in Messages, NEW from, NEW to, ExitTypes(m, from, to), from # "done"
      PROVE  ServerTTY'
  BY <1>4 DEF ExitTypes
<1>5. CASE Exec \/ Refuse
  BY <1>5 DEF Exec, Refuse
<1>6. CASE ReadOutput \/ ReadEOF \/ ReadError \/ SendOutput \/ SendFails \/ ExitTTY
  BY <1>6 DEF ReadOutput, ReadEOF, ReadError, SendOutput, SendFails, ExitTTY
<1>7. CASE Receive \/ ReceiveEnds \/ Handle \/ HandleFails
  BY <1>7 DEF Receive, ReceiveEnds, Handle, HandleFails
<1>8. CASE Prints \/ Stops("ended") \/ Stops("broken")
  BY <1>8 DEF Prints, Stops, TypeOK
<1>9. CASE AllEnded \/ UNCHANGED vars
  BY <1>9 DEF AllEnded, vars
<1>10. Inputs \union {Resize} \subseteq Messages /\ Interrupt \in Messages /\ EndOfText \in Messages
  BY DEF Messages
<1> QED
  BY <1>1, <1>2, <1>3, <1>4, <1>5, <1>6, <1>7, <1>8, <1>9, <1>10
  DEF Next, Environment, ClientReader, Exit, ServerLoop, ServerReceiver

-----------------------------------------------------------------------------
(* The input.                                                              *)

\* How many messages the receiver has in hand.
InHand == IF held = Nothing THEN 0 ELSE 1

\* While the TTY takes input, what was sent is what was handled, what the
\* receiver has in hand and what is on its way, in this order.
InFlow ==
  tty \in {"none", "alive"} =>
    /\ Len(sent) = Len(handled) + InHand + Len(up)
    /\ held # Nothing => sent[Len(handled) + 1] = held
    /\ \A i \in 1 .. Len(up) : sent[Len(handled) + InHand + i] = up[i]

\* Initially nothing was sent.
LEMMA InInit == Init => InFlow
BY DEF Init, InFlow, InHand

\* A message that is sent joins the end of those on their way.
LEMMA InSend ==
  ASSUME TypeOK, InFlow, NEW m \in Messages, Send(m), UNCHANGED <<held, handled, tty>>
  PROVE  InFlow'
<1> SUFFICES ASSUME tty \in {"none", "alive"}
    PROVE  /\ Len(sent') = Len(handled) + InHand + Len(up')
           /\ held # Nothing => sent'[Len(handled) + 1] = held
           /\ \A i \in 1 .. Len(up') : sent'[Len(handled) + InHand + i] = up'[i]
  BY DEF InFlow, InHand
<1> DEFINE h == Len(handled) + InHand
<1>1. /\ sent \in Seq(Messages) /\ up \in Seq(Messages)
      /\ sent' = Append(sent, m) /\ up' = Append(up, m)
      /\ Len(handled) \in Nat /\ InHand \in {0, 1}
  BY DEF TypeOK, Send, InHand
<1>2. /\ Len(sent) \in Nat /\ Len(sent') = Len(sent) + 1
      /\ \A i \in 1 .. Len(sent) : sent'[i] = sent[i]
      /\ sent'[Len(sent) + 1] = m
  BY <1>1, AppendFacts
<1>3. /\ Len(up) \in Nat /\ Len(up') = Len(up) + 1
      /\ \A i \in 1 .. Len(up) : up'[i] = up[i]
      /\ up'[Len(up) + 1] = m
  BY <1>1, AppendFacts
<1>4. /\ Len(sent) = h + Len(up)
      /\ held # Nothing => sent[Len(handled) + 1] = held
      /\ \A i \in 1 .. Len(up) : sent[h + i] = up[i]
  BY DEF InFlow
<1>5. h \in Nat
  BY <1>1
<1>6. held # Nothing => sent'[Len(handled) + 1] = held
  BY <1>1, <1>2, <1>3, <1>4 DEF InHand
<1>7. ASSUME NEW i \in 1 .. Len(up') PROVE sent'[h + i] = up'[i]
  <2> HIDE DEF h
  <2>1. CASE i \in 1 .. Len(up)
    <3>1. h + i \in 1 .. Len(sent)
      BY <1>2, <1>3, <1>4, <1>5, <2>1
    <3> QED
      BY <1>2, <1>3, <1>4, <2>1, <3>1
  <2>2. CASE i = Len(up) + 1
    BY <1>2, <1>3, <1>4, <1>5, <2>2
  <2> QED
    BY <1>3, <1>7, <2>1, <2>2
<1> QED
  BY <1>2, <1>3, <1>4, <1>5, <1>6, <1>7

\* A message that is received passes from the stream into the receiver's hand.
LEMMA InReceive == TypeOK /\ InFlow /\ Receive => InFlow'
<1> SUFFICES ASSUME TypeOK, InFlow, Receive, tty \in {"none", "alive"}
    PROVE  /\ Len(sent) = Len(handled) + 1 + Len(up')
           /\ held' # Nothing /\ sent[Len(handled) + 1] = held'
           /\ \A i \in 1 .. Len(up') : sent[Len(handled) + 1 + i] = up'[i]
  BY DEF Receive, InFlow, InHand, ttyVars
<1>1. /\ up \in Seq(Messages) /\ up # <<>> /\ held = Nothing
      /\ held' = Head(up) /\ up' = Tail(up) /\ Len(handled) \in Nat
  BY DEF Receive, TypeOK
<1>2. /\ held' \in Messages /\ held' = up[1] /\ Len(up) \in Nat \ {0}
      /\ Len(up') = Len(up) - 1
      /\ \A i \in 1 .. Len(up) - 1 : up'[i] = up[i + 1]
  BY <1>1, TailFacts
<1>3. Nothing \notin Messages
  BY GrpcAssumption DEF Messages, Nothing, Interrupt, EndOfText, Resize
<1>4. /\ Len(sent) = Len(handled) + Len(up)
      /\ \A i \in 1 .. Len(up) : sent[Len(handled) + i] = up[i]
  BY <1>1, <1>2 DEF InFlow, InHand
<1>5. sent[Len(handled) + 1] = held'
  BY <1>1, <1>2, <1>4
<1>6. ASSUME NEW i \in 1 .. Len(up') PROVE sent[Len(handled) + 1 + i] = up'[i]
  <2>1. i + 1 \in 1 .. Len(up) /\ Len(handled) + 1 + i = Len(handled) + (i + 1)
    BY <1>1, <1>2
  <2> QED
    BY <1>2, <1>4, <2>1
<1> QED
  BY <1>1, <1>2, <1>3, <1>4, <1>5, <1>6

\* A message that is handled leaves the receiver's hand.
LEMMA InHandle == TypeOK /\ InFlow /\ Handle => InFlow'
<1> SUFFICES ASSUME TypeOK, InFlow, Handle PROVE InFlow'
  OBVIOUS
<1>1. /\ handled \in Seq(Messages) /\ held \in Messages /\ held # Nothing
      /\ handled' = Append(handled, held) /\ held' = Nothing
      /\ tty = "alive" /\ UNCHANGED <<sent, up, tty>> /\ Len(up) \in Nat
  BY DEF Handle, TypeOK, upVars, ttyVars
<1>2. Len(handled') = Len(handled) + 1 /\ Len(handled) \in Nat
  BY <1>1, AppendFacts
<1> QED
  BY <1>1, <1>2 DEF InFlow, InHand

\* Steps that do not touch the input, and may stop the TTY.
LEMMA InFrame ==
  ASSUME InFlow, UNCHANGED <<upVars, handled, held>>,
         tty' \in {"none", "alive"} => tty \in {"none", "alive"}
  PROVE  InFlow'
BY DEF InFlow, InHand, upVars

\* Every step keeps the input in order.
LEMMA InStep == TypeOK /\ ServerTTY /\ InFlow /\ [Next]_vars => InFlow'
<1> SUFFICES ASSUME TypeOK, ServerTTY, InFlow, [Next]_vars PROVE InFlow'
  OBVIOUS
<1> USE DEF clientVars, streamVars, loopVars, receiverVars, ttyVars
<1>1. ASSUME NEW m \in Messages, Write(m) PROVE InFlow'
  BY <1>1, InSend DEF Write
<1>2. CASE Read \/ ShowFails \/ ReadFails \/ Leave \/ RunReturns \/ CloseSend \/ Reset \/ Break
  BY <1>2, InFrame DEF Read, ShowFails, ReadFails, Leave, RunReturns, CloseSend, Reset, Break
<1>3. ASSUME NEW m \in Messages, NEW from, NEW to, ExitTypes(m, from, to)
      PROVE  InFlow'
  <2>1. UNCHANGED <<handled, held, tty>> /\ (Send(m) \/ UNCHANGED upVars)
    BY <1>3 DEF ExitTypes
  <2> QED
    BY <2>1, InSend, InFrame
<1>4. CASE Exec \/ Refuse
  BY <1>4, InFrame DEF Exec, Refuse, ServerTTY
<1>5. CASE ReadOutput \/ ReadEOF \/ ReadError \/ SendOutput \/ SendFails
  BY <1>5, InFrame DEF ReadOutput, ReadEOF, ReadError, SendOutput, SendFails
<1>6. CASE ExitTTY
  BY <1>6, InFrame DEF ExitTTY
<1>7. CASE Receive \/ Handle
  BY <1>7, InReceive, InHandle
<1>8. CASE ReceiveEnds
  BY <1>8, InFrame DEF ReceiveEnds
<1>9. CASE HandleFails
  <2>1. tty' \notin {"none", "alive"}
    <3>1. held # Nothing /\ tty # "alive" /\ tty' = tty
      BY <1>9 DEF HandleFails
    <3> QED
      BY <3>1 DEF ServerTTY
  <2> QED
    BY <2>1 DEF InFlow
<1>10. CASE Prints \/ Stops("ended") \/ Stops("broken")
  BY <1>10, InFrame DEF Prints, Stops
<1>11. CASE AllEnded \/ UNCHANGED vars
  BY <1>11, InFrame DEF AllEnded, vars
<1>12. Inputs \union {Resize} \subseteq Messages /\ Interrupt \in Messages /\ EndOfText \in Messages
  BY DEF Messages
<1> QED
  BY <1>1, <1>2, <1>3, <1>4, <1>5, <1>6, <1>7, <1>8, <1>9, <1>10, <1>11, <1>12
  DEF Next, Environment, ClientReader, Exit, ServerLoop, ServerReceiver

\* The messages sent but not handled begin with the one in hand.
LEMMA InputSteps ==
  TypeOK /\ ServerTTY /\ InFlow /\ [Next]_vars
    => [InputDirection!Next]_<<sent, handled>>
<1> SUFFICES ASSUME TypeOK, ServerTTY, InFlow, [Next]_vars
    PROVE  InputDirection!Next \/ UNCHANGED <<sent, handled>>
  OBVIOUS
<1> USE DEF clientVars, upVars, streamVars, loopVars, receiverVars, ttyVars
<1>0. Inputs \union {Resize} \subseteq Messages /\ Interrupt \in Messages /\ EndOfText \in Messages
  BY DEF Messages
<1>1. ASSUME NEW m \in Messages, Send(m), UNCHANGED handled
      PROVE  InputDirection!Next
  BY <1>1 DEF Send, InputDirection!Next, InputDirection!Feed
<1>2. CASE Handle
  <2>1. /\ handled' = Append(handled, held) /\ held # Nothing /\ held \in Messages
        /\ tty = "alive" /\ UNCHANGED sent
    BY <1>2 DEF Handle, TypeOK
  <2>2. Len(sent) = Len(handled) + 1 + Len(up) /\ sent[Len(handled) + 1] = held
    BY <2>1 DEF InFlow, InHand
  <2>3. Len(handled) \in Nat /\ Len(up) \in Nat
    BY DEF TypeOK
  <2> QED
    BY <2>1, <2>2, <2>3 DEF InputDirection!Next, InputDirection!Deliver
<1>3. ASSUME NEW m \in Messages, Write(m) PROVE InputDirection!Next
  BY <1>1, <1>3 DEF Write
<1>4. ASSUME NEW m \in Messages, NEW from, NEW to, ExitTypes(m, from, to)
      PROVE  InputDirection!Next \/ UNCHANGED <<sent, handled>>
  BY <1>1, <1>4 DEF ExitTypes
<1>5. CASE Read \/ ShowFails \/ ReadFails \/ Leave \/ RunReturns \/ CloseSend \/ Reset \/ Break
  BY <1>5 DEF Read, ShowFails, ReadFails, Leave, RunReturns, CloseSend, Reset, Break
<1>6. CASE Exec \/ Refuse \/ ReadOutput \/ ReadEOF \/ ReadError \/ SendOutput \/ SendFails \/ ExitTTY
  BY <1>6 DEF Exec, Refuse, ReadOutput, ReadEOF, ReadError, SendOutput, SendFails, ExitTTY
<1>7. CASE Receive \/ ReceiveEnds \/ HandleFails
  BY <1>7 DEF Receive, ReceiveEnds, HandleFails
<1>8. CASE Prints \/ Stops("ended") \/ Stops("broken")
  BY <1>8 DEF Prints, Stops
<1>9. CASE AllEnded \/ UNCHANGED vars
  BY <1>9 DEF AllEnded, vars
<1> QED
  BY <1>0, <1>2, <1>3, <1>4, <1>5, <1>6, <1>7, <1>8, <1>9
  DEF Next, Environment, ClientReader, Exit, ServerLoop, ServerReceiver

\* Input and resizes arrive in order and complete up to where they stop:
\* the client's direction implements Relay (grpc_tty.go:42-85,
\* server.go:176-206).
THEOREM InputInOrder == Spec => InputRelayed
<1>1. Init => InputDirection!Init
  BY DEF Init, InputDirection!Init
<1> QED
  BY <1>1, TypeInit, TypeStep, ServerInit, ServerStep, InInit, InStep, InputSteps, PTL
  DEF Spec, InputRelayed, InputDirection!Spec

-----------------------------------------------------------------------------
(* The output.                                                             *)

\* Where the output stands while the bridge reads: what is on its way and what
\* the server's loop has in hand continues what was shown; after a read error
\* only empty outputs follow.
OutFlow ==
  reader = "reading" =>
    /\ \A i \in 1 .. Len(down) :
         down[i] # Empty => Len(shown) + i <= taken /\ down[i] = Printout[Len(shown) + i]
    /\ \A i, j \in 1 .. Len(down) : i < j /\ down[i] = Empty => down[j] = Empty
    /\ out \in Outputs => out = Printout[taken]

\* Everything up to n was shown or is on its way.
Complete(n) ==
  /\ Len(shown) + Len(down) = n
  /\ \A i \in 1 .. Len(down) : down[i] # Empty

\* While no read error was passed on, nothing that was taken is lost; and when
\* the loop ended without being told to, everything printed was taken.
NothingLost ==
  reader = "reading" =>
    /\ server = "looping" /\ out \in Outputs => Complete(taken - 1)
    /\ server = "looping" /\ out = Nothing /\ tty \in {"alive", "ended"} => Complete(taken)
    /\ server \in {"exiting", "done"} /\ ~reset /\ ~broken => Complete(printed) /\ tty # "alive"
    /\ server = "looping" /\ out = Empty => tty = "broken"

\* The output's inductive invariant.
OutInv == OutFlow /\ NothingLost

LEMMA EmptyIsNone == Empty \notin Outputs /\ Nothing \notin Outputs /\ Empty # Nothing
BY GrpcAssumption DEF Empty, Nothing

\* Initially nothing was printed.
LEMMA OutInit == Init => OutInv
BY EmptyIsNone DEF Init, OutInv, OutFlow, NothingLost, Complete

\* Steps that leave the output where it is, and neither end the server's loop
\* nor revive the TTY.
LEMMA OutFrame ==
  ASSUME OutInv, UNCHANGED <<down, out, taken, printed, shown, server>>,
         reader' \in {reader, "ended"},
         tty' \in {"alive", "ended"} => tty \in {"alive", "ended"},
         tty' = "alive" => tty = "alive", tty = "broken" => tty' = "broken",
         reset => reset', broken => broken'
  PROVE  OutInv'
<1>1. CASE reader' = "ended"
  BY <1>1 DEF OutInv, OutFlow, NothingLost
<1>2. CASE reader' = reader /\ reader = "reading"
  <2>1. OutFlow'
    BY <1>2 DEF OutInv, OutFlow
  <2>2. NothingLost'
    BY <1>2 DEF OutInv, NothingLost, Complete
  <2> QED
    BY <2>1, <2>2 DEF OutInv
<1>3. CASE reader' = reader /\ reader # "reading"
  BY <1>3 DEF OutInv, OutFlow, NothingLost
<1> QED
  BY <1>1, <1>2, <1>3

\* What Read takes from the stream is the next output, or empty.
LEMMA OutRead == TypeOK /\ OutInv /\ Read => OutInv'
<1> SUFFICES ASSUME TypeOK, OutInv, Read PROVE OutInv'
  OBVIOUS
<1> USE DEF loopVars, streamVars, ttyVars, clientVars
<1>1. /\ down \in Seq(Outputs \union {Empty}) /\ shown \in Seq(Outputs) /\ down # <<>>
      /\ down' = Tail(down) /\ reader = "reading"
      /\ UNCHANGED <<reader, out, taken, printed, server, tty, reset, broken>>
  BY DEF Read, TypeOK
<1>2. /\ Head(down) \in Outputs \union {Empty} /\ Head(down) = down[1]
      /\ Len(down) \in Nat \ {0} /\ Len(down') = Len(down) - 1
      /\ \A i \in 1 .. Len(down) - 1 : down'[i] = down[i + 1]
      /\ Len(shown) \in Nat
  BY <1>1, TailFacts
<1>3. CASE Head(down) = Empty
  <2>1. shown' = shown
    BY <1>3 DEF Read
  <2>2. \A j \in 1 .. Len(down) : down[j] = Empty
    BY <1>1, <1>2, <1>3 DEF OutInv, OutFlow
  <2>3. \A j \in 1 .. Len(down') : down'[j] = Empty
    BY <1>2, <2>2
  <2>4. OutFlow'
    BY <1>1, <2>3 DEF OutInv, OutFlow
  <2>5. \A n : ~Complete(n)
    BY <1>2, <2>2 DEF Complete
  <2>6. NothingLost'
    BY <1>1, <2>5 DEF OutInv, NothingLost
  <2> QED
    BY <2>4, <2>6 DEF OutInv
<1>4. CASE Head(down) # Empty
  <2>1. shown' = Append(shown, Head(down)) /\ Head(down) \in Outputs
    BY <1>2, <1>4 DEF Read
  <2>2. Len(shown') = Len(shown) + 1
    BY <1>1, <2>1, AppendFacts
  <2>3. OutFlow'
    <3>1. ASSUME NEW i \in 1 .. Len(down'), down'[i] # Empty
          PROVE  Len(shown') + i <= taken /\ down'[i] = Printout[Len(shown') + i]
      <4>1. i + 1 \in 1 .. Len(down) /\ down'[i] = down[i + 1]
        BY <1>2
      <4>2. Len(shown) + (i + 1) <= taken /\ down[i + 1] = Printout[Len(shown) + (i + 1)]
        BY <1>1, <3>1, <4>1 DEF OutInv, OutFlow
      <4>3. Len(shown) + (i + 1) = Len(shown') + i
        BY <1>2, <2>2
      <4> QED
        BY <4>1, <4>2, <4>3
    <3>2. ASSUME NEW i \in 1 .. Len(down'), NEW j \in 1 .. Len(down'), i < j, down'[i] = Empty
          PROVE  down'[j] = Empty
      <4>1. /\ i + 1 \in 1 .. Len(down) /\ down'[i] = down[i + 1]
            /\ j + 1 \in 1 .. Len(down) /\ down'[j] = down[j + 1]
            /\ i + 1 < j + 1
        BY <1>2, <3>2
      <4> QED
        BY <1>1, <3>2, <4>1 DEF OutInv, OutFlow
    <3> QED
      BY <1>1, <3>1, <3>2 DEF OutInv, OutFlow
  <2>4. ASSUME NEW n, Complete(n)
        PROVE  Len(shown') + Len(down') = n /\ \A i \in 1 .. Len(down') : down'[i] # Empty
    BY <1>2, <2>2, <2>4 DEF Complete
  <2>5. NothingLost'
    BY <1>1, <2>4 DEF OutInv, NothingLost, Complete
  <2> QED
    BY <2>3, <2>5 DEF OutInv
<1> QED
  BY <1>3, <1>4

\* What the server's loop reads from the TTY is the next output, or an error.
LEMMA OutTake == TypeOK /\ ServerTTY /\ OutInv /\ (ReadOutput \/ ReadError) => OutInv'
<1> SUFFICES ASSUME TypeOK, ServerTTY, OutInv, ReadOutput \/ ReadError PROVE OutInv'
  OBVIOUS
<1> USE DEF loopVars, streamVars, ttyVars, clientVars
<1>0. Len(Printout) \in Nat /\ \A n \in 1 .. Len(Printout) : Printout[n] \in Outputs
  BY GrpcAssumption
<1>1. CASE ReadOutput
  <2>1. /\ server = "looping" /\ out = Nothing /\ tty \in {"alive", "ended"}
        /\ taken' = taken + 1 /\ out' = Printout[taken + 1]
        /\ UNCHANGED <<reader, down, shown, server, reset, broken, tty, printed>>
        /\ taken \in Nat /\ taken + 1 \in 1 .. Len(Printout)
    BY <1>0, <1>1 DEF ReadOutput, TypeOK
  <2>2. out' \in Outputs /\ taken' - 1 = taken
    BY <1>0, <2>1
  <2>3. reader = "reading" => Complete(taken)
    BY <2>1 DEF OutInv, NothingLost
  <2>4. OutFlow'
    <3>1. ASSUME reader = "reading", NEW n \in 1 .. Len(down), down[n] # Empty
          PROVE  Len(shown) + n <= taken' /\ down[n] = Printout[Len(shown) + n]
      <4>1. Len(shown) + n <= taken /\ down[n] = Printout[Len(shown) + n]
        BY <3>1 DEF OutInv, OutFlow
      <4>2. Len(shown) \in Nat
        BY DEF TypeOK
      <4> QED
        BY <2>1, <4>1, <4>2
    <3> QED
      BY <2>1, <3>1 DEF OutInv, OutFlow
  <2>5. NothingLost'
    BY <2>1, <2>2, <2>3, EmptyIsNone DEF NothingLost, Complete
  <2> QED
    BY <2>4, <2>5 DEF OutInv
<1>2. CASE ReadError
  <2>1. /\ out' = Empty /\ server = "looping" /\ tty = "broken"
        /\ UNCHANGED <<reader, down, shown, server, reset, broken, tty, printed, taken>>
    BY <1>2 DEF ReadError
  <2> QED
    BY <2>1, EmptyIsNone DEF OutInv, OutFlow, NothingLost
<1> QED
  BY <1>1, <1>2

\* What the server's loop sends joins the end of what is on its way.
LEMMA OutSend == TypeOK /\ OutInv /\ SendOutput => OutInv'
<1> SUFFICES ASSUME TypeOK, OutInv, SendOutput PROVE OutInv'
  OBVIOUS
<1> USE DEF loopVars, streamVars, ttyVars, clientVars
<1>1. /\ server = "looping" /\ out # Nothing /\ out' = Nothing
      /\ down' = Append(down, out) /\ out \in Outputs \union {Empty}
      /\ down \in Seq(Outputs \union {Empty})
      /\ UNCHANGED <<reader, shown, server, reset, broken, tty, printed, taken>>
      /\ Len(shown) \in Nat /\ taken \in Nat
  BY DEF SendOutput, TypeOK
<1>2. /\ Len(down) \in Nat /\ Len(down') = Len(down) + 1
      /\ \A n \in 1 .. Len(down) : down'[n] = down[n]
      /\ down'[Len(down) + 1] = out
  BY <1>1, AppendFacts
<1>3. CASE reader # "reading"
  BY <1>1, <1>3 DEF OutInv, OutFlow, NothingLost
<1>4. CASE reader = "reading" /\ out = Empty
  <2>1. OutFlow'
    <3>1. ASSUME NEW n \in 1 .. Len(down'), down'[n] # Empty
          PROVE  Len(shown) + n <= taken /\ down'[n] = Printout[Len(shown) + n]
      <4>1. n \in 1 .. Len(down) /\ down'[n] = down[n]
        BY <1>2, <1>4, <3>1
      <4> QED
        BY <1>4, <3>1, <4>1 DEF OutInv, OutFlow
    <3>2. ASSUME NEW n \in 1 .. Len(down'), NEW o \in 1 .. Len(down'), n < o, down'[n] = Empty
          PROVE  down'[o] = Empty
      <4>1. n \in 1 .. Len(down) /\ down'[n] = down[n]
        BY <1>2, <3>2
      <4>2. CASE o = Len(down) + 1
        BY <1>2, <1>4, <4>2
      <4>3. CASE o \in 1 .. Len(down)
        BY <1>2, <1>4, <3>2, <4>1, <4>3 DEF OutInv, OutFlow
      <4> QED
        BY <1>2, <4>2, <4>3
    <3> QED
      BY <1>1, <3>1, <3>2, EmptyIsNone DEF OutFlow
  <2>2. NothingLost'
    BY <1>1, <1>4, EmptyIsNone DEF OutInv, NothingLost
  <2> QED
    BY <2>1, <2>2 DEF OutInv
<1>5. CASE reader = "reading" /\ out # Empty
  <2>1. /\ out \in Outputs /\ out = Printout[taken]
        /\ Len(shown) + Len(down) = taken - 1
        /\ \A n \in 1 .. Len(down) : down[n] # Empty
    BY <1>1, <1>5 DEF OutInv, OutFlow, NothingLost, Complete
  <2>2. ASSUME NEW n \in 1 .. Len(down')
        PROVE  /\ down'[n] # Empty /\ Len(shown) + n <= taken
               /\ down'[n] = Printout[Len(shown) + n]
    <3>1. CASE n = Len(down) + 1
      <4>1. Len(shown) + n = taken
        BY <1>1, <1>2, <2>1, <3>1
      <4> QED
        BY <1>1, <1>2, <2>1, <3>1, <4>1, EmptyIsNone
    <3>2. CASE n \in 1 .. Len(down)
      BY <1>2, <1>5, <2>1, <3>2 DEF OutInv, OutFlow
    <3> QED
      BY <1>2, <3>1, <3>2
  <2>3. Complete(taken)'
    BY <1>1, <1>2, <2>1, <2>2 DEF Complete
  <2> QED
    BY <1>1, <2>2, <2>3, EmptyIsNone DEF OutInv, OutFlow, NothingLost
<1> QED
  BY <1>3, <1>4, <1>5

\* Every step keeps the output in order and complete.
LEMMA OutStep == TypeOK /\ ServerTTY /\ OutInv /\ [Next]_vars => OutInv'
<1> SUFFICES ASSUME TypeOK, ServerTTY, OutInv, [Next]_vars PROVE OutInv'
  OBVIOUS
<1> USE DEF clientVars, upVars, streamVars, loopVars, receiverVars, ttyVars
<1>1. ASSUME NEW m \in Inputs \union {Resize}, Write(m) PROVE OutInv'
  BY <1>1, OutFrame DEF Write
<1>2. CASE ReadFails \/ Leave \/ RunReturns \/ CloseSend \/ Reset \/ Break
  BY <1>2, OutFrame DEF ReadFails, Leave, RunReturns, CloseSend, Reset, Break
<1>3. CASE ShowFails
  BY <1>3 DEF ShowFails, OutInv, OutFlow, NothingLost
<1>4. ASSUME NEW m, NEW from, NEW to, ExitTypes(m, from, to) PROVE OutInv'
  BY <1>4, OutFrame DEF ExitTypes
<1>5. CASE Exec
  <2>1. /\ server = "opening" /\ down = <<>> /\ shown = <<>> /\ out = Nothing
        /\ taken = 0 /\ server' = "looping"
        /\ UNCHANGED <<reader, down, shown, out, taken, printed, reset, broken>>
    BY <1>5 DEF Exec, ServerTTY, TypeOK
  <2> QED
    BY <2>1, EmptyIsNone DEF OutInv, OutFlow, NothingLost, Complete
<1>6. CASE Refuse
  <2>1. /\ server = "opening" /\ down = <<>> /\ shown = <<>> /\ out = Nothing
        /\ taken = 0 /\ printed = 0 /\ server' = "done" /\ tty = "none"
        /\ UNCHANGED <<reader, down, shown, out, taken, printed, reset, broken, tty>>
    BY <1>6 DEF Refuse, ServerTTY, TypeOK
  <2> QED
    BY <2>1, EmptyIsNone DEF OutInv, OutFlow, NothingLost, Complete
<1>7. CASE ReadOutput \/ ReadError
  BY <1>7, OutTake
<1>8. CASE ReadEOF
  <2>1. /\ server = "looping" /\ out = Nothing /\ tty = "ended" /\ taken = printed
        /\ server' = "exiting"
        /\ UNCHANGED <<reader, down, shown, out, taken, printed, reset, broken, tty>>
    BY <1>8 DEF ReadEOF
  <2> QED
    BY <2>1 DEF OutInv, OutFlow, NothingLost, Complete
<1>9. CASE SendOutput
  BY <1>9, OutSend
<1>10. CASE SendFails
  <2>1. /\ server' = "exiting" /\ out' = Nothing /\ (reset' \/ broken')
        /\ UNCHANGED <<reader, down, shown, taken, printed>>
    BY <1>10 DEF SendFails
  <2> QED
    BY <2>1, EmptyIsNone DEF OutInv, OutFlow, NothingLost
<1>11. CASE ExitTTY
  <2>1. /\ server = "exiting" /\ server' = "done" /\ tty' = "exited"
        /\ UNCHANGED <<reader, down, shown, out, taken, printed, reset, broken>>
    BY <1>11 DEF ExitTTY
  <2> QED
    BY <2>1 DEF OutInv, OutFlow, NothingLost, Complete
<1>12. CASE Receive \/ ReceiveEnds \/ Handle \/ HandleFails
  BY <1>12, OutFrame DEF Receive, ReceiveEnds, Handle, HandleFails
<1>13. CASE Read
  BY <1>13, OutRead
<1>14. CASE Prints
  <2>1. /\ tty = "alive"
        /\ UNCHANGED <<reader, down, shown, out, taken, server, tty, reset, broken>>
    BY <1>14 DEF Prints
  <2> QED
    BY <2>1 DEF OutInv, OutFlow, NothingLost, Complete
<1>15. CASE Stops("ended") \/ Stops("broken")
  BY <1>15, OutFrame DEF Stops
<1>16. CASE AllEnded \/ UNCHANGED vars
  BY <1>16, OutFrame DEF AllEnded, vars
<1> QED
  BY <1>1, <1>2, <1>3, <1>4, <1>5, <1>6, <1>7, <1>8, <1>9, <1>10, <1>11, <1>12,
     <1>13, <1>14, <1>15, <1>16
  DEF Next, Environment, ClientReader, Exit, ServerLoop, ServerReceiver

-----------------------------------------------------------------------------
(* The last words.                                                         *)

\* A reader that ended while its browser was there and the connection held
\* was told so by the return of the server's handler.
EndsSeen ==
  /\ LastWordsSeen
  /\ reader = "ended" /\ handler = "running" /\ ~broken => server = "done"

LEMMA EndsStep == TypeOK /\ ServerTTY /\ OutInv /\ EndsSeen /\ [Next]_vars => EndsSeen'
<1> SUFFICES ASSUME TypeOK, ServerTTY, OutInv, EndsSeen, [Next]_vars PROVE EndsSeen'
  OBVIOUS
<1> USE DEF clientVars, upVars, streamVars, loopVars, receiverVars, ttyVars, EndsSeen, LastWordsSeen
<1>0. reader \in {"reading", "ended"}
  BY DEF TypeOK
<1>1. ASSUME NEW m, Write(m) PROVE EndsSeen'
  BY <1>1 DEF Write
<1>2. CASE Read \/ ShowFails
  BY <1>2 DEF Read, ShowFails
<1>3. CASE ReadFails
  <2>1. CASE handler = "running" /\ ~broken
    <3>1. /\ finished /\ down = <<>> /\ ~reset /\ reader = "reading"
          /\ UNCHANGED <<shown, printed, server>>
      BY <1>3, <2>1 DEF ReadFails, ServerTTY
    <3>2. Len(shown) + Len(down) = printed /\ Len(shown) \in Nat /\ Len(down) = 0
      BY <2>1, <3>1 DEF finished, OutInv, NothingLost, Complete, TypeOK
    <3> QED
      BY <3>1, <3>2 DEF finished
  <2>2. CASE ~(handler = "running" /\ ~broken)
    BY <1>3, <2>2 DEF ReadFails
  <2> QED
    BY <2>1, <2>2
<1>4. CASE Leave \/ RunReturns \/ CloseSend \/ Reset \/ Break
  BY <1>4 DEF Leave, RunReturns, CloseSend, Reset, Break
<1>5. ASSUME NEW m, NEW from, NEW to, ExitTypes(m, from, to), to # "running" PROVE EndsSeen'
  BY <1>5 DEF ExitTypes
<1>6. CASE Exec \/ Refuse \/ ReadOutput \/ ReadEOF \/ ReadError
  BY <1>6 DEF Exec, Refuse, ReadOutput, ReadEOF, ReadError
<1>7. CASE SendOutput \/ SendFails \/ ExitTTY
  BY <1>7 DEF SendOutput, SendFails, ExitTTY
<1>8. CASE Receive \/ ReceiveEnds \/ Handle \/ HandleFails
  BY <1>8 DEF Receive, ReceiveEnds, Handle, HandleFails
<1>9. CASE Prints \/ Stops("ended") \/ Stops("broken")
  BY <1>9 DEF Prints, Stops, ServerTTY
<1>10. CASE AllEnded \/ UNCHANGED vars
  BY <1>10 DEF AllEnded, vars
<1> QED
  BY <1>1, <1>2, <1>3, <1>4, <1>5, <1>6, <1>7, <1>8, <1>9, <1>10
  DEF Next, Environment, ClientReader, Exit, ServerLoop, ServerReceiver

\* The last output of a process is shown before the session ends
\* (server.go:208-228, grpc_tty.go:32-38).
THEOREM LastWords == Spec => []LastWordsSeen
<1>1. Init => EndsSeen
  BY DEF Init, EndsSeen, LastWordsSeen
<1>2. EndsSeen => LastWordsSeen
  BY DEF EndsSeen
<1> QED
  BY <1>1, <1>2, TypeInit, TypeStep, ServerInit, ServerStep, OutInit, OutStep, EndsStep, PTL
  DEF Spec

-----------------------------------------------------------------------------
(* The refinement of the output.                                           *)

\* The beginning of the printout, as a sequence.
LEMMA PrintoutFacts ==
  ASSUME NEW n \in 0 .. Len(Printout)
  PROVE  /\ SubSeq(Printout, 1, n) \in Seq(Outputs)
         /\ Len(SubSeq(Printout, 1, n)) = n
         /\ \A o \in 1 .. n : SubSeq(Printout, 1, n)[o] = Printout[o]
         /\ n < Len(Printout) =>
              /\ Printout[n + 1] \in Outputs
              /\ SubSeq(Printout, 1, n + 1) = Append(SubSeq(Printout, 1, n), Printout[n + 1])
<1>1. Printout \in Seq(Outputs) /\ Len(Printout) \in Nat
  BY GrpcAssumption
<1>2. /\ SubSeq(Printout, 1, n) \in Seq(Outputs)
      /\ Len(SubSeq(Printout, 1, n)) = n
      /\ \A o \in 1 .. n : SubSeq(Printout, 1, n)[o] = Printout[o]
  BY <1>1
<1>3. ASSUME n < Len(Printout)
      PROVE  /\ Printout[n + 1] \in Outputs
             /\ SubSeq(Printout, 1, n + 1) = Append(SubSeq(Printout, 1, n), Printout[n + 1])
  BY <1>1, <1>2, <1>3
<1> QED
  BY <1>2, <1>3

\* What is shown next is the next of what was printed.
LEMMA OutputSteps ==
  TypeOK /\ OutInv /\ [Next]_vars
    => [OutputDirection!Next]_<<SubSeq(Printout, 1, printed), shown>>
<1> SUFFICES ASSUME TypeOK, OutInv, [Next]_vars
    PROVE  OutputDirection!Next \/ (UNCHANGED printed /\ UNCHANGED shown)
  OBVIOUS
<1> USE DEF clientVars, upVars, streamVars, loopVars, receiverVars, ttyVars
<1>0. printed \in 0 .. Len(Printout) /\ taken \in 0 .. printed /\ Len(Printout) \in Nat
  BY GrpcAssumption DEF TypeOK
<1>1. CASE Prints
  <2>1. printed < Len(Printout) /\ printed' = printed + 1 /\ UNCHANGED shown
    BY <1>1 DEF Prints
  <2> QED
    BY <1>0, <2>1, PrintoutFacts DEF OutputDirection!Next, OutputDirection!Feed
<1>2. CASE Read /\ Head(down) # Empty
  <2>1. /\ down \in Seq(Outputs \union {Empty}) /\ down # <<>> /\ reader = "reading"
        /\ shown' = Append(shown, Head(down)) /\ UNCHANGED printed
        /\ Len(shown) \in Nat
    BY <1>2 DEF Read, TypeOK
  <2>2. Head(down) = down[1] /\ 1 \in 1 .. Len(down)
    BY <2>1, TailFacts
  <2>3. Len(shown) + 1 <= taken /\ Head(down) = Printout[Len(shown) + 1]
    BY <1>2, <2>1, <2>2 DEF OutInv, OutFlow
  <2>4. /\ Len(shown) < Len(SubSeq(Printout, 1, printed))
        /\ SubSeq(Printout, 1, printed)[Len(shown) + 1] = Head(down)
    BY <1>0, <2>1, <2>3, PrintoutFacts
  <2> QED
    BY <2>1, <2>4 DEF OutputDirection!Next, OutputDirection!Deliver
<1>3. CASE Read /\ Head(down) = Empty
  BY <1>3 DEF Read
<1>4. ASSUME NEW m, Write(m) PROVE UNCHANGED <<printed, shown>>
  BY <1>4 DEF Write
<1>5. ASSUME NEW m, NEW from, NEW to, ExitTypes(m, from, to) PROVE UNCHANGED <<printed, shown>>
  BY <1>5 DEF ExitTypes
<1>6. CASE ShowFails \/ ReadFails \/ Leave \/ RunReturns \/ CloseSend \/ Reset \/ Break
  BY <1>6 DEF ShowFails, ReadFails, Leave, RunReturns, CloseSend, Reset, Break
<1>7. CASE Exec \/ Refuse \/ ReadOutput \/ ReadEOF \/ ReadError \/ SendOutput \/ SendFails \/ ExitTTY
  BY <1>7 DEF Exec, Refuse, ReadOutput, ReadEOF, ReadError, SendOutput, SendFails, ExitTTY
<1>8. CASE Receive \/ ReceiveEnds \/ Handle \/ HandleFails
  BY <1>8 DEF Receive, ReceiveEnds, Handle, HandleFails
<1>9. CASE Stops("ended") \/ Stops("broken") \/ AllEnded \/ UNCHANGED vars
  BY <1>9 DEF Stops, AllEnded, vars
<1> QED
  BY <1>1, <1>2, <1>3, <1>4, <1>5, <1>6, <1>7, <1>8, <1>9
  DEF Next, Environment, ClientReader, Exit, ServerLoop, ServerReceiver

\* The browser is shown the printout in order and complete up to where it
\* stops: the server's direction implements Relay (server.go:208-228,
\* grpc_tty.go:24-40).
THEOREM OutputInOrder == Spec => OutputRelayed
<1>1. Init => OutputDirection!Init
  <2>1. ASSUME Init PROVE SubSeq(Printout, 1, printed) = <<>>
    <3>1. printed = 0 /\ Printout \in Seq(Outputs)
      BY <2>1, GrpcAssumption DEF Init
    <3> QED
      BY <3>1
  <2> QED
    BY <2>1 DEF Init, OutputDirection!Init
<1> QED
  BY <1>1, TypeInit, TypeStep, ServerInit, ServerStep, OutInit, OutStep, OutputSteps, PTL
  DEF Spec, OutputRelayed, OutputDirection!Spec

-----------------------------------------------------------------------------
(* What the refinement comes to.                                           *)

\* A step of Relay leaves what came out a beginning of what was put in.
LEMMA RelayStep ==
  ASSUME NEW D, NEW a \in Seq(D), NEW b \in Seq(D), NEW a2, NEW b2,
         Len(b) <= Len(a), \A i \in 1 .. Len(b) : b[i] = a[i],
         \/ b2 = b /\ \E d \in D : a2 = Append(a, d)
         \/ Len(b) < Len(a) /\ b2 = Append(b, a[Len(b) + 1]) /\ a2 = a
         \/ a2 = a /\ b2 = b
  PROVE  /\ a2 \in Seq(D) /\ b2 \in Seq(D)
         /\ Len(b2) <= Len(a2) /\ \A i \in 1 .. Len(b2) : b2[i] = a2[i]
<1>0. Len(a) \in Nat /\ Len(b) \in Nat
  OBVIOUS
<1>1. CASE b2 = b /\ \E d \in D : a2 = Append(a, d)
  <2>1. PICK d \in D : a2 = Append(a, d)
    BY <1>1
  <2>2. /\ a2 \in Seq(D) /\ Len(a2) = Len(a) + 1
        /\ \A i \in 1 .. Len(a) : a2[i] = a[i]
    BY <2>1, AppendFacts
  <2> QED
    BY <1>0, <1>1, <2>2
<1>2. CASE Len(b) < Len(a) /\ b2 = Append(b, a[Len(b) + 1]) /\ a2 = a
  <2>1. a[Len(b) + 1] \in D
    BY <1>0, <1>2
  <2>2. /\ b2 \in Seq(D) /\ Len(b2) = Len(b) + 1
        /\ \A i \in 1 .. Len(b) : b2[i] = b[i]
        /\ b2[Len(b) + 1] = a[Len(b) + 1]
    BY <1>2, <2>1, AppendFacts
  <2> QED
    BY <1>0, <1>2, <2>2
<1>3. CASE a2 = a /\ b2 = b
  BY <1>3
<1> QED
  BY <1>1, <1>2, <1>3

\* What was taken is a beginning of what was put in at first, and each step of
\* the inputs keeps it.
LEMMA InputKept ==
  /\ InputDirection!Init => InputDirection!TypeOK /\ InputDirection!InOrder
  /\ InputDirection!TypeOK /\ InputDirection!InOrder /\ [InputDirection!Next]_<<sent, handled>>
       => (InputDirection!TypeOK /\ InputDirection!InOrder)'
<1>1. InputDirection!Init => InputDirection!TypeOK /\ InputDirection!InOrder
  BY DEF InputDirection!Init, InputDirection!TypeOK, InputDirection!InOrder
<1>2. ASSUME InputDirection!TypeOK, InputDirection!InOrder,
             [InputDirection!Next]_<<sent, handled>>
      PROVE  (InputDirection!TypeOK /\ InputDirection!InOrder)'
  BY <1>2, RelayStep
  DEF InputDirection!TypeOK, InputDirection!InOrder, InputDirection!Next, InputDirection!Feed, InputDirection!Deliver
<1> QED
  BY <1>1, <1>2

\* The same of the outputs.
LEMMA OutputKept ==
  /\ OutputDirection!Init => OutputDirection!TypeOK /\ OutputDirection!InOrder
  /\ OutputDirection!TypeOK /\ OutputDirection!InOrder /\ [OutputDirection!Next]_<<SubSeq(Printout, 1, printed), shown>>
       => (OutputDirection!TypeOK /\ OutputDirection!InOrder)'
<1>1. ASSUME OutputDirection!Init PROVE OutputDirection!TypeOK /\ OutputDirection!InOrder
  <2>1. \A s, t : s = <<>> /\ t = <<>> =>
           /\ s \in Seq(Outputs) /\ t \in Seq(Outputs)
           /\ Len(t) <= Len(s) /\ \A i \in 1 .. Len(t) : t[i] = s[i]
    OBVIOUS
  <2> QED
    BY <1>1, <2>1, Zenon DEF OutputDirection!Init, OutputDirection!TypeOK, OutputDirection!InOrder
<1>2. ASSUME OutputDirection!TypeOK, OutputDirection!InOrder,
             [OutputDirection!Next]_<<SubSeq(Printout, 1, printed), shown>>
      PROVE  (OutputDirection!TypeOK /\ OutputDirection!InOrder)'
  <2>1. PICK a : a = SubSeq(Printout, 1, printed)
    OBVIOUS
  <2>2. PICK b : b = SubSeq(Printout, 1, printed')
    OBVIOUS
  <2>3. a \in Seq(Outputs) /\ shown \in Seq(Outputs)
    BY <1>2, <2>1, Zenon DEF OutputDirection!TypeOK
  <2>4. Len(shown) <= Len(a) /\ \A i \in 1 .. Len(shown) : shown[i] = a[i]
    BY <1>2, <2>1, Zenon DEF OutputDirection!InOrder
  <2>5. \/ shown' = shown /\ \E d \in Outputs : b = Append(a, d)
        \/ Len(shown) < Len(a) /\ shown' = Append(shown, a[Len(shown) + 1]) /\ b = a
        \/ b = a /\ shown' = shown
    <3>1. CASE OutputDirection!Feed
      BY <2>1, <2>2, <3>1, Zenon DEF OutputDirection!Feed
    <3>2. CASE OutputDirection!Deliver
      BY <2>1, <2>2, <3>2, Zenon DEF OutputDirection!Deliver
    <3>3. CASE UNCHANGED <<SubSeq(Printout, 1, printed), shown>>
      BY <2>1, <2>2, <3>3, Zenon
    <3> QED
      BY <1>2, <3>1, <3>2, <3>3, Zenon DEF OutputDirection!Next
  <2>6. /\ b \in Seq(Outputs) /\ shown' \in Seq(Outputs)
        /\ Len(shown') <= Len(b) /\ \A i \in 1 .. Len(shown') : shown'[i] = b[i]
    BY <2>3, <2>4, <2>5, RelayStep
  <2> QED
    BY <2>2, <2>6, Zenon DEF OutputDirection!TypeOK, OutputDirection!InOrder
<1> QED
  BY <1>1, <1>2

\* At any moment what the server handled of the browser's messages is a
\* beginning of them, and what the browser was shown a beginning of what was
\* printed (server.go:176-228, grpc_tty.go:24-85).
THEOREM NothingOutOfOrder == Spec => [](InputDirection!InOrder /\ OutputDirection!InOrder)
<1>1. InputRelayed => []InputDirection!InOrder
  BY InputKept, PTL DEF InputRelayed, InputDirection!Spec
<1>2. OutputRelayed => []OutputDirection!InOrder
  BY OutputKept, PTL DEF OutputRelayed, OutputDirection!Spec
<1> QED
  BY <1>1, <1>2, InputInOrder, OutputInOrder, PTL
=============================================================================
