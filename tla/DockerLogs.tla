------------------------------ MODULE DockerLogs ------------------------------
(***************************************************************************)
(* The parser of a container's log (container/docker/log_parser.go) between *)
(* the reader of the daemon's answer and WebTTY.Run, which reads it again  *)
(* and again into the same buffer.                                         *)
(*                                                                         *)
(* The log of a container without a TTY comes in frames, each of a header  *)
(* of 8 bytes and a message; the log of one with a TTY comes as it is.  A  *)
(* Read of the answer returns some of the bytes that are there, up to the  *)
(* length of the buffer, and leaves the rest of the buffer alone.          *)
(***************************************************************************)
EXTENDS Naturals, Sequences

CONSTANTS
  Buffer,      \* len(targetBytes)
  Lines,       \* messages, sequences of bytes
  Streams,     \* what the container writes to, its stdout or its stderr
  MaxLines     \* bound: how many the log has

NewLine == 10
Return == 13
Stdout == 1
Stderr == 2
HeaderLen == 8
MaxByte == 255
MaxMessage == 256 * 256 - 1

Byte == 0 .. MaxByte
Text == 1 .. MaxByte

\* Messages are text without NUL.  The daemon divides what is longer than 16 kB.
ASSUME LogsAssumption ==
  /\ Buffer \in Nat \ {0}
  /\ Lines \subseteq Seq(Text)
  /\ \A m \in Lines : Len(m) \in 1 .. MaxMessage
  /\ Streams \subseteq {Stdout, Stderr}
  /\ MaxLines \in Nat

VARIABLES
  framed,      \* the container has no TTY
  answer,      \* the bytes that the daemon has sent
  sent,        \* history: the messages in them
  due,         \* history: what a terminal should be given for them
  marks,       \* history: how long answer and due were at each end of a message
  pos,         \* how many bytes of the answer were read
  target,      \* targetBytes
  bsLeft,      \* logReadCloser.bsLeft
  prevHeader,  \* logReadCloser.prevHeader
  parser,      \* Read is reading, or parsing, or an index was out of range
  p, n,        \* the local variables of Read ...
  start, bs,
  shown,       \* history: all that Read returned, while "whole" holds
  whole        \* history: no Read of the answer split a frame, or was too short to
               \* tell a header from text

daemonVars == <<framed, answer, sent, due, marks>>
localVars == <<p, n, start, bs>>
logsVars == <<daemonVars, pos, target, bsLeft, prevHeader, parser, localVars, shown, whole>>

_makeLine(line) ==
  IF line # <<>> /\ line[Len(line)] = NewLine THEN line \o <<Return>> ELSE line

LogsInit ==
  /\ framed \in BOOLEAN
  /\ answer = <<>> /\ sent = <<>> /\ due = <<>>
  /\ marks = <<[at |-> 0, due |-> 0]>>
  /\ pos = 0
  /\ target = [i \in 1 .. Buffer |-> 0]
  /\ bsLeft = 0 /\ prevHeader = <<>>
  /\ parser = "reading"
  /\ p = <<>> /\ n = 0 /\ start = 0 /\ bs = <<>>
  /\ shown = <<>> /\ whole = TRUE

-----------------------------------------------------------------------------
(* The daemon.                                                             *)

Header(kind, m) == <<kind, 0, 0, 0, 0, 0, Len(m) \div 256, Len(m) % 256>>

Send(kind, m) ==
  /\ Len(sent) < MaxLines
  /\ sent' = Append(sent, m)
  /\ answer' = answer \o (IF framed THEN Header(kind, m) \o m ELSE m)
  /\ due' = due \o (IF framed THEN _makeLine(m) ELSE m)
  /\ marks' = Append(marks, [at |-> Len(answer'), due |-> Len(due')])
  /\ UNCHANGED <<framed, pos, target, bsLeft, prevHeader, parser, localVars, shown, whole>>

-----------------------------------------------------------------------------
(* The parser.  Indices begin with 0 in the code.                          *)

\* copy(t, src)
Copied(t, src) == [i \in DOMAIN t |-> IF i <= Len(src) THEN src[i] ELSE t[i]]

\* The Read of the answer returned k bytes, now at the front of t: they are text if
\* what could be the zeros of a header is not zero.
IsText(t, k) == k >= 4 /\ \E i \in 2 .. 4 : t[i] # 0

\* The bytes up to here are whole messages.
AtBoundary(at) == \E k \in 1 .. Len(marks) : marks[k].at = at

Show(line) == shown' = IF whole' THEN shown \o line ELSE <<>>

\* Read up to its loop.  A slice that ends after the buffer panics.
Read(k) ==
  LET t == Copied(target, SubSeq(answer, pos + 1, pos + k)) IN
  /\ parser = "reading"
  /\ pos + k <= Len(answer)
  /\ pos' = pos + k
  /\ target' = t
  /\ whole' = (whole /\ IF framed THEN AtBoundary(pos + k) ELSE k >= 4)
  /\ \/ /\ IsText(t, k)
        /\ Show(SubSeq(t, 1, k))
        /\ UNCHANGED <<parser, localVars, bsLeft, prevHeader>>
     \/ /\ ~IsText(t, k) /\ prevHeader # <<>>
        /\ parser' = "parsing"
        /\ p' = prevHeader \o t /\ n' = Len(prevHeader) + Buffer
        /\ start' = 0 /\ bs' = <<>>
        /\ prevHeader' = <<>>
        /\ UNCHANGED <<bsLeft, shown>>
     \/ /\ ~IsText(t, k) /\ prevHeader = <<>> /\ bsLeft <= Buffer
        /\ parser' = "parsing"
        /\ p' = t /\ n' = k
        /\ start' = bsLeft /\ bs' = _makeLine(SubSeq(t, 1, bsLeft))
        /\ bsLeft' = 0
        /\ UNCHANGED <<prevHeader, shown>>
     \/ /\ ~IsText(t, k) /\ prevHeader = <<>> /\ bsLeft > Buffer
        /\ parser' = "panicked"
        /\ UNCHANGED <<localVars, bsLeft, prevHeader, shown>>
  /\ UNCHANGED daemonVars

\* return copy(targetBytes, line)
Returns(line) ==
  LET b == SubSeq(line, 1, IF Len(line) < Buffer THEN Len(line) ELSE Buffer) IN
  /\ target' = Copied(target, b)
  /\ Show(b)
  /\ parser' = "reading"
  /\ p' = <<>> /\ n' = 0 /\ start' = 0 /\ bs' = <<>>

\* The header at start is all there, and is one.
HasHeader == start + HeaderLen <= n /\ p[start + 1] \in {Stdout, Stderr}

first == start + HeaderLen
msgLen == ((p[start + 5] * 256 + p[start + 6]) * 256 + p[start + 7]) * 256 + p[start + 8]

\* A message that is all there.
TakeMessage ==
  /\ bs' = bs \o _makeLine(SubSeq(p, first + 1, first + msgLen))
  /\ start' = first + msgLen
  /\ UNCHANGED <<p, n, target, parser, bsLeft, prevHeader, shown>>

\* The beginning of one, and whatever else is in the buffer.
TakeRest ==
  /\ Returns(bs \o _makeLine(SubSeq(p, first + 1, Len(p))))
  /\ bsLeft' = msgLen - (n - first)
  /\ UNCHANGED prevHeader

\* Less than a header is left.  A slice that begins after its end panics.
KeepHeader ==
  /\ start + HeaderLen > n
  /\ \/ /\ start <= n
        /\ prevHeader' = SubSeq(p, start + 1, n)
        /\ Returns(bs)
     \/ /\ start > n
        /\ parser' = "panicked"
        /\ UNCHANGED <<target, localVars, prevHeader, shown>>
  /\ UNCHANGED bsLeft

\* What is left does not begin like a header, and is dropped.
DropRest ==
  /\ start + HeaderLen <= n /\ p[start + 1] \notin {Stdout, Stderr}
  /\ Returns(bs)
  /\ UNCHANGED <<bsLeft, prevHeader>>

\* Faulty variant: a frame that ends with the buffer is taken for a part of one.
ParseLast ==
  /\ parser = "parsing"
  /\ UNCHANGED <<daemonVars, pos, whole>>
  /\ \/ KeepHeader
     \/ DropRest
     \/ HasHeader /\ first + msgLen >= n /\ TakeRest
     \/ HasHeader /\ first + msgLen < n /\ TakeMessage

\* One turn of the loop of Read.
Parse ==
  /\ parser = "parsing"
  /\ UNCHANGED <<daemonVars, pos, whole>>
  /\ \/ KeepHeader
     \/ DropRest
     \/ HasHeader /\ first + msgLen > n /\ TakeRest
     \/ HasHeader /\ first + msgLen <= n /\ TakeMessage

-----------------------------------------------------------------------------
\* The log ended, or the process did.
Ended ==
  /\ \/ parser = "panicked"
     \/ parser = "reading" /\ Len(sent) = MaxLines /\ pos = Len(answer)
  /\ UNCHANGED logsVars

LogsNext ==
  \/ \E kind \in Streams, m \in Lines : Send(kind, m)
  \/ \E k \in 1 .. Buffer : Read(k)
  \/ Parse
  \/ Ended

LogsSpec == LogsInit /\ [][LogsNext]_logsVars

-----------------------------------------------------------------------------
(* Properties.                                                             *)

\* What the daemon has sent ...
DaemonTypes ==
  /\ answer \in Seq(Byte) /\ sent \in Seq(Lines) /\ due \in Seq(Text)
  /\ marks \in Seq([at : Nat, due : Nat])

\* ... and the parser made of it.
ParserTypes ==
  /\ pos \in 0 .. Len(answer)
  /\ target \in [1 .. Buffer -> Byte]
  /\ bsLeft \in Nat
  /\ prevHeader \in Seq(Byte) /\ Len(prevHeader) < HeaderLen
  /\ bsLeft = 0 \/ prevHeader = <<>>
  /\ parser \in {"reading", "parsing", "panicked"}
  /\ parser = "parsing" => bsLeft = 0 /\ prevHeader = <<>>
  /\ p \in Seq(Byte) /\ n \in 0 .. Len(p) /\ start \in Nat /\ bs \in Seq(Byte)
  /\ shown \in Seq(Byte)

\* Every variable has its type: what is left over from a read is less than a header,
\* or the rest of a message, never both, and no length is negative.
LogsTypeOK == framed \in BOOLEAN /\ whole \in BOOLEAN /\ DaemonTypes /\ ParserTypes

\* As long as no read splits a frame, or returns less than four bytes of text, the
\* page is given the messages without their headers, each that ends a line with a
\* return, whatever was in the buffer before and however many frames a read has;
\* and no slice is out of range.
WholeFramesShown ==
  whole =>
    /\ parser # "panicked"
    /\ parser = "reading" =>
         IF framed
           THEN \E k \in 1 .. Len(marks) :
                  marks[k].at = pos /\ shown = SubSeq(due, 1, marks[k].due)
           ELSE shown = SubSeq(answer, 1, pos)
=============================================================================
