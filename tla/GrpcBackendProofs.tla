-------------------------- MODULE GrpcBackendProofs --------------------------
(***************************************************************************)
(* Proofs about GrpcBackend, for every set of servers, of containers and   *)
(* of requests: its types, that work reaches a server that has the         *)
(* container, that a websocket can locate what its page found, and what a  *)
(* list leaves out.                                                        *)
(***************************************************************************)
EXTENDS GrpcBackend, TLAPS

\* Every entry came from a server that listed its container.
EntriesAtHome ==
  /\ \A c \in Containers : cache[c] # Absent => cache[c].at \in Homes[c]
  /\ \A r \in Requests, c \in Containers : built[r][c] # Absent => built[r][c].at \in Homes[c]

\* What was taken from an entry still names such a server.
PlacesAtHome ==
  \A r \in Visitors \union Operators : place[r] # Nowhere => place[r] \in Homes[want[r]]

\* So does an answer, unless it names none.
AnswersAtHome ==
  \A v \in Visitors :
    answer[v] # Absent => answer[v].at = Nowhere \/ answer[v].at \in Homes[want[v]]

\* The shell that a page saw is cached until something resets the history.
KeptCached ==
  \A v \in kept : cache[want[v]] # Absent /\ cache[want[v]].shell

\* A container that a list still lacks is on servers yet to be asked, or on ones
\* that did not answer.
LacksOnlyUnasked ==
  \A r \in Requests, c \in Containers :
    pc[r] = "listing" /\ built[r][c] = Absent => Homes[c] \cap clients \subseteq todo[r] \union missed[r]

\* Nothing is built but during a list.
BuiltInList == \A r \in Requests : pc[r] # "listing" => built[r] = Nothing

\* A websocket whose page's shell is cached does not ask for it.
KeptDoesNotAsk == \A v \in second \cap kept : pc[v] # "asking"

IInv == TypeOK /\ EntriesAtHome /\ PlacesAtHome /\ AnswersAtHome /\ WorkReachesHome
        /\ KeptCached /\ KeptDoesNotAsk /\ LacksOnlyUnasked /\ BuiltInList

USE GrpcBackendAssumption DEF Requests

-----------------------------------------------------------------------------
(* Lemmas about the operators.                                             *)

\* Marks are neither entries nor servers.
LEMMA Marks == Absent \notin Entries /\ Absent \notin Answers \ {Absent} /\ Nowhere \notin Servers
  BY DEF Entries, Answers

\* Nothing has no entry.
LEMMA NothingFacts ==
  /\ Nothing \in [Containers -> Entries \union {Absent}]
  /\ \A c \in Containers : Nothing[c] = Absent
  BY DEF Nothing

\* Merge adds the containers of the server, and nothing else.
LEMMA MergeFacts ==
  ASSUME NEW cs \in [Containers -> Entries \union {Absent}], NEW s \in Servers,
         NEW K \in SUBSET Containers
  PROVE  /\ Merge(cs, s, K) \in [Containers -> Entries \union {Absent}]
         /\ \A c \in Containers :
              /\ Merge(cs, s, K)[c] = cs[c] \/ (s \in Homes[c] /\ Merge(cs, s, K)[c].at = s)
              /\ Merge(cs, s, K)[c] = Absent => cs[c] = Absent /\ s \notin Homes[c]
<1>1. \A c \in Containers : [at |-> s, shell |-> c \in K] \in Entries
  <2> TAKE c \in Containers
  <2> DEFINE known == c \in K
  <2>1. known \in BOOLEAN
    OBVIOUS
  <2> HIDE DEF known
  <2>2. [at |-> s, shell |-> known] \in Entries
    BY <2>1 DEF Entries
  <2> QED
    BY <2>2 DEF known
<1> QED
  BY <1>1, Marks DEF Merge

\* SetShell keeps where each container is.
LEMMA SetShellFacts ==
  ASSUME TypeOK, NEW r \in Visitors, NEW known \in BOOLEAN, SetShell(r, known)
  PROVE  /\ cache' \in [Containers -> Entries \union {Absent}]
         /\ \A c \in Containers : /\ cache'[c] = Absent <=> cache[c] = Absent
                                  /\ cache[c] # Absent => cache'[c].at = cache[c].at
                                  /\ c # want[r] => cache'[c] = cache[c]
         /\ cache[want[r]] # Absent => cache'[want[r]].shell = known
<1> DEFINE c == want[r]
<1>1. c \in Containers /\ cache \in [Containers -> Entries \union {Absent}]
  BY DEF TypeOK
<1>2. CASE cache[c] = Absent
  BY <1>1, <1>2 DEF SetShell
<1>3. CASE cache[c] # Absent
  <2>1. cache[c] \in Entries
    BY <1>1, <1>3
  <2>2. [cache[c] EXCEPT !.shell = known] \in Entries
    BY <2>1 DEF Entries
  <2>3. cache' = [cache EXCEPT ![c] = [cache[c] EXCEPT !.shell = known]]
    BY <1>3 DEF SetShell
  <2>4. /\ [cache[c] EXCEPT !.shell = known].at = cache[c].at
        /\ [cache[c] EXCEPT !.shell = known].shell = known
    BY <2>1 DEF Entries
  <2> QED
    BY <1>1, <2>1, <2>2, <2>3, <2>4, Marks
<1> QED
  BY <1>2, <1>3

-----------------------------------------------------------------------------
(* Types.                                                                  *)

LEMMA TypeInit == Init => TypeOK
  BY NothingFacts DEF Init, TypeOK, Answers

LEMMA TypeStep == TypeOK /\ [Next]_vars => TypeOK'
<1> SUFFICES ASSUME TypeOK, [Next]_vars PROVE TypeOK'
  OBVIOUS
<1>1. ASSUME NEW s \in Servers, Flip(s) PROVE TypeOK'
  BY <1>1 DEF TypeOK, Flip, list, outcome
<1>2. ASSUME NEW r \in Requests, Leave(r) PROVE TypeOK'
  BY <1>2 DEF TypeOK, Leave, list, outcome
<1>3. ASSUME NEW r \in Requests, SetList(r) PROVE TypeOK'
  <2>1. cache' \in [Containers -> Entries \union {Absent}]
    BY <1>3 DEF TypeOK, SetList
  <2>2. built' \in [Requests -> [Containers -> Entries \union {Absent}]]
    BY <1>3, NothingFacts DEF TypeOK, SetList
  <2> QED
    BY <1>3, <2>1, <2>2 DEF TypeOK, SetList, Goto, network, outcome
<1>4. ASSUME NEW r \in Requests, NEW s \in Servers, AskServer(r, s) PROVE TypeOK'
  <2>1. s \in clients
    BY <1>4 DEF TypeOK, AskServer
  <2>2. built' \in [Requests -> [Containers -> Entries \union {Absent}]]
    <3>1. ASSUME NEW K \in SUBSET Containers
          PROVE  Merge(built[r], s, K) \in [Containers -> Entries \union {Absent}]
      BY MergeFacts DEF TypeOK
    <3>2. CASE built' = built
      BY <3>2 DEF TypeOK
    <3>3. ASSUME NEW K \in SUBSET Containers,
                 built' = [built EXCEPT ![r] = Merge(built[r], s, K)]
          PROVE  built' \in [Requests -> [Containers -> Entries \union {Absent}]]
      <4> HIDE DEF Merge
      <4> QED
        BY <3>1, <3>3 DEF TypeOK
    <3> QED
      BY <1>4, <3>2, <3>3 DEF AskServer
  <2>3. missed' \in [Requests -> SUBSET clients] /\ todo' \in [Requests -> SUBSET clients]
    BY <1>4, <2>1 DEF TypeOK, AskServer
  <2> QED
    BY <1>4, <2>2, <2>3 DEF TypeOK, AskServer, network, outcome
<1>5. ASSUME NEW v \in Visitors, Look(v) PROVE TypeOK'
  BY <1>5 DEF TypeOK, Look, Goto, Begin, network, outcome
<1>6. ASSUME NEW v \in Visitors, Find(v) PROVE TypeOK'
  <2>1. cache[want[v]] \in Entries \union {Absent}
    BY DEF TypeOK
  <2>2. CASE cache[want[v]] \in ShellUnknown
    <3>1. cache[want[v]].at \in Servers
      BY <2>2 DEF ShellUnknown, Entries
    <3> QED
      BY <1>6, <2>1, <2>2, <3>1 DEF TypeOK, Find, Goto, network, list, outcome
  <2>3. CASE cache[want[v]] \notin ShellUnknown
    BY <1>6, <2>1, <2>3 DEF TypeOK, Find, Return, Goto, Answers, network, list, outcome
  <2> QED
    BY <2>2, <2>3
<1>7. ASSUME NEW v \in Visitors, AskInfo(v) PROVE TypeOK'
  <2>1. cache' \in [Containers -> Entries \union {Absent}]
    <3>1. CASE UNCHANGED cache
      BY <3>1 DEF TypeOK
    <3>2. ASSUME NEW known \in BOOLEAN, SetShell(v, known)
          PROVE  cache' \in [Containers -> Entries \union {Absent}]
      BY <3>2, SetShellFacts
    <3> QED
      BY <1>7, <3>1, <3>2 DEF AskInfo
  <2>2. kept' \subseteq Visitors
    BY <1>7 DEF AskInfo, SetShell, TypeOK
  <2>3. answer' \in [Visitors -> Answers]
    <3>1. \A known \in BOOLEAN : [at |-> Nowhere, shell |-> known] \in Answers
      BY DEF Answers
    <3>2. Absent \in Answers
      BY DEF Answers
    <3> HIDE DEF Answers
    <3> QED
      BY <1>7, <3>1, <3>2 DEF AskInfo, Return, TypeOK
  <2>4. pc' \in [Requests -> {"idle", "listing", "finding", "asking", "page", "opening",
                             "locating", "calling", "done"}]
    BY <1>7 DEF AskInfo, Return, Goto, TypeOK
  <2> QED
    BY <1>7, <2>1, <2>2, <2>3, <2>4 DEF TypeOK, AskInfo, network, list, outcome
<1>8. ASSUME NEW p \in Pages, OpenPage(p) PROVE TypeOK'
  BY <1>8 DEF TypeOK, OpenPage, Goto, Begin, network, outcome
<1>9. ASSUME NEW v \in Visitors, Connect(v) PROVE TypeOK'
  BY <1>9 DEF TypeOK, Connect, Goto, network, list, outcome
<1>10. ASSUME NEW v \in Visitors, Exec(v) PROVE TypeOK'
  <2>1. answer' \in [Visitors -> Answers]
    BY <1>10 DEF TypeOK, Exec, Answers
  <2>2. reached' \in [Requests -> Servers \union {Nowhere}]
    BY <1>10 DEF TypeOK, Exec, Connects
  <2> QED
    BY <1>10, <2>1, <2>2 DEF TypeOK, Exec, Goto, network, list
<1>11. ASSUME NEW v \in Visitors, ReadLogs(v) PROVE TypeOK'
  BY <1>11 DEF TypeOK, ReadLogs, Goto, network, list
<1>12. ASSUME NEW r \in Visitors \union Operators, Locate(r) PROVE TypeOK'
  BY <1>12 DEF TypeOK, Locate, network, list
<1>13. ASSUME NEW o \in Operators, Act(o) PROVE TypeOK'
  <2>1. told' \in [Operators -> {"nothing", "error", "success"}]
    BY <1>13 DEF TypeOK, Act
  <2>2. reached' \in [Requests -> Servers \union {Nowhere}]
    BY <1>13 DEF TypeOK, Act
  <2> QED
    BY <1>13, <2>1, <2>2 DEF TypeOK, Act, Goto, network, list
<1>14. CASE UNCHANGED vars
  BY <1>14 DEF TypeOK, vars
<1> QED
  BY <1>1, <1>2, <1>3, <1>4, <1>5, <1>6, <1>7, <1>8, <1>9, <1>10, <1>11, <1>12, <1>13, <1>14
     DEF Next, GetInfo, Quiet

\* The types of the container cache, of the clients and of every request, which
\* hold whatever servers fail and browsers leave.
THEOREM TypeCorrect == Spec => []TypeOK
  BY TypeInit, TypeStep, PTL DEF Spec

-----------------------------------------------------------------------------
(* Which actions write what.                                               *)

LEMMA WhoWrites ==
  ASSUME [Next]_vars
  PROVE  /\ UNCHANGED <<want, clients>>
         /\ \/ UNCHANGED <<cache, kept>>
            \/ \E r \in Requests : SetList(r)
            \/ \E v \in Visitors : AskInfo(v)
            \/ UNCHANGED cache /\ \E v \in Visitors : Find(v)
         /\ \/ UNCHANGED <<pc, list>>
            \/ \E r \in Requests : SetList(r)
            \/ \E r \in Requests, s \in Servers : AskServer(r, s)
            \/ \E v \in Visitors : Look(v)
            \/ \E p \in Pages : OpenPage(p)
            \/ UNCHANGED list /\ \E r \in Requests :
                 \E to \in {"asking", "page", "opening", "locating", "calling", "idle", "done"} :
                   pc[r] # "listing" /\ pc' = [pc EXCEPT ![r] = to]
         /\ \/ UNCHANGED <<place, answer, reached>>
            \/ \E v \in Visitors : Find(v) \/ AskInfo(v) \/ Exec(v) \/ ReadLogs(v)
            \/ \E r \in Visitors \union Operators : Locate(r)
            \/ \E o \in Operators : Act(o)
<1>1. CASE UNCHANGED vars
  BY <1>1 DEF vars, list
<1>2. ASSUME NEW s \in Servers, Flip(s)
      PROVE  UNCHANGED <<want, clients, cache, kept, pc, list, place, answer, reached>>
  BY <1>2 DEF Flip, list, outcome
<1>3. ASSUME NEW r \in Requests, Leave(r)
      PROVE  UNCHANGED <<want, clients, cache, kept, pc, list, place, answer, reached>>
  BY <1>3 DEF Leave, list, outcome
<1>4. ASSUME NEW r \in Requests, SetList(r)
      PROVE  UNCHANGED <<want, clients, place, answer, reached>>
  BY <1>4 DEF SetList, network, outcome
<1>5. ASSUME NEW r \in Requests, NEW s \in Servers, AskServer(r, s)
      PROVE  UNCHANGED <<want, clients, cache, kept, place, answer, reached>>
  BY <1>5 DEF AskServer, network, outcome
<1>6. ASSUME NEW v \in Visitors, Look(v)
      PROVE  UNCHANGED <<want, clients, cache, kept, place, answer, reached>>
  BY <1>6 DEF Look, network, outcome
<1>7. ASSUME NEW p \in Pages, OpenPage(p)
      PROVE  UNCHANGED <<want, clients, cache, kept, place, answer, reached>>
  BY <1>7 DEF OpenPage, network, outcome
<1>8. ASSUME NEW v \in Visitors, Find(v)
      PROVE  /\ UNCHANGED <<want, clients, cache, list>> /\ pc[v] # "listing"
             /\ \E to \in {"asking", "page", "opening", "locating"} : pc' = [pc EXCEPT ![v] = to]
  BY <1>8 DEF Find, Return, Goto, network
<1>9. ASSUME NEW v \in Visitors, AskInfo(v)
      PROVE  /\ UNCHANGED <<want, clients, list>> /\ pc[v] # "listing"
             /\ \E to \in {"page", "opening", "locating"} : pc' = [pc EXCEPT ![v] = to]
  BY <1>9 DEF AskInfo, Return, Goto, network
<1>10. ASSUME NEW v \in Visitors, Connect(v)
       PROVE  /\ UNCHANGED <<want, clients, cache, kept, list, place, answer, reached>>
              /\ pc[v] # "listing" /\ pc' = [pc EXCEPT ![v] = "idle"]
  BY <1>10 DEF Connect, Goto, network, outcome
<1>11. ASSUME NEW v \in Visitors, Exec(v) \/ ReadLogs(v)
       PROVE  /\ UNCHANGED <<want, clients, cache, kept, list>>
              /\ pc[v] # "listing" /\ pc' = [pc EXCEPT ![v] = "done"]
  BY <1>11 DEF Exec, ReadLogs, Goto, network
<1>12. ASSUME NEW o \in Operators, Act(o)
       PROVE  /\ UNCHANGED <<want, clients, cache, kept, list>>
              /\ pc[o] # "listing" /\ pc' = [pc EXCEPT ![o] = "done"]
  BY <1>12 DEF Act, Goto, network
<1>13. ASSUME NEW r \in Visitors \union Operators, Locate(r)
       PROVE  /\ UNCHANGED <<want, clients, cache, kept, list>> /\ pc[r] # "listing"
              /\ \E to \in {"calling", "done"} : pc' = [pc EXCEPT ![r] = to]
  BY <1>13 DEF Locate, network
<1>14. Visitors \union Operators \subseteq Requests
  OBVIOUS
<1> DEFINE A == \E s \in Servers : Flip(s)
           B == \E r \in Requests : Leave(r)
           C == \E v \in Visitors : Connect(v)
           D == \E v \in Visitors : Exec(v) \/ ReadLogs(v)
<1>15. \/ UNCHANGED vars \/ A \/ B \/ C \/ D
       \/ \E r \in Requests : SetList(r)
       \/ \E r \in Requests, s \in Servers : AskServer(r, s)
       \/ \E v \in Visitors : Look(v)
       \/ \E v \in Visitors : Find(v)
       \/ \E v \in Visitors : AskInfo(v)
       \/ \E p \in Pages : OpenPage(p)
       \/ \E r \in Visitors \union Operators : Locate(r)
       \/ \E o \in Operators : Act(o)
  BY DEF Next, GetInfo, Quiet
<1> QED
  BY <1>1, <1>2, <1>3, <1>4, <1>5, <1>6, <1>7, <1>8, <1>9, <1>10, <1>11, <1>12, <1>13, <1>14,
     <1>15

\* Who is sent to "asking" and to "opening", and by which action.
LEMMA WhoIsSent ==
  ASSUME TypeOK, [Next]_vars, NEW v \in Visitors
  PROVE  /\ pc'[v] = "asking" => pc[v] = "asking" \/ Find(v)
         /\ pc'[v] = "opening" => pc[v] = "opening" \/ Find(v) \/ AskInfo(v)
         /\ v \in second' => v \in second \/ pc'[v] = "idle"
<1> DEFINE Sent == /\ pc'[v] = "asking" => pc[v] = "asking" \/ Find(v)
                   /\ pc'[v] = "opening" => pc[v] = "opening" \/ Find(v) \/ AskInfo(v)
                   /\ v \in second' => v \in second \/ pc'[v] = "idle"
<1>1. ASSUME NEW r \in Requests, UNCHANGED second,
             NEW to \in {"listing", "finding", "calling", "done"}, pc' = [pc EXCEPT ![r] = to]
      PROVE  Sent
  BY <1>1 DEF TypeOK
<1>2. CASE UNCHANGED <<pc, second>>
  BY <1>2
<1>3. ASSUME NEW r \in Requests, \/ \E s \in Servers : Flip(s) \/ AskServer(r, s)
                                \/ Leave(r) \/ UNCHANGED vars
      PROVE  Sent
  BY <1>2, <1>3 DEF Flip, AskServer, Leave, vars
<1>4. ASSUME NEW r \in Requests, SetList(r) \/ Look(r) \/ OpenPage(r) PROVE Sent
  BY <1>1, <1>4 DEF SetList, Look, OpenPage, Goto
<1>5. ASSUME NEW r \in Requests, Exec(r) \/ ReadLogs(r) \/ Act(r) \/ Locate(r) PROVE Sent
  BY <1>1, <1>5 DEF Exec, ReadLogs, Act, Locate, Goto
<1>6. ASSUME NEW r \in Visitors, Find(r) \/ AskInfo(r) PROVE Sent
  <2>1. UNCHANGED second /\ \A q \in Visitors \ {r} : pc'[q] = pc[q]
    BY <1>6 DEF Find, AskInfo, Return, Goto, TypeOK
  <2>2. AskInfo(r) => pc'[r] # "asking"
    BY DEF AskInfo, Return, Goto, TypeOK
  <2> QED
    BY <1>6, <2>1, <2>2
<1>7. ASSUME NEW r \in Visitors, Connect(r) PROVE Sent
  BY <1>7 DEF Connect, Goto, TypeOK
<1> HIDE DEF Sent
<1>8. Visitors \subseteq Requests /\ Operators \subseteq Requests /\ Pages \subseteq Requests
  OBVIOUS
<1>9. Sent
  BY <1>3, <1>4, <1>5, <1>6, <1>7, <1>8 DEF Next, GetInfo, Quiet
<1> QED
  BY <1>9 DEF Sent

-----------------------------------------------------------------------------
(* Work reaches a server that has the container.                           *)

LEMMA EntriesStep ==
  ASSUME TypeOK, EntriesAtHome, [Next]_vars
  PROVE  EntriesAtHome'
<1>1. ASSUME NEW c \in Containers, cache'[c] # Absent
      PROVE  cache'[c].at \in Homes[c]
  <2>1. CASE UNCHANGED cache
    BY <1>1, <2>1 DEF EntriesAtHome
  <2>2. ASSUME NEW r \in Requests, SetList(r) PROVE cache'[c].at \in Homes[c]
    BY <1>1, <2>2 DEF SetList, EntriesAtHome
  <2>3. ASSUME NEW v \in Visitors, NEW known \in BOOLEAN, SetShell(v, known)
        PROVE  cache'[c].at \in Homes[c]
    BY <1>1, <2>3, SetShellFacts DEF EntriesAtHome
  <2>4. ASSUME NEW v \in Visitors, AskInfo(v) PROVE cache'[c].at \in Homes[c]
    BY <2>1, <2>3, <2>4 DEF AskInfo
  <2> QED
    BY <2>1, <2>2, <2>4, WhoWrites
<1>2. ASSUME NEW q \in Requests, NEW c \in Containers, built'[q][c] # Absent
      PROVE  built'[q][c].at \in Homes[c]
  <2>1. CASE UNCHANGED built
    BY <1>2, <2>1 DEF EntriesAtHome
  <2>2. ASSUME NEW r \in Requests, SetList(r) PROVE built'[q][c].at \in Homes[c]
    BY <1>2, <2>2, NothingFacts DEF SetList, EntriesAtHome, TypeOK
  <2>3. ASSUME NEW r \in Requests, NEW s \in Servers, NEW K \in SUBSET Containers,
               built' = [built EXCEPT ![r] = Merge(built[r], s, K)]
        PROVE  built'[q][c].at \in Homes[c]
    <3>1. built \in [Requests -> [Containers -> Entries \union {Absent}]]
      BY DEF TypeOK
    <3>2. \/ Merge(built[r], s, K)[c] = built[r][c]
          \/ s \in Homes[c] /\ Merge(built[r], s, K)[c].at = s
      BY <3>1, MergeFacts
    <3> HIDE DEF Merge
    <3> QED
      BY <1>2, <2>3, <3>1, <3>2 DEF EntriesAtHome
  <2>4. ASSUME NEW r \in Requests, NEW s \in Servers, AskServer(r, s)
        PROVE  built'[q][c].at \in Homes[c]
    BY <2>1, <2>3, <2>4 DEF AskServer
  <2>5. ASSUME NEW r \in Requests, Look(r) \/ OpenPage(r) PROVE UNCHANGED built
    BY <2>5 DEF Look, OpenPage
  <2>6. UNCHANGED list => UNCHANGED built
    BY DEF list
  <2> QED
    BY <2>1, <2>2, <2>4, <2>5, <2>6, WhoWrites
<1> QED
  BY <1>1, <1>2 DEF EntriesAtHome

LEMMA PlacesStep ==
  ASSUME TypeOK, EntriesAtHome, PlacesAtHome, [Next]_vars
  PROVE  PlacesAtHome'
<1> SUFFICES ASSUME NEW q \in Visitors \union Operators, place'[q] # Nowhere
             PROVE  place'[q] \in Homes[want[q]]
  BY WhoWrites DEF PlacesAtHome
<1>1. CASE UNCHANGED place
  BY <1>1 DEF PlacesAtHome
<1>2. ASSUME NEW v \in Visitors, Find(v) PROVE place'[q] \in Homes[want[q]]
  <2>1. cache[want[v]] \in ShellUnknown => cache[want[v]] # Absent /\ want[v] \in Containers
    BY Marks DEF ShellUnknown, TypeOK
  <2> QED
    BY <1>1, <1>2, <2>1 DEF Find, EntriesAtHome, PlacesAtHome, TypeOK
<1>3. ASSUME NEW v \in Visitors, AskInfo(v) \/ ReadLogs(v) PROVE place'[q] \in Homes[want[q]]
  BY <1>3 DEF AskInfo, ReadLogs, PlacesAtHome, TypeOK
<1>4. ASSUME NEW v \in Visitors, Exec(v) PROVE UNCHANGED place
  BY <1>4 DEF Exec
<1>5. ASSUME NEW r \in Visitors \union Operators, Locate(r) PROVE place'[q] \in Homes[want[q]]
  BY <1>1, <1>5 DEF Locate, EntriesAtHome, PlacesAtHome, TypeOK
<1>6. ASSUME NEW o \in Operators, Act(o) PROVE place'[q] \in Homes[want[q]]
  BY <1>6 DEF Act, PlacesAtHome, TypeOK
<1> QED
  BY <1>1, <1>2, <1>3, <1>4, <1>5, <1>6, WhoWrites

LEMMA AnswersStep ==
  ASSUME TypeOK, EntriesAtHome, AnswersAtHome, [Next]_vars
  PROVE  AnswersAtHome'
<1> SUFFICES ASSUME NEW q \in Visitors, answer'[q] # Absent
             PROVE  answer'[q].at = Nowhere \/ answer'[q].at \in Homes[want[q]]
  BY WhoWrites DEF AnswersAtHome
<1>1. CASE UNCHANGED answer
  BY <1>1 DEF AnswersAtHome
<1>2. ASSUME NEW v \in Visitors, NEW from, NEW a, Return(v, from, a),
             a # Absent => a.at = Nowhere \/ a.at \in Homes[want[v]]
      PROVE  answer'[q].at = Nowhere \/ answer'[q].at \in Homes[want[q]]
  BY <1>2 DEF Return, AnswersAtHome, TypeOK
<1>3. ASSUME NEW v \in Visitors, Find(v)
      PROVE  answer'[q].at = Nowhere \/ answer'[q].at \in Homes[want[q]]
  <2>1. cache[want[v]] # Absent => cache[want[v]].at \in Homes[want[v]]
    BY DEF EntriesAtHome, TypeOK
  <2> QED
    BY <1>1, <1>2, <1>3, <2>1 DEF Find
<1>4. ASSUME NEW v \in Visitors, AskInfo(v)
      PROVE  answer'[q].at = Nowhere \/ answer'[q].at \in Homes[want[q]]
  BY <1>2, <1>4 DEF AskInfo
<1>5. ASSUME NEW v \in Visitors, Exec(v) \/ ReadLogs(v)
      PROVE  answer'[q].at = Nowhere \/ answer'[q].at \in Homes[want[q]]
  BY <1>5 DEF Exec, ReadLogs, AnswersAtHome, TypeOK
<1>6. ASSUME NEW r \in Visitors \union Operators, Locate(r) \/ Act(r) PROVE UNCHANGED answer
  BY <1>6 DEF Locate, Act
<1> QED
  BY <1>1, <1>3, <1>4, <1>5, <1>6, WhoWrites

LEMMA ReachedStep ==
  ASSUME TypeOK, PlacesAtHome, AnswersAtHome, WorkReachesHome, [Next]_vars
  PROVE  WorkReachesHome'
<1> SUFFICES ASSUME NEW q \in Visitors \union Operators, reached'[q] # Nowhere
             PROVE  reached'[q] \in Homes[want[q]]
  BY WhoWrites DEF WorkReachesHome
<1>1. CASE UNCHANGED reached
  BY <1>1 DEF WorkReachesHome
<1>2. ASSUME NEW v \in Visitors, Find(v) \/ AskInfo(v) PROVE UNCHANGED reached
  BY <1>2 DEF Find, AskInfo, outcome
<1>3. ASSUME NEW v \in Visitors, Exec(v) PROVE reached'[q] \in Homes[want[q]]
  <2>1. Connects(v, answer[v].at) => answer[v].at # Nowhere
    BY Marks DEF Connects, TypeOK
  <2> QED
    BY <1>3, <2>1 DEF Exec, AnswersAtHome, WorkReachesHome, TypeOK
<1>4. ASSUME NEW v \in Visitors, ReadLogs(v) PROVE reached'[q] \in Homes[want[q]]
  BY <1>4 DEF ReadLogs, PlacesAtHome, WorkReachesHome, TypeOK
<1>5. ASSUME NEW r \in Visitors \union Operators, Locate(r) PROVE UNCHANGED reached
  BY <1>5 DEF Locate
<1>6. ASSUME NEW o \in Operators, Act(o) PROVE reached'[q] \in Homes[want[q]]
  BY <1>6 DEF Act, PlacesAtHome, WorkReachesHome, TypeOK
<1> QED
  BY <1>1, <1>2, <1>3, <1>4, <1>5, <1>6, WhoWrites

-----------------------------------------------------------------------------
(* What the page saw, and what a list lacks.                               *)

LEMMA KeptStep ==
  ASSUME TypeOK, KeptCached, [Next]_vars
  PROVE  KeptCached'
<1> SUFFICES ASSUME NEW q \in kept'
             PROVE  cache'[want[q]] # Absent /\ cache'[want[q]].shell
  BY WhoWrites DEF KeptCached
<1>1. CASE UNCHANGED <<cache, kept>>
  BY <1>1 DEF KeptCached
<1>2. ASSUME NEW r \in Requests, SetList(r) PROVE FALSE
  BY <1>2 DEF SetList
<1>3. ASSUME NEW v \in Visitors, NEW known \in BOOLEAN, SetShell(v, known)
      PROVE  cache'[want[q]] # Absent /\ cache'[want[q]].shell
  <2>1. want[q] \in Containers
    BY <1>3 DEF TypeOK, SetShell
  <2>2. CASE q \in kept
    <3>1. CASE want[q] = want[v]
      BY <1>3, <2>1, <2>2, <3>1, SetShellFacts DEF SetShell, KeptCached
    <3>2. CASE want[q] # want[v]
      BY <1>3, <2>1, <2>2, <3>2, SetShellFacts DEF KeptCached
    <3> QED
      BY <3>1, <3>2
  <2>3. CASE q \notin kept
    <3>1. q = v /\ known /\ cache[want[v]] # Absent
      BY <1>3, <2>3 DEF SetShell
    <3> QED
      BY <1>3, <2>1, <3>1, SetShellFacts
  <2> QED
    BY <2>2, <2>3
<1>4. ASSUME NEW v \in Visitors, AskInfo(v)
      PROVE  cache'[want[q]] # Absent /\ cache'[want[q]].shell
  BY <1>1, <1>3, <1>4 DEF AskInfo
<1>5. ASSUME NEW v \in Visitors, Find(v), UNCHANGED cache
      PROVE  cache'[want[q]] # Absent /\ cache'[want[q]].shell
  <2>1. cache[want[v]] \in Entries \union {Absent}
    BY DEF TypeOK
  <2> QED
    BY <1>5, <2>1 DEF Find, ShellUnknown, KeptCached
<1> QED
  BY <1>1, <1>2, <1>4, <1>5, WhoWrites

LEMMA KeptNotAskingStep ==
  ASSUME TypeOK, KeptCached, KeptDoesNotAsk, [Next]_vars
  PROVE  KeptDoesNotAsk'
<1> SUFFICES ASSUME NEW v \in second' \cap kept', pc'[v] = "asking" PROVE FALSE
  BY DEF KeptDoesNotAsk
<1>1. v \in Visitors /\ v \in second
  BY TypeStep, WhoIsSent DEF TypeOK
<1>2. v \in kept
  <2>1. ASSUME NEW r \in Visitors, Find(r) \/ AskInfo(r) PROVE kept' \subseteq kept \union ({r} \ second)
    BY <2>1 DEF Find, AskInfo, SetShell
  <2>2. ASSUME NEW r \in Requests, SetList(r) PROVE kept' = {}
    BY <2>2 DEF SetList
  <2> QED
    BY <1>1, <2>1, <2>2, WhoWrites
<1>3. pc[v] # "asking" /\ Find(v)
  BY <1>1, <1>2, WhoIsSent DEF KeptDoesNotAsk
<1>4. cache[want[v]] \in ShellUnknown
  BY <1>1, <1>3 DEF Find, Return, Goto, TypeOK
<1> QED
  BY <1>2, <1>4 DEF KeptCached, ShellUnknown

LEMMA ListStep ==
  ASSUME TypeOK, LacksOnlyUnasked, BuiltInList, [Next]_vars
  PROVE  LacksOnlyUnasked' /\ BuiltInList'
<1>1. CASE UNCHANGED <<pc, list>>
  BY <1>1, WhoWrites DEF list, LacksOnlyUnasked, BuiltInList
<1>2. ASSUME NEW r \in Requests, SetList(r) PROVE LacksOnlyUnasked' /\ BuiltInList'
  BY <1>2, WhoWrites DEF SetList, Goto, LacksOnlyUnasked, BuiltInList, TypeOK
<1>3. ASSUME NEW r \in Requests, NEW s \in Servers, AskServer(r, s)
      PROVE  LacksOnlyUnasked' /\ BuiltInList'
  <2>1. UNCHANGED pc /\ \A q \in Requests \ {r} : /\ built'[q] = built[q]
                                                /\ todo'[q] = todo[q] /\ missed'[q] = missed[q]
    BY <1>3 DEF AskServer, TypeOK
  <2>2. pc[r] = "listing" /\ todo'[r] = todo[r] \ {s}
    BY <1>3 DEF AskServer, TypeOK
  <2>3. ASSUME NEW c \in Containers, built'[r][c] = Absent
        PROVE  Homes[c] \cap clients \subseteq todo'[r] \union missed'[r]
    <3>1. ASSUME NEW K \in SUBSET Containers,
                 built' = [built EXCEPT ![r] = Merge(built[r], s, K)]
          PROVE  built[r][c] = Absent /\ s \notin Homes[c]
      <4>1. built \in [Requests -> [Containers -> Entries \union {Absent}]]
        BY DEF TypeOK
      <4>2. Merge(built[r], s, K)[c] = Absent => built[r][c] = Absent /\ s \notin Homes[c]
        BY <4>1, MergeFacts
      <4> HIDE DEF Merge
      <4> QED
        BY <2>3, <3>1, <4>1, <4>2
    <3>2. \/ UNCHANGED missed /\ built[r][c] = Absent /\ s \notin Homes[c]
          \/ UNCHANGED built /\ missed'[r] = missed[r] \union {s}
      BY <1>3, <3>1 DEF AskServer, TypeOK
    <3>3. built[r][c] = Absent
      BY <2>3, <3>2
    <3> QED
      BY <2>2, <3>2, <3>3 DEF LacksOnlyUnasked
  <2> QED
    BY <2>1, <2>2, <2>3, WhoWrites DEF LacksOnlyUnasked, BuiltInList
<1>4. ASSUME NEW r \in Requests, Look(r) \/ OpenPage(r) PROVE LacksOnlyUnasked' /\ BuiltInList'
  <2>1. UNCHANGED <<built, missed>>
    BY <1>4 DEF Look, OpenPage
  <2>2. \/ pc' = [pc EXCEPT ![r] = "listing"] /\ todo' = [todo EXCEPT ![r] = clients]
        \/ pc' = [pc EXCEPT ![r] = "finding"] /\ UNCHANGED todo
    BY <1>4 DEF Look, OpenPage, Goto, Begin
  <2>3. pc[r] = "idle" /\ UNCHANGED clients
    BY <1>4, WhoWrites DEF Look, OpenPage, Goto
  <2>4. BuiltInList'
    BY <2>1, <2>2, <2>3 DEF BuiltInList, TypeOK
  <2>5. ASSUME NEW q \in Requests, NEW c \in Containers, pc'[q] = "listing", built'[q][c] = Absent
        PROVE  Homes[c] \cap clients \subseteq todo'[q] \union missed'[q]
    <3>1. CASE pc' = [pc EXCEPT ![r] = "finding"] /\ UNCHANGED todo
      BY <2>1, <2>5, <3>1 DEF LacksOnlyUnasked, TypeOK
    <3>2. CASE pc' = [pc EXCEPT ![r] = "listing"] /\ todo' = [todo EXCEPT ![r] = clients]
      BY <2>1, <2>5, <3>2 DEF LacksOnlyUnasked, TypeOK
    <3> QED
      BY <2>2, <3>1, <3>2
  <2> QED
    BY <2>3, <2>4, <2>5 DEF LacksOnlyUnasked
<1>5. ASSUME UNCHANGED list, NEW r \in Requests,
             NEW to \in {"asking", "page", "opening", "locating", "calling", "idle", "done"},
             pc[r] # "listing", pc' = [pc EXCEPT ![r] = to]
      PROVE  LacksOnlyUnasked' /\ BuiltInList'
  BY <1>5, WhoWrites DEF list, LacksOnlyUnasked, BuiltInList, TypeOK
<1> QED
  BY <1>1, <1>2, <1>3, <1>4, <1>5, WhoWrites

-----------------------------------------------------------------------------
(* The theorems.                                                           *)

LEMMA IInvInit == Init => IInv
<1> SUFFICES ASSUME Init PROVE IInv
  OBVIOUS
<1>1. TypeOK
  BY TypeInit
<1>2. EntriesAtHome /\ BuiltInList
  BY NothingFacts DEF Init, EntriesAtHome, BuiltInList
<1>3. PlacesAtHome /\ AnswersAtHome /\ WorkReachesHome /\ KeptCached /\ KeptDoesNotAsk
  BY DEF Init, PlacesAtHome, AnswersAtHome, WorkReachesHome, KeptCached, KeptDoesNotAsk
<1>4. LacksOnlyUnasked
  BY DEF Init, LacksOnlyUnasked
<1> QED
  BY <1>1, <1>2, <1>3, <1>4 DEF IInv

LEMMA IInvStep == IInv /\ [Next]_vars => IInv'
  BY TypeStep, EntriesStep, PlacesStep, AnswersStep, ReachedStep, KeptStep,
     KeptNotAskingStep, ListStep DEF IInv

LEMMA IInvAlways == Spec => []IInv
  BY IInvInit, IInvStep, PTL DEF Spec

\* Whatever lists, lookups and failures race with each other: an exec, a log or an
\* action is carried out by a server that listed the container.
THEOREM ReachesHome == Spec => []WorkReachesHome
<1>1. IInv => WorkReachesHome
  BY DEF IInv
<1> QED
  BY <1>1, IInvAlways, PTL

\* A websocket gets a container that Exec can locate, if what its page saw is still
\* in the cache.
THEOREM LocatesAgain == Spec => LocatedAgain
<1>1. ASSUME IInv, [Next]_vars, NEW v \in second \cap kept, pc[v] # "opening", pc'[v] = "opening"
      PROVE  answer'[v] \in Entries
  <2>1. /\ v \in Visitors /\ want[v] \in Containers
        /\ cache[want[v]] \in Entries /\ cache[want[v]] \notin ShellUnknown
    BY <1>1 DEF IInv, TypeOK, KeptCached, ShellUnknown
  <2>2. Find(v) \/ AskInfo(v)
    BY <1>1, <2>1, WhoIsSent DEF IInv
  <2>3. Find(v)
    BY <1>1, <2>2 DEF AskInfo, Return, Goto, IInv, KeptDoesNotAsk
  <2> QED
    BY <1>1, <2>1, <2>3 DEF Find, Return, IInv, TypeOK
<1>2. IInv /\ [Next]_vars =>
        [\A v \in second \cap kept :
           pc[v] # "opening" /\ pc'[v] = "opening" => answer'[v] \in Entries]_vars
  BY <1>1
<1> QED
  BY <1>2, IInvAlways, PTL DEF Spec, LocatedAgain

\* A list that replaces the cache has every container of each server that answered it.
THEOREM KeepsTheRest == Spec => ListHasTheRest
<1>1. ASSUME IInv, NEW r \in Requests, NEW c \in Containers, SetList(r), cache'[c] = Absent
      PROVE  Homes[c] \cap clients \subseteq missed[r]
  BY <1>1 DEF IInv, SetList, Goto, LacksOnlyUnasked
<1>2. IInv /\ [Next]_vars =>
        [\A r \in Requests, c \in Containers :
           SetList(r) /\ cache'[c] = Absent => Homes[c] \cap clients \subseteq missed[r]]_vars
  BY <1>1
<1> QED
  BY <1>2, IInvAlways, PTL DEF Spec, ListHasTheRest
=============================================================================
