----------------------------- MODULE GrpcBackend -----------------------------
(***************************************************************************)
(* The gRPC backend: the containers of several remote servers behind one   *)
(* cache (container/grpc/grpc.go, with the unary handlers of               *)
(* proxy/server.go that answer it).                                        *)
(*                                                                         *)
(* Each request of a browser is a goroutine.  An index page asks every     *)
(* server for its list, one after the other, and replaces the cache by     *)
(* what the ones that answered said.  A visitor opens the page of a        *)
(* container and then its websocket; each of the two looks the container   *)
(* up, and the second one's answer is given to Exec.  Or it opens its      *)
(* logs, which are looked up and then found again by Logs.  An operator    *)
(* starts or stops a container without a lookup.                           *)
(*                                                                         *)
(* An entry of the cache tells the server it came from and whether a shell *)
(* is known.  All the forms of an ID are one key here; DockerBackend has   *)
(* them apart.                                                             *)
(***************************************************************************)
EXTENDS Naturals, FiniteSets

CONSTANTS
  Servers,
  Containers,
  Homes,       \* the servers that list each container
  Visitors, Operators, Pages,
  MaxFlips,    \* bound: how often a server goes down or comes back
  Absent,      \* no entry in the cache, no container in an answer
  Nowhere,     \* LocServer = "", or no server yet
  Nil          \* a nil *pb.Err

Requests == Visitors \union Operators \union Pages

ASSUME GrpcBackendAssumption ==
  /\ Homes \in [Containers -> SUBSET Servers]
  /\ Visitors \cap (Operators \union Pages) = {}
  /\ Operators \cap Pages = {}
  /\ MaxFlips \in Nat
  /\ Nowhere \notin Servers
  /\ Absent \notin [at : Servers \union {Nowhere}, shell : BOOLEAN]

VARIABLES
  clients,     \* GrpcCli.clients: the servers that answered NewCli
  up,          \* the servers that can be reached
  flips,       \* how often that changed
  cache,       \* GrpcCli.containers
  pc,          \* where each request is
  gone,        \* requests whose browser left: their context is cancelled
  want,        \* the container that each request is about
  todo,        \* List: clients not yet asked
  built,       \* List: allContainers
  missed,      \* history: clients whose answer the List did not get
  place,       \* the LocServer of the entry that was found
  answer,      \* what GetInfo returned to each visitor
  second,      \* visitors that are at their websocket
  kept,        \* history: the shell that the visitor's page saw is still cached
  reached,     \* history: the server where the request was carried out
  told         \* what the operator is told

vars == <<clients, up, flips, cache, pc, gone, want, todo, built, missed,
          place, answer, second, kept, reached, told>>
network == <<clients, up, flips, gone, want>>
list == <<todo, built, missed>>
outcome == <<reached, told>>

Entries == [at : Servers, shell : BOOLEAN]
ShellUnknown == {e \in Entries : ~e.shell}
Answers == Entries \union [at : {Nowhere}, shell : BOOLEAN] \union {Absent}
Nothing == [c \in Containers |-> Absent]

\* NewCli keeps the servers that answer a ping.
Init ==
  /\ up \in SUBSET Servers
  /\ clients = up
  /\ flips = 0
  /\ cache = Nothing
  /\ pc = [r \in Requests |-> "idle"]
  /\ gone = {}
  /\ want \in [Visitors \union Operators -> Containers]
  /\ todo = [r \in Requests |-> {}]
  /\ built = [r \in Requests |-> Nothing]
  /\ missed = [r \in Requests |-> {}]
  /\ place = [r \in Requests |-> Nowhere]
  /\ answer = [v \in Visitors |-> Absent]
  /\ second = {}
  /\ kept = {}
  /\ reached = [r \in Requests |-> Nowhere]
  /\ told = [r \in Operators |-> "nothing"]

Goto(r, from, to) == pc[r] = from /\ pc' = [pc EXCEPT ![r] = to]

\* There is a client for server s, and a call with the context of r returns an answer.
Connects(r, s) == s \in clients \cap up /\ r \notin gone

-----------------------------------------------------------------------------
(* The network and the browsers.                                           *)

Flip(s) ==
  /\ flips < MaxFlips
  /\ flips' = flips + 1
  /\ up' = IF s \in up THEN up \ {s} ELSE up \union {s}
  /\ UNCHANGED <<clients, gone, want, cache, pc, list, place, answer, second, kept, outcome>>

\* Only the calls that a request has yet to make notice that its browser left.
Leave(r) ==
  /\ pc[r] \in {"listing", "asking", "opening", "calling"}
  /\ gone' = gone \union {r}
  /\ UNCHANGED <<clients, up, flips, want, cache, pc, list, place, answer, second, kept, outcome>>

-----------------------------------------------------------------------------
(* List.                                                                   *)

\* Faulty variant: the servers of the configuration are asked.
BeginAll(r) == todo' = [todo EXCEPT ![r] = Servers]

\* The loop is over the clients that NewCli kept.
Begin(r) == todo' = [todo EXCEPT ![r] = clients]

OpenPage(p) ==
  /\ Goto(p, "idle", "listing")
  /\ Begin(p)
  /\ UNCHANGED <<network, cache, built, missed, place, answer, second, kept, outcome>>

\* Faulty variant: the loop locates all that was gathered so far.
MergeElsewhere(cs, s, K) ==
  [c \in Containers |->
     IF cs[c] # Absent THEN [cs[c] EXCEPT !.at = s]
     ELSE IF s \in Homes[c] THEN [at |-> s, shell |-> c \in K] ELSE Absent]

\* A server's list, of which the containers that are not there yet are kept.  The
\* server's own backend knows the shells of those in K.
Merge(cs, s, K) ==
  [c \in Containers |-> IF cs[c] = Absent /\ s \in Homes[c]
                          THEN [at |-> s, shell |-> c \in K] ELSE cs[c]]

\* Faulty variant: the first server that does not answer ends the loop.
AskServerStops(r, s) ==
  /\ pc[r] = "listing" /\ s \in todo[r]
  /\ \/ /\ Connects(r, s)
        /\ todo' = [todo EXCEPT ![r] = @ \ {s}]
        /\ \E K \in SUBSET Containers : built' = [built EXCEPT ![r] = Merge(@, s, K)]
        /\ UNCHANGED missed
     \/ /\ ~Connects(r, s)
        /\ todo' = [todo EXCEPT ![r] = {}]
        /\ missed' = [missed EXCEPT ![r] = @ \union {s}]
        /\ UNCHANGED built
  /\ UNCHANGED <<network, cache, pc, place, answer, second, kept, outcome>>

\* One turn of the loop: alive and List, of which either may fail.
AskServer(r, s) ==
  /\ pc[r] = "listing" /\ s \in todo[r]
  /\ todo' = [todo EXCEPT ![r] = @ \ {s}]
  /\ \/ /\ Connects(r, s)
        /\ \E K \in SUBSET Containers : built' = [built EXCEPT ![r] = Merge(@, s, K)]
        /\ UNCHANGED missed
     \/ /\ ~Connects(r, s)
        /\ missed' = [missed EXCEPT ![r] = @ \union {s}]
        /\ UNCHANGED built
  /\ UNCHANGED <<network, cache, pc, place, answer, second, kept, outcome>>

\* Containers.Set, with what there is.
SetList(r) ==
  /\ todo[r] = {}
  /\ Goto(r, "listing", IF r \in Pages THEN "done" ELSE "finding")
  /\ cache' = built[r]
  /\ built' = [built EXCEPT ![r] = Nothing]
  /\ missed' = [missed EXCEPT ![r] = {}]
  /\ kept' = {}
  /\ UNCHANGED <<network, todo, place, answer, second, outcome>>

-----------------------------------------------------------------------------
(* GetInfo.                                                                *)

\* containers.Len() == 0: List first.
Look(r) ==
  /\ \/ /\ cache = Nothing /\ Goto(r, "idle", "listing") /\ Begin(r)
     \/ /\ cache # Nothing /\ Goto(r, "idle", "finding") /\ UNCHANGED todo
  /\ UNCHANGED <<network, cache, built, missed, place, answer, second, kept, outcome>>

\* GetInfo returns a to the websocket, or to the page or the logs, which take no
\* more of it than a title.
Return(r, from, a) ==
  \/ /\ r \in second
     /\ Goto(r, from, "opening")
     /\ answer' = [answer EXCEPT ![r] = a]
  \/ /\ r \notin second
     /\ Goto(r, from, "page") \/ Goto(r, from, "locating")
     /\ UNCHANGED answer

Find(r) ==
  LET entry == cache[want[r]] IN
  \/ /\ entry \notin ShellUnknown
     /\ Return(r, "finding", entry)
     /\ kept' = IF entry # Absent /\ r \notin second THEN kept \union {r} ELSE kept
     /\ UNCHANGED <<network, cache, list, place, second, outcome>>
  \/ /\ entry \in ShellUnknown
     /\ Goto(r, "finding", "asking")
     /\ place' = [place EXCEPT ![r] = entry.at]
     /\ UNCHANGED <<network, cache, list, answer, second, kept, outcome>>

\* Faulty variant: the remote container itself is entered.
SetRemote(r, known) ==
  LET c == want[r] IN
  /\ cache' = [cache EXCEPT ![c] = [at |-> Nowhere, shell |-> known]]
  /\ kept' = IF known THEN kept \union ({r} \ second) ELSE {v \in kept : want[v] # c}

\* Containers.SetShell, and what the pages saw that it leaves.
SetShell(r, known) ==
  LET c == want[r] IN
  /\ cache' = IF cache[c] = Absent THEN cache ELSE [cache EXCEPT ![c].shell = known]
  /\ kept' = IF cache[c] = Absent THEN kept
             ELSE IF known THEN kept \union ({r} \ second)
             ELSE {v \in kept : want[v] # c}

\* The server that listed the container is asked for it.  Its answer, which may
\* have found no shell, becomes that of GetInfo as it is: it names no server.
AskInfo(r) ==
  /\ \/ /\ Connects(r, place[r])
        /\ \E known \in BOOLEAN :
             /\ SetShell(r, known)
             /\ Return(r, "asking", [at |-> Nowhere, shell |-> known])
     \/ /\ ~Connects(r, place[r])
        /\ Return(r, "asking", Absent)
        /\ UNCHANGED <<cache, kept>>
  /\ place' = [place EXCEPT ![r] = Nowhere]
  /\ UNCHANGED <<network, list, second, outcome>>

GetInfo(r) == Look(r) \/ Find(r) \/ AskInfo(r)

-----------------------------------------------------------------------------
(* Exec, Logs and containerAction.                                         *)

\* The page is there and opens its websocket.
Connect(v) ==
  /\ v \notin gone
  /\ Goto(v, "page", "idle")
  /\ second' = second \union {v}
  /\ UNCHANGED <<network, cache, list, place, answer, kept, outcome>>

\* Exec, unless the answer is no container or has no shell.
Exec(v) ==
  LET a == answer[v] IN
  /\ Goto(v, "opening", "done")
  /\ reached' = [reached EXCEPT ![v] =
       IF a # Absent /\ a.shell /\ Connects(v, a.at) THEN a.at ELSE Nowhere]
  /\ answer' = [answer EXCEPT ![v] = Absent]
  /\ UNCHANGED <<network, cache, list, place, second, kept, told>>

\* Logs and containerAction begin with a Find of their own.
Locate(r) ==
  LET entry == cache[want[r]] IN
  /\ pc[r] = IF r \in Operators THEN "idle" ELSE "locating"
  /\ \/ /\ entry # Absent /\ entry.at \in clients
        /\ pc' = [pc EXCEPT ![r] = "calling"]
        /\ place' = [place EXCEPT ![r] = entry.at]
        /\ UNCHANGED told
     \/ /\ ~(entry # Absent /\ entry.at \in clients)
        /\ pc' = [pc EXCEPT ![r] = "done"]
        /\ told' = IF r \in Operators THEN [told EXCEPT ![r] = "error"] ELSE told
        /\ UNCHANGED place
  /\ UNCHANGED <<network, cache, list, answer, second, kept, reached>>

\* The Logs of the server.
ReadLogs(r) ==
  /\ Goto(r, "calling", "done")
  /\ reached' = [reached EXCEPT ![r] = IF Connects(r, place[r]) THEN place[r] ELSE Nowhere]
  /\ place' = [place EXCEPT ![r] = Nowhere]
  /\ UNCHANGED <<network, cache, list, answer, second, kept, told>>

\* What the client has of a reply: nil cannot be sent, so that it arrives as the
\* error of the call or as an empty message.
OnTheWire(reply) == IF reply = Nil THEN {"failed", "empty"} ELSE {reply}

\* Start, Stop and Restart of the server return nil when they succeed.  The client
\* takes an error of the call and a message for failures.
Act(o) ==
  /\ Goto(o, "calling", "done")
  /\ \/ /\ Connects(o, place[o])
        /\ \E reply \in {Nil, "Err"} : \E got \in OnTheWire(reply) :
             /\ reached' = [reached EXCEPT ![o] = IF reply = Nil THEN place[o] ELSE Nowhere]
             /\ told' = [told EXCEPT ![o] = IF got = Nil THEN "success" ELSE "error"]
     \/ /\ ~Connects(o, place[o])
        /\ told' = [told EXCEPT ![o] = "error"]
        /\ UNCHANGED reached
  /\ place' = [place EXCEPT ![o] = Nowhere]
  /\ UNCHANGED <<network, cache, list, answer, second, kept>>

-----------------------------------------------------------------------------
\* Every request was answered and the network is quiet.
Quiet ==
  /\ \A r \in Requests : pc[r] = "done" \/ (pc[r] = "page" /\ r \in gone)
  /\ flips = MaxFlips
  /\ UNCHANGED vars

Next ==
  \/ \E s \in Servers : Flip(s)
  \/ \E r \in Requests : Leave(r) \/ SetList(r) \/ \E s \in Servers : AskServer(r, s)
  \/ \E v \in Visitors : GetInfo(v)
  \/ \E p \in Pages : OpenPage(p)
  \/ \E v \in Visitors : Connect(v) \/ Exec(v) \/ ReadLogs(v)
  \/ \E r \in Visitors \union Operators : Locate(r)
  \/ \E o \in Operators : Act(o)
  \/ Quiet

Spec == Init /\ [][Next]_vars

-----------------------------------------------------------------------------
(* Properties.                                                             *)

\* Every variable has its type.
TypeOK ==
  /\ clients \subseteq Servers /\ up \subseteq Servers
  /\ flips \in 0 .. MaxFlips
  /\ cache \in [Containers -> Entries \union {Absent}]
  /\ pc \in [Requests -> {"idle", "listing", "finding", "asking", "page", "opening",
                          "locating", "calling", "done"}]
  /\ gone \subseteq Requests
  /\ want \in [Visitors \union Operators -> Containers]
  /\ todo \in [Requests -> SUBSET clients]
  /\ built \in [Requests -> [Containers -> Entries \union {Absent}]]
  /\ missed \in [Requests -> SUBSET clients]
  /\ place \in [Requests -> Servers \union {Nowhere}]
  /\ answer \in [Visitors -> Answers]
  /\ second \subseteq Visitors /\ kept \subseteq Visitors
  /\ reached \in [Requests -> Servers \union {Nowhere}]
  /\ told \in [Operators -> {"nothing", "error", "success"}]

\* However the lists of several pages race with each other and with lookups:
\* an exec, a log and an action are carried out by a server that has the
\* container, never by another one that answers too.
WorkReachesHome ==
  \A r \in Visitors \union Operators :
    reached[r] # Nowhere => reached[r] \in Homes[want[r]]

\* A websocket gets a container that Exec can locate, if the shell that its
\* page found is still in the cache: only a list that replaced the cache in
\* between, or a lookup of another request that found no shell, has it ask the
\* server again and get an answer without a location.
LocatedAgain ==
  [][\A v \in second \cap kept :
       pc[v] # "opening" /\ pc'[v] = "opening" => answer'[v] \in Entries]_vars

\* A list that some servers did not answer, or whose browser left half-way,
\* still has every container of each server that answered it.
ListHasTheRest ==
  [][\A r \in Requests, c \in Containers :
       SetList(r) /\ cache'[c] = Absent => Homes[c] \cap clients \subseteq missed[r]]_vars

-----------------------------------------------------------------------------
(* What a message of the code promises and the code does not do.           *)

\* route/handler.go:91, "%s container %s successfully": the operator is told of
\* an action that a server carried out.
SuccessIsTold ==
  \A o \in Operators : pc[o] = "done" /\ told[o] = "error" => reached[o] = Nowhere
=============================================================================
