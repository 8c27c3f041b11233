---------------------------- MODULE DockerBackend ----------------------------
(***************************************************************************)
(* The containers that the Docker backend knows (types/containers.go and   *)
(* container/docker/docker.go).  The cache is replaced as a whole by       *)
(* refreshes (listContainers, run by the event watcher, by the index page  *)
(* and by a lookup that finds it empty) and amended by lookups (GetInfo),  *)
(* each of them a goroutine of its own.  The lock of the cache is only     *)
(* held inside Set, Append, Find and SetShell; the calls to the daemon in  *)
(* between are slow and may fail.                                          *)
(*                                                                         *)
(* Of a container the cache's entries are told apart by their shell, a     *)
(* place in config.SHELL_LIST.  Every container has two entries, under its *)
(* ID and under the first 12 characters of it.  The ID that a request asks *)
(* for may be either, or a longer or a shorter prefix; all of them name    *)
(* one container only.                                                     *)
(***************************************************************************)
EXTENDS Naturals, FiniteSets

CONSTANTS
  Containers,
  Has,         \* the shells that exist in each container
  Forms,       \* which forms of an ID the lookups use
  Lookups,     \* requests that call GetInfo once
  Pages,       \* requests of the index page, which call List once
  Watcher,     \* the goroutine that warms up and then handles events
  MaxChanges,  \* bound: how often a container is started or destroyed
  NoShell,     \* Container.Shell = ""
  Absent       \* no entry in the cache

SHELL_LIST == 1 .. 3

ASSUME DockerAssumption ==
  /\ Has \in [Containers -> SUBSET SHELL_LIST]
  /\ Forms \subseteq {"whole", "short", "longer", "shorter"}
  /\ Lookups \cap Pages = {}
  /\ Watcher \notin Lookups \union Pages
  /\ MaxChanges \in Nat
  /\ NoShell \notin Nat
  /\ Absent \notin Nat \union {NoShell}

VARIABLES
  running,     \* the containers that the daemon lists
  changes,     \* how often they changed
  events,      \* events that the watcher has yet to handle
  subscribed,  \* watchEvents asked the daemon for events
  byID,        \* Containers.c, the entries under the whole IDs
  byShort,     \* Containers.c, the entries under 12 characters
  listed,      \* Containers.cs: how often each container is in the list
  fresh,       \* lastList is less than a minute ago
  pc,          \* where each goroutine is
  want,        \* GetInfo: the container and the form of the ID it is asked for
  shell,       \* the local variable shell of GetInfo and of listContainers
  todo,        \* listContainers: answers of the daemon not yet converted ...
  built,       \* ... and the entries built from the others
  steady,      \* history: no daemon call of the lookup failed, and its container ran
  touched      \* history: containers whose entries others wrote during the refresh

vars == <<running, changes, events, subscribed, byID, byShort, listed, fresh,
          pc, want, shell, todo, built, steady, touched>>
daemon == <<running, changes, events, subscribed>>
cache == <<byID, byShort, listed>>
refresh == <<todo, built>>

Workers == Lookups \union Pages \union {Watcher}
Shells == UNION {Has[c] : c \in Containers}
Entries == Shells \union {NoShell, Absent}

Init ==
  /\ running \in SUBSET Containers
  /\ changes = 0
  /\ events = 0
  /\ subscribed = FALSE
  /\ byID = [c \in Containers |-> Absent]
  /\ byShort = [c \in Containers |-> Absent]
  /\ listed = [c \in Containers |-> 0]
  /\ fresh = FALSE
  /\ pc = [w \in Workers |-> IF w = Watcher THEN "asking" ELSE "idle"]
  /\ want \in [Lookups -> Containers \X Forms]
  /\ shell = [w \in Workers |-> NoShell]
  /\ todo = [w \in Workers |-> {}]
  /\ built = [w \in Workers |-> [c \in Containers |-> Absent]]
  /\ steady = [q \in Lookups |-> TRUE]
  /\ touched = [w \in Workers |-> {}]

Goto(w, from, to) == pc[w] = from /\ pc' = [pc EXCEPT ![w] = to]

\* The entries of C are written while other refreshes are under way.
Touch(C, others) ==
  touched' = [w \in Workers |-> IF w \in others /\ pc[w] = "copying" THEN touched[w] \union C
                                ELSE IF w \in others THEN touched[w] ELSE {}]

-----------------------------------------------------------------------------
(* The daemon.  events counts the starts and the destructions.             *)

Changed ==
  /\ changes < MaxChanges
  /\ changes' = changes + 1
  /\ UNCHANGED <<subscribed, cache, fresh, pc, want, shell, refresh, touched>>

Start(c) ==
  /\ c \notin running
  /\ running' = running \union {c}
  /\ events' = IF subscribed THEN events + 1 ELSE events
  /\ UNCHANGED steady
  /\ Changed

\* A container stops, which is no event to the watcher, or is destroyed.
Stop(c) ==
  /\ c \in running
  /\ running' = running \ {c}
  /\ events' \in {events, IF subscribed THEN events + 1 ELSE events}
  /\ steady' = [q \in Lookups |-> steady[q] /\ (pc[q] = "idle" \/ want[q][1] # c)]
  /\ Changed

\* A minute passes.
Age ==
  /\ fresh
  /\ fresh' = FALSE
  /\ UNCHANGED <<daemon, cache, pc, want, shell, refresh, steady, touched>>

-----------------------------------------------------------------------------
(* listContainers.                                                         *)

\* Where the caller of listContainers goes on.
AfterList(w) ==
  IF w \in Lookups THEN "finding"
  ELSE IF w \in Pages THEN "done"
  ELSE IF subscribed THEN "watching" ELSE "subscribing"

\* ContainerList answers.
Ask(w) ==
  /\ Goto(w, "asking", "copying")
  /\ todo' = [todo EXCEPT ![w] = running]
  /\ UNCHANGED <<daemon, cache, fresh, want, shell, built, steady, touched>>

\* ContainerList fails: nothing is stored.
AskFails(w) ==
  /\ Goto(w, "asking", AfterList(w))
  /\ UNCHANGED <<daemon, cache, fresh, want, shell, refresh, steady, touched>>

\* Faulty variant: what the cache knows of the container is not looked at.
CopyForgets(w, c) ==
  /\ pc[w] = "copying"
  /\ c \in todo[w]
  /\ todo' = [todo EXCEPT ![w] = @ \ {c}]
  /\ built' = [built EXCEPT ![w][c] = shell[w]]
  /\ UNCHANGED <<daemon, cache, fresh, pc, want, shell, steady, touched>>

\* One turn of the loop.  shell is declared outside of it: a container that is
\* not in the cache gets what the one before it has.
Copy(w, c) ==
  /\ pc[w] = "copying"
  /\ c \in todo[w]
  /\ todo' = [todo EXCEPT ![w] = @ \ {c}]
  /\ shell' = [shell EXCEPT ![w] = IF byID[c] # Absent THEN byID[c] ELSE @]
  /\ built' = [built EXCEPT ![w][c] = shell'[w]]
  /\ UNCHANGED <<daemon, cache, fresh, pc, want, steady, touched>>

\* Containers.Set.  The locals of listContainers are not used again.
Store(w) ==
  /\ todo[w] = {}
  /\ Goto(w, "copying", "stamping")
  /\ byID' = built[w]
  /\ byShort' = built[w]
  /\ listed' = [c \in Containers |-> IF built[w][c] = Absent THEN 0 ELSE 1]
  /\ Touch(Containers, Workers \ {w})
  /\ built' = [built EXCEPT ![w] = [c \in Containers |-> Absent]]
  /\ shell' = [shell EXCEPT ![w] = NoShell]
  /\ UNCHANGED <<daemon, fresh, want, todo, steady>>

\* d.lastList = time.Now()
Stamp(w) ==
  /\ Goto(w, "stamping", AfterList(w))
  /\ fresh' = TRUE
  /\ UNCHANGED <<daemon, cache, want, shell, refresh, steady, touched>>

Refresh(w) ==
  \/ Ask(w) \/ AskFails(w) \/ Store(w) \/ Stamp(w)
  \/ \E c \in Containers : Copy(w, c)

-----------------------------------------------------------------------------
(* The event watcher and the index page.                                   *)

\* watchEvents begins: what happened since the first list goes unnoticed.
Subscribe ==
  /\ Goto(Watcher, "subscribing", "watching")
  /\ subscribed' = TRUE
  /\ UNCHANGED <<running, changes, events, cache, fresh, want, shell, refresh, steady, touched>>

\* Faulty variant: the loop does not wait for an event.
HandleNoEvent ==
  /\ Goto(Watcher, "watching", "asking")
  /\ events' = events - 1
  /\ UNCHANGED <<running, changes, subscribed, cache, fresh, want, shell, refresh, steady, touched>>

\* A start or destroy event: listContainers(ctx, true).
HandleEvent ==
  /\ events > 0
  /\ Goto(Watcher, "watching", "asking")
  /\ events' = events - 1
  /\ UNCHANGED <<running, changes, subscribed, cache, fresh, want, shell, refresh, steady, touched>>

\* List: the list that is there, or a new one.
OpenPage(p) ==
  /\ Goto(p, "idle", IF fresh THEN "done" ELSE "asking")
  /\ UNCHANGED <<daemon, cache, fresh, want, shell, refresh, steady, touched>>

-----------------------------------------------------------------------------
(* GetInfo.                                                                *)

Empty == \A c \in Containers : byID[c] = Absent

\* The test for an empty cache, with List if it is.
Look(q) ==
  /\ Goto(q, "idle", IF Empty /\ ~fresh THEN "asking" ELSE "finding")
  /\ steady' = [steady EXCEPT ![q] = want[q][1] \in running]
  /\ UNCHANGED <<daemon, cache, fresh, want, shell, refresh, touched>>

\* What Containers.Find makes of an ID.  A prefix of more than 12 characters
\* only fits the whole ID; a shorter one fits both entries, which makes it
\* ambiguous.
Found(c, form) ==
  CASE form = "short"   -> byShort[c]
    [] form = "shorter" -> IF byID[c] = Absent THEN byShort[c]
                           ELSE IF byShort[c] = Absent THEN byID[c] ELSE Absent
    [] OTHER            -> byID[c]

\* Faulty variant: a container that is not in the cache does not exist.
FindGivesUp(q) ==
  LET entry == Found(want[q][1], want[q][2]) IN
  /\ Goto(q, "finding", IF entry = Absent THEN "none"
                        ELSE IF entry = NoShell THEN "probing" ELSE "found")
  /\ shell' = [shell EXCEPT ![q] = IF entry = Absent THEN NoShell ELSE entry]
  /\ UNCHANGED <<daemon, cache, fresh, want, refresh, steady, touched>>

\* Find, and what is left to do: nothing, getShell, or ContainerInspect.
Find(q) ==
  LET entry == Found(want[q][1], want[q][2]) IN
  /\ Goto(q, "finding", IF entry = Absent THEN "inspecting"
                        ELSE IF entry = NoShell THEN "probing" ELSE "found")
  /\ shell' = [shell EXCEPT ![q] = IF entry = Absent THEN NoShell ELSE entry]
  /\ UNCHANGED <<daemon, cache, fresh, want, refresh, steady, touched>>

\* ContainerInspect answers, for a container that stopped as well, or it fails.
Inspect(q) ==
  /\ \/ /\ Goto(q, "inspecting", "shelling")
        /\ UNCHANGED steady
     \/ /\ Goto(q, "inspecting", "none")
        /\ steady' = [steady EXCEPT ![q] = FALSE]
  /\ UNCHANGED <<daemon, cache, fresh, want, shell, refresh, touched>>

\* getShell: the first shell of SHELL_LIST that exists in the container.
FirstShell(c) ==
  IF Has[c] = {} THEN NoShell ELSE CHOOSE s \in Has[c] : \A t \in Has[c] : s <= t

\* getShell asks the daemon for one shell after the other; a call that fails
\* counts as a shell that does not exist.
Probe(q) ==
  LET c == want[q][1] IN
  /\ Goto(q, "probing", "saving") \/ Goto(q, "shelling", "appending")
  /\ \/ /\ c \in running
        /\ shell' = [shell EXCEPT ![q] = FirstShell(c)]
        /\ UNCHANGED steady
     \/ /\ \E s \in Has[c] \union {NoShell} : shell' = [shell EXCEPT ![q] = s]
        /\ steady' = [steady EXCEPT ![q] = FALSE]
  /\ UNCHANGED <<daemon, cache, fresh, want, refresh, touched>>

\* Containers.SetShell changes the one entry whose key is the ID asked for.
SetShell(q) ==
  LET c == want[q][1] IN
  /\ Goto(q, "saving", "found")
  /\ byID' = IF want[q][2] = "whole" /\ byID[c] # Absent
               THEN [byID EXCEPT ![c] = shell[q]] ELSE byID
  /\ byShort' = IF want[q][2] = "short" /\ byShort[c] # Absent
                  THEN [byShort EXCEPT ![c] = shell[q]] ELSE byShort
  /\ Touch({c}, Workers)
  /\ UNCHANGED <<daemon, listed, fresh, want, shell, refresh, steady>>

\* Faulty variant: the container is only entered under its whole ID.
AppendWholeID(q) ==
  LET c == want[q][1] IN
  /\ Goto(q, "appending", "found")
  /\ byID' = [byID EXCEPT ![c] = shell[q]]
  /\ listed' = [listed EXCEPT ![c] = @ + 1]
  /\ Touch({c}, Workers)
  /\ UNCHANGED <<daemon, byShort, fresh, want, shell, refresh, steady>>

\* Containers.Append
AppendContainer(q) ==
  LET c == want[q][1] IN
  /\ Goto(q, "appending", "found")
  /\ byID' = [byID EXCEPT ![c] = shell[q]]
  /\ byShort' = [byShort EXCEPT ![c] = shell[q]]
  /\ listed' = [listed EXCEPT ![c] = @ + 1]
  /\ Touch({c}, Workers)
  /\ UNCHANGED <<daemon, fresh, want, shell, refresh, steady>>

GetInfo(q) == Look(q) \/ Find(q) \/ Inspect(q) \/ Probe(q) \/ SetShell(q) \/ AppendContainer(q)

-----------------------------------------------------------------------------
\* Every request was answered and the daemon is quiet.
Quiet ==
  /\ \A w \in Workers : pc[w] \in {"watching", "done", "found", "none"}
  /\ changes = MaxChanges /\ events = 0
  /\ UNCHANGED vars

Next ==
  \/ \E c \in Containers : Start(c) \/ Stop(c)
  \/ \E w \in Workers : Refresh(w)
  \/ \E q \in Lookups : GetInfo(q)
  \/ \E p \in Pages : OpenPage(p)
  \/ Age \/ Subscribe \/ HandleEvent \/ Quiet

Spec == Init /\ [][Next]_vars

-----------------------------------------------------------------------------
(* Properties.                                                             *)

\* Every variable has its type.
TypeOK ==
  /\ running \subseteq Containers
  /\ changes \in 0 .. MaxChanges
  /\ events \in Nat
  /\ subscribed \in BOOLEAN
  /\ byID \in [Containers -> Entries]
  /\ byShort \in [Containers -> Entries]
  /\ listed \in [Containers -> Nat]
  /\ fresh \in BOOLEAN
  /\ pc \in [Workers -> {"idle", "asking", "copying", "stamping", "done", "subscribing",
                         "watching", "finding", "inspecting", "shelling", "probing",
                         "saving", "appending", "found", "none"}]
  /\ want \in [Lookups -> Containers \X Forms]
  /\ shell \in [Workers -> Shells \union {NoShell}]
  /\ todo \in [Workers -> SUBSET Containers]
  /\ built \in [Workers -> [Containers -> Entries]]
  /\ steady \in [Lookups -> BOOLEAN]
  /\ touched \in [Workers -> SUBSET Containers]

\* A container is under both its keys, and in the list, or nowhere, whoever
\* replaces and amends the cache at the same time.
KeysAgree ==
  \A c \in Containers :
    /\ byID[c] = Absent <=> byShort[c] = Absent
    /\ byID[c] = Absent <=> listed[c] = 0

\* However stale the cache is, and whatever form of the ID is used: a lookup
\* of a container that runs, while the daemon answers, finds the container,
\* and with a shell if there is one in it.
LookupFinds ==
  \A q \in Lookups : steady[q] =>
    /\ pc[q] # "none"
    /\ pc[q] = "found" /\ Has[want[q][1]] # {} => shell[q] # NoShell

\* A refresh forgets no shell that the cache knew under the whole ID, unless
\* someone else wrote that entry while the refresh was under way.
RefreshKeepsShells ==
  [][\A w \in Workers, c \in Containers :
       Store(w) /\ c \notin touched[w] /\ byID[c] \in Shells
         => byID'[c] \in {byID[c], Absent}]_vars

\* README.md:184, "It will execute `/bin/sh` if there is no `/bin/bash` inside
\* the container": a lookup answers with a shell of that container.
OwnShell ==
  \A q \in Lookups : pc[q] = "found" => shell[q] \in Has[want[q][1]] \union {NoShell}
=============================================================================
