----------------------------- MODULE DockerProofs -----------------------------
(***************************************************************************)
(* Proofs about DockerBackend, for every set of containers, of shells in   *)
(* them, of lookups and of pages: its types, that the keys of the cache    *)
(* agree, what a lookup finds, and what a refresh keeps; and about the     *)
(* parser of DockerLogs, for every buffer and all messages: its types, and *)
(* that the messages of whole frames are shown.                            *)
(***************************************************************************)
EXTENDS DockerBackend, DockerLogs, SequenceTheorems, TLAPS

\* The entries of a refresh that are built only last until it stores them.
BuiltOnlyCopying ==
  \A w \in Workers, c \in Containers : pc[w] # "copying" => built[w][c] = Absent

\* What a refresh has built of a container that nobody else wrote agrees with
\* the cache, if the cache knows a shell of it.
BuiltAgrees ==
  \A w \in Workers, c \in Containers :
    pc[w] = "copying" /\ c \notin touched[w] /\ built[w][c] # Absent /\ byID[c] \in Shells
      => built[w][c] = byID[c]

\* A lookup that was not disturbed knows a shell from the moment it probed.
KnowsShell ==
  \A q \in Lookups :
    steady[q] /\ pc[q] \in {"saving", "appending", "found"} /\ Has[want[q][1]] # {}
      => shell[q] # NoShell

\* A lookup that was not disturbed does not come out empty.
NotNone == \A q \in Lookups : steady[q] => pc[q] # "none"

-----------------------------------------------------------------------------
(* Constants and operators.                                                *)

\* Shells are distinct from the two marks.
LEMMA Marks == NoShell \notin Shells /\ Absent \notin Shells /\ NoShell # Absent
  BY DockerAssumption DEF Shells, SHELL_LIST

\* Every entry is a shell or one of the marks.
LEMMA EntryCases ==
  ASSUME NEW e \in Entries
  PROVE  /\ e # Absent => e \in Shells \union {NoShell}
         /\ e # Absent /\ e # NoShell => e \in Shells
  BY DEF Entries

\* The first shell of a container that has one is a shell of it.
LEMMA FirstShellExists ==
  ASSUME NEW c \in Containers
  PROVE  /\ FirstShell(c) \in Shells \union {NoShell}
         /\ Has[c] # {} => FirstShell(c) # NoShell
<1>1. Has[c] \subseteq 1 .. 3 /\ Has[c] \subseteq Shells
  BY DockerAssumption DEF Shells, SHELL_LIST
<1>2. CASE Has[c] = {}
  BY <1>2 DEF FirstShell
<1>3. CASE Has[c] # {}
  <2>1. \E s \in Has[c] : \A t \in Has[c] : s <= t
    <3>1. CASE 1 \in Has[c]
      BY <1>1, <3>1
    <3>2. CASE 1 \notin Has[c] /\ 2 \in Has[c]
      BY <1>1, <3>2
    <3>3. CASE 1 \notin Has[c] /\ 2 \notin Has[c]
      <4>1. \A s \in Has[c] : s = 3
        BY <1>1, <3>3
      <4> QED
        BY <4>1, <1>3
    <3> QED
      BY <3>1, <3>2, <3>3
  <2>2. FirstShell(c) \in Has[c]
    BY <2>1, <1>3 DEF FirstShell
  <2> QED
    BY <2>2, <1>1, Marks
<1> QED
  BY <1>2, <1>3

\* What Find makes of an ID is an entry.
LEMMA FoundEntry ==
  ASSUME TypeOK, NEW c \in Containers, NEW f \in Forms
  PROVE  Found(c, f) \in Entries
  BY DEF TypeOK, Found, Entries

\* Lookups and pages are workers, and the watcher is none of them.
LEMMA WorkerKinds ==
  /\ Lookups \subseteq Workers /\ Pages \subseteq Workers /\ Watcher \in Workers
  /\ Watcher \notin Lookups /\ Watcher \notin Pages /\ Lookups \cap Pages = {}
  BY DockerAssumption DEF Workers

-----------------------------------------------------------------------------
(* Types.                                                                  *)

LEMMA TypeInit == Init => TypeOK
<1> SUFFICES ASSUME Init PROVE TypeOK
  OBVIOUS
<1> USE WorkerKinds
<1>1. running \subseteq Containers /\ events \in Nat /\ subscribed \in BOOLEAN /\ fresh \in BOOLEAN
  BY DEF Init
<1>5. changes \in 0 .. MaxChanges
  <2>1. MaxChanges \in Nat
    BY DockerAssumption
  <2> QED
    BY <2>1 DEF Init
<1>2. byID \in [Containers -> Entries] /\ byShort \in [Containers -> Entries]
      /\ listed \in [Containers -> Nat] /\ built \in [Workers -> [Containers -> Entries]]
  BY DEF Init, Entries
<1>3. want \in [Lookups -> Containers \X Forms] /\ shell \in [Workers -> Shells \union {NoShell}]
      /\ todo \in [Workers -> SUBSET Containers] /\ steady \in [Lookups -> BOOLEAN]
      /\ touched \in [Workers -> SUBSET Containers]
  BY DEF Init
<1>4. pc \in [Workers -> {"idle", "asking", "copying", "stamping", "done", "subscribing",
                         "watching", "finding", "inspecting", "shelling", "probing",
                         "saving", "appending", "found", "none"}]
  BY DEF Init
<1> QED
  BY <1>1, <1>2, <1>3, <1>4, <1>5 DEF TypeOK

\* Touching entries keeps the type of the history.
LEMMA TouchType ==
  ASSUME TypeOK, NEW C \in SUBSET Containers, NEW W, Touch(C, W)
  PROVE  touched' \in [Workers -> SUBSET Containers]
  BY DEF TypeOK, Touch

LEMMA TypeStep == TypeOK /\ [Next]_vars => TypeOK'
<1> SUFFICES ASSUME TypeOK, [Next]_vars PROVE TypeOK'
  OBVIOUS
<1> USE WorkerKinds
<1>1. ASSUME NEW c \in Containers, Start(c) \/ Stop(c) PROVE TypeOK'
  <2>1. changes' \in 0 .. MaxChanges
    <3>1. MaxChanges \in Nat
      BY DockerAssumption
    <3> QED
      BY <1>1, <3>1 DEF TypeOK, Start, Stop, Changed
  <2>2. events' \in Nat
    BY <1>1 DEF TypeOK, Start, Stop
  <2>3. steady' \in [Lookups -> BOOLEAN]
    BY <1>1 DEF TypeOK, Start, Stop
  <2>4. running' \subseteq Containers
    BY <1>1 DEF TypeOK, Start, Stop
  <2>5. UNCHANGED <<subscribed, byID, byShort, listed, fresh, pc, want, shell, todo, built, touched>>
    BY <1>1 DEF Start, Stop, Changed, cache, refresh
  <2> QED
    BY <2>1, <2>2, <2>3, <2>4, <2>5 DEF TypeOK
<1>2. ASSUME NEW w \in Workers, Refresh(w) PROVE TypeOK'
  <2>0. AfterList(w) \in {"finding", "done", "watching", "subscribing"}
    BY DEF AfterList
  <2>1. CASE Ask(w)
    BY <2>1 DEF TypeOK, Ask, Goto, daemon, cache
  <2>2. CASE AskFails(w)
    BY <2>2, <2>0 DEF TypeOK, AskFails, Goto, daemon, cache, refresh
  <2>3. CASE Store(w)
    <3>1. built[w] \in [Containers -> Entries]
      BY DEF TypeOK
    <3>2. byID' \in [Containers -> Entries] /\ byShort' \in [Containers -> Entries]
          /\ listed' \in [Containers -> Nat]
      BY <2>3, <3>1 DEF Store
    <3>3. built' \in [Workers -> [Containers -> Entries]] /\ shell' \in [Workers -> Shells \union {NoShell}]
      BY <2>3 DEF Store, TypeOK, Entries
    <3>4. touched' \in [Workers -> SUBSET Containers]
      BY <2>3, TouchType DEF Store
    <3> QED
      BY <2>3, <3>2, <3>3, <3>4 DEF TypeOK, Store, Goto, daemon, cache, refresh
  <2>4. CASE Stamp(w)
    BY <2>4, <2>0 DEF TypeOK, Stamp, Goto, daemon, cache, refresh
  <2>5. ASSUME NEW c \in Containers, Copy(w, c) PROVE TypeOK'
    <3>1. shell' \in [Workers -> Shells \union {NoShell}]
      BY <2>5, EntryCases DEF Copy, TypeOK
    <3>2. built' \in [Workers -> [Containers -> Entries]]
      BY <2>5, <3>1 DEF Copy, TypeOK, Entries
    <3> QED
      BY <2>5, <3>1, <3>2 DEF TypeOK, Copy, daemon, cache
  <2> QED
    BY <1>2, <2>1, <2>2, <2>3, <2>4, <2>5 DEF Refresh
<1>3. ASSUME NEW q \in Lookups, GetInfo(q) PROVE TypeOK'
  <2>0. want[q][1] \in Containers /\ want[q][2] \in Forms
    BY DEF TypeOK
  <2>1. CASE Look(q)
    BY <2>1 DEF TypeOK, Look, Goto, daemon, cache, refresh
  <2>2. CASE Find(q)
    <3>1. Found(want[q][1], want[q][2]) \in Entries
      BY <2>0, FoundEntry
    <3>2. shell' \in [Workers -> Shells \union {NoShell}]
      BY <2>2, <3>1, EntryCases DEF Find, TypeOK
    <3> QED
      BY <2>2, <3>2 DEF TypeOK, Find, Goto, daemon, cache, refresh
  <2>3. CASE Inspect(q)
    BY <2>3 DEF TypeOK, Inspect, Goto, daemon, cache, refresh
  <2>4. CASE Probe(q)
    <3>1. FirstShell(want[q][1]) \in Shells \union {NoShell} /\ Has[want[q][1]] \subseteq Shells
      BY <2>0, FirstShellExists DEF Shells
    <3>2. shell' \in [Workers -> Shells \union {NoShell}]
      BY <2>4, <3>1 DEF Probe, TypeOK
    <3>3. steady' \in [Lookups -> BOOLEAN]
      BY <2>4 DEF Probe, TypeOK
    <3>4. pc' \in [Workers -> {"idle", "asking", "copying", "stamping", "done", "subscribing",
                               "watching", "finding", "inspecting", "shelling", "probing",
                               "saving", "appending", "found", "none"}]
      BY <2>4 DEF Probe, Goto, TypeOK
    <3>5. UNCHANGED <<running, changes, events, subscribed, byID, byShort, listed, fresh, want,
                      todo, built, touched>>
      BY <2>4 DEF Probe, daemon, cache, refresh
    <3> QED
      BY <3>2, <3>3, <3>4, <3>5 DEF TypeOK
  <2>5. CASE SetShell(q)
    <3>1. touched' \in [Workers -> SUBSET Containers]
      BY <2>0, <2>5, TouchType DEF SetShell
    <3>2. shell[q] \in Entries
      BY DEF TypeOK, Entries
    <3>3. byID' \in [Containers -> Entries] /\ byShort' \in [Containers -> Entries]
      BY <2>5, <3>2 DEF SetShell, TypeOK
    <3> QED
      BY <2>5, <3>1, <3>3 DEF TypeOK, SetShell, Goto, daemon, refresh
  <2>6. CASE AppendContainer(q)
    <3>1. touched' \in [Workers -> SUBSET Containers]
      BY <2>0, <2>6, TouchType DEF AppendContainer
    <3>2. shell[q] \in Entries
      BY DEF TypeOK, Entries
    <3>3. byID' \in [Containers -> Entries] /\ byShort' \in [Containers -> Entries]
          /\ listed' \in [Containers -> Nat]
      BY <2>6, <3>2 DEF AppendContainer, TypeOK
    <3> QED
      BY <2>6, <3>1, <3>3 DEF TypeOK, AppendContainer, Goto, daemon, refresh
  <2> QED
    BY <1>3, <2>1, <2>2, <2>3, <2>4, <2>5, <2>6 DEF GetInfo
<1>4. ASSUME NEW page \in Pages, OpenPage(page) PROVE TypeOK'
  BY <1>4 DEF TypeOK, OpenPage, Goto, daemon, cache, refresh
<1>5. CASE Age
  BY <1>5 DEF TypeOK, Age, daemon, cache, refresh
<1>6. CASE Subscribe
  BY <1>6 DEF TypeOK, Subscribe, Goto, cache, refresh
<1>7. CASE HandleEvent
  <2>1. events' \in Nat
    BY <1>7 DEF TypeOK, HandleEvent
  <2> QED
    BY <1>7, <2>1 DEF TypeOK, HandleEvent, Goto, cache, refresh
<1>8. CASE Quiet \/ UNCHANGED vars
  BY <1>8 DEF TypeOK, Quiet, vars, daemon, cache, refresh
<1> QED
  BY <1>1, <1>2, <1>3, <1>4, <1>5, <1>6, <1>7, <1>8 DEF Next

-----------------------------------------------------------------------------
(* Both keys: Set and Append write them together, and SetShell writes one  *)
(* of them, but only over an entry that is there.                          *)

LEMMA KeysStep == TypeOK /\ KeysAgree /\ [Next]_vars => KeysAgree'
<1> SUFFICES ASSUME TypeOK, KeysAgree, [Next]_vars PROVE KeysAgree'
  OBVIOUS
<1> USE WorkerKinds, Marks
<1>1. CASE UNCHANGED cache
  BY <1>1 DEF KeysAgree, cache
<1>2. ASSUME NEW w \in Workers, Store(w) PROVE KeysAgree'
  BY <1>2 DEF KeysAgree, Store
<1>3. ASSUME NEW q \in Lookups PROVE shell[q] # Absent /\ want[q][1] \in Containers
  BY <1>3 DEF TypeOK
<1>4. ASSUME NEW q \in Lookups, SetShell(q) PROVE KeysAgree'
  BY <1>3, <1>4 DEF KeysAgree, SetShell, TypeOK
<1>5. ASSUME NEW q \in Lookups, AppendContainer(q) PROVE KeysAgree'
  <2> DEFINE d == want[q][1]
  <2>1. byID' = [byID EXCEPT ![d] = shell[q]] /\ byShort' = [byShort EXCEPT ![d] = shell[q]]
        /\ listed' = [listed EXCEPT ![d] = @ + 1]
    BY <1>5 DEF AppendContainer
  <2>2. SUFFICES ASSUME NEW c \in Containers
                 PROVE (byID'[c] = Absent <=> byShort'[c] = Absent)
                       /\ (byID'[c] = Absent <=> listed'[c] = 0)
    BY DEF KeysAgree
  <2>3. CASE c = d
    <3>1. byID'[c] = shell[q] /\ byShort'[c] = shell[q]
      BY <2>1, <2>3 DEF TypeOK
    <3>2. listed[c] \in Nat /\ listed'[c] = listed[c] + 1
      BY <2>1, <2>3 DEF TypeOK
    <3>3. listed'[c] # 0
      BY <3>2
    <3> QED
      BY <3>1, <3>3, <1>3
  <2>4. CASE c # d
    <3>1. byID'[c] = byID[c] /\ byShort'[c] = byShort[c] /\ listed'[c] = listed[c]
      BY <2>1, <2>4 DEF TypeOK
    <3> QED
      BY <3>1 DEF KeysAgree
  <2> QED
    BY <2>3, <2>4
<1>6. CASE Age \/ Subscribe \/ HandleEvent \/ Quiet \/ UNCHANGED vars
  BY <1>1, <1>6 DEF Age, Subscribe, HandleEvent, Quiet, vars, cache
<1>7. ASSUME NEW c \in Containers, Start(c) \/ Stop(c) PROVE KeysAgree'
  BY <1>1, <1>7 DEF Start, Stop, Changed
<1>8. ASSUME NEW page \in Pages, OpenPage(page) PROVE KeysAgree'
  BY <1>1, <1>8 DEF OpenPage
<1>9. ASSUME NEW w \in Workers, Refresh(w) PROVE KeysAgree'
  BY <1>1, <1>2, <1>9 DEF Refresh, Ask, AskFails, Stamp, Copy
<1>10. ASSUME NEW q \in Lookups, GetInfo(q) PROVE KeysAgree'
  BY <1>1, <1>4, <1>5, <1>10 DEF GetInfo, Look, Find, Inspect, Probe
<1> QED
  BY <1>6, <1>7, <1>8, <1>9, <1>10 DEF Next

-----------------------------------------------------------------------------
(* Lookups.  What one lookup knows is only changed by its own steps: no    *)
(* other step makes it undisturbed, or touches its pc or its shell.        *)

LookupInv == KnowsShell /\ NotNone

\* A step that leaves the lookups alone, or only disturbs them.
LEMMA LookupFrame ==
  ASSUME LookupInv,
         \A q \in Lookups :
           pc'[q] = pc[q] /\ shell'[q] = shell[q] /\ want'[q] = want[q] /\ (steady'[q] => steady[q])
  PROVE  LookupInv'
  BY DEF LookupInv, KnowsShell, NotNone

\* A step of one lookup has to establish the invariant for it alone.
LEMMA LookupOwnStep ==
  ASSUME TypeOK, LookupInv, NEW q \in Lookups,
         want' = want,
         \A r \in Lookups \ {q} : pc'[r] = pc[r] /\ shell'[r] = shell[r] /\ steady'[r] = steady[r],
         steady'[q] /\ pc'[q] \in {"saving", "appending", "found"} /\ Has[want[q][1]] # {}
           => shell'[q] # NoShell,
         steady'[q] => pc'[q] # "none"
  PROVE  LookupInv'
  BY DEF LookupInv, KnowsShell, NotNone

LEMMA LookupStep == TypeOK /\ LookupInv /\ [Next]_vars => LookupInv'
<1> SUFFICES ASSUME TypeOK, LookupInv, [Next]_vars PROVE LookupInv'
  OBVIOUS
<1> USE WorkerKinds
<1>1. CASE Age \/ Quiet \/ UNCHANGED vars
  BY <1>1, LookupFrame DEF Age, Quiet, vars
<1>2. CASE Subscribe \/ HandleEvent
  <2>1. \A q \in Lookups : pc'[q] = pc[q]
    BY <1>2 DEF Subscribe, HandleEvent, Goto, TypeOK
  <2> QED
    BY <1>2, <2>1, LookupFrame DEF Subscribe, HandleEvent
<1>3. ASSUME NEW c \in Containers, Start(c) \/ Stop(c) PROVE LookupInv'
  <2>1. \A q \in Lookups : steady'[q] => steady[q]
    BY <1>3 DEF Start, Stop, TypeOK
  <2> QED
    BY <1>3, <2>1, LookupFrame DEF Start, Stop, Changed
<1>4. ASSUME NEW page \in Pages, OpenPage(page) PROVE LookupInv'
  <2>1. \A q \in Lookups : pc'[q] = pc[q]
    BY <1>4 DEF OpenPage, Goto, TypeOK
  <2> QED
    BY <1>4, <2>1, LookupFrame DEF OpenPage
<1>5. ASSUME NEW w \in Workers, Refresh(w) PROVE LookupInv'
  <2>1. want' = want /\ steady' = steady
        /\ \A r \in Workers \ {w} : pc'[r] = pc[r] /\ shell'[r] = shell[r]
    BY <1>5 DEF Refresh, Ask, AskFails, Store, Stamp, Copy, Goto, TypeOK
  <2>2. CASE w \notin Lookups
    BY <2>1, <2>2, LookupFrame
  <2>3. CASE w \in Lookups
    <3>1. pc'[w] \in {"asking", "copying", "stamping", "finding"}
      BY <1>5, <2>3 DEF Refresh, Ask, AskFails, Store, Stamp, Copy, Goto, TypeOK, AfterList
    <3> QED
      BY <2>1, <2>3, <3>1, LookupOwnStep
  <2> QED
    BY <2>2, <2>3
<1>6. ASSUME NEW q \in Lookups, GetInfo(q) PROVE LookupInv'
  <2>1. want' = want
        /\ \A r \in Lookups \ {q} : pc'[r] = pc[r] /\ shell'[r] = shell[r] /\ steady'[r] = steady[r]
    BY <1>6 DEF GetInfo, Look, Find, Inspect, Probe, SetShell, AppendContainer, Goto, TypeOK
  <2>2. SUFFICES /\ steady'[q] /\ pc'[q] \in {"saving", "appending", "found"} /\ Has[want[q][1]] # {}
                      => shell'[q] # NoShell
                 /\ steady'[q] => pc'[q] # "none"
    BY <2>1, LookupOwnStep
  <2>3. want[q][1] \in Containers /\ want[q][2] \in Forms
    BY DEF TypeOK
  <2>4. CASE Look(q)
    <3>1. pc'[q] \in {"asking", "finding"}
      BY <2>4 DEF Look, Goto, TypeOK
    <3> QED
      BY <3>1
  <2>5. CASE Find(q)
    <3> DEFINE entry == Found(want[q][1], want[q][2])
    <3>1. pc'[q] = IF entry = Absent THEN "inspecting" ELSE IF entry = NoShell THEN "probing" ELSE "found"
      BY <2>5 DEF Find, Goto, TypeOK
    <3>2. shell'[q] = IF entry = Absent THEN NoShell ELSE entry
      BY <2>5 DEF Find, TypeOK
    <3> QED
      BY <3>1, <3>2
  <2>6. CASE Inspect(q)
    <3>1. pc'[q] = "shelling" \/ (pc'[q] = "none" /\ ~steady'[q])
      BY <2>6 DEF Inspect, Goto, TypeOK
    <3> QED
      BY <3>1
  <2>7. CASE Probe(q)
    <3>1. pc'[q] \in {"saving", "appending"}
      BY <2>7 DEF Probe, Goto, TypeOK
    <3>2. shell'[q] = FirstShell(want[q][1]) \/ ~steady'[q]
      BY <2>7 DEF Probe, TypeOK
    <3> QED
      BY <2>3, <3>1, <3>2, FirstShellExists
  <2>8. CASE SetShell(q) \/ AppendContainer(q)
    <3>1. pc[q] \in {"saving", "appending"} /\ pc'[q] = "found"
          /\ shell'[q] = shell[q] /\ steady'[q] = steady[q]
      BY <2>8 DEF SetShell, AppendContainer, Goto, TypeOK
    <3> QED
      BY <3>1 DEF LookupInv, KnowsShell
  <2> QED
    BY <1>6, <2>4, <2>5, <2>6, <2>7, <2>8 DEF GetInfo
<1> QED
  BY <1>1, <1>2, <1>3, <1>4, <1>5, <1>6 DEF Next

-----------------------------------------------------------------------------
(* Refreshes.  Three kinds of steps matter to a refresh that is under way: *)
(* its own Copy, the steps that write the cache, which leave a mark in     *)
(* touched, and all others, which change nothing that it reads or builds.  *)

RefreshInv == BuiltOnlyCopying /\ BuiltAgrees

\* A step that neither writes the cache nor enters or leaves "copying".
LEMMA RefreshFrame ==
  ASSUME RefreshInv, UNCHANGED <<byID, built, touched>>,
         \A w \in Workers : pc'[w] = "copying" <=> pc[w] = "copying"
  PROVE  RefreshInv'
  BY DEF RefreshInv, BuiltOnlyCopying, BuiltAgrees

\* A lookup that writes the entry of c marks it in every refresh under way.
LEMMA WriteEntry ==
  ASSUME TypeOK, RefreshInv, NEW c \in Containers, Touch({c}, Workers), built' = built,
         \A d \in Containers \ {c} : byID'[d] = byID[d],
         \A w \in Workers : pc'[w] = "copying" <=> pc[w] = "copying"
  PROVE  RefreshInv'
<1>1. \A w \in Workers : pc[w] = "copying" => touched'[w] = touched[w] \union {c}
  BY DEF Touch
<1>2. BuiltOnlyCopying'
  BY DEF RefreshInv, BuiltOnlyCopying
<1>3. ASSUME NEW w \in Workers, NEW d \in Containers, pc'[w] = "copying", d \notin touched'[w]
      PROVE  pc[w] = "copying" /\ d \notin touched[w] /\ byID'[d] = byID[d]
  BY <1>1, <1>3
<1>4. BuiltAgrees'
  BY <1>3 DEF RefreshInv, BuiltAgrees
<1> QED
  BY <1>2, <1>4 DEF RefreshInv

LEMMA RefreshStep == TypeOK /\ RefreshInv /\ [Next]_vars => RefreshInv'
<1> SUFFICES ASSUME TypeOK, RefreshInv, [Next]_vars PROVE RefreshInv'
  OBVIOUS
<1> USE WorkerKinds, Marks
<1>1. CASE Age \/ Quiet \/ UNCHANGED vars
  BY <1>1, RefreshFrame DEF Age, Quiet, vars, cache, refresh
<1>2. CASE Subscribe \/ HandleEvent
  <2>1. \A w \in Workers : pc'[w] = "copying" <=> pc[w] = "copying"
    BY <1>2 DEF Subscribe, HandleEvent, Goto, TypeOK
  <2> QED
    BY <1>2, <2>1, RefreshFrame DEF Subscribe, HandleEvent, cache, refresh
<1>3. ASSUME NEW c \in Containers, Start(c) \/ Stop(c) PROVE RefreshInv'
  BY <1>3, RefreshFrame DEF Start, Stop, Changed, cache, refresh
<1>4. ASSUME NEW page \in Pages, OpenPage(page) PROVE RefreshInv'
  <2>1. \A w \in Workers : pc'[w] = "copying" <=> pc[w] = "copying"
    BY <1>4 DEF OpenPage, Goto, TypeOK
  <2> QED
    BY <1>4, <2>1, RefreshFrame DEF OpenPage, cache, refresh
<1>5. ASSUME NEW w \in Workers, Ask(w) PROVE RefreshInv'
  <2>1. \A c \in Containers : built[w][c] = Absent
    BY <1>5 DEF Ask, Goto, RefreshInv, BuiltOnlyCopying
  <2>2. \A v \in Workers \ {w} : pc'[v] = pc[v]
    BY <1>5 DEF Ask, Goto, TypeOK
  <2>3. UNCHANGED <<byID, built, touched>>
    BY <1>5 DEF Ask, cache
  <2>4. BuiltOnlyCopying'
    BY <2>1, <2>2, <2>3 DEF RefreshInv, BuiltOnlyCopying
  <2>5. BuiltAgrees'
    BY <2>1, <2>2, <2>3 DEF RefreshInv, BuiltAgrees
  <2> QED
    BY <2>4, <2>5 DEF RefreshInv
<1>6. ASSUME NEW w \in Workers, AskFails(w) \/ Stamp(w) PROVE RefreshInv'
  <2>1. \A v \in Workers : pc'[v] = "copying" <=> pc[v] = "copying"
    BY <1>6 DEF AskFails, Stamp, Goto, TypeOK, AfterList
  <2> QED
    BY <1>6, <2>1, RefreshFrame DEF AskFails, Stamp, cache, refresh
<1>7. ASSUME NEW w \in Workers, Store(w) PROVE RefreshInv'
  <2>1. pc'[w] = "stamping" /\ \A v \in Workers \ {w} : pc'[v] = pc[v]
    BY <1>7 DEF Store, Goto, TypeOK
  <2>2. \A c \in Containers : built'[w][c] = Absent
    BY <1>7 DEF Store, TypeOK
  <2>3. \A v \in Workers \ {w} : built'[v] = built[v]
    BY <1>7 DEF Store, TypeOK
  <2>4. \A v \in Workers \ {w} : pc[v] = "copying" => Containers \subseteq touched'[v]
    BY <1>7 DEF Store, Touch
  <2>5. BuiltOnlyCopying'
    BY <2>1, <2>2, <2>3 DEF RefreshInv, BuiltOnlyCopying
  <2>6. BuiltAgrees'
    BY <2>1, <2>4 DEF BuiltAgrees
  <2> QED
    BY <2>5, <2>6 DEF RefreshInv
<1>8. ASSUME NEW w \in Workers, NEW c \in Containers, Copy(w, c) PROVE RefreshInv'
  <2>1. pc' = pc /\ pc[w] = "copying" /\ UNCHANGED <<byID, touched>>
    BY <1>8 DEF Copy, cache
  <2>2. byID[c] \in Shells => built'[w][c] = byID[c]
    BY <1>8 DEF Copy, TypeOK
  <2>3. \A v \in Workers, d \in Containers : v # w \/ d # c => built'[v][d] = built[v][d]
    BY <1>8 DEF Copy, TypeOK
  <2>4. BuiltOnlyCopying'
    BY <2>1, <2>3 DEF RefreshInv, BuiltOnlyCopying
  <2>5. BuiltAgrees'
    BY <2>1, <2>2, <2>3 DEF RefreshInv, BuiltAgrees
  <2> QED
    BY <2>4, <2>5 DEF RefreshInv
<1>9. ASSUME NEW q \in Lookups, GetInfo(q) PROVE RefreshInv'
  <2>1. \A w \in Workers : pc'[w] = "copying" <=> pc[w] = "copying"
    BY <1>9 DEF GetInfo, Look, Find, Inspect, Probe, SetShell, AppendContainer, Goto, TypeOK
  <2>2. CASE Look(q) \/ Find(q) \/ Inspect(q) \/ Probe(q)
    BY <2>1, <2>2, RefreshFrame DEF Look, Find, Inspect, Probe, cache, refresh
  <2>3. CASE SetShell(q) \/ AppendContainer(q)
    <3>1. want[q][1] \in Containers
      BY DEF TypeOK
    <3>2. \A d \in Containers \ {want[q][1]} : byID'[d] = byID[d]
      BY <2>3 DEF SetShell, AppendContainer, TypeOK
    <3>3. built' = built /\ Touch({want[q][1]}, Workers)
      BY <2>3 DEF SetShell, AppendContainer, refresh
    <3> QED
      BY <2>1, <3>1, <3>2, <3>3, WriteEntry
  <2> QED
    BY <1>9, <2>2, <2>3 DEF GetInfo
<1> QED
  BY <1>1, <1>2, <1>3, <1>4, <1>5, <1>6, <1>7, <1>8, <1>9 DEF Next, Refresh

-----------------------------------------------------------------------------
(* The theorems.                                                           *)

IInv == TypeOK /\ KeysAgree /\ LookupInv /\ RefreshInv

LEMMA Inductive == Spec => []IInv
<1>1. Init => IInv
  <2>1. Init => KeysAgree
    BY DEF Init, KeysAgree
  <2>2. Init => LookupInv
    BY WorkerKinds DEF Init, LookupInv, KnowsShell, NotNone
  <2>3. Init => RefreshInv
    BY DEF Init, RefreshInv, BuiltOnlyCopying, BuiltAgrees
  <2> QED
    BY <2>1, <2>2, <2>3, TypeInit DEF IInv
<1>2. IInv /\ [Next]_vars => IInv'
  BY TypeStep, KeysStep, LookupStep, RefreshStep DEF IInv
<1> QED
  BY <1>1, <1>2, PTL DEF Spec

\* Every variable has its type, whatever daemon, watcher, pages and lookups do.
THEOREM TypeCorrect == Spec => []TypeOK
<1>1. IInv => TypeOK
  BY DEF IInv
<1> QED
  BY <1>1, Inductive, PTL

\* A container is under both its keys and in the list, or nowhere.
THEOREM BothKeys == Spec => []KeysAgree
<1>1. IInv => KeysAgree
  BY DEF IInv
<1> QED
  BY <1>1, Inductive, PTL

\* GetInfo finds a container that runs while the daemon answers, and a shell
\* if there is one in it, however stale the cache is.
THEOREM LookupsFind == Spec => []LookupFinds
<1>1. IInv => LookupFinds
  BY DEF IInv, LookupInv, KnowsShell, NotNone, LookupFinds
<1> QED
  BY <1>1, Inductive, PTL

\* listContainers forgets no shell, unless another goroutine wrote that entry
\* while it was under way.
THEOREM ShellsKept == Spec => RefreshKeepsShells
<1> DEFINE Keeps == \A w \in Workers, c \in Containers :
                      Store(w) /\ c \notin touched[w] /\ byID[c] \in Shells
                        => byID'[c] \in {byID[c], Absent}
<1>1. IInv => [Keeps]_vars
  <2> SUFFICES ASSUME IInv, NEW w \in Workers, NEW c \in Containers,
                      Store(w), c \notin touched[w], byID[c] \in Shells
               PROVE  byID'[c] \in {byID[c], Absent}
    OBVIOUS
  <2>1. pc[w] = "copying" /\ byID'[c] = built[w][c]
    BY DEF Store, Goto
  <2> QED
    BY <2>1 DEF IInv, RefreshInv, BuiltAgrees
<1> QED
  BY <1>1, Inductive, PTL DEF RefreshKeepsShells

-----------------------------------------------------------------------------
(* The parser of a log: slices and copies.                                 *)

\* What a slice of a sequence holds.
LEMMA SliceFacts ==
  ASSUME NEW S, NEW s \in Seq(S), NEW a \in Nat, NEW b \in Nat, b <= Len(s)
  PROVE  /\ SubSeq(s, a + 1, b) \in Seq(S)
         /\ Len(SubSeq(s, a + 1, b)) = IF a <= b THEN b - a ELSE 0
         /\ \A i \in 1 .. b - a : SubSeq(s, a + 1, b)[i] = s[a + i]
<1>1. \A i \in a + 1 .. b : s[i] \in S
  BY LenProperties, ElementOfSeq
<1>2. /\ SubSeq(s, a + 1, b) \in Seq(S)
      /\ Len(SubSeq(s, a + 1, b)) = IF a + 1 <= b THEN b - (a + 1) + 1 ELSE 0
      /\ \A i \in 1 .. b - (a + 1) + 1 : SubSeq(s, a + 1, b)[i] = s[a + 1 + i - 1]
  BY <1>1, SubSeqProperties
<1> QED
  BY <1>2

\* The first bytes of a sequence.
LEMMA PrefixFacts ==
  ASSUME NEW S, NEW s \in Seq(S), NEW b \in Nat, b <= Len(s)
  PROVE  /\ SubSeq(s, 1, b) \in Seq(S)
         /\ Len(SubSeq(s, 1, b)) = b
         /\ \A i \in 1 .. b : SubSeq(s, 1, b)[i] = s[i]
  BY SliceFacts, 0 \in Nat

\* A line is what it was, perhaps with a return.
LEMMA LineFacts ==
  ASSUME NEW S, Return \in S, NEW line \in Seq(S)
  PROVE  /\ _makeLine(line) \in Seq(S)
         /\ Len(_makeLine(line)) \in Nat
         /\ Len(line) <= Len(_makeLine(line)) /\ Len(_makeLine(line)) <= Len(line) + 1
<1>1. CASE line # <<>> /\ line[Len(line)] = NewLine
  <2>1. <<Return>> \in Seq(S) /\ Len(<<Return>>) = 1
    OBVIOUS
  <2> QED
    BY <1>1, <2>1, ConcatProperties, LenProperties DEF _makeLine
<1>2. CASE ~(line # <<>> /\ line[Len(line)] = NewLine)
  BY <1>2, LenProperties DEF _makeLine
<1> QED
  BY <1>1, <1>2

\* copy overwrites the beginning of a buffer, and keeps its length.
LEMMA CopyFacts ==
  ASSUME NEW t \in [1 .. Buffer -> Byte], NEW src \in Seq(Byte)
  PROVE  /\ Copied(t, src) \in [1 .. Buffer -> Byte]
         /\ \A i \in 1 .. Buffer : i <= Len(src) => Copied(t, src)[i] = src[i]
  BY ElementOfSeq, LenProperties DEF Copied

\* A buffer is a sequence of bytes.
LEMMA BufferFacts ==
  ASSUME NEW t \in [1 .. Buffer -> Byte]
  PROVE  t \in Seq(Byte) /\ Len(t) = Buffer
  BY LogsAssumption

-----------------------------------------------------------------------------
(* The parser of a log: types.                                             *)

LEMMA Sizes ==
  /\ MaxByte \in Nat /\ MaxByte >= 255
  /\ MaxMessage \in Nat /\ MaxMessage < 256 * 256
  /\ 0 \in Byte /\ Return \in Text
<1>1. MaxByte \in Nat /\ MaxByte >= 255
  BY DEF MaxByte
<1>2. MaxMessage \in Nat /\ MaxMessage < 256 * 256
  BY DEF MaxMessage
<1> QED
  BY <1>1, <1>2 DEF Byte, Text, Return

\* Messages are bytes, and not none.
LEMMA MessageFacts ==
  ASSUME NEW m \in Lines
  PROVE  /\ m \in Seq(Text) /\ m \in Seq(Byte)
         /\ Len(m) \in 1 .. MaxMessage
<1>1. m \in Seq(Text) /\ Len(m) \in 1 .. MaxMessage
  BY LogsAssumption
<1>2. Text \subseteq Byte
  BY DEF Text, Byte
<1> QED
  BY <1>1, <1>2

\* A header is of eight bytes.
LEMMA HeaderFacts ==
  ASSUME NEW kind \in Streams, NEW m \in Lines
  PROVE  /\ Header(kind, m) \in Seq(Byte) /\ Len(Header(kind, m)) = HeaderLen
         /\ Header(kind, m)[1] \in {Stdout, Stderr}
         /\ \A i \in 2 .. 6 : Header(kind, m)[i] = 0
         /\ Header(kind, m)[7] = Len(m) \div 256
         /\ Header(kind, m)[8] = Len(m) % 256
<1>1. kind \in {Stdout, Stderr} /\ kind \in Byte /\ 0 \in Byte
  BY LogsAssumption, Sizes DEF Stdout, Stderr, Byte
<1>2. Len(m) \in 1 .. MaxMessage
  BY MessageFacts
<1>3. Len(m) \div 256 \in Byte /\ Len(m) % 256 \in Byte
  BY <1>2, Sizes DEF Byte
<1> QED
  BY <1>1, <1>3 DEF Header, HeaderLen

LEMMA LogsTypeInit == LogsInit => LogsTypeOK
<1> SUFFICES ASSUME LogsInit PROVE LogsTypeOK
  OBVIOUS
<1>1. DaemonTypes
  BY DEF LogsInit, DaemonTypes
<1>2. ParserTypes
  BY LogsAssumption, Sizes DEF LogsInit, ParserTypes, HeaderLen
<1> QED
  BY <1>1, <1>2 DEF LogsInit, LogsTypeOK

\* A message and its marks are of their types.
LEMMA SendTypes ==
  ASSUME DaemonTypes, NEW kind \in Streams, NEW m \in Lines, Send(kind, m)
  PROVE  /\ DaemonTypes'
         /\ Len(answer') = Len(answer) + (IF framed THEN HeaderLen + Len(m) ELSE Len(m))
         /\ Len(due') = Len(due) + (IF framed THEN Len(_makeLine(m)) ELSE Len(m))
         /\ Len(answer) \in Nat /\ Len(due) \in Nat /\ Len(m) \in 1 .. MaxMessage
         /\ Len(_makeLine(m)) \in Nat
<1> DEFINE frame == Header(kind, m) \o m
           line == _makeLine(m)
<1>1. /\ m \in Seq(Text) /\ m \in Seq(Byte) /\ Len(m) \in 1 .. MaxMessage
      /\ Header(kind, m) \in Seq(Byte) /\ Len(Header(kind, m)) = HeaderLen
  BY MessageFacts, HeaderFacts
<1>2. frame \in Seq(Byte) /\ Len(frame) = HeaderLen + Len(m)
  BY <1>1, ConcatProperties
<1>3. Return \in Text
  BY Sizes
<1>4. line \in Seq(Text) /\ Len(line) \in Nat
  BY <1>1, <1>3, LineFacts
<1>5. answer \in Seq(Byte) /\ due \in Seq(Text) /\ Len(answer) \in Nat /\ Len(due) \in Nat
  BY LenProperties DEF DaemonTypes
<1> HIDE DEF frame, line
<1>6. /\ answer' \in Seq(Byte)
      /\ Len(answer') = Len(answer) + (IF framed THEN HeaderLen + Len(m) ELSE Len(m))
  <2>1. answer' = answer \o (IF framed THEN frame ELSE m)
    BY DEF Send, frame
  <2> QED
    BY <2>1, <1>1, <1>2, <1>5, ConcatProperties
<1>7. /\ due' \in Seq(Text)
      /\ Len(due') = Len(due) + (IF framed THEN Len(line) ELSE Len(m))
  <2>1. due' = due \o (IF framed THEN line ELSE m)
    BY DEF Send, line
  <2> QED
    BY <2>1, <1>1, <1>4, <1>5, ConcatProperties
<1>8. sent' \in Seq(Lines)
  BY AppendProperties DEF Send, DaemonTypes
<1>9. marks' \in Seq([at : Nat, due : Nat])
  <2>1. Len(answer') \in Nat /\ Len(due') \in Nat
    BY <1>6, <1>7, LenProperties
  <2>2. [at |-> Len(answer'), due |-> Len(due')] \in [at : Nat, due : Nat]
    BY <2>1
  <2> QED
    BY <2>2, AppendProperties DEF Send, DaemonTypes
<1>10. DaemonTypes'
  BY <1>6, <1>7, <1>8, <1>9 DEF DaemonTypes
<1> QED
  BY <1>1, <1>4, <1>5, <1>6, <1>7, <1>10 DEF line

\* A Read that returns leaves the locals empty and a buffer of bytes.
LEMMA ReturnTypes ==
  ASSUME ParserTypes, NEW line \in Seq(Byte), Returns(line)
  PROVE  /\ target' \in [1 .. Buffer -> Byte]
         /\ parser' = "reading"
         /\ p' \in Seq(Byte) /\ n' \in 0 .. Len(p') /\ start' \in Nat /\ bs' \in Seq(Byte)
         /\ shown' \in Seq(Byte)
<1> DEFINE len == IF Len(line) < Buffer THEN Len(line) ELSE Buffer
           b == SubSeq(line, 1, len)
<1>1. len \in Nat /\ len <= Len(line)
  BY LenProperties, LogsAssumption
<1>2. b \in Seq(Byte)
  BY <1>1, PrefixFacts
<1> HIDE DEF b
<1>3. target' = Copied(target, b) /\ shown' = IF whole' THEN shown \o b ELSE <<>>
  BY DEF Returns, Show, b
<1>4. target' \in [1 .. Buffer -> Byte]
  BY <1>2, <1>3, CopyFacts DEF ParserTypes
<1>5. shown' \in Seq(Byte)
  BY <1>2, <1>3, ConcatProperties DEF ParserTypes
<1>6. /\ parser' = "reading" /\ p' = <<>> /\ n' = 0 /\ start' = 0 /\ bs' = <<>>
  BY DEF Returns
<1> QED
  BY <1>4, <1>5, <1>6

LEMMA ReadTypes ==
  ASSUME DaemonTypes, ParserTypes, NEW k \in 1 .. Buffer, Read(k)
  PROVE  ParserTypes'
<1> DEFINE chunk == SubSeq(answer, pos + 1, pos + k)
           t == Copied(target, chunk)
<1>1. /\ answer \in Seq(Byte) /\ Len(answer) \in Nat
      /\ k \in Nat /\ k >= 1 /\ k <= Buffer /\ Buffer \in Nat
      /\ pos \in Nat /\ pos + k <= Len(answer)
  BY LogsAssumption, LenProperties DEF DaemonTypes, ParserTypes, Read
<1>2. chunk \in Seq(Byte)
  BY <1>1, SliceFacts
<1> HIDE DEF chunk
<1>3. t \in [1 .. Buffer -> Byte]
  BY <1>2, CopyFacts DEF ParserTypes
<1>4. t \in Seq(Byte) /\ Len(t) = Buffer
  BY <1>3, BufferFacts
<1> HIDE DEF t
<1>5. pos' \in 0 .. Len(answer') /\ target' \in [1 .. Buffer -> Byte]
  BY <1>1, <1>3 DEF Read, daemonVars, t, chunk
<1>6. CASE IsText(t, k) /\ Show(SubSeq(t, 1, k)) /\ UNCHANGED <<parser, localVars, bsLeft, prevHeader>>
  <2>1. SubSeq(t, 1, k) \in Seq(Byte)
    BY <1>1, <1>4, PrefixFacts
  <2>2. shown' \in Seq(Byte)
    BY <1>6, <2>1, ConcatProperties DEF Show, ParserTypes
  <2> QED
    BY <1>5, <1>6, <2>2 DEF ParserTypes, localVars
<1>7. CASE /\ prevHeader # <<>>
           /\ parser' = "parsing"
           /\ p' = prevHeader \o t /\ n' = Len(prevHeader) + Buffer
           /\ start' = 0 /\ bs' = <<>>
           /\ prevHeader' = <<>>
           /\ UNCHANGED <<bsLeft, shown>>
  <2>1. p' \in Seq(Byte) /\ Len(p') = Len(prevHeader) + Buffer /\ Len(prevHeader) \in Nat
    BY <1>4, <1>7, ConcatProperties, LenProperties DEF ParserTypes
  <2>2. n' \in 0 .. Len(p')
    BY <1>1, <1>7, <2>1
  <2> QED
    BY <1>5, <1>7, <2>1, <2>2 DEF ParserTypes, HeaderLen
<1>8. CASE /\ prevHeader = <<>> /\ bsLeft <= Buffer
           /\ parser' = "parsing"
           /\ p' = t /\ n' = k
           /\ start' = bsLeft /\ bs' = _makeLine(SubSeq(t, 1, bsLeft))
           /\ bsLeft' = 0
           /\ UNCHANGED <<prevHeader, shown>>
  <2>1. bsLeft \in Nat
    BY DEF ParserTypes
  <2>2. SubSeq(t, 1, bsLeft) \in Seq(Byte)
    BY <1>4, <1>8, <2>1, PrefixFacts
  <2>3. Return \in Byte
    BY Sizes DEF Byte, Text
  <2>4. bs' \in Seq(Byte)
    BY <1>8, <2>2, <2>3, LineFacts
  <2>5. p' \in Seq(Byte) /\ n' \in 0 .. Len(p')
    BY <1>1, <1>4, <1>8
  <2> QED
    BY <1>5, <1>8, <2>1, <2>4, <2>5 DEF ParserTypes
<1>9. CASE /\ prevHeader = <<>>
           /\ parser' = "panicked"
           /\ UNCHANGED <<localVars, bsLeft, prevHeader, shown>>
  BY <1>5, <1>9 DEF ParserTypes, localVars
<1>10. \/ /\ IsText(t, k) /\ Show(SubSeq(t, 1, k))
          /\ UNCHANGED <<parser, localVars, bsLeft, prevHeader>>
       \/ /\ prevHeader # <<>>
          /\ parser' = "parsing"
          /\ p' = prevHeader \o t /\ n' = Len(prevHeader) + Buffer
          /\ start' = 0 /\ bs' = <<>>
          /\ prevHeader' = <<>>
          /\ UNCHANGED <<bsLeft, shown>>
       \/ /\ prevHeader = <<>> /\ bsLeft <= Buffer
          /\ parser' = "parsing"
          /\ p' = t /\ n' = k
          /\ start' = bsLeft /\ bs' = _makeLine(SubSeq(t, 1, bsLeft))
          /\ bsLeft' = 0
          /\ UNCHANGED <<prevHeader, shown>>
       \/ /\ prevHeader = <<>>
          /\ parser' = "panicked"
          /\ UNCHANGED <<localVars, bsLeft, prevHeader, shown>>
  BY DEF Read, t, chunk
<1> QED
  BY <1>6, <1>7, <1>8, <1>9, <1>10

\* The length in a header that is all there.
LEMMA LengthFacts ==
  ASSUME ParserTypes, start + HeaderLen <= n
  PROVE  /\ first \in Nat /\ first <= n /\ n <= Len(p) /\ n \in Nat /\ Len(p) \in Nat
         /\ msgLen \in Nat
<1>1. /\ start \in Nat /\ n \in Nat /\ n <= Len(p) /\ p \in Seq(Byte) /\ Len(p) \in Nat
      /\ start + 8 <= n
  BY LenProperties DEF ParserTypes, HeaderLen
<1>2. \A i \in 1 .. Len(p) : p[i] \in Nat
  <2>1. \A i \in 1 .. Len(p) : p[i] \in Byte
    BY <1>1, ElementOfSeq
  <2> QED
    BY <2>1, Sizes DEF Byte
<1>3. p[start + 5] \in Nat /\ p[start + 6] \in Nat /\ p[start + 7] \in Nat /\ p[start + 8] \in Nat
  BY <1>1, <1>2
<1>4. msgLen \in Nat
  BY <1>3 DEF msgLen
<1> QED
  BY <1>1, <1>4 DEF first, HeaderLen

LEMMA ParseTypes == ParserTypes /\ Parse => ParserTypes'
<1> SUFFICES ASSUME ParserTypes, Parse PROVE ParserTypes'
  OBVIOUS
<1>1. /\ parser = "parsing" /\ bsLeft = 0 /\ prevHeader = <<>>
      /\ bs \in Seq(Byte) /\ p \in Seq(Byte) /\ Len(p) \in Nat
      /\ n \in Nat /\ n <= Len(p) /\ start \in Nat
  BY LenProperties DEF Parse, ParserTypes
<1>2. pos' \in 0 .. Len(answer')
  BY DEF ParserTypes, Parse, daemonVars
<1>3. Return \in Byte
  BY Sizes DEF Byte, Text
<1>4. CASE KeepHeader
  <2>1. CASE start <= n /\ prevHeader' = SubSeq(p, start + 1, n) /\ Returns(bs)
    <3>1. prevHeader' \in Seq(Byte) /\ Len(prevHeader') = n - start
      BY <1>1, <2>1, SliceFacts
    <3>2. Len(prevHeader') < HeaderLen
      BY <1>1, <1>4, <3>1 DEF KeepHeader, HeaderLen
    <3>3. bsLeft' = 0
      BY <1>1, <1>4 DEF KeepHeader
    <3> HIDE DEF ParserTypes
    <3>4. /\ target' \in [1 .. Buffer -> Byte]
          /\ parser' = "reading"
          /\ p' \in Seq(Byte) /\ n' \in 0 .. Len(p') /\ start' \in Nat /\ bs' \in Seq(Byte)
          /\ shown' \in Seq(Byte)
      BY <1>1, <2>1, ReturnTypes
    <3> QED
      BY <1>2, <3>1, <3>2, <3>3, <3>4 DEF ParserTypes
  <2>2. CASE parser' = "panicked" /\ UNCHANGED <<target, localVars, prevHeader, shown>>
    BY <1>1, <1>2, <1>4, <2>2 DEF ParserTypes, KeepHeader, localVars
  <2> QED
    BY <1>4, <2>1, <2>2 DEF KeepHeader
<1>5. CASE DropRest
  <2>1. /\ target' \in [1 .. Buffer -> Byte]
        /\ parser' = "reading"
        /\ p' \in Seq(Byte) /\ n' \in 0 .. Len(p') /\ start' \in Nat /\ bs' \in Seq(Byte)
        /\ shown' \in Seq(Byte)
    BY <1>1, <1>5, ReturnTypes DEF DropRest
  <2>2. UNCHANGED <<bsLeft, prevHeader>>
    BY <1>5 DEF DropRest
  <2> QED
    BY <1>1, <1>2, <2>1, <2>2 DEF ParserTypes, HeaderLen
<1>6. CASE HasHeader /\ first + msgLen > n /\ TakeRest
  <2>1. start + HeaderLen <= n
    BY <1>6 DEF HasHeader
  <2>2. first \in Nat /\ first <= n /\ msgLen \in Nat
    BY <2>1, LengthFacts
  <2> DEFINE line == bs \o _makeLine(SubSeq(p, first + 1, Len(p)))
  <2>3. SubSeq(p, first + 1, Len(p)) \in Seq(Byte)
    BY <1>1, <2>2, SliceFacts
  <2>4. line \in Seq(Byte)
    BY <1>1, <1>3, <2>3, LineFacts, ConcatProperties
  <2>5. Returns(line) /\ bsLeft' = msgLen - (n - first) /\ prevHeader' = prevHeader
    BY <1>6 DEF TakeRest
  <2> HIDE DEF line
  <2>6. /\ target' \in [1 .. Buffer -> Byte]
        /\ parser' = "reading"
        /\ p' \in Seq(Byte) /\ n' \in 0 .. Len(p') /\ start' \in Nat /\ bs' \in Seq(Byte)
        /\ shown' \in Seq(Byte)
    BY <2>4, <2>5, ReturnTypes
  <2>7. bsLeft' \in Nat
    BY <1>1, <1>6, <2>2, <2>5
  <2> QED
    BY <1>1, <1>2, <2>5, <2>6, <2>7 DEF ParserTypes, HeaderLen
<1>7. CASE HasHeader /\ first + msgLen <= n /\ TakeMessage
  <2>1. start + HeaderLen <= n
    BY <1>7 DEF HasHeader
  <2>2. first \in Nat /\ first <= n /\ msgLen \in Nat
    BY <2>1, LengthFacts
  <2>3. SubSeq(p, first + 1, first + msgLen) \in Seq(Byte)
    BY <1>1, <1>7, <2>2, SliceFacts
  <2>4. bs' \in Seq(Byte)
    BY <1>1, <1>3, <1>7, <2>3, LineFacts, ConcatProperties DEF TakeMessage
  <2>5. start' \in Nat
    BY <1>7, <2>2 DEF TakeMessage
  <2> QED
    BY <1>1, <1>2, <1>7, <2>4, <2>5 DEF ParserTypes, TakeMessage
<1> QED
  BY <1>4, <1>5, <1>6, <1>7 DEF Parse

LEMMA LogsTypeStep == LogsTypeOK /\ [LogsNext]_logsVars => LogsTypeOK'
<1> SUFFICES ASSUME LogsTypeOK, [LogsNext]_logsVars PROVE LogsTypeOK'
  OBVIOUS
<1>1. DaemonTypes /\ ParserTypes
  BY DEF LogsTypeOK
<1>2. ASSUME NEW kind \in Streams, NEW m \in Lines, Send(kind, m) PROVE LogsTypeOK'
  <2>1. /\ DaemonTypes' /\ Len(answer) \in Nat /\ Len(m) \in Nat
        /\ Len(answer') = Len(answer) + (IF framed THEN HeaderLen + Len(m) ELSE Len(m))
    BY <1>1, <1>2, SendTypes
  <2>2. Len(answer) <= Len(answer')
    BY <2>1 DEF HeaderLen
  <2>3. pos' \in 0 .. Len(answer')
    BY <1>1, <1>2, <2>1, <2>2 DEF Send, ParserTypes
  <2>4. ParserTypes'
    BY <1>1, <1>2, <2>3 DEF Send, ParserTypes, localVars
  <2> QED
    BY <1>2, <2>1, <2>4 DEF LogsTypeOK, Send
<1>3. ASSUME NEW k \in 1 .. Buffer, Read(k) PROVE LogsTypeOK'
  <2>1. ParserTypes'
    BY <1>1, <1>3, ReadTypes
  <2>2. DaemonTypes' /\ framed' = framed
    BY <1>1, <1>3 DEF Read, daemonVars, DaemonTypes
  <2>3. whole' \in BOOLEAN
    BY <1>3 DEF Read, LogsTypeOK, AtBoundary
  <2> QED
    BY <2>1, <2>2, <2>3 DEF LogsTypeOK
<1>4. CASE Parse
  <2>1. ParserTypes'
    BY <1>1, <1>4, ParseTypes
  <2>2. DaemonTypes' /\ framed' = framed /\ whole' = whole
    BY <1>1, <1>4 DEF Parse, daemonVars, DaemonTypes
  <2> QED
    BY <2>1, <2>2 DEF LogsTypeOK
<1>5. CASE UNCHANGED logsVars
  <2>1. DaemonTypes' /\ framed' = framed /\ whole' = whole
    BY <1>1, <1>5 DEF logsVars, daemonVars, DaemonTypes
  <2>2. ParserTypes'
    BY <1>1, <1>5 DEF logsVars, daemonVars, localVars, ParserTypes
  <2> QED
    BY <2>1, <2>2 DEF LogsTypeOK
<1> QED
  BY <1>2, <1>3, <1>4, <1>5 DEF LogsNext, Ended

-----------------------------------------------------------------------------
(* The parser of a log: how frames lie in the answer.                      *)

At(k) == marks[k].at
Due(k) == marks[k].due

\* Every message ends at a mark, and the marks are in order.
Marked ==
  /\ Len(marks) = Len(sent) + 1
  /\ At(Len(marks)) = Len(answer) /\ Due(Len(marks)) = Len(due)
  /\ At(1) = 0 /\ Due(1) = 0
  /\ \A k \in 1 .. Len(marks) : At(k) <= Len(answer) /\ Due(k) <= Len(due)
  /\ \A j, k \in 1 .. Len(marks) : j < k => At(j) < At(k)

\* Behind the k-th mark are the header and the text of message k, and its line.
FrameAt(k) ==
  LET m == sent[k] IN
  /\ At(k + 1) = At(k) + HeaderLen + Len(m)
  /\ Due(k + 1) = Due(k) + Len(_makeLine(m))
  /\ answer[At(k) + 1] \in {Stdout, Stderr}
  /\ \A i \in 2 .. 6 : answer[At(k) + i] = 0
  /\ answer[At(k) + 7] = Len(m) \div 256 /\ answer[At(k) + 8] = Len(m) % 256
  /\ \A i \in 1 .. Len(m) : answer[At(k) + HeaderLen + i] = m[i]
  /\ \A i \in 1 .. Len(_makeLine(m)) : due[Due(k) + i] = _makeLine(m)[i]

Layout ==
  /\ Marked
  /\ IF framed THEN \A k \in 1 .. Len(sent) : FrameAt(k) ELSE answer \in Seq(Text)

\* Marks as numbers.
LEMMA MarkFacts ==
  ASSUME DaemonTypes, NEW k \in 1 .. Len(marks)
  PROVE  At(k) \in Nat /\ Due(k) \in Nat
<1>1. marks[k] \in [at : Nat, due : Nat]
  BY ElementOfSeq DEF DaemonTypes
<1> QED
  BY <1>1 DEF At, Due

\* A prefix, and what follows it, are a longer prefix.
LEMMA Extend ==
  ASSUME NEW S, NEW s \in Seq(S), NEW a \in Nat, NEW b \in Nat, a <= b, b <= Len(s),
         NEW line \in Seq(S), Len(line) = b - a, \A i \in 1 .. Len(line) : s[a + i] = line[i]
  PROVE  SubSeq(s, 1, a) \o line = SubSeq(s, 1, b)
<1>1. Len(s) \in Nat
  BY LenProperties
<1>2. /\ SubSeq(s, a + 1, b) \in Seq(S) /\ Len(SubSeq(s, a + 1, b)) = b - a
      /\ \A i \in 1 .. b - a : SubSeq(s, a + 1, b)[i] = s[a + i]
  BY SliceFacts
<1>3. SubSeq(s, a + 1, b) = line
  BY <1>2, SeqEqual
<1>4. SubSeq(s, 1, a) \o SubSeq(s, a + 1, b) = SubSeq(s, 1, b)
  <2>1. 1 \in 1 .. Len(s) + 1 /\ a \in 1 - 1 .. Len(s) /\ b \in a .. Len(s)
    BY <1>1
  <2> QED
    BY <2>1, ConcatAdjacentSubSeq
<1> QED
  BY <1>3, <1>4

\* A prefix stays when the sequence grows.
LEMMA PrefixStays ==
  ASSUME NEW S, NEW s \in Seq(S), NEW t \in Seq(S), NEW b \in Nat, b <= Len(s)
  PROVE  SubSeq(s \o t, 1, b) = SubSeq(s, 1, b)
<1>1. /\ s \o t \in Seq(S) /\ Len(s \o t) = Len(s) + Len(t)
      /\ \A i \in 1 .. Len(s) : (s \o t)[i] = s[i]
      /\ Len(s) \in Nat /\ Len(t) \in Nat
  BY ConcatProperties, LenProperties
<1>2. /\ SubSeq(s \o t, 1, b) \in Seq(S) /\ Len(SubSeq(s \o t, 1, b)) = b
      /\ \A i \in 1 .. b : SubSeq(s \o t, 1, b)[i] = (s \o t)[i]
  BY <1>1, PrefixFacts
<1>3. /\ SubSeq(s, 1, b) \in Seq(S) /\ Len(SubSeq(s, 1, b)) = b
      /\ \A i \in 1 .. b : SubSeq(s, 1, b)[i] = s[i]
  BY PrefixFacts
<1> QED
  BY <1>1, <1>2, <1>3, SeqEqual

\* What Send adds, it adds at the end.
LEMMA SendExtends ==
  ASSUME DaemonTypes, Marked, NEW kind \in Streams, NEW m \in Lines, Send(kind, m)
  PROVE  /\ Len(marks') = Len(marks) + 1 /\ Len(marks) \in Nat
         /\ \A k \in 1 .. Len(marks) : marks'[k] = marks[k]
         /\ marks'[Len(marks) + 1] = [at |-> Len(answer'), due |-> Len(due')]
         /\ Len(sent') = Len(sent) + 1 /\ Len(sent) \in Nat
         /\ sent'[Len(sent) + 1] = m
         /\ \A k \in 1 .. Len(sent) : sent'[k] = sent[k]
         /\ \A b \in 0 .. Len(answer) : SubSeq(answer', 1, b) = SubSeq(answer, 1, b)
         /\ \A b \in 0 .. Len(due) : SubSeq(due', 1, b) = SubSeq(due, 1, b)
         /\ \A i \in 1 .. Len(answer) : answer'[i] = answer[i]
         /\ \A i \in 1 .. Len(due) : due'[i] = due[i]
<1> DEFINE frame == IF framed THEN Header(kind, m) \o m ELSE m
           line == IF framed THEN _makeLine(m) ELSE m
           mark == [at |-> Len(answer'), due |-> Len(due')]
<1>1. frame \in Seq(Byte) /\ line \in Seq(Text)
  <2>1. /\ m \in Seq(Text) /\ m \in Seq(Byte) /\ Header(kind, m) \in Seq(Byte)
    BY MessageFacts, HeaderFacts
  <2>2. Header(kind, m) \o m \in Seq(Byte) /\ _makeLine(m) \in Seq(Text)
    BY <2>1, ConcatProperties, LineFacts, Sizes
  <2> QED
    BY <2>1, <2>2
<1>2. answer \in Seq(Byte) /\ due \in Seq(Text) /\ sent \in Seq(Lines)
      /\ marks \in Seq([at : Nat, due : Nat])
  BY DEF DaemonTypes
<1>3. mark \in [at : Nat, due : Nat]
  <2>1. answer' \in Seq(Byte) /\ due' \in Seq(Text)
    BY SendTypes DEF DaemonTypes
  <2> QED
    BY <2>1, LenProperties
<1>4. answer' = answer \o frame /\ due' = due \o line
      /\ sent' = Append(sent, m) /\ marks' = Append(marks, mark)
  BY DEF Send
<1> HIDE DEF frame, line, mark
<1>5. /\ \A i \in 1 .. Len(answer) : answer'[i] = answer[i]
      /\ \A b \in 0 .. Len(answer) : SubSeq(answer', 1, b) = SubSeq(answer, 1, b)
  BY <1>1, <1>2, <1>4, ConcatProperties, PrefixStays, LenProperties
<1>6. /\ \A i \in 1 .. Len(due) : due'[i] = due[i]
      /\ \A b \in 0 .. Len(due) : SubSeq(due', 1, b) = SubSeq(due, 1, b)
  BY <1>1, <1>2, <1>4, ConcatProperties, PrefixStays, LenProperties
<1>7. /\ Len(sent') = Len(sent) + 1 /\ Len(sent) \in Nat
      /\ sent'[Len(sent) + 1] = m
      /\ \A k \in 1 .. Len(sent) : sent'[k] = sent[k]
  BY <1>2, <1>4, AppendProperties, LenProperties
<1>8. /\ Len(marks') = Len(marks) + 1 /\ Len(marks) \in Nat
      /\ \A k \in 1 .. Len(marks) : marks'[k] = marks[k]
      /\ marks'[Len(marks) + 1] = mark
  BY <1>2, <1>3, <1>4, AppendProperties, LenProperties
<1> QED
  BY <1>5, <1>6, <1>7, <1>8 DEF mark

LEMMA LayoutInit == LogsInit => Layout
<1> SUFFICES ASSUME LogsInit PROVE Layout
  OBVIOUS
<1>1. answer = <<>> /\ sent = <<>> /\ due = <<>> /\ marks = <<[at |-> 0, due |-> 0]>>
  BY DEF LogsInit
<1>2. Marked
  BY <1>1 DEF Marked, At, Due
<1>3. answer \in Seq(Text) /\ Len(sent) = 0
  BY <1>1
<1> QED
  BY <1>2, <1>3 DEF Layout

\* Send puts its marks after the others.
LEMMA SendMarked ==
  ASSUME DaemonTypes, Marked, NEW kind \in Streams, NEW m \in Lines, Send(kind, m)
  PROVE  Marked'
<1>0. PICK last \in Nat : last = Len(marks)
  BY LenProperties DEF DaemonTypes
<1>1. /\ Len(marks') = last + 1 /\ last \in Nat
      /\ Len(sent') = Len(sent) + 1 /\ Len(sent) \in Nat
      /\ \A k \in 1 .. last : marks'[k] = marks[k]
      /\ marks'[last + 1] = [at |-> Len(answer'), due |-> Len(due')]
  BY <1>0, SendExtends
<1>2. /\ last = Len(sent) + 1
      /\ At(last) = Len(answer) /\ Due(last) = Len(due)
      /\ At(1) = 0 /\ Due(1) = 0
      /\ \A k \in 1 .. last : At(k) <= Len(answer) /\ Due(k) <= Len(due)
      /\ \A j, k \in 1 .. last : j < k => At(j) < At(k)
  BY <1>0 DEF Marked
<1>3. /\ Len(answer') > Len(answer) /\ Len(due') >= Len(due)
      /\ Len(answer) \in Nat /\ Len(due) \in Nat /\ Len(answer') \in Nat /\ Len(due') \in Nat
  BY SendTypes DEF HeaderLen
<1>4. \A k \in 1 .. last : At(k) \in Nat /\ Due(k) \in Nat
  BY <1>0, MarkFacts
<1>5. /\ \A k \in 1 .. last : At(k)' = At(k) /\ Due(k)' = Due(k)
      /\ At(last + 1)' = Len(answer') /\ Due(last + 1)' = Len(due')
  BY <1>1 DEF At, Due
<1>6. At(1)' = 0 /\ Due(1)' = 0
  BY <1>1, <1>2, <1>5
<1>7. \A k \in 1 .. last + 1 : At(k)' <= Len(answer') /\ Due(k)' <= Len(due')
  <2> SUFFICES ASSUME NEW k \in 1 .. last + 1
               PROVE  At(k)' <= Len(answer') /\ Due(k)' <= Len(due')
    OBVIOUS
  <2>1. CASE k = last + 1
    BY <1>3, <1>5, <2>1
  <2>2. CASE k \in 1 .. last
    BY <1>2, <1>3, <1>4, <1>5, <2>2
  <2> QED
    BY <1>1, <2>1, <2>2
<1>8. \A j, k \in 1 .. last + 1 : j < k => At(j)' < At(k)'
  <2> SUFFICES ASSUME NEW j \in 1 .. last + 1, NEW k \in 1 .. last + 1, j < k
               PROVE  At(j)' < At(k)'
    OBVIOUS
  <2>1. j \in 1 .. last /\ At(j)' = At(j) /\ At(j) \in Nat /\ At(j) <= Len(answer)
    BY <1>1, <1>2, <1>4, <1>5
  <2>2. CASE k = last + 1
    BY <1>3, <1>5, <2>1, <2>2
  <2>3. CASE k \in 1 .. last
    BY <1>2, <1>5, <2>1, <2>3
  <2> QED
    BY <1>1, <2>2, <2>3
<1>9. marks'[Len(marks')].at = Len(answer') /\ marks'[Len(marks')].due = Len(due')
  BY <1>1
<1> QED
  BY <1>1, <1>2, <1>6, <1>7, <1>8, <1>9 DEF Marked, At, Due

\* The frame and the line that Send added.
LEMMA SendFrame ==
  ASSUME DaemonTypes, Marked, NEW kind \in Streams, NEW m \in Lines, Send(kind, m), framed,
         NEW k \in Nat, k = Len(sent) + 1
  PROVE  FrameAt(k)'
<1> DEFINE head == Header(kind, m)
           line == _makeLine(m)
<1>1. /\ k = Len(marks) /\ k \in Nat /\ sent'[k] = m
      /\ marks'[k] = marks[k]
      /\ marks'[k + 1] = [at |-> Len(answer'), due |-> Len(due')]
  BY SendExtends DEF Marked
<1>2. marks[k].at = Len(answer) /\ marks[k].due = Len(due)
  BY <1>1 DEF Marked, At, Due
<1>3. /\ m \in Seq(Text) /\ m \in Seq(Byte) /\ Len(m) \in Nat
      /\ head \in Seq(Byte) /\ Len(head) = HeaderLen
      /\ head[1] \in {Stdout, Stderr}
      /\ \A i \in 2 .. 6 : head[i] = 0
      /\ head[7] = Len(m) \div 256 /\ head[8] = Len(m) % 256
  BY MessageFacts, HeaderFacts
<1>4. line \in Seq(Text) /\ Len(line) \in Nat
  BY <1>3, LineFacts, Sizes
<1>5. /\ answer \in Seq(Byte) /\ due \in Seq(Text) /\ Len(answer) \in Nat /\ Len(due) \in Nat
      /\ answer' = answer \o (head \o m) /\ due' = due \o line
  BY LenProperties DEF DaemonTypes, Send
<1> HIDE DEF head, line
<1>6. /\ head \o m \in Seq(Byte) /\ Len(head \o m) = HeaderLen + Len(m)
      /\ \A i \in 1 .. HeaderLen : (head \o m)[i] = head[i]
      /\ \A i \in 1 .. Len(m) : (head \o m)[HeaderLen + i] = m[i]
  <2>1. /\ head \o m \in Seq(Byte) /\ Len(head \o m) = Len(head) + Len(m)
        /\ \A i \in 1 .. Len(head) + Len(m) : (head \o m)[i] =
             IF i <= Len(head) THEN head[i] ELSE m[i - Len(head)]
    BY <1>3, ConcatProperties
  <2> QED
    BY <1>3, <2>1 DEF HeaderLen
<1>7. /\ Len(answer') = Len(answer) + HeaderLen + Len(m)
      /\ \A i \in 1 .. HeaderLen + Len(m) : answer'[Len(answer) + i] = (head \o m)[i]
  <2> DEFINE frame == head \o m
  <2>1. frame \in Seq(Byte) /\ Len(frame) = HeaderLen + Len(m)
    BY <1>6
  <2> HIDE DEF frame
  <2>2. /\ Len(answer \o frame) = Len(answer) + Len(frame)
        /\ \A i \in 1 .. Len(frame) : (answer \o frame)[Len(answer) + i] = frame[i]
    <3>1. /\ Len(answer \o frame) = Len(answer) + Len(frame)
          /\ \A i \in 1 .. Len(answer) + Len(frame) : (answer \o frame)[i] =
               IF i <= Len(answer) THEN answer[i] ELSE frame[i - Len(answer)]
      <4>1. answer \in Seq(Byte) /\ frame \in Seq(Byte)
        BY <1>5, <2>1
      <4> QED
        BY <4>1, ConcatProperties
    <3>2. Len(frame) \in Nat
      BY <2>1, LenProperties
    <3> QED
      BY <1>5, <3>1, <3>2
  <2>3. answer' = answer \o frame
    BY <1>5 DEF frame
  <2>4. /\ Len(answer') = Len(answer) + HeaderLen + Len(m)
        /\ \A i \in 1 .. HeaderLen + Len(m) : answer'[Len(answer) + i] = frame[i]
    <3>1. Len(answer \o frame) = Len(answer) + HeaderLen + Len(m)
      BY <1>3, <1>5, <2>1, <2>2 DEF HeaderLen
    <3> QED
      BY <2>1, <2>2, <2>3, <3>1
  <2> QED
    BY <2>4 DEF frame
<1>8. /\ Len(due') = Len(due) + Len(line)
      /\ \A i \in 1 .. Len(line) : due'[Len(due) + i] = line[i]
  BY <1>4, <1>5, ConcatProperties
<1>9. /\ \A i \in 1 .. HeaderLen : answer'[Len(answer) + i] = head[i]
      /\ \A i \in 1 .. Len(m) : answer'[Len(answer) + HeaderLen + i] = m[i]
  <2>1. \A i \in 1 .. HeaderLen : answer'[Len(answer) + i] = head[i]
    BY <1>3, <1>6, <1>7 DEF HeaderLen
  <2>2. ASSUME NEW i \in 1 .. Len(m) PROVE answer'[Len(answer) + HeaderLen + i] = m[i]
    <3>1. HeaderLen + i \in 1 .. HeaderLen + Len(m)
      BY <1>3 DEF HeaderLen
    <3>2. Len(answer) + HeaderLen + i = Len(answer) + (HeaderLen + i)
      BY <1>5 DEF HeaderLen
    <3> QED
      BY <1>6, <1>7, <3>1, <3>2
  <2> QED
    BY <2>1, <2>2
<1>10. /\ At(k)' = Len(answer) /\ Due(k)' = Len(due) /\ sent'[k] = m
       /\ At(k + 1)' = Len(answer') /\ Due(k + 1)' = Len(due')
  BY <1>1, <1>2 DEF At, Due
<1>11. /\ answer'[At(k)' + 1] \in {Stdout, Stderr}
       /\ \A i \in 2 .. 6 : answer'[At(k)' + i] = 0
       /\ answer'[At(k)' + 7] = Len(m) \div 256 /\ answer'[At(k)' + 8] = Len(m) % 256
  <2>1. \A i \in 1 .. 8 : answer'[At(k)' + i] = head[i]
    BY <1>9, <1>10 DEF HeaderLen
  <2> QED
    BY <1>3, <2>1
<1>12. /\ \A i \in 1 .. Len(m) : answer'[At(k)' + HeaderLen + i] = m[i]
       /\ \A i \in 1 .. Len(line) : due'[Due(k)' + i] = line[i]
       /\ At(k + 1)' = At(k)' + HeaderLen + Len(m)
       /\ Due(k + 1)' = Due(k)' + Len(line)
  BY <1>7, <1>8, <1>9, <1>10
<1> QED
  BY <1>10, <1>11, <1>12 DEF FrameAt, line

\* A frame that was there stays where it was.
LEMMA FrameStays ==
  ASSUME DaemonTypes, Marked, NEW kind \in Streams, NEW m \in Lines, Send(kind, m),
         NEW k \in 1 .. Len(sent), FrameAt(k)
  PROVE  FrameAt(k)'
<1> DEFINE text == sent[k]
           line == _makeLine(text)
           at == At(k)
<1>1. /\ k \in 1 .. Len(marks) /\ k + 1 \in 1 .. Len(marks) /\ sent'[k] = text
      /\ marks'[k] = marks[k] /\ marks'[k + 1] = marks[k + 1]
      /\ \A i \in 1 .. Len(answer) : answer'[i] = answer[i]
      /\ \A i \in 1 .. Len(due) : due'[i] = due[i]
  <2>1. /\ Len(marks) = Len(sent) + 1 /\ Len(sent) \in Nat
        /\ \A j \in 1 .. Len(marks) : marks'[j] = marks[j]
        /\ \A j \in 1 .. Len(sent) : sent'[j] = sent[j]
        /\ \A i \in 1 .. Len(answer) : answer'[i] = answer[i]
        /\ \A i \in 1 .. Len(due) : due'[i] = due[i]
    BY SendExtends DEF Marked
  <2>2. k \in 1 .. Len(marks) /\ k + 1 \in 1 .. Len(marks)
    BY <2>1
  <2> QED
    BY <2>1, <2>2
<1>2. /\ At(k)' = at /\ At(k + 1)' = At(k + 1)
      /\ Due(k)' = Due(k) /\ Due(k + 1)' = Due(k + 1)
  BY <1>1 DEF At, Due
<1>3. /\ at \in Nat /\ Due(k) \in Nat
      /\ At(k + 1) <= Len(answer) /\ Due(k + 1) <= Len(due)
      /\ Len(answer) \in Nat /\ Len(due) \in Nat
  BY <1>1, MarkFacts, LenProperties DEF Marked, DaemonTypes
<1>4. text \in Lines /\ Len(text) \in 1 .. MaxMessage /\ text \in Seq(Text)
  <2>1. text \in Lines
    BY ElementOfSeq DEF DaemonTypes
  <2> QED
    BY <2>1, MessageFacts
<1>5. Len(line) \in Nat
  BY <1>4, LineFacts, Sizes
<1>6. /\ At(k + 1) = at + HeaderLen + Len(text)
      /\ Due(k + 1) = Due(k) + Len(line)
      /\ answer[at + 1] \in {Stdout, Stderr}
      /\ \A i \in 2 .. 6 : answer[at + i] = 0
      /\ answer[at + 7] = Len(text) \div 256 /\ answer[at + 8] = Len(text) % 256
      /\ \A i \in 1 .. Len(text) : answer[at + HeaderLen + i] = text[i]
      /\ \A i \in 1 .. Len(line) : due[Due(k) + i] = line[i]
  BY DEF FrameAt
<1> HIDE DEF text, line, at
<1>7. ASSUME NEW i \in 1 .. HeaderLen + Len(text) PROVE answer'[at + i] = answer[at + i]
  <2>1. at + i \in 1 .. Len(answer)
    BY <1>3, <1>4, <1>6 DEF HeaderLen
  <2> QED
    BY <1>1, <2>1
<1>8. ASSUME NEW i \in 1 .. Len(line) PROVE due'[Due(k) + i] = due[Due(k) + i]
  <2>1. Due(k) + i \in 1 .. Len(due)
    <3>1. Due(k) + Len(line) <= Len(due)
      BY <1>3, <1>6
    <3> QED
      BY <1>3, <1>5, <3>1
  <2> QED
    BY <1>1, <2>1
<1>9. /\ answer'[at + 1] \in {Stdout, Stderr}
      /\ \A i \in 2 .. 6 : answer'[at + i] = 0
      /\ answer'[at + 7] = Len(text) \div 256 /\ answer'[at + 8] = Len(text) % 256
  <2>1. \A i \in 1 .. 8 : answer'[at + i] = answer[at + i]
    BY <1>4, <1>7 DEF HeaderLen
  <2> QED
    BY <1>6, <2>1
<1>10. \A i \in 1 .. Len(text) : answer'[at + HeaderLen + i] = text[i]
  <2> SUFFICES ASSUME NEW i \in 1 .. Len(text) PROVE answer'[at + HeaderLen + i] = text[i]
    OBVIOUS
  <2>1. HeaderLen + i \in 1 .. HeaderLen + Len(text) /\ at + HeaderLen + i = at + (HeaderLen + i)
    BY <1>3, <1>4 DEF HeaderLen
  <2> QED
    BY <1>6, <1>7, <2>1
<1>11. \A i \in 1 .. Len(line) : due'[Due(k)' + i] = line[i]
  BY <1>2, <1>6, <1>8
<1> QED
  BY <1>1, <1>2, <1>6, <1>9, <1>10, <1>11 DEF FrameAt, line

LEMMA SendLayout ==
  ASSUME DaemonTypes, Layout, NEW kind \in Streams, NEW m \in Lines, Send(kind, m)
  PROVE  Layout'
<1>1. Marked /\ framed' = framed
  BY DEF Layout, Send
<1>2. Marked'
  BY <1>1, SendMarked
<1>3. CASE framed
  <2>1. Len(sent') = Len(sent) + 1 /\ Len(sent) \in Nat
    BY <1>1, SendExtends
  <2>2. ASSUME NEW k \in 1 .. Len(sent) PROVE FrameAt(k)'
    BY <1>1, <1>3, FrameStays DEF Layout
  <2>3. ASSUME NEW k \in 1 .. Len(sent') PROVE FrameAt(k)'
    <3>1. CASE k = Len(sent) + 1
      BY <1>1, <1>3, <2>1, <3>1, SendFrame
    <3>2. CASE k \in 1 .. Len(sent)
      BY <2>2, <3>2
    <3> QED
      BY <2>1, <3>1, <3>2
  <2> QED
    BY <1>1, <1>2, <1>3, <2>3 DEF Layout
<1>4. CASE ~framed
  <2>1. answer' = answer \o m /\ m \in Seq(Text) /\ answer \in Seq(Text)
    BY <1>4, MessageFacts DEF Send, Layout
  <2>2. answer' \in Seq(Text)
    BY <2>1, ConcatProperties
  <2> QED
    BY <1>1, <1>2, <1>4, <2>2 DEF Layout
<1> QED
  BY <1>3, <1>4

-----------------------------------------------------------------------------
(* The parser of a log: what was read of whole frames is shown.            *)

\* No leftover of a split frame, and no panic.
Clean == whole => bsLeft = 0 /\ prevHeader = <<>> /\ parser # "panicked"

\* The reader has been given the lines of the messages before k.
ShownUpTo(text, k) == text = SubSeq(due, 1, Due(k))

\* Between two reads, the messages read are the messages shown.
Settled ==
  whole /\ parser = "reading" =>
    IF framed
      THEN \E k \in 1 .. Len(marks) : At(k) = pos /\ ShownUpTo(shown, k)
      ELSE shown = SubSeq(answer, 1, pos)

\* During one, what was shown before and bs are the lines of the messages up to
\* start, and the rest of p is that of the answer.
Parsing ==
  whole /\ parser = "parsing" =>
    /\ framed /\ AtBoundary(pos)
    /\ start <= n /\ n <= Buffer /\ n <= pos /\ Len(bs) <= start
    /\ \A i \in 1 .. n : p[i] = answer[pos - n + i]
    /\ \E k \in 1 .. Len(marks) : At(k) = pos - n + start /\ ShownUpTo(shown \o bs, k)

LogsInv == LogsTypeOK /\ Layout /\ Clean /\ Settled /\ Parsing

LEMMA LogsInvInit == LogsInit => LogsInv
<1> SUFFICES ASSUME LogsInit PROVE LogsInv
  OBVIOUS
<1>1. LogsTypeOK /\ Layout
  BY LogsTypeInit, LayoutInit
<1>2. Clean /\ Parsing
  BY DEF LogsInit, Clean, Parsing
<1>3. Settled
  <2>1. /\ answer = <<>> /\ due = <<>> /\ shown = <<>> /\ pos = 0
        /\ Len(marks) = 1 /\ At(1) = 0 /\ Due(1) = 0
    BY DEF LogsInit, At, Due
  <2>2. SubSeq(<<>>, 1, 0) = <<>>
    BY SubSeqEmpty
  <2> QED
    BY <2>1, <2>2 DEF Settled, ShownUpTo
<1> QED
  BY <1>1, <1>2, <1>3 DEF LogsInv

\* What the daemon sends changes nothing that was read.
LEMMA SendInv ==
  ASSUME LogsInv, NEW kind \in Streams, NEW m \in Lines, Send(kind, m)
  PROVE  Clean' /\ Settled' /\ Parsing'
<1>1. DaemonTypes /\ ParserTypes /\ Marked
  BY DEF LogsInv, LogsTypeOK, Layout
<1>2. /\ Len(marks') = Len(marks) + 1 /\ Len(marks) \in Nat
      /\ \A k \in 1 .. Len(marks) : marks'[k] = marks[k]
      /\ \A b \in 0 .. Len(answer) : SubSeq(answer', 1, b) = SubSeq(answer, 1, b)
      /\ \A b \in 0 .. Len(due) : SubSeq(due', 1, b) = SubSeq(due, 1, b)
      /\ \A i \in 1 .. Len(answer) : answer'[i] = answer[i]
  BY <1>1, SendExtends
<1>3. UNCHANGED <<framed, pos, target, bsLeft, prevHeader, parser, p, n, start, bs, shown, whole>>
  BY DEF Send, localVars
<1>4. ASSUME NEW k \in 1 .. Len(marks)
      PROVE  /\ k \in 1 .. Len(marks') /\ At(k)' = At(k)
             /\ \A text : ShownUpTo(text, k) => ShownUpTo(text, k)'
  <2>1. marks'[k] = marks[k] /\ k \in 1 .. Len(marks')
    BY <1>2
  <2>2. Due(k) \in 0 .. Len(due)
    BY <1>1, MarkFacts, LenProperties DEF Marked, DaemonTypes
  <2>3. At(k)' = At(k) /\ Due(k)' = Due(k)
    BY <2>1 DEF At, Due
  <2>4. SubSeq(due', 1, Due(k)') = SubSeq(due, 1, Due(k))
    BY <1>2, <2>2, <2>3
  <2> QED
    BY <2>1, <2>3, <2>4 DEF ShownUpTo
<1>5. Clean'
  BY <1>3 DEF LogsInv, Clean
<1>6. Settled'
  <2> SUFFICES ASSUME whole, parser = "reading"
               PROVE  IF framed
                        THEN \E k \in 1 .. Len(marks') : At(k)' = pos /\ ShownUpTo(shown, k)'
                        ELSE shown = SubSeq(answer', 1, pos)
    BY <1>3 DEF Settled, ShownUpTo
  <2>1. IF framed
          THEN \E k \in 1 .. Len(marks) : At(k) = pos /\ ShownUpTo(shown, k)
          ELSE shown = SubSeq(answer, 1, pos)
    BY DEF LogsInv, Settled
  <2>2. pos \in 0 .. Len(answer)
    BY <1>1 DEF ParserTypes
  <2>3. CASE framed
    <3>1. PICK k \in 1 .. Len(marks) : At(k) = pos /\ ShownUpTo(shown, k)
      BY <2>1, <2>3
    <3>2. k \in 1 .. Len(marks') /\ At(k)' = pos /\ SubSeq(due, 1, Due(k)) = SubSeq(due', 1, Due(k)')
      BY <1>4, <3>1 DEF ShownUpTo
    <3> QED
      BY <2>3, <1>3, <3>1, <3>2 DEF ShownUpTo
  <2>4. CASE ~framed
    BY <1>2, <2>1, <2>2, <2>4
  <2> QED
    BY <2>3, <2>4
<1>7. Parsing'
  <2> SUFFICES ASSUME whole, parser = "parsing" PROVE Parsing'
    BY <1>3 DEF Parsing
  <2>1. /\ framed /\ AtBoundary(pos)
        /\ start <= n /\ n <= Buffer /\ n <= pos /\ Len(bs) <= start
        /\ \A i \in 1 .. n : p[i] = answer[pos - n + i]
        /\ \E k \in 1 .. Len(marks) : At(k) = pos - n + start /\ ShownUpTo(shown \o bs, k)
    BY DEF LogsInv, Parsing
  <2>2. AtBoundary(pos)'
    <3>1. PICK k \in 1 .. Len(marks) : marks[k].at = pos
      BY <2>1 DEF AtBoundary
    <3>2. k \in 1 .. Len(marks') /\ marks'[k].at = pos
      BY <1>2, <3>1
    <3> QED
      BY <1>3, <3>2 DEF AtBoundary
  <2>3. \A i \in 1 .. n : p[i] = answer'[pos - n + i]
    <3>1. n \in Nat /\ pos \in Nat /\ pos <= Len(answer) /\ Len(answer) \in Nat
      BY <1>1, LenProperties DEF ParserTypes, DaemonTypes
    <3>2. \A i \in 1 .. n : pos - n + i \in 1 .. Len(answer)
      BY <2>1, <3>1
    <3> QED
      BY <1>2, <2>1, <3>2
  <2>4. PICK k \in 1 .. Len(marks) : At(k) = pos - n + start /\ ShownUpTo(shown \o bs, k)
    BY <2>1
  <2>5. /\ k \in 1 .. Len(marks') /\ At(k)' = pos - n + start
        /\ shown \o bs = SubSeq(due', 1, Due(k)')
    BY <1>4, <2>4 DEF ShownUpTo
  <2>6. /\ framed' /\ start' <= n' /\ n' <= Buffer /\ n' <= pos' /\ Len(bs') <= start'
        /\ \A i \in 1 .. n' : p'[i] = answer'[pos' - n' + i]
    BY <1>3, <2>1, <2>3
  <2>7. \E j \in 1 .. Len(marks') : At(j)' = pos' - n' + start' /\ ShownUpTo(shown \o bs, j)'
    BY <1>3, <2>5 DEF ShownUpTo
  <2> QED
    BY <2>2, <2>6, <2>7 DEF Parsing
<1> QED
  BY <1>5, <1>6, <1>7

\* Between two marks lie whole frames: at the first of them begins one that ends no
\* later than the second.
LEMMA NextFrame ==
  ASSUME DaemonTypes, Layout, framed,
         NEW i \in 1 .. Len(marks), NEW j \in 1 .. Len(marks), At(i) < At(j)
  PROVE  /\ i \in 1 .. Len(sent) /\ i + 1 \in 1 .. Len(marks)
         /\ FrameAt(i) /\ At(i + 1) <= At(j)
         /\ sent[i] \in Lines /\ sent[i] \in Seq(Byte) /\ Len(sent[i]) \in 1 .. MaxMessage
<1>1. /\ Len(marks) = Len(sent) + 1 /\ Len(sent) \in Nat
      /\ \A k, l \in 1 .. Len(marks) : k < l => At(k) < At(l)
      /\ \A k \in 1 .. Len(sent) : FrameAt(k)
  BY LenProperties DEF Layout, Marked, DaemonTypes
<1>2. \A k \in 1 .. Len(marks) : At(k) \in Nat
  BY MarkFacts
<1>3. i < j
  <2> SUFFICES ASSUME ~(i < j) PROVE FALSE
    OBVIOUS
  <2>1. CASE i = j
    BY <1>2, <2>1
  <2>2. CASE j < i
    BY <1>1, <1>2, <2>2
  <2> QED
    BY <1>1, <2>1, <2>2
<1>4. i \in 1 .. Len(sent) /\ i + 1 \in 1 .. Len(marks)
  BY <1>1, <1>3
<1>5. At(i + 1) <= At(j)
  <2>1. CASE i + 1 = j
    BY <1>2, <2>1
  <2>2. CASE i + 1 < j
    BY <1>1, <1>2, <1>4, <2>2
  <2> QED
    BY <1>3, <2>1, <2>2
<1>6. sent[i] \in Lines
  BY <1>4, ElementOfSeq DEF DaemonTypes
<1> QED
  BY <1>1, <1>4, <1>5, <1>6, MessageFacts

\* What a Read of the answer puts into the buffer.
LEMMA ChunkFacts ==
  ASSUME DaemonTypes, ParserTypes, NEW k \in 1 .. Buffer, pos + k <= Len(answer),
         NEW t, t = Copied(target, SubSeq(answer, pos + 1, pos + k))
  PROVE  /\ t \in Seq(Byte) /\ Len(t) = Buffer
         /\ \A i \in 1 .. k : t[i] = answer[pos + i]
         /\ k \in Nat /\ k >= 1 /\ k <= Buffer /\ pos \in Nat /\ Len(answer) \in Nat
         /\ SubSeq(t, 1, k) = SubSeq(answer, pos + 1, pos + k)
<1> DEFINE chunk == SubSeq(answer, pos + 1, pos + k)
<1>1. /\ answer \in Seq(Byte) /\ Len(answer) \in Nat
      /\ k \in Nat /\ k >= 1 /\ k <= Buffer /\ Buffer \in Nat
      /\ pos \in Nat
  BY LogsAssumption, LenProperties DEF DaemonTypes, ParserTypes
<1>2. /\ chunk \in Seq(Byte) /\ Len(chunk) = k
      /\ \A i \in 1 .. k : chunk[i] = answer[pos + i]
  BY <1>1, SliceFacts
<1>3. t = Copied(target, chunk)
  OBVIOUS
<1> HIDE DEF chunk
<1>4. /\ t \in [1 .. Buffer -> Byte]
      /\ \A i \in 1 .. Buffer : i <= Len(chunk) => t[i] = chunk[i]
  <2>1. target \in [1 .. Buffer -> Byte] /\ chunk \in Seq(Byte)
    BY <1>2 DEF ParserTypes
  <2> QED
    BY <1>3, <2>1, CopyFacts
<1>5. t \in Seq(Byte) /\ Len(t) = Buffer
  BY <1>4, BufferFacts
<1>6. \A i \in 1 .. k : t[i] = chunk[i]
  BY <1>1, <1>2, <1>4
<1>7. /\ SubSeq(t, 1, k) \in Seq(Byte) /\ Len(SubSeq(t, 1, k)) = k
      /\ \A i \in 1 .. k : SubSeq(t, 1, k)[i] = t[i]
  BY <1>1, <1>5, PrefixFacts
<1>8. SubSeq(t, 1, k) = chunk
  BY <1>2, <1>6, <1>7, SeqEqual
<1> QED
  BY <1>1, <1>2, <1>5, <1>6, <1>8 DEF chunk

\* A Read that splits no frame, and one that does not split the zeros of text.
OfFrames == framed /\ whole'
OfText == ~framed /\ whole'

\* A read of whole frames has a header in front, and is not taken for text.
LEMMA ReadFrames ==
  ASSUME LogsInv, NEW k \in 1 .. Buffer, Read(k), OfFrames
  PROVE  Clean' /\ Settled' /\ Parsing'
<1>1. DaemonTypes /\ ParserTypes /\ Layout
  BY DEF LogsInv, LogsTypeOK
<1>2. PICK t : t = Copied(target, SubSeq(answer, pos + 1, pos + k))
  OBVIOUS
<1>0. framed /\ whole /\ whole' /\ AtBoundary(pos + k)
  BY DEF Read, OfFrames
<1>3. /\ parser = "reading"
      /\ pos + k <= Len(answer) /\ pos' = pos + k /\ UNCHANGED daemonVars
  BY DEF Read
<1>4. /\ t \in Seq(Byte) /\ Len(t) = Buffer
      /\ \A i \in 1 .. k : t[i] = answer[pos + i]
      /\ k \in Nat /\ k >= 1 /\ k <= Buffer /\ pos \in Nat
  BY <1>1, <1>2, <1>3, ChunkFacts
<1>5. bsLeft = 0 /\ prevHeader = <<>>
  BY <1>0, <1>3 DEF LogsInv, Clean
<1>6. PICK i \in 1 .. Len(marks) : At(i) = pos /\ ShownUpTo(shown, i)
  BY <1>0, <1>3 DEF LogsInv, Settled
<1>7. PICK j \in 1 .. Len(marks) : At(j) = pos + k
  BY <1>0, <1>3 DEF AtBoundary, At
<1>8. /\ FrameAt(i) /\ At(i + 1) <= At(j) /\ Len(sent[i]) \in 1 .. MaxMessage
  <2>1. At(i) < At(j)
    BY <1>4, <1>6, <1>7
  <2> QED
    BY <1>0, <1>1, <2>1, NextFrame
<1>9. ~IsText(t, k)
  <2>1. /\ At(i + 1) = pos + HeaderLen + Len(sent[i])
        /\ \A x \in 2 .. 6 : answer[pos + x] = 0
    BY <1>6, <1>8 DEF FrameAt
  <2>2. k >= 8
    <3>1. PICK len \in Nat : len = Len(sent[i])
      BY <1>8, Sizes
    <3>2. pos + HeaderLen + len <= pos + k
      BY <1>7, <1>8, <2>1, <3>1
    <3>3. k \in Nat /\ pos \in Nat
      BY <1>4
    <3> QED
      BY <3>2, <3>3 DEF HeaderLen
  <2>3. \A x \in 2 .. 4 : t[x] = 0
    <3>1. \A x \in 2 .. 4 : x \in 1 .. k /\ x \in 2 .. 6
      BY <1>4, <2>2
    <3> QED
      BY <1>4, <2>1, <3>1
  <2> QED
    BY <2>3 DEF IsText
<1>10. Buffer \in Nat /\ bsLeft <= Buffer
  BY <1>4, <1>5, LogsAssumption
<1>11. /\ parser' = "parsing" /\ p' = t /\ n' = k
       /\ start' = 0 /\ bs' = _makeLine(SubSeq(t, 1, 0))
       /\ bsLeft' = 0 /\ prevHeader' = <<>> /\ shown' = shown
  BY <1>2, <1>5, <1>9, <1>10 DEF Read
<1>12. bs' = <<>>
  <2>1. SubSeq(t, 1, 0) = <<>>
    BY SubSeqEmpty
  <2> QED
    BY <1>11, <2>1 DEF _makeLine
<1>13. shown \o <<>> = shown
  BY <1>1, ConcatEmptySeq DEF ParserTypes
<1>14. Clean'
  BY <1>11 DEF Clean
<1>15. Settled'
  BY <1>11 DEF Settled
<1>16. Parsing'
  <2>1. /\ framed' /\ Len(bs') <= start' /\ start' <= n' /\ n' <= Buffer /\ n' <= pos'
    BY <1>0, <1>3, <1>4, <1>11, <1>12 DEF daemonVars
  <2>2. AtBoundary(pos)'
    BY <1>0, <1>3 DEF AtBoundary, daemonVars
  <2>3. \A x \in 1 .. n' : p'[x] = answer'[pos' - n' + x]
    BY <1>3, <1>4, <1>11 DEF daemonVars
  <2>4. /\ marks' = marks /\ due' = due /\ pos' - n' + start' = pos
        /\ shown' \o bs' = shown
    <3>1. marks' = marks /\ due' = due
      BY <1>3 DEF daemonVars
    <3>2. pos + k - k + 0 = pos
      BY <1>4
    <3>3. pos' - n' + start' = pos
      <4>1. pos' = pos + k /\ n' = k /\ start' = 0
        BY <1>3, <1>11
      <4> QED
        BY <1>4, <4>1
    <3> QED
      BY <1>11, <1>12, <1>13, <3>1, <3>3
  <2>5. \E x \in 1 .. Len(marks') : At(x)' = pos' - n' + start' /\ ShownUpTo(shown \o bs, x)'
    BY <1>6, <2>4 DEF At, Due, ShownUpTo
  <2> QED
    BY <2>1, <2>2, <2>3, <2>5 DEF Parsing
<1> QED
  BY <1>14, <1>15, <1>16

\* A read of at least four bytes of text is text.
LEMMA ReadText ==
  ASSUME LogsInv, NEW k \in 1 .. Buffer, Read(k), OfText
  PROVE  Clean' /\ Settled' /\ Parsing'
<1>1. DaemonTypes /\ ParserTypes /\ Layout
  BY DEF LogsInv, LogsTypeOK
<1>2. PICK t : t = Copied(target, SubSeq(answer, pos + 1, pos + k))
  OBVIOUS
<1>0. ~framed /\ whole /\ whole' /\ k >= 4
  BY DEF Read, OfText
<1>3. /\ parser = "reading"
      /\ pos + k <= Len(answer) /\ pos' = pos + k /\ UNCHANGED daemonVars
  BY DEF Read
<1>4. /\ \A i \in 1 .. k : t[i] = answer[pos + i]
      /\ k \in Nat /\ pos \in Nat /\ Len(answer) \in Nat
      /\ SubSeq(t, 1, k) = SubSeq(answer, pos + 1, pos + k)
  BY <1>1, <1>2, <1>3, ChunkFacts
<1>5. IsText(t, k)
  <2>1. pos + 2 \in 1 .. Len(answer) /\ answer \in Seq(Text)
    BY <1>0, <1>1, <1>3, <1>4 DEF Layout
  <2>2. answer[pos + 2] \in Text
    BY <2>1, ElementOfSeq
  <2>3. t[2] # 0
    BY <1>0, <1>3, <1>4, <2>2, Sizes DEF Text
  <2> QED
    BY <1>0, <1>3, <2>3 DEF IsText
<1>6. /\ shown' = shown \o SubSeq(t, 1, k)
      /\ UNCHANGED <<parser, bsLeft, prevHeader>>
  BY <1>0, <1>2, <1>5 DEF Read, Show
<1>7. shown = SubSeq(answer, 1, pos)
  BY <1>0, <1>3 DEF LogsInv, Settled
<1>8. shown' = SubSeq(answer, 1, pos + k)
  <2>1. /\ answer \in Seq(Byte)
        /\ 1 \in 1 .. Len(answer) + 1 /\ pos \in 1 - 1 .. Len(answer)
        /\ pos + k \in pos .. Len(answer)
    BY <1>1, <1>3, <1>4 DEF DaemonTypes
  <2>2. SubSeq(answer, 1, pos) \o SubSeq(answer, pos + 1, pos + k) = SubSeq(answer, 1, pos + k)
    BY <2>1, ConcatAdjacentSubSeq
  <2> QED
    BY <1>4, <1>6, <1>7, <2>2
<1>9. Clean'
  BY <1>0, <1>3, <1>6 DEF LogsInv, Clean
<1>10. Settled'
  BY <1>0, <1>3, <1>8 DEF Settled, daemonVars
<1>11. Parsing'
  BY <1>0, <1>3, <1>6 DEF Parsing
<1> QED
  BY <1>9, <1>10, <1>11

LEMMA ReadInv ==
  ASSUME LogsInv, NEW k \in 1 .. Buffer, Read(k)
  PROVE  Clean' /\ Settled' /\ Parsing'
<1>1. CASE ~whole'
  BY <1>1 DEF Clean, Settled, Parsing
<1>2. CASE whole' /\ framed
  BY <1>2, ReadFrames DEF OfFrames
<1>3. CASE whole' /\ ~framed
  BY <1>3, ReadText DEF OfText
<1> QED
  BY <1>1, <1>2, <1>3

\* Where the parser is among the frames that it was given.
LEMMA Place ==
  ASSUME LogsInv, whole, parser = "parsing"
  PROVE  /\ framed /\ start <= n /\ n <= Buffer /\ n <= pos /\ Len(bs) <= start
         /\ \A x \in 1 .. n : p[x] = answer[pos - n + x]
         /\ n \in Nat /\ start \in Nat /\ pos \in Nat /\ Buffer \in Nat /\ n <= Len(p)
         /\ Len(p) \in Nat /\ Len(bs) \in Nat
         /\ bsLeft = 0 /\ prevHeader = <<>>
         /\ DaemonTypes /\ ParserTypes /\ Layout
BY LogsAssumption, LenProperties DEF LogsInv, Parsing, Clean, LogsTypeOK, ParserTypes

\* A Read that returns no more than the buffer has room for returns all of it.
LEMMA ReturnsAll ==
  ASSUME ParserTypes, whole', NEW line \in Seq(Byte), Len(line) <= Buffer, Returns(line)
  PROVE  shown' = shown \o line
<1>1. (IF Len(line) < Buffer THEN Len(line) ELSE Buffer) = Len(line)
  BY LogsAssumption, LenProperties
<1>2. SubSeq(line, 1, Len(line)) = line
  BY SubSeqFull
<1> QED
  BY <1>1, <1>2 DEF Returns, Show

\* All that was read is parsed.
LEMMA ParseEnd ==
  ASSUME LogsInv, Parse, whole, start = n
  PROVE  Clean' /\ Settled' /\ Parsing'
<1>1. parser = "parsing"
  BY DEF Parse
<1>2. /\ framed /\ n <= Buffer /\ n <= pos /\ Len(bs) <= n
      /\ n \in Nat /\ pos \in Nat /\ n <= Len(p)
      /\ bsLeft = 0 /\ ParserTypes
  BY <1>1, Place
<1>3. PICK k \in 1 .. Len(marks) : At(k) = pos - n + start /\ ShownUpTo(shown \o bs, k)
  BY <1>1 DEF LogsInv, Parsing
<1>4. At(k) = pos
  BY <1>2, <1>3
<1>5. KeepHeader /\ UNCHANGED <<daemonVars, pos, whole>>
  <2>1. ~(start + HeaderLen <= n)
    BY <1>2 DEF HeaderLen
  <2> QED
    BY <2>1 DEF Parse, DropRest, HasHeader
<1>6. prevHeader' = SubSeq(p, start + 1, n) /\ Returns(bs) /\ bsLeft' = 0
  BY <1>2, <1>5 DEF KeepHeader
<1>7. prevHeader' = <<>>
  <2>1. SubSeq(p, n + 1, n) = <<>>
    BY <1>2, SubSeqEmpty
  <2> QED
    BY <1>6, <2>1
<1>8. shown' = shown \o bs
  <2>1. bs \in Seq(Byte) /\ Len(bs) <= Buffer
    BY <1>2, LogsAssumption, LenProperties DEF ParserTypes
  <2>2. whole'
    BY <1>5
  <2> QED
    BY <1>2, <1>6, <2>1, <2>2, ReturnsAll
<1>9. parser' = "reading"
  BY <1>6 DEF Returns
<1>10. Clean'
  BY <1>6, <1>7, <1>9 DEF Clean
<1>11. Settled'
  <2>1. \E x \in 1 .. Len(marks') : At(x)' = pos' /\ ShownUpTo(shown, x)'
    BY <1>3, <1>4, <1>5, <1>8 DEF daemonVars, At, Due, ShownUpTo
  <2> QED
    BY <1>2, <1>5, <2>1 DEF Settled, daemonVars
<1>12. Parsing'
  BY <1>9 DEF Parsing
<1> QED
  BY <1>10, <1>11, <1>12

\* At start begins a frame that is all there.
LEMMA FrameThere ==
  ASSUME LogsInv, whole, parser = "parsing", start < n,
         NEW k \in 1 .. Len(marks), At(k) = pos - n + start
  PROVE  /\ FrameAt(k) /\ k + 1 \in 1 .. Len(marks)
         /\ sent[k] \in Seq(Byte) /\ Len(sent[k]) \in Nat
         /\ HasHeader /\ msgLen = Len(sent[k])
         /\ first + msgLen <= n
         /\ SubSeq(p, first + 1, first + msgLen) = sent[k]
<1> DEFINE m == sent[k]
           len == Len(m)
<1>1. /\ framed /\ n <= pos
      /\ \A x \in 1 .. n : p[x] = answer[pos - n + x]
      /\ n \in Nat /\ start \in Nat /\ pos \in Nat /\ n <= Len(p)
      /\ Len(p) \in Nat
      /\ DaemonTypes /\ ParserTypes /\ Layout
  BY Place
<1>2. PICK j \in 1 .. Len(marks) : At(j) = pos
  BY DEF LogsInv, Parsing, AtBoundary, At
<1>3. At(k) < At(j)
  BY <1>1, <1>2
<1>4. /\ FrameAt(k) /\ k + 1 \in 1 .. Len(marks) /\ At(k + 1) <= pos
      /\ m \in Seq(Byte) /\ len \in 1 .. MaxMessage
  BY <1>1, <1>2, <1>3, NextFrame
<1>5. len \in Nat /\ len < 256 * 256
  BY <1>4, Sizes
<1>6. /\ At(k + 1) = At(k) + HeaderLen + len
      /\ answer[At(k) + 1] \in {Stdout, Stderr}
      /\ \A i \in 2 .. 6 : answer[At(k) + i] = 0
      /\ answer[At(k) + 7] = len \div 256 /\ answer[At(k) + 8] = len % 256
      /\ \A i \in 1 .. len : answer[At(k) + HeaderLen + i] = m[i]
  BY <1>4 DEF FrameAt
<1> HIDE DEF m, len
<1>7. start + 8 + len <= n
  <2>1. pos - n + start + 8 + len <= pos
    BY <1>4, <1>6 DEF HeaderLen
  <2> QED
    BY <1>1, <1>5, <2>1
<1>8. ASSUME NEW x \in 1 .. 8 + len
      PROVE  p[start + x] = answer[At(k) + x]
  <2>1. start + x \in 1 .. n
    BY <1>1, <1>5, <1>7
  <2>2. pos - n + (start + x) = (pos - n + start) + x
    BY <1>1
  <2> QED
    BY <1>1, <2>1, <2>2
<1>9. /\ p[start + 1] \in {Stdout, Stderr}
      /\ p[start + 5] = 0 /\ p[start + 6] = 0
      /\ p[start + 7] = len \div 256 /\ p[start + 8] = len % 256
  BY <1>5, <1>6, <1>8
<1>10. HasHeader
  BY <1>1, <1>5, <1>7, <1>9 DEF HasHeader, HeaderLen
<1>11. msgLen = len
  <2>1. PICK high \in Nat, low \in Nat : high = len \div 256 /\ low = len % 256
    BY <1>5
  <2>2. len = high * 256 + low
    BY <1>5, <2>1
  <2>3. p[start + 5] = 0 /\ p[start + 6] = 0 /\ p[start + 7] = high /\ p[start + 8] = low
    BY <1>9, <2>1
  <2>4. msgLen = high * 256 + low
    BY <2>3 DEF msgLen
  <2> QED
    BY <2>2, <2>4
<1>12. first \in Nat /\ first + len <= n /\ first = start + 8
  BY <1>1, <1>7 DEF first, HeaderLen
<1>13. SubSeq(p, first + 1, first + len) = m
  <2>1. p \in Seq(Byte)
    BY <1>1 DEF ParserTypes
  <2>2. /\ SubSeq(p, first + 1, first + len) \in Seq(Byte)
        /\ Len(SubSeq(p, first + 1, first + len)) = len
        /\ \A i \in 1 .. len : SubSeq(p, first + 1, first + len)[i] = p[first + i]
    <3> DEFINE stop == first + len
    <3>1. stop \in Nat /\ stop <= Len(p) /\ first <= stop /\ stop - first = len
      BY <1>1, <1>5, <1>12
    <3> HIDE DEF stop
    <3>2. /\ SubSeq(p, first + 1, stop) \in Seq(Byte)
          /\ Len(SubSeq(p, first + 1, stop)) = stop - first
          /\ \A i \in 1 .. stop - first : SubSeq(p, first + 1, stop)[i] = p[first + i]
      <4>1. first \in Nat
        BY <1>12
      <4> HIDE DEF first
      <4> QED
        BY <2>1, <3>1, <4>1, SliceFacts
    <3> QED
      BY <3>1, <3>2 DEF stop
  <2>3. ASSUME NEW i \in 1 .. len PROVE p[first + i] = m[i]
    <3>1. 8 + i \in 1 .. 8 + len /\ first + i = start + (8 + i)
      BY <1>1, <1>5, <1>12
    <3>2. p[first + i] = answer[At(k) + (8 + i)]
      BY <1>8, <3>1
    <3>3. At(k) + (8 + i) = At(k) + HeaderLen + i
      <4>1. At(k) \in Nat
        BY <1>1, MarkFacts
      <4> QED
        BY <1>5, <4>1 DEF HeaderLen
    <3> QED
      BY <1>6, <3>2, <3>3
  <2>4. m \in Seq(Byte) /\ Len(m) = len
    BY <1>4 DEF len
  <2> QED
    BY <2>2, <2>3, <2>4, SeqEqual
<1> QED
  BY <1>4, <1>5, <1>10, <1>11, <1>12, <1>13 DEF m, len

\* A frame is taken whole, and its line goes to bs.
LEMMA ParseFrame ==
  ASSUME LogsInv, Parse, whole, start < n
  PROVE  Clean' /\ Settled' /\ Parsing'
<1>1. parser = "parsing"
  BY DEF Parse
<1>2. /\ framed /\ n <= Buffer /\ n <= pos /\ Len(bs) <= start
      /\ \A x \in 1 .. n : p[x] = answer[pos - n + x]
      /\ n \in Nat /\ start \in Nat /\ pos \in Nat /\ Len(bs) \in Nat
      /\ bsLeft = 0 /\ prevHeader = <<>> /\ DaemonTypes /\ ParserTypes /\ Layout
  BY <1>1, Place
<1>3. PICK k \in 1 .. Len(marks) : At(k) = pos - n + start /\ ShownUpTo(shown \o bs, k)
  BY <1>1 DEF LogsInv, Parsing
<1> DEFINE m == sent[k]
           line == _makeLine(m)
<1>4. /\ FrameAt(k) /\ k + 1 \in 1 .. Len(marks)
      /\ m \in Seq(Byte) /\ Len(m) \in Nat
      /\ HasHeader /\ msgLen = Len(m) /\ first + msgLen <= n
      /\ SubSeq(p, first + 1, first + msgLen) = m
  BY <1>1, <1>3, FrameThere
<1>5. first = start + 8
  BY DEF first, HeaderLen
<1>6. TakeMessage /\ UNCHANGED <<daemonVars, pos, whole>>
  <2>1. start + HeaderLen <= n /\ p[start + 1] \in {Stdout, Stderr}
    BY <1>4 DEF HasHeader
  <2>2. ~KeepHeader
    BY <1>2, <2>1 DEF KeepHeader, HeaderLen
  <2>3. ~DropRest
    BY <2>1 DEF DropRest
  <2>4. ~(first + msgLen > n)
    <3>1. msgLen \in Nat /\ first \in Nat /\ n \in Nat
      BY <1>2, <1>4, <1>5
    <3>2. first + msgLen <= n
      BY <1>4
    <3> HIDE DEF first, msgLen
    <3> QED
      BY <3>1, <3>2
  <2> QED
    BY <2>2, <2>3, <2>4 DEF Parse
<1>7. /\ bs' = bs \o line /\ start' = start + 8 + Len(m)
      /\ UNCHANGED <<p, n, parser, bsLeft, prevHeader, shown, marks, due, answer, framed, pos, whole>>
  BY <1>4, <1>5, <1>6 DEF TakeMessage, daemonVars
<1>8. /\ line \in Seq(Byte) /\ Len(line) \in Nat /\ Len(line) <= Len(m) + 1
  <2>1. Return \in Byte
    BY Sizes DEF Byte, Text
  <2> QED
    BY <1>4, <2>1, LineFacts
<1>9. /\ At(k + 1) = At(k) + 8 + Len(m)
      /\ Due(k + 1) = Due(k) + Len(line)
      /\ \A i \in 1 .. Len(line) : due[Due(k) + i] = line[i]
  BY <1>4 DEF FrameAt, HeaderLen
<1> HIDE DEF m, line
<1>10. start' <= n /\ Len(bs') <= start'
  <2>1. start + 8 + Len(m) <= n
    BY <1>4, <1>5
  <2>2. Len(bs \o line) = Len(bs) + Len(line)
    BY <1>2, <1>8, ConcatProperties DEF ParserTypes
  <2>3. Len(bs) + Len(line) <= start + 8 + Len(m)
    BY <1>2, <1>4, <1>8
  <2> QED
    BY <1>7, <2>1, <2>2, <2>3
<1>11. At(k + 1) = pos - n + start'
  <2>1. pos - n + start + 8 + Len(m) = pos - n + (start + 8 + Len(m))
    BY <1>2, <1>4
  <2> QED
    BY <1>3, <1>7, <1>9, <2>1
<1>12. ShownUpTo(shown \o bs, k + 1)'
  <2>1. shown \o (bs \o line) = (shown \o bs) \o line
    <3>1. shown \in Seq(Byte) /\ bs \in Seq(Byte) /\ line \in Seq(Byte)
      BY <1>2, <1>8 DEF ParserTypes
    <3>2. \A s, t, u \in Seq(Byte) : (s \o t) \o u = s \o (t \o u)
      BY ConcatAssociative
    <3> QED
      BY <3>1, <3>2
  <2>2. shown \o bs = SubSeq(due, 1, Due(k))
    BY <1>3 DEF ShownUpTo
  <2>3. /\ Due(k) \in Nat /\ Due(k + 1) \in Nat /\ Due(k + 1) <= Len(due)
    BY <1>2, <1>4, MarkFacts DEF Layout, Marked
  <2>4. due \in Seq(Byte)
    <3>1. Text \subseteq Byte
      BY DEF Text, Byte
    <3>2. due \in Seq(Text)
      BY <1>2 DEF DaemonTypes
    <3> QED
      BY <3>1, <3>2
  <2>5. SubSeq(due, 1, Due(k)) \o line = SubSeq(due, 1, Due(k + 1))
    <3> DEFINE a == Due(k)
               b == Due(k + 1)
    <3>1. a \in Nat /\ b \in Nat /\ a <= b /\ b <= Len(due) /\ Len(line) = b - a
      BY <1>8, <1>9, <2>3
    <3>2. \A i \in 1 .. Len(line) : due[a + i] = line[i]
      BY <1>9
    <3> HIDE DEF a, b
    <3>3. SubSeq(due, 1, a) \o line = SubSeq(due, 1, b)
      BY <1>8, <2>4, <3>1, <3>2, Extend
    <3> QED
      BY <3>3 DEF a, b
  <2> QED
    BY <1>7, <2>1, <2>2, <2>5 DEF ShownUpTo, Due
<1>13. Clean'
  BY <1>1, <1>2, <1>7 DEF Clean
<1>14. Settled'
  BY <1>1, <1>7 DEF Settled
<1>15. Parsing'
  <2>1. \E x \in 1 .. Len(marks') : At(x)' = pos' - n' + start' /\ ShownUpTo(shown \o bs, x)'
    <3>1. k + 1 \in 1 .. Len(marks') /\ At(k + 1)' = pos' - n' + start'
      BY <1>4, <1>7, <1>11 DEF At
    <3> QED
      BY <1>12, <3>1
  <2>2. AtBoundary(pos)'
    BY <1>1, <1>7 DEF LogsInv, Parsing, AtBoundary
  <2>3. /\ framed' /\ start' <= n' /\ n' <= Buffer /\ n' <= pos' /\ Len(bs') <= start'
        /\ \A i \in 1 .. n' : p'[i] = answer'[pos' - n' + i]
    BY <1>2, <1>7, <1>10
  <2> QED
    BY <2>1, <2>2, <2>3 DEF Parsing
<1> QED
  BY <1>13, <1>14, <1>15

LEMMA ParseInv ==
  ASSUME LogsInv, Parse
  PROVE  Clean' /\ Settled' /\ Parsing'
<1>1. CASE ~whole
  <2>1. ~whole'
    BY <1>1 DEF Parse
  <2> QED
    BY <2>1 DEF Clean, Settled, Parsing
<1>2. CASE whole
  <2>1. start <= n /\ start \in Nat /\ n \in Nat
    BY <1>2, Place DEF Parse
  <2>2. start = n \/ start < n
    BY <2>1
  <2> QED
    BY <1>2, <2>2, ParseEnd, ParseFrame
<1> QED
  BY <1>1, <1>2

LEMMA LogsInvStep == LogsInv /\ [LogsNext]_logsVars => LogsInv'
<1> SUFFICES ASSUME LogsInv, [LogsNext]_logsVars PROVE LogsInv'
  OBVIOUS
<1>1. LogsTypeOK'
  BY LogsTypeStep DEF LogsInv
<1>2. LogsTypeOK /\ DaemonTypes /\ Layout
  BY DEF LogsInv, LogsTypeOK
<1>3. ASSUME NEW kind \in Streams, NEW m \in Lines, Send(kind, m) PROVE LogsInv'
  BY <1>1, <1>2, <1>3, SendLayout, SendInv DEF LogsInv
<1>4. ASSUME UNCHANGED daemonVars PROVE Layout'
  BY <1>2, <1>4 DEF daemonVars, Layout, Marked, FrameAt, At, Due
<1>5. ASSUME NEW k \in 1 .. Buffer, Read(k) PROVE LogsInv'
  <2>1. UNCHANGED daemonVars
    BY <1>5 DEF Read
  <2> QED
    BY <1>1, <1>4, <1>5, <2>1, ReadInv DEF LogsInv
<1>6. CASE Parse
  <2>1. UNCHANGED daemonVars
    BY <1>6 DEF Parse
  <2> QED
    BY <1>1, <1>4, <1>6, <2>1, ParseInv DEF LogsInv
<1>7. CASE UNCHANGED logsVars
  <2>1. UNCHANGED daemonVars
    BY <1>7 DEF logsVars
  <2>2. Clean' /\ Settled' /\ Parsing'
    BY <1>7 DEF LogsInv, Clean, Settled, Parsing, AtBoundary, ShownUpTo, At, Due,
                logsVars, daemonVars, localVars
  <2> QED
    BY <1>1, <1>4, <2>1, <2>2 DEF LogsInv
<1> QED
  BY <1>3, <1>5, <1>6, <1>7 DEF LogsNext, Ended

LEMMA LogsCorrect == LogsSpec => []LogsInv
<1> QED
  BY LogsInvInit, LogsInvStep, PTL DEF LogsSpec

\* The parser of a log keeps to its types: what is left over from a read is less
\* than a header, or the rest of a message, never both.
THEOREM LogsTypes == LogsSpec => []LogsTypeOK
<1>1. LogsInv => LogsTypeOK
  BY DEF LogsInv
<1> QED
  BY <1>1, LogsCorrect, PTL

\* As long as no read splits a frame, or is too short to tell text from a header,
\* logReadCloser.Read shows the messages, without headers and with their returns.
THEOREM FramesShown == LogsSpec => []WholeFramesShown
<1>1. LogsInv => WholeFramesShown
  BY DEF LogsInv, Clean, Settled, WholeFramesShown, ShownUpTo, At, Due
<1> QED
  BY <1>1, LogsCorrect, PTL
=============================================================================
