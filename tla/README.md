# A verification project for container-web-tty

container-web-tty serves the terminals of containers to browsers: a browser
opens an exec link, the server execs a shell in the container through one of
three backends (Docker, Kubernetes, another container-web-tty over gRPC), and
bridges the two. Others who open the same link watch the same terminal, and may
type into it. This directory holds TLA+ models of the code, TLC configurations
that check them on small instances, and TLAPS proofs for all instances.
`PROJECT.json` maps every definition to the source lines that it models and
lists runs, properties, theorems, hazards and findings.

Run `tlc -config X.cfg M` for a run of `PROJECT.json`, and `tlapm M.tla` for a
module whose name ends in `Proofs`.

## 1. Inventory

| Component | State | Operations | Hard behaviour |
|---|---|---|---|
| Exec sessions (`route/exec.go`, `share.go`, `id.go`, `handler_atomic.go`) | `server.execs`, `server.masters` under `server.m`; the connection counter with its WaitGroup | redirect (mint an exec ID), connect, host (GetInfo, admission, upgrade, Exec, register, run, cleanup), view (upgrade, check, fork, run) | one goroutine a connection; lookup and registration are two critical sections with slow calls in between; deferred cleanups on every return path; the tab closes at any moment |
| Write arbiter (`types/tty.go`, `mutexWriter`) | two times, the last slave, a mutex held across `TTY.Write` | `MasterTTY.Write`, `SlaveTTY.Write` | several browsers type at once, the clock runs on between check, stamp and write |
| Broadcast (`types/tty.go`) | the pubsub topic of a session, `MasterTTY.outputs`, the copy of a viewer | `MasterTTY.Read`, the recorder goroutine, `Fork`, `SlaveTTY.Read` | `outputs` is read and written without a lock; snapshot and subscription must join without a gap |
| Idle timeout (`route/exec.go:138-160`, the `Read` and `Exit` of the backends' TTYs) | `activeChan`, the timer, the cancelled context | helper goroutines of `Read`, watcher, `Exit` | check-then-send against close; expiry against activity; slow browsers |
| Start and stop (`run.go`, `util.WaitSignals`, `route.Server.Run`, `proxy.Run`) | two contexts, `errs`, the signal channel, the listeners, the counter | SIGINT, SIGTERM, answers of the servers, `srv.Shutdown`, `GracefulStop` | two servers answer on one channel; hijacked connections are invisible to `http.Server`; a 5 s timeout ends in `log.Fatal` |
| WebTTY bridge (`third-part/gotty/webtty`, `route/ws_wrapper.go`) | the write mutex of the WebSocket, the channel of results | `Run`, the two reading goroutines, message handlers | two goroutines and a context race for the result of `Run`, and outlive it |
| Container cache (`types/containers.go`) | a map with two keys a container, and a list | `Set`, `Append`, `Find`, `SetShell`, `List`, `Len` | writers that replace each other's work, reads without the lock |
| Docker backend (`container/docker`) | the cache, `lastList` | `listContainers`, `GetInfo`, the event watcher, `Exec`, `Logs` | refreshes race lookups; half of a refresh uses the old cache |
| Docker log parser (`log_parser.go`) | what is left of a frame, the beginning of a header | reading frames | frames split over reads, a buffer that is used again |
| gRPC backend (`container/grpc`) | the clients, the cache | `List`, `GetInfo`, actions, `Exec`, `Logs`, the proxy dialer | servers that do not answer; two lookups for one terminal, with lists in between; a send that waits for the window of the stream |
| gRPC server (`proxy/server.go`) | one goroutine pair a stream | `Exec`, `Logs`, actions | either end of a stream may leave; one buffer for all outputs; errors that are repeated |
| Kubernetes backend (`container/kube`) | the pod list, the pipes and the size queue of a TTY | `List`, `Exec`, resize | pipes and a queue without buffers; `Exit` writes before it closes six things |
| Audit (`audit/audit.go`) | the log file of a session | a reader of a `Fork` | the same races as a viewer |
| Browser client (`js/src`) | the WebSocket, the reconnect timer | open, receive, close, reconnect | a timer that races a close |

How they interact: a handler of `/exec` calls the backend (`GetInfo`, `Exec`),
wraps the backend's TTY into a `MasterTTY`, publishes it in `server.masters`
and hands it to the bridge; a viewer's handler finds it there and hands a `Fork`
of it to a bridge of its own. The bridges meet in the arbiter (input) and in the
topic (output). The watcher of the idle timeout cancels the handler's context;
`server.Run` waits for the counter that the handlers keep; `WaitSignals` decides
when all of it ends.

What makes each correct is the list of properties in section 3 and the hazards
in `PROJECT.json`.

## 2. Plan

1. **Done:** `ExecSession`, `WriteArbiter` (implements `TurnTaking`),
   `Broadcast`, `IdleTimeout`, `Shutdown`, `DockerBackend`, with their runs and
   proofs.
2. **Done:** `GrpcExec`, the exec stream end to end, whose two directions
   implement `Relay`, with its proofs; `GrpcBackend`, the cache of several
   servers, with its proofs.
3. **Done:** `Bridge`, the two goroutines of `WebTTY.Run` over the pipes of the
   Kubernetes backend, which implement `Relay` in both directions, too;
   `DockerLogs`, the log parser; both with their proofs. Every safety property of
   every passing run is now a theorem.
4. Worth doing next: the copying goroutines of the logs
   (`container/grpc/grpc.go:299`, `proxy/server.go:236`); `Dialer` (a dial that
   outlives its timeout); `Audit` as a viewer of `Broadcast`.

Each component has one passing run that checks its safety and its liveness
together. Two disagreements with the documentation have a run of their own; the
others (section 3, Divergences) are stated in the modules and found by adding
the property to the component's cfg.

## 3. Modules, runs and what they show

### ExecSession (`MCExecSession`, `ExecSessionProofs`)

`pc[k]` is where the goroutine of connection `k` is; each value is a point of
`handleExec`, `generateHandleWS`, `processTTY` or `processShare` between two
moments at which other goroutines can see or change shared state. `masters` maps
an exec ID to the connection that owns the `MasterTTY`. `connections` is the
counter and the WaitGroup (they are changed together, under one mutex). The
answers of the backend, the browser's messages and their failures are
nondeterministic; the tab may close while the handler looks at it, and the
process in the container may end, at any step.

The goroutine of `Run` that would notice a closed tab may be in a call to the TTY
(`typing`), the one that would notice the end of the process in a write to the
browser (`writing`); neither call has a deadline. Only a call that is under way
when its own side is gone delays anything, so it is chosen at that moment
(`InCall`). `Exit` writes ^C first and may wait in the same way.

Run `session` (three connections, one exec ID, limit two; all interleavings):

- `RegistryLive`: `server.masters` only offers masters that are running,
  although a cleanup deletes by exec ID and not by master. This is the safe half
  of the race that `OneMasterPerExec` is about: entries vanish too early, never
  too late.
- `SoleHostShareable`: while only one connection ever hosted an ID, its running
  session is in both maps.
- `AdmissionBound`, `CountExact`: the limit holds although rejected connections
  are counted as well, and every return path gives its slot back once.
- `LeaversFreed` (liveness): a connection whose browser left finishes, with its
  TTY exited, if the process reads what is written to it (`ProcessReads`), and so
  does one whose process ended, if an open browser takes what is left to write
  (`BrowserTakes`). Without the premises the code does not promise it:
  `webtty.go:80` and `:97`, `kube/tty.go:110` and the ^C of `Exit` may wait for
  ever.

Three connections are the smallest number with one admitted, one that races it
and one turned away or viewing; two exec IDs only meet in the counter. The
proofs are for every number of both.

### TurnTaking, WriteArbiter (`MCWriteArbiter`, `SharedTTYProofs`)

`TurnTaking` is what the arbiter promises: a writer gets through only if all
others have been silent for `Wait`. `WriteArbiter` is the code: lock, decide,
stamp, write, unlock, with a clock that may advance between any two steps.
`wrote` records each writer's last accepted input, which the code does not keep;
`TakesTurns` (the refinement) says that two times and one pointer are enough.

Run `arbiter` (a master, three viewers, `Wait` 2, six ticks) checks
`OneWriterAtTTY`, `TakesTurns`, `NoSpuriousRefusal` (a refusal has a cause: some
other browser wrote within `Wait`) and `EveryWriteReturns`. Three viewers are
needed for a slave that is neither the last nor the one before; two ticks put
`<` and `>` on different sides of the boundary; six let the turn pass twice.

### Broadcast (`MCBroadcast`, `SharedTTYProofs`)

Bytes are numbered by their place in the output. `outputs` is its first byte and
its length, two words that the recorder writes, and `Fork` reads, one at a time
and in either order, since no lock protects the slice header (a data race whose
outcomes are the mixtures of the two words). The array behind the slice is not
modelled.

Run `broadcast` (one viewer; viewers do not influence one another): between
chunks the recorder holds exactly the last `Limit` bytes (`KeepsTheTail`), and a
viewer that forks while the recorder has caught up misses no byte, whatever
happens during the copy (`CaughtUpMissesNothing`). When the recorder lags, bytes
that were published and not yet recorded do reach neither the snapshot nor the
subscription; the second property is as strong as the code allows. Limit 3,
buffer 4 and six bytes keep the real order `Limit < Buffer < 2 * Limit` and let
outputs be trimmed twice.

Run `broadcast_crash`: a `Fork` between append and trim makes a snapshot that is
longer than the reader's buffer, and `p[:len(s.masterOutputs)]`
(`types/tty.go:35`) panics in a goroutine that nothing recovers.

### IdleTimeout (`MCIdleTimeout`, `IdleTimeoutProofs`)

The reader of the bridge, the helper goroutine that each `Read` starts,
`activeChan`, the watcher with its timer, and the steps of `Exit` (in the order
of the Docker and gRPC TTYs; the Kubernetes TTY closes its pipes before
`activeChan`). A tick of the clock is long against the scheduling of goroutines:
it does not pass while one of them can run on, except that output may wait for a
slow browser for any time. `timer.Reset` withdraws a firing that was not
received, as it does since Go 1.23 (`go.mod` asks for a later one).

Run `idle` (three ticks, three helpers, channel of two): `OnlyIdleIsCut`, a
session that outputs in time is cut only if output had to wait for its browser
(a `Read` that starts is the only activity that is signalled), and `IdleIsCut`,
a silent session ends. Three helpers are one more than can be useful, and the
channel is never filled beyond them.

### Shutdown (`MCShutdown`, `ShutdownProofs`)

`WaitSignals`, `run`, `server.Run` with its two goroutines, the handlers as far
as the counter and `srv.Shutdown` tell them apart (counted, hijacked, not
counted), and `grpcServer.Run`. Which servers run is chosen in `Init`.

Run `shutdown` (two requests, one stream, either server or both, ports that may
be taken, requests that may be slow, any number of signals):

- `TypeOK` contains that `errs`, a channel of two, never blocks a server.
- `HttpAloneWaits`: if an HTTP server that is alone answers, every session that
  was counted when the operator asked to stop has ended, including handlers that
  took their slot in that very moment.
- `DrainedStops`, `ForceStops` (liveness): a drained process exits; a second
  signal, or a SIGTERM that is the first, ends it in any case.

A request that is not hijacked yet, counted or not, may outlast the 5 s of
`srv.Shutdown` and end the process. `HttpAloneWaits` leaves out that end, a second
server, and handlers that were not counted when the stop was asked.

### DockerBackend (`MCDockerBackend`, `DockerProofs`)

The cache of containers (`types/containers.go`) under the goroutines that use
it: lookups (`GetInfo`), index pages (`List`) and the event watcher, which
refresh it as a whole or amend it. A step is a call of the cache, which holds
its lock, or a call of the daemon, which may fail. The two keys of a container
are two functions, `byID` and `byShort`; of an entry only the shell is kept, as
its place in `SHELL_LIST` (`IPs` leak in the same way as shells, and nothing
uses them but the page). An ID may be asked for whole, as its first 12
characters, or as a longer or shorter prefix, which `Find` treats differently.
Between any two steps containers start and stop, and a minute may pass. The
daemon may list containers in any order.

Run `docker` (two containers, one of which has bash, a lookup by every form of
an ID, an index page, one change):

- `KeysAgree`: a container is under both keys and in the list, or nowhere.
- `LookupFinds`: a lookup of a running container finds it while the daemon
  answers, although the cache may be empty, old, or replaced meanwhile.
- `RefreshKeepsShells` (action property): a refresh, which asks the cache for
  shells one container after the other and replaces it afterwards, forgets none,
  unless another goroutine wrote that entry in between.

One lookup is enough for these: the page and the watcher already refresh the
cache under it, and the proofs are for any number. Run `docker_shell` needs two:
the first makes the cache know bash for one container, a refresh stores the next
container with the same shell, because `shell` is declared outside of the loop
(`container/docker/docker.go:202`), and the second lookup answers with bash for
a container that only has sh, against `README.md:184`.

### Relay, GrpcExec (`MCGrpcExec`, `GrpcExecProofs`)

`Relay` is what one direction of a terminal's connection promises: what is put in
comes out in order, unchanged, without a gap and without repetition; it may stop
at any point. `GrpcExec` is one exec over gRPC: the bridge's two uses of the
client's TTY and the handler that exits it (`grpc_tty.go`), the stream, and the
handler of the remote server with its receiver (`proxy/server.go:152-234`) over
the TTY of the backend there. Each direction of the stream is a queue of at most
`Window` messages, because flow control blocks a `Send` on a full one; so `Exit`,
which sends ^C before it closes anything, may block. The stream may break, the
process may end, or its connection fail, at any step.

Run `grpc_exec` (one input, two outputs, a window of one):

- `InputRelayed`, `OutputRelayed` (refinements): both directions implement
  `Relay`, although the server fills one buffer again and again and sends what a
  failed `Read` left in it.
- `LastWordsSeen`: everything that a process printed before it ended is shown, if
  its browser is there and the connection holds.
- `ServerFreed`, `SessionEnds`, `ExitCompletes` (liveness): the goroutines of the
  remote server end once the client left and the TTY has anything to tell; a
  process that ends takes both ends with it; `Exit` gets through. The premises
  are as wide as the code allows: while a TTY is silent nothing tells the server
  that its client left; and after a read error other than `io.EOF` the loop
  (`proxy/server.go:210`) sends empty outputs for ever, which also restart the
  client's idle timer. `SessionEnds` takes it that a browser which is open takes
  what it is shown (section 4).

What is `handled` is a call that was made: a resize that a live TTY refuses at its
last try is passed over by the server (`server.go:190-193`,
`docker/slave.go:57-67`) and not told from one that it took.

A window of one makes every second `Send` wait, and the ^C and ^D of `Exit` with
one input are three messages for it; two outputs tell an order from its reverse.

### GrpcBackend (`MCGrpcBackend`, `GrpcBackendProofs`)

The containers of several servers behind one cache. Index pages ask the servers
one after the other and replace the cache at the end; a visitor looks its
container up for the page and again for the websocket, whose answer goes to
`Exec`, or opens its logs; an operator starts or stops a container. An entry has
its server and whether a shell is known; all the forms of an ID are one key
(`DockerBackend` has them apart). A ping and the call that follows it are one
step: both fail alike. Servers go down and come back, browsers leave, at any
step; a call in progress returns, later ones of that request fail.

Run `grpc_backend` (two servers, a container on one of them and one on both, one
visitor, one operator, one page, one change of the network):

- `WorkReachesHome`: an exec, a log and an action are carried out by a server
  that lists the container.
- `LocatedAgain` (action property): a websocket gets an answer that `Exec` can
  locate if the shell that its page found is still cached. Without the premise it
  does not: the lookup that asks a server answers with the remote container as it
  is, which has no `LocServer` (`grpc.go:149`); what makes `Exec` work is the
  entry that `SetShell` left for the next lookup.
- `ListHasTheRest` (action property): a list that replaces the cache lacks only
  containers of which every client failed to answer.

The page is the third goroutine that writes the cache, and one change of the
network is enough for a server to fail between two steps of any of them; a
second visitor or page only repeats what the first does, and the proofs are for
any number.

### Bridge (`MCBridge`, `BridgeProofs`)

`WebTTY.Run` with its two goroutines and the result channel, the messages of the
browser, and below it the TTY of the Kubernetes backend: two pipes without a
buffer, the size queue without one, and the goroutine of `Stream`. `Run` returns
when one of its goroutines ends or its context is cancelled; the other goroutine
is still there while `Exit` types ^C and ^D into the same pipe and closes it. The
handler closes the websocket last. A write of a WebSocket message is one step
(`writeMutex`); the answer to a ping cannot be told from none; the six closes of
`Exit` are one step. A size that cannot be read ends `Run`; so does a message that
is empty or of an unknown type, which is not told from it. What only a viewer
without permission or a terminal of a fixed size does is left out: `processTTY`
permits writing and fixes no size.

`Cut` is what one `Read` of 1024 bytes makes of a message (`ws_wrapper.go:30`):
for a longer one, its beginning. A message that fits is taken to arrive whole.

Run `bridge` (a key and a paste, two outputs, two inputs in all and two messages
in flight):

- `Bridges` (refinement): both directions implement `Relay`, whatever `Exit`
  types meanwhile: the ^C is neither taken for an input nor does it displace one.
- `SessionEnds` (liveness): after the tab closed, and once a running `Run` was
  cancelled, the session ends with both goroutines, also when one of them waits in
  a write or in a resize that nobody takes. Excluded is a tab that closed while a
  change of size is under way: the goroutine that would notice the tab is in
  `sizeQueue.resize`, which waits for a `Stream` that may never ask. After the
  process ended, or a cancellation before the title was sent, it ends if an open
  browser takes what is written to it (`BrowserTakes`): `masterWrite` has no
  deadline (`webtty.go:150-160`).

Two messages in flight let one be read while another waits; two outputs are as
above. Fairness is that of the goroutines, and that `Stream` reads its stdin; a
write to an open browser (`OutputWaits`, `TitleWaits`, `PongWaits`) is not fair.
Nothing is assumed of the browser, the process and when `Stream` asks for a size.

### DockerLogs (`MCDockerLogs`, `DockerProofs`)

`logReadCloser.Read` over the bytes of one buffer: `Read` is the call up to its
loop, `Parse` one turn of the loop, with the locals `p`, `n`, `start` and `bs`,
what is kept between reads (`bsLeft`, `prevHeader`) and the bytes of earlier
reads that stay in the buffer. The daemon sends a message at a time, with frames
or without, and a `Read` of its answer returns any part of what is there. `due`
is what a terminal should be given, and `marks` says where in the answer, and
in `due`, each message ends.

Run `docker_logs` (a whole line and a part of one, up to three of them, a buffer
of 20 that two frames can fill): `WholeFramesShown`, as long as no read splits a
frame (and a read of plain text has the four bytes that tell it from a header),
the terminal gets the messages without headers, each line with its return, and
nothing is out of range. When a read does split a frame, see below; that the
model can do so is what `whole` and `panicked` record. Messages have no NUL byte
and fewer than 64 kB (the daemon divides what is longer than 16 kB); the parser
reads all four bytes of a length.

### Divergences

With a run of their own:

- `broadcast_crash` (`SharingIsSafe`): a `Fork` between append and trim makes a
  snapshot that is longer than the buffer of its reader, which panics.
- `docker_shell` (`OwnShell`): a refresh gives a container the shell of another.

Each of these is stated in its module, and TLC refutes it when it is added to the
cfg of the component:

- `OneMasterPerExec` (`ExecSession`): two browsers that open one exec link before
  the first of them registered its master both become masters of it, against
  "exec ID exist, use the same master" (`route/exec.go:42`).
- `SlavesDieWithMaster` (`ExecSession`): a viewer stays connected for ever after
  its master exited, because `MasterTTY.Close` does nothing and `SlaveTTY.Read`
  never fails, against "if master dead, all slaves dead" (`route/exec.go:183`).
- `NotifyingIsSafe` (`IdleTimeout`): a helper that found `activeChan` empty sends
  after `Exit` closed it, and the process panics.
- `SessionsOutliveStop` (`Shutdown`): with both servers the gRPC server answers
  first, and the process exits under the sessions that the other one is waiting
  for, against "Waiting for %d connections to be closed" (`route/route.go:231`).
  With `SlowRequests` the same happens with one server: a request that takes
  longer than the 5 s of `srv.Shutdown` ends in `log.Fatal`
  (`route/route.go:208`).
- `SuccessIsTold` (`GrpcBackend`): the server's `Start`, `Stop` and `Restart`
  return a nil message on success (`proxy/server.go:107`), which cannot be sent,
  and the client takes any message for a failure (`grpc.go:208`): the operator of
  an action that succeeded is told of an error.

And two that the models show in what their properties have to leave out:

- A message from the browser that is longer than 1024 bytes, a paste, loses the
  rest (`Cut` in `Bridge`).
- When a read splits a frame, the parser of the logs looks for the rest of a
  message in a read that may have less of it (`log_parser.go:64`), or takes stale
  bytes of the buffer for a message (`log_parser.go:60`, `:91`); the first slices out of
  range and panics in a goroutine that nothing recovers (`panicked` in
  `DockerLogs`; a line of more than about 1 kB is split).

## 4. Assumptions

Fairness is weak fairness of each goroutine (Go schedules what can run) with
calls of the backend answered; strong fairness only for `mutex.Lock`, because
`sync.Mutex` hands itself to a waiter that was passed over for a millisecond.
Nothing is assumed of operators, of what processes in containers do, and of when
browsers come, type and leave. That a write to an open browser returns, although
`masterWrite` has no deadline, is assumed in `GrpcExec`: its liveness says nothing
of a browser that is open and stalled. In `ExecSession` and `Bridge` it is the
premise `BrowserTakes` of the properties that need it. In `IdleTimeout` time
passes, in `WriteArbiter` the TTY takes its bytes, in `GrpcExec` and `Bridge` what
is written to a stdin is read; in `ExecSession` that is the premise
`ProcessReads`. In `GrpcExec` nothing is assumed of how long a stream takes, only
that it does not withhold for ever what was sent.

Also assumed: no ID that is asked for is a prefix of two containers' IDs;
`util.ID` does not repeat an exec ID; the pubsub package delivers
every message to every subscriber in order; the request context of a hijacked
connection is not cancelled before its handler returned; a browser sends
nothing after it left; the servers open their ports before the first request.

Bounds, all in the cfg files: the sets of connections, viewers, helpers,
requests, streams, servers and containers; `MaxTime` (the clock of the arbiter
stops there), `MaxBytes` and `Printout` (a TTY outputs no more), `MaxInputs` and
`MaxMessages` (browsers send no more), `MaxFlips` (the network changes no more),
`MaxLines` (a log has no more). The proofs hold for every value of them.

## 5. Proofs

All theorems are for every value of the constants under the `ASSUME` of their
module (finite set of connections, distinct model values, positive sizes,
`Limit <= Buffer`).

- `ExecSessionProofs`. `CountExact` is inductive together with the types and
  the fact that a connection past the start has an exec ID (`CountInv`): each
  step moves at most one connection over the border of `Counted`, and the
  cardinality changes by what the counter changes. `AdmissionBound` follows
  since an admission needs `connections + 1 <= MaxConnection` and the admitted
  are among the counted. `RegistryLive` needs that a host that is running or
  cleaning up has a TTY (`TTYOfHost`); a cleanup removes the entry of its own
  ID, so what remains are running masters. `SoleHostShareable` needs the
  history: who registered is past registration (`HistorySound`), who is past it
  registered (`HistoryComplete`), and an ID leaves `execs` only after somebody
  who had hosted it cleaned up (`UnlinkedWasHosted`).
- `SharedTTYProofs`, the arbiter. Only the holder of the mutex is inside `Write`
  (`HoldsMutex`), hence `OneWriterAtTTY`. The refinement needs that the three
  fields say the truth about `wrote` (`FieldsTrue`): all slaves but the last one
  are older than `lastSlave - Wait` (`OthersLongAgo`), and what a writer saw
  when it was accepted is still true when it stamps (`SilenceKept`). What that
  comes to in each state, `Turns!Apart`, is the theorem `InputsApart`: the last
  inputs of two browsers are at least `Wait` apart.
- `SharedTTYProofs`, the broadcast. `RecorderInv` relates `outFrom`, `outLen` and `recorded`
  in each state of the recorder (`Window`) and orders the inboxes. `ForkInv`
  says that each word `Fork` read covers at least what was published when it
  subscribed, if the recorder had caught up by then.
- `DockerProofs`, the cache. `KeysAgree` is inductive with the types: no local
  `shell` is the mark of a missing entry, and `SetShell` only overwrites. What a
  lookup finds follows from what it knows at each of its own points
  (`KnowsShell`, `NotNone`), which no other goroutine changes. What a refresh
  keeps needs that the entries it has built still agree with the cache where
  nobody marked them (`BuiltAgrees`), and that a refresh begins with none
  (`BuiltOnlyCopying`).
- `ShutdownProofs`. A server that has not returned has nothing in `errs`
  (`AnsweredOnce`); a promised session stays counted until it ends (`Promise`),
  and without a gRPC server an answer means that `server.Run` returned
  (`OnlyHttp`).

- `GrpcExecProofs`. `ServerTTY` says what the place of the server's handler
  tells of its TTY. `InFlow` lays out the input: what was handled, what the
  receiver has in hand and what is in the stream are, in this order, what was
  sent; `OutFlow` does so for the output, with the empty ones that follow a read
  error. Each is kept by one lemma for each way a message moves and one for the
  steps that do not touch it (`InFrame`, `OutFrame`); from them each step maps to
  a step of `Relay` or to none. `LastWordsSeen` needs also that nothing taken is
  lost while no error was passed on (`NothingLost`), and that a reader which ended
  in a session that stands was told so by the server's return (`EndsSeen`).
- `GrpcBackendProofs`. `WorkReachesHome` follows from where a location can come
  from: entries, in the cache and in lists under construction
  (`EntriesAtHome`), places taken from entries (`PlacesAtHome`), and answers
  (`AnswersAtHome`). `LocatedAgain` needs that a shell in `kept` is cached
  (`KeptCached`), so that its websocket does not ask again (`KeptDoesNotAsk`).
  `ListHasTheRest` needs that what a list lacks is yet to be asked for or was
  missed (`LacksOnlyUnasked`).
- `IdleTimeoutProofs`. `OnlyIdleIsCut` needs that the timer and the time without
  output add up to `IdleTime` (`TimerFollows`), unless the last output's signal
  is still on its way (`Pending`); no time passes while it is, except for a slow
  browser (`PendingIsBusy`).

- `BridgeProofs`. `Places` says who holds what: an input is in `held` only
  while the writer types, in `pipe` only while the writer or `Exit` is blocked in
  its `Write` (`Held`), and the results in `errs` are no more than the
  goroutines that ended (`Results`), so that a channel for two is enough.
  `InFlow` lays out the input while the writer is there: what Stream took, the
  one that the writer has in hand, and those on the wire are, in this order, what
  was typed, up to the last input if the tab is open. The wire also has pings
  and sizes, hence the function `place`, which says how many inputs there are up
  to each message. `OutFlow` does so for the output.
  Each way of moving has a lemma of its own; then each step maps to a step of
  `Relay` or to none.
- `DockerProofs`, the log. `Layout` says that behind each mark lie a header, a
  message and, in `due`, its line; `Send` adds one at the end (`SendFrame`) and
  moves none (`FrameStays`). Two marks have whole frames between them
  (`NextFrame`), so a parser that stands at a mark before the last byte read
  finds a header whose four bytes give the length of the message (`FrameThere`),
  and one that does not is done (`ParseEnd`). `Parsing` says that it always
  stands at a mark, and that what was shown and what is in `bs` are together the
  lines up to there.

`NothingOutOfOrder`, in `BridgeProofs` and in `GrpcExecProofs`, reads off the
refinements what `Relay` promises of each state (`InOrder`): what came out is a
beginning of what was put in, in both directions. A step of `Relay` keeps it
(`RelayStep`), so it needs no invariant of the bridge or of the stream.

The two halves of a shared TTY have one module of proofs, and so have the two
parts of the Docker backend; the operators of `WriteArbiter`, `Broadcast` and
`DockerLogs` have prefixes so that they can be extended together.

Only model-checked: all liveness, which rests on fairness and `ENABLED`.
`DockerLogs` has a step for each turn of the loop, not a recursive function, so
that its proof needs no induction over data.

## 6. Not modelled

The audit reader (a `Fork` that appends to a file), the dialer of the gRPC
client, the copying goroutines behind the logs of the gRPC backend and server,
and the token that the gRPC server tests. Of the Docker backend the actions
(start, stop, restart), which are single calls of the daemon, the unlocked read
of `lastList`, and the fatal exit when the daemon goes away (`docker.go:74`); of
the Kubernetes backend its calls of the Kubernetes API, which are most of
`kubectl.go` and `pod_struct.go`. The browser's reconnect timer: the server
never enables it. Pages, templates, flag parsing, and the zero timer of the
counter, which nothing reads.

Of what is modelled, these are left out and listed among the hazards: the padding
of a viewer's first read (`types/tty.go:37`), whether the published slice is
copied (`types/tty.go:82`, up to the external topic), and exec IDs that are never
opened and stay in `server.execs` (`route/id.go:15`).

Three quarters of the repository's lines of code are generated: the embedded
assets (`route/asset/asset.go`, `route/asset/bindata.go`) and the protobuf code
(`proxy/pb/api.pb.go`). They keep no state of the program, so that the share of
all lines that the map covers is bounded by the rest.
