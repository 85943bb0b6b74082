# Orby: a TLA+ model of the workbench

Orby is a small Go server with a browser workbench. A user picks a database
(Aerospike or Redis), connects, and runs read queries; an optional page runs
Python scripts that may use the operator's preset connections. This directory
holds TLA+ modules written from that source, TLC configurations that check
them, and TLAPS proofs about them.

Paths below are relative to the repository (`connection_pool.go`,
`plugins/redis/browse.go`, ...). `PROJECT.json` maps every modelled definition
to the source lines it stands for, and lists the runs, hazards and theorems.

## 1. The system

```
 browser (static/app.js)                 browser (static/python_ide.js)
   |  /connect /disconnect                  |  /python (event stream)
   |  /connection-status                    v
   |  /plugin-options /query         runPythonRequest --- two-slot semaphore
   v                                        |  process + two pipes
 handlers (server.go,                 servePythonBridge
  connection_handlers.go)                   |  runPresetForPython
   |   key = connectionKey(...)             |
   |   lease = session:connection           |  lease = "python-ide"
   +----------------+-----------------------+
                    v
            connection pool  <--- janitor goroutine (EvictIdle)
            (connection_pool.go)
                    |  Run(ctx)
                    v
     plugins/aerospike, plugins/redis  --->  databases
```

### Inventory

**Connection pool** (`connection_pool.go`). *State*: `connections` (entry per
key: client, set of leases, `active` count, `lastUsed`, `closeWhenIdle`),
`creating` (creations in flight), `closed`, the channels `stop` and `done`, one
mutex. *Operations*: Connect, Acquire, AcquireExisting, Disconnect, the
release function, ActiveLeases, EvictIdle, Close, and the janitor. *Hard*: every
operation is several critical sections with calls to the outside (the factory,
`Close` of a client, waiting for another creation) in between. *Correct when*: a
client is created once per key, closed exactly once, never under a running
request except at shutdown; leases keep it until the idle timeout; waiters
wake; a shutdown ends and leaves nothing open.

**Request handlers** (`server.go`, `connection_handlers.go`, `main.go`).
*State*: one goroutine per request, with a client while it runs. *Operations*:
query, plugin-options, connect, disconnect, connection-status. *Interaction*:
a query on a preset connection uses AcquireExisting and fails with "Connect this
preset first" unless the session holds the lease; any other one uses Acquire,
which creates on demand. The browser's abort cancels the plugin's context.
*Hard*: cancellation against completion; the release is deferred. *Correct
when*: every acquisition is released once, and what is reported (success,
cancelled, error) is what happened.

**Keys, leases, environments** (`request.go`, `server.go:186`). Pure functions.
*Correct when*: requests for different targets never share a client, and the
environment of a preset is the operator's.

**Aerospike plugin** (`plugins/aerospike`). *State*: a native client; a stray
goroutine per cancelled Get; the recordset of a scan. *Correct when*: a cancelled
query stops, closes its scan and is reported as cancelled; a filter that the page lets
through compiles to what the user composed.

**Redis plugin** (`plugins/redis`). *State*: none between queries, but a browse
is many round trips (SCAN pages, a TYPE pipeline, a TTL pipeline) against a
keyspace that changes. *Correct when*: a key that exists all along is listed or
the answer is marked `limited`; no key is listed twice; keys that vanished are
dropped; a command means what it was written to mean, and only those of the allow-list reach a
database that is not open for writing.

**Python runs and bridge** (`python_ide.go`). *State*: run slots, a process with
two pipes, a copier of its output and a bridge goroutine per run, a lock in the
script's prelude, a bounded output buffer, and the page that reads the stream. *Hard*: the end of the
process, of the bridge and of the request in any order; forked processes that keep files
open; cuts in the middle of characters. *Correct when*: slots come back, nothing
outlives a run, answers go to the thread that asked, the pane shows what was written.

**Python sessions** (`python_ide.go`). *State*: tokens with expiries at the server, two cookies and
Basic credentials in the browser. *Correct when*: sessions end with their lifetime and with the
sign-out, whatever requests overlap.

**Preset configuration** (`preset_config.go`). *State*: the loaded
connections. Read once, with normalisation and uniqueness checks on the way.
*Correct when*: Orby starts with exactly the files that keep the documented rules, and
look-ups by ID, by name and by path find what was written.

**Workbench UI** (`static/app.js` and its helpers). *State*: the selected connection, its status, the
generation of the latest probe and of the latest composer, the set of active
connections, the query in flight, the filter, drafts, history. *Hard*: an event loop whose
awaits let any user action in between. *Correct when*: what is shown (status, dropdowns, rail)
belongs to the selected connection and the server's leases, and a rerun repeats the original run.

**Python IDE page** (`static/python_ide.js`): its execution and output are modelled
with the Python runs; the editor is not.

**Rendering, portable scripts, embedding** (`render.go`, `python_portable.go`,
`embed_*.go`), **plugin API** (`plugins/types.go`), **output views, custom selects**:
values turned into text or markup, without state that lasts.

## 2. The modules

| Module | What it is |
| --- | --- |
| `SharedClients` | what the pool promises its callers, without leases, timeouts, locks |
| `ConnectionPool` | the pool, one action per critical section, and its properties |
| `ConnectionPool_proofs` | the pool's inductive invariant, the safety theorems, and the theorems about steps: refinement, and what leaves the pool |
| `Requests` | what the server promises a browser for each request |
| `QueryLifecycle` | the request handlers and the plugins' queries on the pool (EXTENDS `ConnectionPool`) |
| `RedisBrowse` | a BROWSE query against a keyspace that other clients change |
| `PythonRun` | slots, process, pipes, bridge and threads of Python runs |
| `PythonOutput` | what a script prints, from the buffer to the pane |
| `PythonSessions` | signing in and out, with one browser |
| `ConnectionKeys` | which pooled client a request gets |
| `RedisCommand` | how a Redis command is read and let through |
| `FilterExpression` | a filter, from the editor to the plugin's expression |
| `PresetConfig` | the configuration file, and look-ups in what was loaded |
| `Workbench` | the connection a page shows, its probe, its rail, its reruns |
| `ComposerOptions` | the dropdowns whose options are loaded |
| `QueryLifecycle_proofs` | the proofs about requests (EXTENDS `ConnectionPool_proofs`, whose invariant they use) |
| `RedisBrowse_proofs`, `PythonRun_proofs` | the proofs about the module of that name |
| `PythonPage_proofs` | the proofs about `PythonSessions` and `PythonOutput` |
| `Inputs_proofs` | the proofs about `ConnectionKeys` and `PresetConfig` |
| `QueryInputs_proofs` | the proofs about `RedisCommand` and `FilterExpression` |
| `Workbench_proofs` | the proofs about `Workbench` and `ComposerOptions` |
| `MC...` | the instances for TLC |

`QueryLifecycle` is the composition of the server's concurrent core: pool,
handlers, plugins and browsers that leave. Smaller modules stand alone where the code
shares no state: `ConnectionKeys` sees each pool operation as one step, which is what
`ConnectionPool` shows it to be for one key; `PythonRun` sees the pool as `Acquired` and
`QueryEnds`, and its output as `PythonOutput`; `Workbench` sees the server as a set of
leases. `MCInputs`, `MCPythonPage` and `MCWorkbench` put such modules side by side to
check them in one run: the variable `part` says which of them moves in a behaviour, while
the others keep their initial state.

### ConnectionPool

*Processes.* `Handlers` are goroutines that serve requests; each runs one pool
call at a time. `Janitor` is `closeIdleConnections`, `Closer` the goroutine that
calls `Close`. `pc` says where each of them is; the variables up to `stopped`
are the fields of `connectionPool`.

*Atomicity.* `pool.mu` makes a critical section one step. What happens outside
the lock is a step of its own: reading the clock at the start of EvictIdle, the
wait for another handler's creation, each `Close` of a client, the shutdown's
`close(pool.stop)` and its wait for the janitor. Two merges are made: the
factory's return and the critical section after it (lines 177-194) are one step,
since between them only `creating` tells that a creation is in flight; and the
handlers that wait on `creation.done` leave the wait in the step that closes it.
Both only shorten the time a goroutine spends between two steps in which it
reads and writes nothing shared.

| Code | Actions |
| --- | --- |
| Connect, Acquire, AcquireExisting, ActiveLeases: entry | `StartCall`, `EvictIdle`, `CloseOne` |
| the loop of `get` | `GetClosed`, `GetPooled`, `GetWait`, `GetCreate` |
| the factory and lines 182-200 | `FactoryFails`, `FactorySucceeds`, `FactoryTooLate`, `ReturnError` |
| AcquireExisting, ActiveLeases under the lock | `AcquireExisting`, `ListLeases` |
| Disconnect, the release function | `StartDisconnect`, `Disconnect`, `Release`, `CloseOne` |
| closeIdleConnections | `JanitorTicks`, `EvictIdle`, `CloseOne`, `JanitorStops` |
| Close | `Close`, `CloseOne`, `CloseStop`, `CloseReturns` |

The successful creator does not lease its own entry: it goes round the loop and
finds it (`FactorySucceeds` sends it back to `get`), so that another session, the
janitor or the shutdown can come first.  `conn` is the life of each client, which
the code does not record: it is what ownership is stated about. `held` is the
client between an acquisition and the call of its release function (the request
handlers call it once; its `sync.Once` makes further calls do nothing).

*Data.* Keys, lease names and clients are model values. `EmptyLease` is turned
into `Anonymous` by `LeaseName` as in the code. Time is a counter that
`IdleTimeout` is compared with; `seen` is the time EvictIdle read before it
waited for the lock, which may be older than an entry's `lastUsed`.

*Left out.* A factory that panics, or returns a client together with an error
(the plugins do neither); errors of `Close`, which the code ignores; a second call
of the pool's `Close`, which only waits for the janitor. `main.go`
never runs its deferred `app.Close()` (`log.Fatal` ends the process), so `Close`
is modelled as what it does when it is called, as the tests call it.

### SharedClients

A client per key may be opened, used, withdrawn and closed. It is withdrawn only
when nobody uses it once the step is over, closed only when withdrawn, and
opened for a key that has none. The shutdown alone withdraws clients in use.
`ConnectionPool!Clients` is the refinement mapping: the offers are the clients of
the entries, the users are the handlers' `held`. Leases, time and locking vanish:
they are how the pool keeps the promise.

### RedisBrowse

One browse runs (`pc`), and `Others` is what other clients do meanwhile: write,
retype, delete or expire a key, or move it to another node. SCAN is modelled
by its guarantee: a page holds every key of the cursor's bucket and possibly any
other key of the node, so keys repeat and pages may be empty. `ScanPage` is one turn of the
inner loop of `ScanCluster`; `scanKeys` is the case of one node, with the same
tests in the same order. A page is the set of its keys: those that are not in the list yet (`Unseen`)
are appended in any order, since SCAN promises none. The groups and the two pipelines are
those of `browseGroups`: `Displayed` are the places in the list of the keys its groups show, each
reply is a step, since other clients' commands may come
between them, and rows pair the replies by place. `steady` and `missing` are
history variables the properties need. `parseBrowse` and the matching of patterns are not
here: `Limit` and `Keys` are what they yield.

### Requests and QueryLifecycle

A handler's request goes through `at`: `idle`, `pool` (inside a call of
`ConnectionPool`, whose own `pc` says where), `run` (Run or Options of the
plugin), `get` or `scan` (inside the Aerospike plugin), `reply`, `release`. Every step of the
pool call is a step of `ConnectionPool` by the same handler (`PoolStep`,
`ReleaseStep`), so that all its interleavings are there, and `PoolAlone` are the janitor, the shutdown
and the clock.

| Code | Actions |
| --- | --- |
| `query`, `pluginOptions`, `connect`, `disconnect`, `connectionStatus` up to the pool | `Begin`, with `AcquireOp` for `acquireConnection` |
| the pool call and the deferred release | `PoolStep`, `ReleaseStep`, `EndRequest` |
| the response and its status | `Reply`, with `ReplyStatus`, `RunError` |
| `get` of `client.go`: goroutine, channel, select | `GetStarts`, `GetAnswers`, `GetReturns`, `GetCancelled`, `StrayEnds` |
| `Scan` and `collectRecords` | `ScanStarts`, `ScanReturns` |
| Redis `Execute` and BROWSE, a refused command, `Options` | `RedisReturns`, `RunRefuses`, `OptionsReturn` |
| the browser leaves | `Abort` |

`Requests` is the promise: a request that arrives is answered once before it ends, called cancelled
only if the browser has left, and leaves no trace. It says nothing of when: that depends on whom a
request waits for, and is stated by `RequestsEnd` and the pool's `CallsEnd`. `QueryLifecycle!Service`
maps a handler to it by `Phase`; pool, plugins and strays vanish. *Left out*: requests that are refused
before the pool (they change nothing), the contents of answers, and what RedisBrowse does
in between.

### PythonRun

A run is a request (`pc`), the script's process, the copier of `os/exec`, the
bridge goroutine and the script's threads. Slots are tokens in the channel
`pythonRuns`; the request of a script holds one from its select to its deferred receive
(`TakeSlot`, `Answer`). The pipes are queues of the threads that asked: what a request says is not
modelled, whom it is from is. `LockBridge`, `WriteRequest` and `ReadResponse` are
`OrbyClient.result` of the prelude. The process may end at any time with threads
in a request, and may leave forked processes that hold its files (`Fork`): this
is what `WaitDelay`, the closing of the pipes and the wait for `bridgeDone` are
for. The copier takes what was printed and, when the run is streamed, writes it to the browser before it goes on
(`Prints`, `Copy`, `Written`). A browser may stay connected and stop reading (`Stall`, `Resume`); the run has no write deadline, so
that a write then returns only when it reads on or leaves. `WaitDelay` closes the output pipe (`cut`), which ends a
copier that reads but not one that writes: `Waited` waits for the copier in any case, and reports what was cut as an error. `Kill` kills the process group; a forked process may have left it. `GiveUp` is every way in which the
bridge stops by itself, under a script that may wait for an answer.
The resource limits of the prelude and scripts that give up waiting are not modelled.

### PythonOutput

The stream is a queue of lines, as `writePythonSSE` cuts them; the network delivers
any number of lines at a time (`Read`), and `Dispatch` treats the first complete block.
Bytes are `<<script, position, kind>>`, a character of UTF-8 having one or two of them, so that
`limitedBuffer.Write` (`Write`, `Kept`), the stream and the TextDecoder
(`Decoded`, `HeldBack`) may cut a character anywhere. `Execute` may be called while another
execution goes on: the button is disabled, Ctrl-Enter is not. Properties are about executions that have the pane
to themselves (`Alone`). Network cuts inside a line are left out: the page
keeps an incomplete block as it is.

### PythonSessions

The store is `sessions`; `Create` sweeps and adds, `Rotate` and `Logout` revoke,
`Authenticate` validates and deletes. Handlers read the clock before the lock, in a step of its own. The
browser has a session cookie, a logout cookie and Basic credentials that it never
stops sending once entered; requests carry what it had when they were sent, and responses
change what it has when they arrive, in any order or never. History variables say which
sessions a property may be about.

### ConnectionKeys

Requests are records of texts as the form carries them; `Fold` and `Number` are what trimming,
lower-casing and `Atoi` make of a text. `ParseSeeds`, `Addresses`, `ConnectionKey` and
`RequestLease` are the functions of `request.go` and `plugins/types.go`; `ClientOf` is the client that a plugin
would make, hence what a user is entitled to. Of several Redis addresses the library makes a client for a cluster, whatever
the mode, and a cluster has no databases. The pool's operations are `Get`,
`AcquireExisting`, `Release` and `Evict`. A key keeps how often each seed occurs, as the sorted
list of labels does.

### RedisCommand

`tokenizeRedis` is modelled character by character, one action per branch of its loop:
its state (`token`, `quote`, `escaped`, `started`) is what can go wrong. The reference is a
definition without a machine: which positions are literal, which quotation each is in, where words start and
which of their characters are not syntax (`Literal`, `In`, `Starts`, `Word`). A token `Spells` a word if it
has the characters at its positions, by their `Rank`. `Quote` and `Join` are Python's `shlex.join`, which
the prelude uses to send the arguments of `execute` (`IsBare` are the words it leaves as they are, `Piece` is what it
writes for a character). `Run` is `validateRedis` and the dispatch
of `runRedisWithClient`, with one command for the whole allow-list and `b` for BROWSE.

### FilterExpression

The editor's tree is held in slots, since the handlers of the page hold on to node objects while others are
removed; `Add`, `RemoveNode`, `SetType` and the others are the handlers, `Valid` is
`validateExpression`. `Compiled` is `compileExpression`, down to the slot whose expression a node yields (a group
of one is its only child), `Accepted` is `compileCondition`, and `Expression` what is sent to the
database: its root, with the comparison or the ExpAnd or ExpOr made at each slot. The meaning of both trees is given by `Holds` and `Selects`
for every assignment of truth to the conditions.

### PresetConfig

The loader's loops are steps over the file, so that what has been seen
when a connection is checked is state, as in the code; `Sound` states the documented rules of the whole file at once
(`ProfileRule`, `ConnectionRule`, `Clash`). Of a file `FilesAreTyped` assumes what the decoder's types say.
`ConnectionByID`, `ResolveEnvironment`, `PythonPreset`, `PythonClient` and
`IDERoutes` are the look-ups of the running server. The JSON decoder is external.

### Workbench and ComposerOptions

An event handler of the page is one step up to its next `await`; what comes after is an
action of its own (`ProbeAnswered`, `ThenConnect`, `ThenSubmit`, `Disconnected`,
`Polled`), so that any user action comes in between. The status shown, the form's connection and lease, the probe
with the current generation and the rail are variables; `host` stands for host, port and mode, whose edits (`Edit`) give up the
probe, and `field` for the inputs that the plugin adds, such as the database of Redis, which nobody listens to (`EditField`).
A request is for all of them, as the pool's key is; a probe that an edit or another probe gave up
may go on at the server (`stray`). The server is its set of leases, which connects, disconnects,
queries and the janitor change. `ComposerOptions` has the loads of the two dropdowns that depend on each other, each with
the generation of the render that began it, and a user who chooses meanwhile. The connection in the form changes with a
render, and without one when it is edited (`EditDetails`); loads begin only while its status is "reachable" (`StatusChanges`).

## 3. What is checked

Run a configuration with, for example, `tlc -config PoolSafety.cfg MCConnectionPool`.

| Run (module, `.cfg`) | Instance | Properties |
| --- | --- | --- |
| `pool_safety` (`MCConnectionPool`, `PoolSafety`) | 3 handlers, 1 key, 2 leases, 2 clients, timeout 1, clock 0..1 | `TypeOK`, six invariants, `ImplementsSharedClients`, `LeasedClientKept` |
| `pool_liveness` (`MCConnectionPool`, `PoolLiveness`) | 2 handlers, 1 key, 1 lease, 2 clients, timeout 1, clock 0..1 | `WaiterWakes`, `CallsEnd`, `ShutdownCloses`, `IdleClientsEvicted` |
| `query_safety` (`MCQueryLifecycle`, `QuerySafety`) | 2 handlers, an Aerospike and a Redis key, 1 client, clock 0..1, 2 Gets per client | `NothingLeftBehind`, `ImplementsRequests` |
| `query_liveness` (`MCQueryLifecycle`, `QueryLiveness`) | 2 handlers, an Aerospike key, 1 client, no time, 1 Get per client | `RequestsEnd`, `AbortEndsQuery` |
| `query_cancelled` (`MCQueryLifecycle`, `QueryCancelled`) | 2 handlers, both keys | `CancelReported`, violated |
| `browse_scan` (`MCRedisBrowse`, `BrowseScan`) | 2 nodes, 3 keys in 3 buckets, limit 3, 1 row per group, 2 changes | `ListedOnce`, `SteadyKeysShown`, `BrowseEnds` |
| `browse_vanished` (`MCRedisBrowse`, `BrowseVanished`) | 1 node, limit 4, 2 rows per group, 1 change, expiring keys | `VanishedKeysDropped`, violated |
| `python_run` (`PythonRun`, `PythonRun`) | 2 requests, 1 slot, 2 threads per script | `SlotsMatchRuns`, `NothingOutlivesRun`, `AnswersMatch`, `SuccessIsComplete`, `EndedScriptEndsRun`, `AbortEndsRun` |
| `python_page` (`MCPythonPage`, `PythonPage`) | sessions: 3 tokens, 2 requests at once, lifetime 1, clock 0..1; output: 2 executions, 2 texts, limit 2 | `SignedOutStaysOut`, `SessionsAgree`, `PaneIsFaithful` |
| `inputs` (`MCInputs`, `Inputs`) | 2 pooled connections and 22 requests; sources of up to 4 characters; filters of up to 4 nodes; files of two connections | `ServedAsAsked`, `ConnectedMeansFound`, `CommandIsRead`, `ReadOnly`, `FilterArrives`, `LoadedIffSound`, `LookUpsAgree` |
| `workbench_safety` (`MCWorkbench`, `WorkbenchSafety`) | page: 1 preset, 2 IDs for new connections, 2 values of a plugin's input, no polls, 1 lease; composer: 2 connections, 2 namespaces, 3 renders, 2 choices | `PendingIsOwn`, `SetsOfConnection`, `RerunKeepsLease` |
| `workbench_liveness` (`MCWorkbench`, `WorkbenchLiveness`) | 1 preset, 1 new connection, 1 value of a plugin's input, 2 polls, 1 aborted request the server goes on with, no queries | `RailConverges` |

### The pool

* `ActiveCountsUsers`, `InUseStaysPooled`: an entry counts the requests that run
  on its client, and none of them loses it before the shutdown. This is what
  `active`, `closeWhenIdle` and the test `entry == expected` are for.
* `SoleOwner`: an open client is in the map or in the hands of the one goroutine
  that will close it. No leak, no double close.
* `SingleFlight`, `WaitersHaveCreator`, `WaiterWakes`: one creation per key, and
  nobody waits for one that is over.
* `NoOrphan`: an entry without leases is about to be leased by a handler in `get`,
  or requests run on it and the last will close it. This is where a Disconnect
  between creation and lease, or between acquisition and release, would show.
* `ShutdownCloses` (and `ClosedPoolIsEmpty`, which is only proved): late creations do not fill a closed pool,
  and after Close has returned all clients stay closed.
* `LeasedClientKept`: an action property. A leased client leaves an open pool only
  when no request uses it, for idleness or with the last session that leases it.
* `IdleClientsEvicted`: a client nobody touches leaves without any further call.
* `CallsEnd`: a call of the pool ends. One that is in the loop of `get` (or on its way there) can be overtaken: the client it
  created or was woken for is evicted or disconnected before it has the lock again, and the loop starts over. It ends
  too, or another client is created: `Created` grows. Since `Conns` is finite in the run, that claim is made for each value of
  `Created`, never for the loop as a whole.

*Bounds.* One key is enough for what happens between sessions, since an operation
only reads and writes the entry of its key; several keys at once matter to
eviction, shutdown and the query run, which has two. Three handlers are needed
for a creator, a waiter and a third one that disconnects; two clients for a key
that is pooled, removed and pooled anew while the old client is still in use or
waits to be closed; a second lease for a session that leaves while another stays. `Conns` bounds
the creations: when all clients are used up, factories can only fail.
`MaxTime` bounds the clock. Handlers and clients are symmetric in the runs
without liveness. The number of handlers, keys, leases, clients and the timeout
are arbitrary in the proofs.

*Fairness.* Goroutines run and the mutex is handed on (weak fairness of each
handler's, the janitor's and the closer's steps; Go's mutex does not starve);
factories and `Close` of a client return (their steps are among those); time
passes (weak fairness of `Tick`). `select` picks at random among the ready cases,
so a janitor that finds both its ticker and `stop` ready infinitely often takes `stop` eventually:
strong fairness of `JanitorStops`. Nothing obliges a session to call the pool, a
request to end, or the server to shut down. That a call of `get` always ends is
not claimed: its loop can be overtaken again and again, and the bound on clients
would make the claim hold for the wrong reason. `CallsEnd` says how far it ends.

### Queries

* `RunsOnOpenClient`, which follows from `InUseStaysPooled` and is only proved: until the shutdown, what a query that is waited for does, it does on
  an open client that is pooled under its key. Goroutines that a cancelled Get left are
  excepted: they can meet a closed client, and do.
* `NothingLeftBehind`: no Get is awaited and no scan open after Run, and the count of the pool is
  exactly the requests that have not released, through every way a query may end.
* `ImplementsRequests`: every request is answered once before it ends, and as cancelled only if its browser has left.
* `RequestsEnd`: a request that has its client, or asks for none, ends. Where its pool call stands in the loop of `get`
  nothing is claimed here (`CallsEnd` speaks of it), so that the claim does not rest on how many clients there are.
* `AbortEndsQuery`: the browser's abort ends an Aerospike query although its database never answers.
* `CancelReported` does not hold: `aerospike.go:127` wraps the error with `%v`, so `errors.Is` in
  `server.go:176` does not find `context.Canceled`, and a cancelled Aerospike query is marked "error".

*Bounds.* Two handlers: one that queries, one that disconnects, queries too or shuts down around it. One client per
run in all: after it is closed, later requests meet a failing factory. `MaxStrays` bounds goroutines on one
client: 2 lets an abandoned one and a new one run together. Time matters for eviction under a query, in
the safety run. The liveness run has one client and no time: evictions and second clients matter to the loop of `get`, which
its properties leave out, and in `pool_liveness`, which has both.

*Fairness.* Handlers get the processor (`ServerFairness`). A database answers a query that is still waited for, or
the plugin's timeout does (`DatabaseFairness`, 10 s in both plugins); of an Aerospike database nothing is assumed once the
browser has left, since the point of Get's goroutine and of the select in `collectRecords` is not to
need it. A call of the Redis library ends by its timeouts (2 s to dial, 10 s to read and to write), whether the browser has left or
not: the library does not watch the context while it waits, and BROWSE looks at it between its turns. Nobody has to abort, and strays need not end.

### BROWSE

* `ListedOnce`: SCAN may repeat keys within a node and, while slots migrate, on
  several nodes; a key is listed once, and a list is marked `limited` exactly when
  it has `Limit` keys. (It is also marked when the limit is reached with the last key of
  the keyspace: the code does not look further.)
* `SteadyKeysShown`: from end to end, a key that exists and stays on its node has a
  row, unless the answer is limited or its group shows "+N more". Keys that
  migrate during the scan may be missed; nothing in the code claims otherwise.
* `BrowseEnds`: every bucket of every node is read once at most. Fairness: the
  server answers (`WF_vars(Browse)`); a failed call ends the browse as well.
* `VanishedKeysDropped` does not hold. `TTLs` turns go-redis's duration into whole
  seconds; the library stores the replies -1 and -2 as that many nanoseconds, so
  both become 0, `ttl == -2` (`browse.go:202`) is never true, and a key that expired between SCAN and
  TTL stays in the answer (with type "none" if it expired before TYPE). The test
  of this case uses a fake client that returns -2.

*Bounds.* Two keys share a prefix, so that a cap of 1 hides one of
them, and a third has its own; the limit of 3 is reached when all exist. Three
buckets give empty, first, middle and last pages; two nodes finish at different times.
Two changes suffice for a key that disappears and comes back, or moves and is
written. Expiring keys are in `browse_vanished` only: for the other properties, expiry is a
deletion.

### Python

* `SlotsMatchRuns`: slots are neither lost nor doubled: early errors, kills, scripts that end with
  threads in the bridge, bridges that give up.
* `NothingOutlivesRun`: when the response is complete the script is dead, its output copied, and the bridge
  has ended and let its client go.
* `AnswersMatch`: answers carry no name; the lock of the prelude is why a thread reads its own.
* `SuccessIsComplete`: a run that is reported as successful has copied all that the script, and what it forked, has printed.
* `EndedScriptEndsRun`, `AbortEndsRun`: the run ends with its script, although forked processes keep
  files open, unless the browser stays and has stopped reading; and it ends when the browser leaves, although the script never ends
  or the browser had stopped reading.
* `PaneIsFaithful`: while a script runs, the pane shows the first bytes it wrote; when it is finished, all up to the limit, half
  a character replaced, and the marker exactly if something was cut; an error message only of a script
  that printed nothing but blanks.
* `SignedOutStaysOut`: after a sign-out no later request is let in, by a session or by credentials the browser still sends, until
  credentials are entered again or a login is answered, be it one that was sent before the sign-out.
* `SessionsAgree`: no session works past its lifetime; the session in the jar works until it expires unless a request that
  ends it is under way or was lost; and, requests being made one after the other, no other session lives.

*Bounds.* The code has two slots; one slot for two requests gives contention with fewer requests. Two threads contend for the
bridge. Three tokens: a session, its replacement and the one of a login that overlaps; two requests overlap. A limit of 2 cuts the first text
inside a character and just holds the second one; executions overlap in pairs.

*Fairness* (`FairSpec`): each run's server and bridge goroutines get the processor and a
preset's query returns (the plugins' timeouts); the copier notices the end of the output; a thread reads an answer that is there.
Scripts and what they fork need not do anything; browsers need not read, and `EndedScriptEndsRun` excepts those that do not.

### What the program is given

* `ServedAsAsked`: whoever made the pooled client, it is what the plugin would have made for this request. `ConnectedMeansFound`: a
  preset query is served exactly if its session connected that connection, however either request is
  written. `LeasesAreKept`, which is only proved: nobody loses a connection by another's disconnect.
* `CommandIsRead`: the tokens are the words of the source, and arguments of a script's `execute` arrive as they are, if they hold no backslash
  (`shlex.join` leaves one inside single quotes alone, `tokenizeRedis` takes it for an escape).
  `ReadOnly`: without write permission nothing runs whose first word, as it is meant, is not on the list.
* `FilterArrives`: what the page lets through, the plugin refuses only for an empty group inside the filter, a blank bin name or
  a fraction given for an integer; and what it compiles selects what the tree says.
* `LoadedIffSound`: Orby starts with exactly the files that keep the rules, and with all connections in
  them. `LookUpsAgree`: writes go where the operator wrote "stage", scripts find presets by
  ID and name, and the IDE hides no page of the workbench.

*Bounds.* All sources of up to four characters of seven kinds (a quotation, an escape in it and a neighbour); filters of up to four nodes
allow a group in a group with two conditions in it; of types and operators, those that differ in what the
code tests (`boolean` alone restricts operators, `integer` alone refuses a fraction); requests and
configurations write two connections in the ways their parsers tell apart, faults included. Bin names are
not blank in the run: the plugin refuses those, as `PassesTheServer` allows.

### The workbench page

* `PendingIsOwn`: "Connecting" is shown only while a probe is under way for the lease, host, port and mode that the page shows. The
  inputs of the plugin are excepted, since the page does not listen to them.
* `SetsOfConnection`: the sets on offer are those of the connection in the form, although answers for other connections come
  in late, unless that connection was edited since the composer was rendered (`edited`).
* `RerunKeepsLease`: a block of a listed connection runs again on its own lease, whatever was selected or edited before.
* `RailConverges`: once the server's leases no longer change, the rail shows them, although polls overtake each other and connects
  that the page gave up succeed.

*Bounds.* A listed connection and new ones with two IDs, and two values of a plugin's input, in the safety run, whose properties do not
depend on polls; two polls that overtake each other, and one value, in the liveness run, where the rail sees only IDs; one lease at a time; three renders: two that overlap after one that is complete. The
rerun needs queries, the rail does not.

*Fairness*: the server answers probes and polls, the answers arrive, and the 30-second interval goes on. Users need not do
anything. The antecedent of `RailConverges` says that the leases settle: users who connect for ever are not its subject.

### Mutants

Operators named `Faulty...` stand before the definition they vary. Nothing uses
them: each is a plausible slip in that code, and `PROJECT.json` ("mutants") pairs it with a property that notices it.

### Observed while modelling

These hold in the models as in the code; no text of the repository that they contradict is strong
enough, or deep enough, to make a run of them.

* `plugins/redis/browse.go:63`: `BROWSE * foo` is accepted, with the pattern `foo`; `BROWSE foo *` is
  refused, since `*` doubles as "no pattern yet".
* `preset_config.go:72`: a configuration file that is missing starts Orby without presets;
  `README.md:169` says that startup fails.
* `preset_config.go:150`: only the port of the connection is checked when the file is loaded, not those in its seeds: the first
  connect refuses them.
* `static/app.js:731`: two loads of sets for different namespaces belong to the same composer; the answer that comes last
  is shown.
* `static/app.js:715`, `:763`, `:775`: a render that was overtaken looks its dependent dropdowns up in the new composer, disables them, and does
  not enable them again, for its generation has passed.
* `static/app.js:1227` against `:1130`: the block of a connection that is not in the rail is shown as a
  new one; the submit handler's `syncFormState` then replaces the lease that the rerun put back.
* `static/app.js:335`: a click on a preset that is known as connected shows "Connected" once the dropdowns are loaded, although its
  host may have been edited meanwhile.
* `static/app.js:264-269`: nothing listens to the inputs that a plugin adds, unlike those of the next lines (`:1205-1212`): after the database of
  Redis has been edited, "Connecting" or "Reachable" stays on the page for another pooled client. Likewise a dropdown
  (`:1178`) does not give up a probe, whose outcome is then shown for the connection selected meanwhile.
* `static/app.js:1206-1209`: an edit of the host, the port or the mode renders no composer, and `:767` compares the render only: sets of
  the connection before stay on offer, or still arrive.
* `python_ide.go:327`: the write deadline of a run is cleared for good. A browser that stays connected and does not read blocks
  the goroutine that copies the output, for which `Wait` waits even after `WaitDelay`: the run and one of the two slots are
  held as long as that browser likes.
* `python_ide.go:533`: scripts look a client up by ID or name, and the server again: a connection whose name is another one's ID is
  taken for it.
* `plugins/redis/client.go:49`: of several addresses the library makes a client for a cluster, also in mode "single", and ignores
  the database that was asked for.
* `static/app.js:863`: an empty group inside a filter passes the page's check, whose second test (`:865`) can never hold; the plugin
  refuses it.

## 4. What is proved

All theorems are of the form `Spec => []Inv` or `Spec => [][A]_vars`, for every
value of the constants that satisfies the named assumptions of its module: any number of handlers,
keys, leases, clients, runs, threads, tokens, nodes, files. Each proof finds an inductive
invariant that implies the property, shows that every action keeps it, one lemma or step per action, and
concludes by temporal logic.

`ConnectionPool_proofs` assumes `PoolConstants` (finitely many handlers,
three kinds of process that differ, a positive timeout, a nil that is no
client) and shows that `IInv` is inductive. It has four parts:

* `Typed`: `TypeOK`, and which labels each kind of process can have.
* `Core`: who owns, counts and uses each client. `SoleOwner` counts owners and
  cannot be used step by step; `Core` says the same in small pieces (pooled clients
  are open and different, clients to be closed are open, not pooled, and each with one
  goroutine, no open client is forgotten), together with `ActiveCountsUsers`,
  `InUseStaysPooled` and `ClosedPoolIsEmpty`. They need each other: a client is
  withdrawn because its count is 0, and the count is right because a user's
  client is still pooled.
* `Flight`: `SingleFlight`, and that who waits finds `creating` set.
* `NoOrphan`, inductive given the rest.

The lemmas `KeepStep`, `AcquireStep`, `WithdrawStep`, `ReleaseStep`, `CloseOneStep`,
`FactorySucceedsStep` and `FactoryTooLateStep` say what each kind of
step does to `Core`; `StepRest` assigns every action of `Next` to one of them. From `IInv` follow `TypeCorrect`,
`ActiveCountIsExact`, `InUseIsSafe`, `OwnerIsUnique`, `FlightIsSingle`,
`NothingIsOrphaned`, `NoWakeUpIsLost` and `ClosedStaysEmpty`.

About steps it proves `PoolImplementsSharedClients`: initial states map
to initial states and `StepRefines` maps each action to a step of `SharedClients`
or a stutter, and `LeasedIsKept`, for which `SeenPast` (the time EvictIdle
read is not in the future) is added to the invariant.

`QueryLifecycle_proofs` rests on that: `PoolPart` shows that every step of the handlers is a step of the pool
or leaves it alone, so `IInv` holds under the handlers too. To it `LifecycleIInv` adds `InStep` (where a
handler is in its request says where it is in its pool call), `Awaiting` (a Get is
awaited and a recordset open only by a handler that is there) and `Honest` (only a
browser that has left makes a query return a cancellation). Hence `QueriesRunOnOpenClients`,
`RequestsLeaveNothing` and `HandlersImplementRequests`: every step of the handlers is a step of `Requests` or a stutter.

`PythonRun_proofs`: `IInv` is `SlotsMatchRuns` with three facts about each run. `Phase`: which of process, output
and bridge are alive where the handler is. `Locked`: a thread is in a request exactly if it has the
prelude's lock, and what is in the pipes or at the bridge is that thread's one request. The slots are exact because a
run's phase says whether it has one; answers are a thread's own because the pipes
hold at most one message and it names the thread with the lock. Hence `SlotsAreExact`, `RunsAreBounded`, `NothingIsLeft`,
`AnswersAreOwn` and, with `Copied` (a copier that ended without a cut has left nothing, and only then does a run succeed), `SuccessHasAllOutput`.

`PythonPage_proofs`, on `PythonOutput`: `OutputIInv` follows the bytes of each run. `Buffer`: `data` has the first bytes of what was
written. `Shaped`: `pending` and `wire`, put together, are blocks of three lines, wherever the network cuts between them
(`BlocksMoved`). `Contents`: there are positions P[0] to P[n] of `data` such that the k-th block carries the bytes
from P[k-1] to P[k]. `Order`: "start" comes first, "done" last, "error" right before it and for blanks only. `Showing`: the pane has
m whole characters' bytes, and P[0] is m, or m + 1 if the decoder holds back a lead. Dispatching a block moves P[0] to P[1]
(`ShownOutput`, from what the decoder makes of whole characters, `DecodedIs`), writing adds a block at the other end (`KeptIs`), and when no
block is left P[0] is the length of `data`: this is `Finished`. Two runs
share the pane and the decoder, hence `OneAtATime`: unless scripts overlapped, one run goes on. `UserReadsTheOutput` follows.

On `PythonSessions`: `SignOutIsFinal` needs `Out` (what the browser keeps, and has sent since, once it has signed out) and
`Verdicts` (what a page request was told, and from which reading of the clock). `StoreAgreesWithBrowser`
needs `Fresh` (the token of a login that is under way is known to nobody else), `Jar` (the session in the jar
is stored, expired, or about to be replaced) and `OneByOne` (which sessions live while requests wait for each
other). `SessionsEnd` is the part about lifetimes alone.

`Inputs_proofs`, on `ConnectionKeys`: `KeysTellConnections`, without any invariant: two requests have one
key exactly if their seeds can be matched and their texts mean the same. Labels occur equally often on both sides
(`LabelsCount`) exactly if there is a bijection of the places that have each label (`MatchCounts`). With it and
`EntriesMatch` (each client is of a request that has its key) follow
`PooledClientIsRight`, `LeasesEndOnRequest` and `ConnectedIsFound`.
On `PresetConfig`: `ConfigIInv` says how far the two loops have come (`Checked`), that what is left to
check is what the file has behind it (`Position`), that the code's maps hold
what is checked (`SeenSoFar`), that it keeps the rules (`SoundSoFar`), and that the configuration is what is
checked, normalised (`LoadedSoFar`). A refusal then shows a
fault of the whole file, and a file that is walked to its end has none: `LoadedIsSound`. `LookUpsFindWhatIsWritten`
follows because IDs and names of what is loaded are different.

`QueryInputs_proofs`. Both modules say by recursion what is meant, along a source or down a tree. The proofs
unfold such a definition with one lemma, `Recursion`: an equation whose value at a place depends on
places of lower rank only has a solution. It is proved from `Least` (a nonempty set of numbers has a least element,
which is `WFMin` of the library on the numbers); whatever holds at every
place is then shown of a place of least rank at which it would not.

* `SubmittedFilterArrives`, from `FilterIInv`: `NodesTyped`; `IsTree`, children have higher slots than their parent and one
  parent each; `IsFit`, a condition has an operator and a value that its type can have, which is what `SetType`
  keeps; and `SentIsCurrent`. `RemoveNode` keeps the tree because all of a subtree except its root has its parents in
  it (`BelowHasParents`). `CompiledMeans` shows, slot by slot from the leaves, that an expression
  selects what its node means, and `AllCompiled` that nothing is refused except as `PassesTheServer` allows.
* `CommandsAreRead` and `ReadOnlyIsKept`, from `ReaderIInv`: `ReadSoFar` says that the tokenizer's state is the meaning of what it has
  read: `escaped` and `quote` are `Literal` and `In` of the next position, `token` spells the word since the
  last separating blank, `tokens` are the words before. For the arguments of scripts, `WordsSoFar` adds where it is in what
  `shlex.join` wrote: in which word, at which character, and at which of the five characters a single quote becomes
  (`WithinGoesOn`, from the offsets of `FlattenSeq`, `FlattenOffsets`).

`RedisBrowse_proofs`: keys are listed once because a page adds only what is unseen
(`SeqOfSet`, `ConcatKeeps`), and a steady key is shown by three facts together: what the cursors have passed is in the list
(`PassedIsFound`), the scan ends with every node or at the limit (`ScanIsWhole`), and no reply says that a steady key is gone
(`RepliesComplete`). Hence `KeysAreListedOnce` and `SteadyKeysAreShown`. `RepliesFitDisplayed` says that the
replies are those of displayed keys, as far as the pipelines have come, and gives `AnswerFitsDisplayed`: an answer has a type and a TTL for
each displayed key and for no other.

`Workbench_proofs`: `ProbeIsShown` and `BlocksKeepTheirLease` need `FormIsShown` (the form is the one the
page shows unless the block that was put back has left the rail); `SetsBelong` needs
`LoadsAreCurrent` (a load of the current render asks the connection in the form, unless that was edited since).

*Assumptions.* Each module names what it assumes of its constants, and TLC
evaluates it on every run: sets of actors and keys are finite where they are counted, bounds are positive, the nil of a
module is none of its values. Those that say something of the environment are few: trimming twice is trimming once and
"0" reads as 0 (`FoldIsIdempotent`, `NumberOfZero`, `TextsAreNormalised`), a connection has finitely many seeds (`SeedsAreFinite`),
the server's routes have one segment (`RoutesAreFlat`), a configuration has the types of the decoder's structs
(`FilesAreTyped`), an input with words is what `shlex.join` wrote of them (`InputsAreWritten`), the operators that the plugin declares
are among those it compiles (`FilterConstants`), and what scripts print is UTF-8, which may be cut at its end (`TextsAreCharacters`): of other bytes the decoder makes
replacements, and the properties of the pane do not speak of them.

*Only model-checked*: every liveness property, since liveness under fairness and ENABLED are beyond these
provers: `WaiterWakes`, `CallsEnd`, `ShutdownCloses`, `IdleClientsEvicted`, `RequestsEnd`,
`AbortEndsQuery`, `BrowseEnds`, `EndedScriptEndsRun`, `AbortEndsRun`, `RailConverges`.

TLC agrees with `FilterIInv` on filters of four nodes and with `ReaderIInv` on sources of three characters; it cannot
evaluate `WordsSoFar`, which asks for offsets among all functions.

## 5. What is left

Every safety invariant and action property of the passing runs has a theorem. The liveness properties
named at the end of the last section are model-checked on small instances only.

### Not modelled

* `parseBrowse`, `parseCommand`'s limits and flags, `parseOptions`: checks of one argument
  after the other, which keep nothing.
* Rendering, templates, portable scripts, embedding, the formats of replies, walking of
  values: text layout, without state.
* Drafts, history, saved connections in `localStorage`, panels, output views, custom selects, the
  Python editor: presentation, or storage within one event handler.
* A factory that panics (`connection_pool.go:177` would leave `creating` behind); none of the plugins' does.
* The databases, their client libraries, the HTTP library, the JSON decoder and Python itself:
  they appear through how the code uses them.
