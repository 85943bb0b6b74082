--------------------------- MODULE ConnectionPool ---------------------------
(***************************************************************************)
(* The connection pool of src/connection_pool.go: one database client per  *)
(* key, shared by the sessions that lease it and by the requests that run  *)
(* on it.  A goroutine's step is what it does in one critical section of   *)
(* pool.mu, or one call it makes outside the lock (reading the clock, the  *)
(* factory, closing a client, waiting for another goroutine's creation).   *)
(*                                                                         *)
(* Definitions named Faulty... are plausible bugs of the definition that   *)
(* follows them.  Nothing uses them: they show that a property can fail.   *)
(***************************************************************************)
EXTENDS Integers, FiniteSets

CONSTANTS
    Handlers,     \* goroutines that serve requests and call the pool
    Janitor,      \* the goroutine that runs closeIdleConnections
    Closer,       \* the goroutine that calls pool.Close
    Keys,         \* connection keys (connectionKey in src/request.go)
    Leases,       \* the names leases are kept under
    Anonymous,    \* the lease kept for callers without a lease name
    EmptyLease,   \* the empty lease name
    Conns,        \* clients the factories may create: bounds creations
    IdleTimeout,  \* pool.idleTimeout
    MaxTime,      \* bound of the clock
    None          \* nil

Procs == Handlers \cup {Janitor, Closer}

\* type pooledConnection
Entries == [connection : Conns, leases : SUBSET Leases, active : Nat,
            lastUsed : 0..MaxTime, closeWhenIdle : BOOLEAN]

GetOps     == {"Connect", "Acquire"}
EvictFirst == GetOps \cup {"AcquireExisting", "ActiveLeases"}
Calls == [op : EvictFirst \cup {"Disconnect"}, key : Keys, lease : Leases]

ASSUME PoolConstants ==
    /\ IsFiniteSet(Handlers)
    /\ Janitor \notin Handlers
    /\ Closer \notin Handlers
    /\ Janitor # Closer
    /\ Anonymous \in Leases
    /\ IdleTimeout \in Nat \ {0}
    /\ MaxTime \in Nat
    /\ None \notin Conns \cup Handlers \cup Entries \cup Calls

VARIABLES
    connections,  \* pool.connections: the entry pooled for each key, or None
    creating,     \* pool.creating: the handler creating each key's client
    closed,       \* pool.closed
    stopped,      \* has the channel pool.stop been closed?
    clock,        \* what pool.now returns
    conn,         \* the life of each client
    pc,           \* where each goroutine is
    call,         \* the pool call each handler is in, with its arguments
    held,         \* the client each handler has acquired and not released
    closing,      \* clients a goroutine took out of the pool and has to close
    seen          \* the time EvictIdle read before it took the lock

poolVars == <<connections, creating, closed, stopped>>
vars == <<connections, creating, closed, stopped, clock, conn, pc, call, held,
          closing, seen>>

-----------------------------------------------------------------------------
(* Data *)

Pooled(k) == connections[k] # None
Ours(h)   == connections[call[h].key]

LeaseName(lease) == IF lease = EmptyLease THEN Anonymous ELSE lease

Entry(connection, leases, active, lastUsed, closeWhenIdle) ==
    [connection |-> connection, leases |-> leases, active |-> active,
     lastUsed |-> lastUsed, closeWhenIdle |-> closeWhenIdle]

FaultyNewEntry(c) ==       \* keeps the deadline, not the time of the last use
    Entry(c, {}, 0, clock + IdleTimeout, FALSE)
NewEntry(c) == Entry(c, {}, 0, clock, FALSE)

\* Entry e once get has found it for call c.
FaultyJoined(e, c) ==      \* counts Connect as a request in progress
    Entry(e.connection, e.leases \cup {c.lease}, e.active + 1, clock, FALSE)
Joined(e, c) ==
    Entry(e.connection, e.leases \cup {c.lease},
          IF c.op = "Acquire" THEN e.active + 1 ELSE e.active, clock, FALSE)

\* Once AcquireExisting has found it: closeWhenIdle stays as it is.
Reused(e) ==
    Entry(e.connection, e.leases, e.active + 1, clock, e.closeWhenIdle)

\* Once Disconnect has taken a lease away.
FaultyUnleased(e, lease) ==   \* forgets that the last request must close it
    Entry(e.connection, e.leases \ {lease}, e.active, clock, e.closeWhenIdle)
Unleased(e, lease) ==
    Entry(e.connection, e.leases \ {lease}, e.active, clock,
          e.closeWhenIdle \/ (e.leases \ {lease} = {} /\ e.active > 0))

\* Once a request on it is over.
Released(e) ==
    Entry(e.connection, e.leases,
          IF e.active > 0 THEN e.active - 1 ELSE e.active, clock,
          e.closeWhenIdle)

\* Is an entry that Disconnect, respectively release, has just updated done?
FaultyLeft(e) == e.active = 0     \* whoever else leases it
Left(e) == e.active = 0 /\ e.leases = {}
Finished(e) == e.active = 0 /\ e.closeWhenIdle /\ e.leases = {}

\* The keys EvictIdle evicts when it read the time `now`.
FaultyIdle(now) ==         \* evicts what requests are running on
    {k \in Keys : Pooled(k) /\ now - connections[k].lastUsed >= IdleTimeout}
FaultyIdleUnleased(now) == \* evicts only what nobody leases
    {k \in Keys : /\ Pooled(k)
                  /\ Left(connections[k])
                  /\ now - connections[k].lastUsed >= IdleTimeout}
Idle(now) ==
    {k \in Keys : /\ Pooled(k)
                  /\ connections[k].active = 0
                  /\ now - connections[k].lastUsed >= IdleTimeout}

-----------------------------------------------------------------------------
(* Control *)

Goto(p, label) == pc' = [pc EXCEPT ![p] = label]

\* A handler's call is over.
Return(h) == Goto(h, "idle") /\ call' = [call EXCEPT ![h] = None]

Store(k, entry) == connections' = [connections EXCEPT ![k] = entry]

\* Take the entries of keys K out of the map; p closes their clients later.
Remove(p, K) ==
    /\ connections' = [k \in Keys |-> IF k \in K THEN None ELSE connections[k]]
    /\ closing' = [closing EXCEPT
                     ![p] = {connections[k].connection : k \in K}]

\* Where a goroutine goes on after EvictIdle.
AfterEvict(p) ==
    IF p = Janitor THEN "idle"
    ELSE CASE call[p].op \in GetOps           -> "get"
           [] call[p].op = "AcquireExisting"  -> "existing"
           [] call[p].op = "ActiveLeases"     -> "list"

Init ==
    /\ connections = [k \in Keys |-> None]
    /\ creating = [k \in Keys |-> None]
    /\ closed = FALSE
    /\ stopped = FALSE
    /\ clock = 0
    /\ conn = [c \in Conns |-> "none"]
    /\ pc = [p \in Procs |-> "idle"]
    /\ call = [h \in Handlers |-> None]
    /\ held = [h \in Handlers |-> None]
    /\ closing = [p \in Procs |-> {}]
    /\ seen = [p \in Procs |-> 0]

Tick ==
    /\ clock < MaxTime
    /\ clock' = clock + 1
    /\ UNCHANGED <<poolVars, conn, pc, call, held, closing, seen>>

-----------------------------------------------------------------------------
(* EvictIdle, run by the janitor and first in every call but Disconnect *)

\* A handler enters Connect, Acquire, AcquireExisting or ActiveLeases, and
\* EvictIdle reads the clock.
StartCall(h, op, k, lease) ==
    /\ pc[h] = "idle"
    /\ call' = [call EXCEPT
                  ![h] = [op |-> op, key |-> k, lease |-> LeaseName(lease)]]
    /\ seen' = [seen EXCEPT ![h] = clock]
    /\ Goto(h, "evict")
    /\ UNCHANGED <<poolVars, clock, conn, held, closing>>

\* The critical section of EvictIdle.
EvictIdle(p) ==
    /\ pc[p] = "evict"
    /\ Remove(p, Idle(seen[p]))
    /\ Goto(p, IF Idle(seen[p]) = {} THEN AfterEvict(p) ELSE "evicted")
    /\ seen' = [seen EXCEPT ![p] = 0]
    /\ UNCHANGED <<creating, closed, stopped, clock, conn, call, held>>

\* A goroutine closes a client it took out of the pool, outside the lock,
\* then goes on: with its call after EvictIdle, else out of its call.
CloseOne(p, c) ==
    /\ pc[p] \in {"evicted", "closing"}
    /\ c \in closing[p]
    /\ conn' = [conn EXCEPT ![c] = "closed"]
    /\ closing' = [closing EXCEPT ![p] = @ \ {c}]
    /\ IF closing[p] # {c} THEN UNCHANGED <<pc, call>>
       ELSE IF pc[p] = "evicted" THEN Goto(p, AfterEvict(p)) /\ UNCHANGED call
       ELSE IF p = Closer THEN Goto(p, "stop") /\ UNCHANGED call
       ELSE Return(p)
    /\ UNCHANGED <<poolVars, clock, held, seen>>

\* ActiveLeases takes the lock again, to read.
ListLeases(h) ==
    /\ pc[h] = "list"
    /\ Return(h)
    /\ UNCHANGED <<poolVars, clock, conn, held, closing, seen>>

-----------------------------------------------------------------------------
(* get: the loop of Connect and Acquire *)

GetClosed(h) ==
    /\ pc[h] = "get"
    /\ closed
    /\ Return(h)
    /\ UNCHANGED <<poolVars, clock, conn, held, closing, seen>>

\* The key has an entry: lease it, and for Acquire hold its client.
GetPooled(h) ==
    /\ pc[h] = "get"
    /\ ~closed
    /\ Pooled(call[h].key)
    /\ Store(call[h].key, Joined(Ours(h), call[h]))
    /\ IF call[h].op = "Acquire"
       THEN /\ held' = [held EXCEPT ![h] = Ours(h).connection]
            /\ Goto(h, "using")
            /\ UNCHANGED call
       ELSE Return(h) /\ UNCHANGED held
    /\ UNCHANGED <<creating, closed, stopped, clock, conn, closing, seen>>

\* Another handler is creating the key's client: wait for it.
GetWait(h) ==
    /\ pc[h] = "get"
    /\ ~closed
    /\ ~Pooled(call[h].key)
    /\ creating[call[h].key] # None
    /\ Goto(h, "waiting")
    /\ UNCHANGED <<poolVars, clock, conn, call, held, closing, seen>>

FaultyGetCreate(h) ==      \* creates beside a creation in flight
    /\ pc[h] = "get"
    /\ ~closed
    /\ ~Pooled(call[h].key)
    /\ creating' = [creating EXCEPT ![call[h].key] = h]
    /\ Goto(h, "creating")
    /\ UNCHANGED <<connections, closed, stopped, clock, conn, call, held,
                   closing, seen>>
GetCreate(h) ==
    /\ pc[h] = "get"
    /\ ~closed
    /\ ~Pooled(call[h].key)
    /\ creating[call[h].key] = None
    /\ creating' = [creating EXCEPT ![call[h].key] = h]
    /\ Goto(h, "creating")
    /\ UNCHANGED <<connections, closed, stopped, clock, conn, call, held,
                   closing, seen>>

\* The end of a creation: its goroutine goes on at `own`, and close(done)
\* sends those who wait for it to `others`.
FaultyCreationOver(h, own, others) ==     \* forgets close(done)
    /\ creating' = [creating EXCEPT ![call[h].key] = None]
    /\ Goto(h, own)
CreationOver(h, own, others) ==
    /\ creating' = [creating EXCEPT ![call[h].key] = None]
    /\ pc' = [p \in Procs |->
                IF p = h THEN own
                ELSE IF pc[p] = "waiting" /\ call[p].key = call[h].key
                THEN others ELSE pc[p]]

\* The factory returns an error, or no client and no error.
FactoryFails(h) ==
    /\ pc[h] = "creating"
    /\ CreationOver(h, "failed", "failed")
    /\ UNCHANGED <<connections, closed, stopped, clock, conn, call, held,
                   closing, seen>>

\* The factory returns a client.  Its entry has no lease until the creator,
\* or one of those it woke, takes the lock again.
FactorySucceeds(h, c) ==
    /\ pc[h] = "creating"
    /\ ~closed
    /\ conn[c] = "none"
    /\ conn' = [conn EXCEPT ![c] = "open"]
    /\ Store(call[h].key, NewEntry(c))
    /\ CreationOver(h, "get", "get")
    /\ UNCHANGED <<closed, stopped, clock, call, held, closing, seen>>

\* It returns a client to a pool that was closed meanwhile.
FaultyFactoryTooLate(h, c) ==   \* drops the client
    /\ pc[h] = "creating"
    /\ closed
    /\ conn[c] = "none"
    /\ conn' = [conn EXCEPT ![c] = "open"]
    /\ CreationOver(h, "failed", "failed")
    /\ UNCHANGED <<connections, closed, stopped, clock, call, held, closing,
                   seen>>
FaultyFactoryPools(h, c) ==     \* pools the client
    /\ pc[h] = "creating"
    /\ closed
    /\ conn[c] = "none"
    /\ conn' = [conn EXCEPT ![c] = "open"]
    /\ Store(call[h].key, NewEntry(c))
    /\ CreationOver(h, "get", "get")
    /\ UNCHANGED <<closed, stopped, clock, call, held, closing, seen>>
FactoryTooLate(h, c) ==
    /\ pc[h] = "creating"
    /\ closed
    /\ conn[c] = "none"
    /\ conn' = [conn EXCEPT ![c] = "open"]
    /\ closing' = [closing EXCEPT ![h] = {c}]
    /\ CreationOver(h, "closing", "failed")
    /\ UNCHANGED <<connections, closed, stopped, clock, call, held, seen>>

\* A creator, or one who waited for it, returns the creation's error.
ReturnError(h) ==
    /\ pc[h] = "failed"
    /\ Return(h)
    /\ UNCHANGED <<poolVars, clock, conn, held, closing, seen>>

-----------------------------------------------------------------------------
(* AcquireExisting, Disconnect, release *)

AcquireExisting(h) ==
    /\ pc[h] = "existing"
    /\ IF ~closed /\ Pooled(call[h].key) /\ call[h].lease \in Ours(h).leases
       THEN /\ Store(call[h].key, Reused(Ours(h)))
            /\ held' = [held EXCEPT ![h] = Ours(h).connection]
            /\ Goto(h, "using")
            /\ UNCHANGED call
       ELSE Return(h) /\ UNCHANGED <<connections, held>>
    /\ UNCHANGED <<creating, closed, stopped, clock, conn, closing, seen>>

\* A handler enters Disconnect, which does not call EvictIdle.
StartDisconnect(h, k, lease) ==
    /\ pc[h] = "idle"
    /\ call' = [call EXCEPT ![h] = [op |-> "Disconnect", key |-> k,
                                    lease |-> LeaseName(lease)]]
    /\ Goto(h, "disconnect")
    /\ UNCHANGED <<poolVars, clock, conn, held, closing, seen>>

Disconnect(h) ==
    /\ pc[h] = "disconnect"
    /\ IF ~Pooled(call[h].key)
       THEN Return(h) /\ UNCHANGED <<connections, closing>>
       ELSE LET entry == Unleased(Ours(h), call[h].lease)
            IN IF Left(entry)
               THEN /\ Remove(h, {call[h].key})
                    /\ Goto(h, "closing")
                    /\ UNCHANGED call
               ELSE /\ Store(call[h].key, entry)
                    /\ Return(h)
                    /\ UNCHANGED closing
    /\ UNCHANGED <<creating, closed, stopped, clock, conn, held, seen>>

\* The request is over; it may be the last one on a client nobody leases.
Release(h) ==
    /\ pc[h] = "using"
    /\ held' = [held EXCEPT ![h] = None]
    /\ IF ~(Pooled(call[h].key) /\ Ours(h).connection = held[h])
       THEN Return(h) /\ UNCHANGED <<connections, closing>>
       ELSE IF Finished(Released(Ours(h)))
       THEN /\ Remove(h, {call[h].key})
            /\ Goto(h, "closing")
            /\ UNCHANGED call
       ELSE /\ Store(call[h].key, Released(Ours(h)))
            /\ Return(h)
            /\ UNCHANGED closing
    /\ UNCHANGED <<creating, closed, stopped, clock, conn, seen>>

-----------------------------------------------------------------------------
(* The janitor and the shutdown *)

\* The ticker fires, and EvictIdle reads the clock.
JanitorTicks ==
    /\ pc[Janitor] = "idle"
    /\ seen' = [seen EXCEPT ![Janitor] = clock]
    /\ Goto(Janitor, "evict")
    /\ UNCHANGED <<poolVars, clock, conn, call, held, closing>>

JanitorStops ==
    /\ pc[Janitor] = "idle"
    /\ stopped
    /\ Goto(Janitor, "done")
    /\ UNCHANGED <<poolVars, clock, conn, call, held, closing, seen>>

\* The critical section of Close, which spares no client in use.
Close ==
    /\ pc[Closer] = "idle"
    /\ closed' = TRUE
    /\ Remove(Closer, {k \in Keys : Pooled(k)})
    /\ Goto(Closer, IF \E k \in Keys : Pooled(k) THEN "closing" ELSE "stop")
    /\ UNCHANGED <<creating, stopped, clock, conn, call, held, seen>>

CloseStop ==
    /\ pc[Closer] = "stop"
    /\ stopped' = TRUE
    /\ Goto(Closer, "await")
    /\ UNCHANGED <<connections, creating, closed, clock, conn, call, held,
                   closing, seen>>

CloseReturns ==
    /\ pc[Closer] = "await"
    /\ pc[Janitor] = "done"
    /\ Goto(Closer, "done")
    /\ UNCHANGED <<poolVars, clock, conn, call, held, closing, seen>>

-----------------------------------------------------------------------------

\* What a handler in a call does next, whatever its callers want of it.
HandlerStep(h) ==
    \/ EvictIdle(h)
    \/ \E c \in Conns : CloseOne(h, c)
    \/ ListLeases(h)
    \/ GetClosed(h)
    \/ GetPooled(h)
    \/ GetWait(h)
    \/ GetCreate(h)
    \/ FactoryFails(h)
    \/ \E c \in Conns : FactorySucceeds(h, c)
    \/ \E c \in Conns : FactoryTooLate(h, c)
    \/ ReturnError(h)
    \/ AcquireExisting(h)
    \/ Disconnect(h)

JanitorStep ==
    \/ JanitorTicks
    \/ EvictIdle(Janitor)
    \/ \E c \in Conns : CloseOne(Janitor, c)

CloserStep ==
    \/ \E c \in Conns : CloseOne(Closer, c)
    \/ CloseStop
    \/ CloseReturns

Next ==
    \/ \E h \in Handlers :
         \/ \E op \in EvictFirst, k \in Keys, lease \in Leases \cup {EmptyLease} :
              StartCall(h, op, k, lease)
         \/ \E k \in Keys, lease \in Leases \cup {EmptyLease} :
              StartDisconnect(h, k, lease)
         \/ Release(h)
         \/ HandlerStep(h)
    \/ JanitorStep
    \/ JanitorStops
    \/ Close
    \/ CloserStep
    \/ Tick

Spec == Init /\ [][Next]_vars

\* Goroutines get the processor and the lock, factories and Close return,
\* time passes, and select does not prefer the ticker to pool.stop forever.
\* Nothing obliges a session to call the pool, a request to end, or the
\* server to shut down.
Fairness ==
    /\ \A h \in Handlers : WF_vars(HandlerStep(h))
    /\ WF_vars(JanitorStep)
    /\ SF_vars(JanitorStops)
    /\ WF_vars(CloserStep)
    /\ WF_vars(Tick)

FairSpec == Spec /\ Fairness

-----------------------------------------------------------------------------
(* Properties *)

Users(c) == {h \in Handlers : held[h] = c}

Labels == {"idle", "evict", "evicted", "get", "waiting", "creating", "failed",
           "existing", "list", "disconnect", "using", "closing", "stop",
           "await", "done"}

\* Every variable holds the kind of value the code keeps in it; a handler is
\* in a call exactly when it is not idle, and holds a client while using it.
TypeOK ==
    /\ connections \in [Keys -> Entries \cup {None}]
    /\ creating \in [Keys -> Handlers \cup {None}]
    /\ closed \in BOOLEAN
    /\ stopped \in BOOLEAN
    /\ clock \in 0..MaxTime
    /\ conn \in [Conns -> {"none", "open", "closed"}]
    /\ pc \in [Procs -> Labels]
    /\ call \in [Handlers -> Calls \cup {None}]
    /\ held \in [Handlers -> Conns \cup {None}]
    /\ closing \in [Procs -> SUBSET Conns]
    /\ seen \in [Procs -> 0..MaxTime]
    /\ \A h \in Handlers : /\ pc[h] = "idle" <=> call[h] = None
                           /\ pc[h] = "using" <=> held[h] # None

\* entry.active counts the requests in progress: each pooled client's count
\* is the number of handlers between its acquisition and its release.
ActiveCountsUsers ==
    \A k \in Keys : Pooled(k) =>
        connections[k].active = Cardinality(Users(connections[k].connection))

\* A client on which a request runs stays open and pooled under the request's
\* key, whatever disconnects, evictions and releases come between: only the
\* shutdown of the pool takes it away.
InUseStaysPooled ==
    \A h \in Handlers : held[h] # None /\ ~closed =>
        /\ conn[held[h]] = "open"
        /\ Pooled(call[h].key)
        /\ Ours(h).connection = held[h]

\* No client is leaked and none is closed twice: an open client is pooled
\* under one key or waits to be closed by one goroutine, and never both.
SoleOwner ==
    \A c \in Conns :
        LET keys == {k \in Keys : Pooled(k) /\ connections[k].connection = c}
            procs == {p \in Procs : c \in closing[p]}
        IN Cardinality(keys) + Cardinality(procs) =
               (IF conn[c] = "open" THEN 1 ELSE 0)

\* A key's client is created by one handler at a time, and only while the key
\* has none: the handlers in the factory are those `creating` records, and no
\* entry appears beside a creation in flight.
SingleFlight ==
    /\ \A k \in Keys, h \in Handlers :
           creating[k] = h <=> pc[h] = "creating" /\ call[h].key = k
    /\ \A k \in Keys : creating[k] # None => ~Pooled(k)

\* An entry that nobody leases is about to go: requests still run on it and the
\* last of them will close it, or a handler is about to lease it in get.
NoOrphan ==
    \A k \in Keys : Pooled(k) /\ connections[k].leases = {} =>
        \/ connections[k].active > 0 /\ connections[k].closeWhenIdle
        \/ /\ connections[k].active = 0
           /\ \E h \in Handlers : pc[h] = "get" /\ call[h].key = k

\* No wake-up is lost: whoever waits for a creation waits for one in progress.
WaitersHaveCreator ==
    \A h \in Handlers : pc[h] = "waiting" =>
        \E g \in Handlers : /\ pc[g] = "creating"
                            /\ call[g].key = call[h].key

\* Once Close has emptied the pool, no creation that ends late fills it again.
ClosedPoolIsEmpty == closed => \A k \in Keys : ~Pooled(k)

\* A client that sessions lease leaves the open pool only if no request runs
\* on it, and either it has not been used for IdleTimeout or the last session
\* that leases it disconnects.
LeasedClientKept ==
    [][\A k \in Keys :
         Pooled(k) /\ connections'[k] = None /\ ~closed' =>
           /\ \A h \in Handlers : held'[h] # connections[k].connection
           /\ \/ clock - connections[k].lastUsed >= IdleTimeout
              \/ \E h \in Handlers : /\ pc[h] = "disconnect"
                                     /\ pc'[h] = "closing"
                                     /\ connections[k].leases
                                          \subseteq {call[h].lease}
              \/ connections[k].leases = {}]_vars

\* The pool is a SharedClients: clients are handed out one per key and closed
\* only once withdrawn, which happens to a client in use only at the shutdown.
Clients == INSTANCE SharedClients WITH
    life <- conn,
    offered <- [k \in Keys |-> IF Pooled(k) THEN connections[k].connection
                                            ELSE None],
    using <- held,
    shut <- closed

ImplementsSharedClients == Clients!Spec

\* Whoever waits for another handler's creation is woken.
WaiterWakes ==
    \A h \in Handlers : pc[h] = "waiting" ~> pc[h] # "waiting"

\* Another goroutine may evict or disconnect the client that a call of Connect
\* or Acquire has just created or was woken for, before get finds it: then the
\* loop of get starts again.
Overtakable(h) == pc[h] \notin {"idle", "using"} /\ call[h].op \in GetOps
Created == {c \in Conns : conn[c] # "none"}

\* A handler's call ends.  Only the loop of get may go round for ever, and only
\* if clients are created for ever.
CallsEnd ==
    \A h \in Handlers :
        /\ (pc[h] \notin {"idle", "using"} /\ ~Overtakable(h)) ~>
               pc[h] \in {"idle", "using"}
        /\ \A C \in SUBSET Conns :
               (Overtakable(h) /\ Created = C) ~> ~(Overtakable(h) /\ Created = C)

\* A shutdown ends: Close returns, and every client, those that are still being
\* created when it runs included, ends up closed for good.
ShutdownCloses ==
    closed ~> [](pc[Closer] = "done" /\ \A c \in Conns : conn[c] # "open")

\* A client that nobody touches any more leaves the pool, leased or not, as long
\* as the clock has an IdleTimeout left: the janitor finds it without any call.
Untouched(k, c, t) ==
    /\ Pooled(k)
    /\ connections[k].connection = c
    /\ connections[k].active = 0
    /\ connections[k].lastUsed = t
IdleClientsEvicted ==
    \A k \in Keys, c \in Conns, t \in 0..(MaxTime - IdleTimeout) :
        Untouched(k, c, t) ~> ~Untouched(k, c, t)

=============================================================================
