------------------------ MODULE ConnectionPool_proofs ------------------------
(***************************************************************************)
(* Proofs that the connection pool keeps its invariants for any number of  *)
(* handlers, keys, leases and clients, and any idle timeout; and, about    *)
(* its steps, that it implements SharedClients and keeps the clients that  *)
(* sessions lease.                                                         *)
(***************************************************************************)
EXTENDS ConnectionPool, FiniteSetTheorems, TLAPS

-----------------------------------------------------------------------------
(* Types and control *)

\* Where each kind of goroutine can be, and the calls that start with EvictIdle.
Control ==
    /\ pc[Janitor] \in {"idle", "evict", "evicted", "done"}
    /\ pc[Closer] \in {"idle", "closing", "stop", "await", "done"}
    /\ \A h \in Handlers :
         /\ pc[h] \notin {"stop", "await", "done"}
         /\ pc[h] \in {"evict", "evicted"} => call[h].op \in EvictFirst

Typed == TypeOK /\ Control

LEMMA NewEntryType ==
    ASSUME TypeOK, NEW c \in Conns
    PROVE  NewEntry(c) \in Entries
BY DEF TypeOK, NewEntry, Entries, Entry

LEMMA EntryUpdateTypes ==
    ASSUME TypeOK, NEW e \in Entries, NEW c \in Calls
    PROVE  /\ Joined(e, c) \in Entries
           /\ Reused(e) \in Entries
           /\ Unleased(e, c.lease) \in Entries
           /\ Released(e) \in Entries
<1> USE DEF TypeOK, Entries, Calls, Entry
<1>1. Joined(e, c) \in Entries
  BY DEF Joined
<1>2. Reused(e) \in Entries
  BY DEF Reused
<1>3. Unleased(e, c.lease) \in Entries
  BY DEF Unleased
<1>4. Released(e) \in Entries
  BY DEF Released
<1>5. QED
  BY <1>1, <1>2, <1>3, <1>4


\* What every step does to the entries of one key or of a set of keys.
LEMMA StoreType ==
    ASSUME TypeOK, NEW k \in Keys, NEW e \in Entries, Store(k, e)
    PROVE  connections' \in [Keys -> Entries \cup {None}]
BY DEF TypeOK, Store

LEMMA RemoveType ==
    ASSUME TypeOK, NEW p \in Procs, NEW K \in SUBSET Keys,
           \A k \in K : Pooled(k), Remove(p, K)
    PROVE  /\ connections' \in [Keys -> Entries \cup {None}]
           /\ closing' \in [Procs -> SUBSET Conns]
<1>1. \A k \in K : connections[k].connection \in Conns
  BY DEF TypeOK, Pooled, Entries
<1>2. QED
  BY <1>1 DEF TypeOK, Remove

\* The arguments of the call a handler is in.
LEMMA CallType ==
    ASSUME TypeOK, NEW h \in Handlers, pc[h] # "idle"
    PROVE  /\ call[h] \in Calls
           /\ call[h].key \in Keys
           /\ call[h].lease \in Leases
           /\ Pooled(call[h].key) => Ours(h) \in Entries
BY DEF TypeOK, Calls, Pooled, Ours

LEMMA CreationOverType ==
    ASSUME TypeOK, NEW h \in Handlers, pc[h] = "creating",
           NEW own \in {"get", "failed", "closing"},
           NEW others \in {"get", "failed"},
           CreationOver(h, own, others)
    PROVE  /\ creating' \in [Keys -> Handlers \cup {None}]
           /\ pc' \in [Procs -> Labels]
           /\ \A p \in Procs : pc'[p] # pc[p] =>
                /\ pc[p] \in {"creating", "waiting"}
                /\ pc'[p] \in {"get", "failed", "closing"}
<1>1. pc' \in [Procs -> Labels]
  BY DEF TypeOK, CreationOver, Labels
<1>2. creating' \in [Keys -> Handlers \cup {None}]
  BY DEF TypeOK, CreationOver
<1>3. ASSUME NEW p \in Procs, pc'[p] # pc[p]
      PROVE  /\ pc[p] \in {"creating", "waiting"}
             /\ pc'[p] \in {"get", "failed", "closing"}
  BY <1>3 DEF CreationOver
<1>4. QED
  BY <1>1, <1>2, <1>3

LEMMA InitTyped == Init => Typed
<1>1. Init => TypeOK
  <2> SUFFICES ASSUME Init PROVE TypeOK
    OBVIOUS
  <2>1. 0 \in 0..MaxTime
    BY PoolConstants
  <2>2. pc \in [Procs -> Labels]
    BY DEF Init, Labels
  <2>3. seen \in [Procs -> 0..MaxTime]
    BY <2>1 DEF Init
  <2>4. closing \in [Procs -> SUBSET Conns]
    BY DEF Init
  <2>5. \A h \in Handlers : pc[h] = "idle" /\ call[h] = None /\ held[h] = None
    BY DEF Init, Procs
  <2>6. QED
    BY <2>1, <2>2, <2>3, <2>4, <2>5 DEF Init, TypeOK
<1>2. Init => Control
  BY DEF Init, Control, Procs
<1>3. QED
  BY <1>1, <1>2 DEF Typed

LEMMA StepTyped == Typed /\ [Next]_vars => Typed'
<1> SUFFICES ASSUME Typed, [Next]_vars
             PROVE  Typed'
  OBVIOUS
<1> USE PoolConstants DEF Typed, Control, Procs, Labels, EvictFirst, GetOps
<1>1. ASSUME NEW h \in Handlers, NEW op \in EvictFirst, NEW k \in Keys,
             NEW lease \in Leases \cup {EmptyLease}, StartCall(h, op, k, lease)
      PROVE  Typed'
  <2>1. [op |-> op, key |-> k, lease |-> LeaseName(lease)] \in Calls
    BY DEF Calls, LeaseName
  <2>2. QED
    BY <1>1, <2>1 DEF TypeOK, StartCall, Goto, poolVars
<1>2. ASSUME NEW h \in Handlers, NEW k \in Keys,
             NEW lease \in Leases \cup {EmptyLease}, StartDisconnect(h, k, lease)
      PROVE  Typed'
  <2>1. [op |-> "Disconnect", key |-> k, lease |-> LeaseName(lease)] \in Calls
    BY DEF Calls, LeaseName
  <2>2. QED
    BY <1>2, <2>1 DEF TypeOK, StartDisconnect, Goto, poolVars
<1>3. ASSUME NEW h \in Handlers, Release(h)
      PROVE  Typed'
  <2> USE <1>3 DEF Release
  <2>1. /\ call[h] \in Calls
        /\ call[h].key \in Keys
        /\ Pooled(call[h].key) =>
             Ours(h) \in Entries /\ Released(Ours(h)) \in Entries
    BY CallType, EntryUpdateTypes
  <2>2. CASE ~(Pooled(call[h].key) /\ Ours(h).connection = held[h])
    BY <2>1, <2>2 DEF TypeOK, Return, Goto
  <2>3. CASE /\ Pooled(call[h].key)
             /\ Ours(h).connection = held[h]
             /\ Finished(Released(Ours(h)))
    <3>1. Remove(h, {call[h].key}) /\ Goto(h, "closing") /\ UNCHANGED call
      BY <2>3
    <3>2. /\ connections' \in [Keys -> Entries \cup {None}]
          /\ closing' \in [Procs -> SUBSET Conns]
      BY <2>1, <2>3, <3>1, RemoveType
    <3>3. QED
      BY <2>1, <3>1, <3>2 DEF TypeOK, Goto
  <2>4. CASE /\ Pooled(call[h].key)
             /\ Ours(h).connection = held[h]
             /\ ~Finished(Released(Ours(h)))
    <3>1. Store(call[h].key, Released(Ours(h))) /\ Return(h) /\ UNCHANGED closing
      BY <2>4
    <3>2. connections' \in [Keys -> Entries \cup {None}]
      BY <2>1, <2>4, <3>1, StoreType
    <3>3. QED
      BY <2>1, <3>1, <3>2 DEF TypeOK, Return, Goto
  <2>5. QED
    BY <2>2, <2>3, <2>4
<1>4. ASSUME NEW p \in Procs, EvictIdle(p)
      PROVE  Typed'
  <2> USE <1>4 DEF EvictIdle
  <2>1. /\ connections' \in [Keys -> Entries \cup {None}]
        /\ closing' \in [Procs -> SUBSET Conns]
    <3>1. /\ Idle(seen[p]) \in SUBSET Keys
          /\ \A k \in Idle(seen[p]) : Pooled(k)
      BY DEF Idle
    <3>2. QED
      BY <3>1, RemoveType
  <2>2. p # Closer
    OBVIOUS
  <2>3. p \in Handlers => AfterEvict(p) \in {"get", "existing", "list"}
    BY DEF AfterEvict
  <2>4. p = Janitor => AfterEvict(p) = "idle"
    BY DEF AfterEvict
  <2>5. QED
    BY <2>1, <2>2, <2>3, <2>4 DEF TypeOK, Goto
<1>5. ASSUME NEW p \in Procs, NEW c \in Conns, CloseOne(p, c)
      PROVE  Typed'
  <2> USE <1>5 DEF CloseOne
  <2>1. /\ conn' \in [Conns -> {"none", "open", "closed"}]
        /\ closing' \in [Procs -> SUBSET Conns]
    BY DEF TypeOK
  <2>2. CASE closing[p] # {c}
    BY <2>1, <2>2 DEF TypeOK, poolVars
  <2>3. CASE closing[p] = {c} /\ pc[p] = "evicted"
    <3>1. Goto(p, AfterEvict(p)) /\ UNCHANGED call
      BY <2>3
    <3>2. p # Closer
      BY <2>3
    <3>3. CASE p \in Handlers
      <4>1. AfterEvict(p) \in {"get", "existing", "list"}
        BY <2>3, <3>3 DEF AfterEvict
      <4>2. QED
        BY <2>1, <2>3, <3>1, <3>2, <3>3, <4>1 DEF TypeOK, Goto, poolVars
    <3>4. CASE p = Janitor
      <4>1. AfterEvict(p) = "idle"
        BY <3>4 DEF AfterEvict
      <4>2. QED
        BY <2>1, <2>3, <3>1, <3>4, <4>1 DEF TypeOK, Goto, poolVars
    <3>5. QED
      BY <3>2, <3>3, <3>4
  <2>4. CASE closing[p] = {c} /\ pc[p] = "closing" /\ p = Closer
    BY <2>1, <2>4 DEF TypeOK, Goto, poolVars
  <2>5. CASE closing[p] = {c} /\ pc[p] = "closing" /\ p # Closer
    <3>1. Return(p) /\ p \in Handlers
      BY <2>5
    <3>2. QED
      BY <2>1, <2>5, <3>1 DEF TypeOK, Return, Goto, poolVars
  <2>6. QED
    BY <2>2, <2>3, <2>4, <2>5
<1>6. ASSUME NEW h \in Handlers,
             ListLeases(h) \/ GetClosed(h) \/ ReturnError(h)
      PROVE  Typed'
  BY <1>6 DEF TypeOK, ListLeases, GetClosed, ReturnError, Return, Goto, poolVars
<1>7. ASSUME NEW h \in Handlers, GetPooled(h)
      PROVE  Typed'
  <2> USE <1>7 DEF GetPooled
  <2>1. /\ call[h] \in Calls
        /\ call[h].key \in Keys
        /\ Ours(h) \in Entries
    BY CallType
  <2>2. connections' \in [Keys -> Entries \cup {None}]
    BY <2>1, EntryUpdateTypes, StoreType
  <2>3. CASE call[h].op = "Acquire"
    <3>1. Ours(h).connection \in Conns
      BY <2>1 DEF Entries
    <3>2. QED
      BY <2>1, <2>2, <2>3, <3>1 DEF TypeOK, Goto
  <2>4. CASE call[h].op # "Acquire"
    BY <2>2, <2>4 DEF TypeOK, Goto, Return
  <2>5. QED
    BY <2>3, <2>4
<1>8. ASSUME NEW h \in Handlers, GetWait(h) \/ GetCreate(h)
      PROVE  Typed'
  <2>1. call[h].key \in Keys
    BY <1>8, CallType DEF GetWait, GetCreate
  <2>2. QED
    BY <1>8, <2>1 DEF TypeOK, GetWait, GetCreate, Goto, poolVars
<1>9. ASSUME NEW h \in Handlers, FactoryFails(h)
      PROVE  Typed'
  <2> USE <1>9 DEF FactoryFails
  <2>1. /\ creating' \in [Keys -> Handlers \cup {None}]
        /\ pc' \in [Procs -> Labels]
        /\ \A p \in Procs : pc'[p] # pc[p] =>
             /\ pc[p] \in {"creating", "waiting"}
             /\ pc'[p] \in {"get", "failed", "closing"}
    BY CreationOverType
  <2>2. QED
    BY <2>1 DEF TypeOK
<1>10. ASSUME NEW h \in Handlers, NEW c \in Conns, FactorySucceeds(h, c)
       PROVE  Typed'
  <2> USE <1>10 DEF FactorySucceeds
  <2>1. /\ creating' \in [Keys -> Handlers \cup {None}]
        /\ pc' \in [Procs -> Labels]
        /\ \A p \in Procs : pc'[p] # pc[p] =>
             /\ pc[p] \in {"creating", "waiting"}
             /\ pc'[p] \in {"get", "failed", "closing"}
    BY CreationOverType
  <2>2. connections' \in [Keys -> Entries \cup {None}]
    BY CallType, NewEntryType, StoreType
  <2>3. conn' \in [Conns -> {"none", "open", "closed"}]
    BY DEF TypeOK
  <2>4. QED
    BY <2>1, <2>2, <2>3 DEF TypeOK
<1>11. ASSUME NEW h \in Handlers, NEW c \in Conns, FactoryTooLate(h, c)
       PROVE  Typed'
  <2> USE <1>11 DEF FactoryTooLate
  <2>1. /\ creating' \in [Keys -> Handlers \cup {None}]
        /\ pc' \in [Procs -> Labels]
        /\ \A p \in Procs : pc'[p] # pc[p] =>
             /\ pc[p] \in {"creating", "waiting"}
             /\ pc'[p] \in {"get", "failed", "closing"}
    BY CreationOverType
  <2>2. conn' \in [Conns -> {"none", "open", "closed"}]
    BY DEF TypeOK
  <2>3. closing' \in [Procs -> SUBSET Conns]
    BY DEF TypeOK
  <2>4. QED
    BY <2>1, <2>2, <2>3 DEF TypeOK
<1>12. ASSUME NEW h \in Handlers, AcquireExisting(h)
       PROVE  Typed'
  <2> USE <1>12 DEF AcquireExisting
  <2>1. CASE ~closed /\ Pooled(call[h].key) /\ call[h].lease \in Ours(h).leases
    <3>1. /\ call[h].key \in Keys
          /\ Ours(h) \in Entries
      BY <2>1, CallType
    <3>2. Reused(Ours(h)) \in Entries /\ Ours(h).connection \in Conns
      BY <3>1, CallType, EntryUpdateTypes DEF Entries
    <3>3. connections' \in [Keys -> Entries \cup {None}]
      BY <2>1, <3>1, <3>2, StoreType
    <3>4. QED
      BY <2>1, <3>2, <3>3 DEF TypeOK, Goto
  <2>2. CASE ~(/\ ~closed
               /\ Pooled(call[h].key)
               /\ call[h].lease \in Ours(h).leases)
    BY <2>2 DEF TypeOK, Return, Goto
  <2>3. QED
    BY <2>1, <2>2
<1>13. ASSUME NEW h \in Handlers, Disconnect(h)
       PROVE  Typed'
  <2> USE <1>13 DEF Disconnect
  <2> DEFINE entry == Unleased(Ours(h), call[h].lease)
  <2>1. /\ call[h].key \in Keys
        /\ Pooled(call[h].key) => entry \in Entries
    BY CallType, EntryUpdateTypes
  <2> HIDE DEF entry
  <2>2. CASE ~Pooled(call[h].key)
    BY <2>2 DEF TypeOK, Return, Goto
  <2>3. CASE Pooled(call[h].key) /\ Left(entry)
    <3>1. Remove(h, {call[h].key}) /\ Goto(h, "closing") /\ UNCHANGED call
      BY <2>3 DEF entry
    <3>2. /\ connections' \in [Keys -> Entries \cup {None}]
          /\ closing' \in [Procs -> SUBSET Conns]
      BY <2>1, <2>3, <3>1, RemoveType
    <3>3. QED
      BY <3>1, <3>2 DEF TypeOK, Goto
  <2>4. CASE Pooled(call[h].key) /\ ~Left(entry)
    <3>1. Store(call[h].key, entry) /\ Return(h) /\ UNCHANGED closing
      BY <2>4 DEF entry
    <3>2. connections' \in [Keys -> Entries \cup {None}]
      BY <2>1, <2>4, <3>1, StoreType
    <3>3. QED
      BY <3>1, <3>2 DEF TypeOK, Return, Goto
  <2>5. QED
    BY <2>2, <2>3, <2>4
<1>14. CASE JanitorTicks
  BY <1>14 DEF TypeOK, JanitorTicks, Goto, poolVars
<1>15. CASE JanitorStops
  BY <1>15 DEF TypeOK, JanitorStops, Goto, poolVars
<1>16. CASE Close
  <2> USE <1>16 DEF Close
  <2>1. /\ connections' \in [Keys -> Entries \cup {None}]
        /\ closing' \in [Procs -> SUBSET Conns]
    BY RemoveType
  <2>2. QED
    BY <2>1 DEF TypeOK, Goto
<1>17. CASE CloseStop
  BY <1>17 DEF TypeOK, CloseStop, Goto, poolVars
<1>18. CASE CloseReturns
  BY <1>18 DEF TypeOK, CloseReturns, Goto, poolVars
<1>19. CASE Tick
  <2>1. clock' \in 0..MaxTime
    BY <1>19 DEF TypeOK, Tick
  <2>2. QED
    BY <1>19, <2>1 DEF TypeOK, Tick, poolVars
<1>20. CASE UNCHANGED vars
  BY <1>20 DEF TypeOK, vars
<1>21. QED
  BY <1>1, <1>2, <1>3, <1>4, <1>5, <1>6, <1>7, <1>8, <1>9, <1>10, <1>11,
     <1>12, <1>13, <1>14, <1>15, <1>16, <1>17, <1>18, <1>19, <1>20
     DEF Next, HandlerStep, JanitorStep, CloserStep

\* Every reachable state is well-typed, for all constants.
THEOREM TypeCorrect == Spec => []TypeOK
<1>1. Typed => TypeOK
  BY DEF Typed
<1>2. QED
  BY <1>1, InitTyped, StepTyped, PTL DEF Spec

-----------------------------------------------------------------------------
(* Who owns, counts and uses each client *)

Client(k) == connections[k].connection

\* The pool's clients are open and different.
PooledOpen  == \A k \in Keys : Pooled(k) => conn[Client(k)] = "open"
PooledApart == \A j, k \in Keys :
    Pooled(j) /\ Pooled(k) /\ Client(j) = Client(k) => j = k

\* Those a goroutine has to close are open and no one else's; it has some only
\* while it is closing them.
ClosingOpen  == \A p \in Procs : \A c \in closing[p] :
    conn[c] = "open" /\ \A k \in Keys : Pooled(k) => Client(k) # c
ClosingApart == \A p, q \in Procs : \A c \in closing[p] : c \in closing[q] => p = q
ClosingLater == \A p \in Procs :
    pc[p] \notin {"evicted", "closing"} => closing[p] = {}

\* No open client is forgotten.
NoLeak == \A c \in Conns : conn[c] = "open" =>
    \/ \E k \in Keys : Pooled(k) /\ Client(k) = c
    \/ \E p \in Procs : c \in closing[p]

HeldCreated == \A h \in Handlers : held[h] # None => conn[held[h]] # "none"

Core ==
    /\ PooledOpen
    /\ PooledApart
    /\ ClosingOpen
    /\ ClosingApart
    /\ ClosingLater
    /\ NoLeak
    /\ HeldCreated
    /\ InUseStaysPooled
    /\ ActiveCountsUsers
    /\ ClosedPoolIsEmpty

\* Steps that change no client, no entry and no holder.
LEMMA FrameStep ==
    ASSUME Core, ClosingLater',
           UNCHANGED <<connections, closed, conn, held, closing>>,
           \A h \in Handlers : held[h] # None => call'[h] = call[h]
    PROVE  Core'
BY DEF Core, PooledOpen, PooledApart, ClosingOpen, ClosingApart, NoLeak,
       HeldCreated, InUseStaysPooled, ActiveCountsUsers, ClosedPoolIsEmpty,
       Pooled, Client, Ours, Users

LEMMA UsersFinite ==
    ASSUME NEW c
    PROVE  IsFiniteSet(Users(c)) /\ Cardinality(Users(c)) \in Nat
<1>1. Users(c) \subseteq Handlers
  BY DEF Users
<1>2. IsFiniteSet(Handlers)
  BY PoolConstants
<1>3. QED
  BY <1>1, <1>2, FS_Subset, FS_CardinalityType

\* A handler that held nothing acquires client c.
LEMMA UsersGrow ==
    ASSUME TypeOK, NEW h \in Handlers, NEW c \in Conns, held[h] = None,
           held' = [held EXCEPT ![h] = c]
    PROVE  /\ Cardinality(Users(c)') = Cardinality(Users(c)) + 1
           /\ \A d \in Conns \ {c} : Users(d)' = Users(d)
<1>1. c # None
  BY PoolConstants
<1>2. Users(c)' = Users(c) \cup {h} /\ h \notin Users(c)
  BY <1>1 DEF TypeOK, Users
<1>3. \A d \in Conns \ {c} : Users(d)' = Users(d)
  BY <1>1, PoolConstants DEF TypeOK, Users
<1>4. QED
  BY <1>2, <1>3, UsersFinite, FS_AddElement

\* A handler releases the client it held.
LEMMA UsersShrink ==
    ASSUME TypeOK, NEW h \in Handlers, held[h] # None,
           held' = [held EXCEPT ![h] = None]
    PROVE  /\ Cardinality(Users(held[h])) > 0
           /\ Cardinality({g \in Handlers : held'[g] = held[h]}) =
                Cardinality(Users(held[h])) - 1
           /\ \A d \in Conns \ {held[h]} : Users(d)' = Users(d)
<1>1. /\ {g \in Handlers : held'[g] = held[h]} = Users(held[h]) \ {h}
      /\ h \in Users(held[h])
  BY DEF TypeOK, Users
<1>2. \A d \in Conns \ {held[h]} : Users(d)' = Users(d)
  BY PoolConstants DEF TypeOK, Users
<1>3. Cardinality(Users(held[h]) \ {h}) = Cardinality(Users(held[h])) - 1
  BY <1>1, UsersFinite, FS_RemoveElement
<1>4. Cardinality(Users(held[h])) > 0
  BY <1>1, UsersFinite, FS_EmptySet
<1>5. QED
  BY <1>1, <1>2, <1>3, <1>4

\* An entry that counts no request has no user.
LEMMA UncountedUnused ==
    ASSUME TypeOK, ActiveCountsUsers, NEW k \in Keys, Pooled(k),
           connections[k].active = 0
    PROVE  \A h \in Handlers : held[h] # Client(k)
<1>1. Cardinality(Users(Client(k))) = 0
  BY DEF ActiveCountsUsers, Client
<1>2. Users(Client(k)) = {}
  BY <1>1, UsersFinite, FS_EmptySet
<1>3. QED
  BY <1>2 DEF Users

\* An entry is updated, and neither its client nor its count change.
LEMMA KeepStep ==
    ASSUME TypeOK, Core, ClosingLater', NEW k \in Keys, NEW e \in Entries,
           Pooled(k), Store(k, e), e.connection = Client(k),
           e.active = connections[k].active,
           UNCHANGED <<closed, conn, held, closing>>,
           \A h \in Handlers : held[h] # None => call'[h] = call[h]
    PROVE  Core'
<1>1. /\ \A j \in Keys : Pooled(j)' <=> Pooled(j)
      /\ \A j \in Keys : Client(j)' = Client(j)
      /\ \A j \in Keys : connections'[j].active = connections[j].active
  BY PoolConstants DEF TypeOK, Store, Pooled, Client
<1>2. \A c : Users(c)' = Users(c)
  BY DEF Users
<1>3. ActiveCountsUsers'
  BY <1>1, <1>2 DEF Core, ActiveCountsUsers, Client
<1>4. InUseStaysPooled'
  <2> SUFFICES ASSUME NEW h \in Handlers, held[h] # None, ~closed
               PROVE  /\ conn[held[h]] = "open"
                      /\ Pooled(call[h].key)'
                      /\ connections'[call[h].key].connection = held[h]
    BY DEF InUseStaysPooled, Ours, Pooled
  <2>1. call[h].key \in Keys
    BY CallType DEF TypeOK
  <2>2. QED
    BY <1>1, <2>1 DEF Core, InUseStaysPooled, Ours, Client
<1>5. QED
  BY <1>1, <1>3, <1>4 DEF Core, PooledOpen, PooledApart, ClosingOpen,
     ClosingApart, NoLeak, HeldCreated, ClosedPoolIsEmpty

\* A handler starts a request on an entry, which counts it.
LEMMA AcquireStep ==
    ASSUME TypeOK, Core, ClosingLater', NEW k \in Keys, NEW e \in Entries,
           NEW h \in Handlers,
           Pooled(k), Store(k, e), e.connection = Client(k),
           e.active = connections[k].active + 1,
           held[h] = None, held' = [held EXCEPT ![h] = Client(k)],
           call[h].key = k, ~closed,
           UNCHANGED <<closed, conn, closing, call>>
    PROVE  Core'
<1>1. /\ \A j \in Keys : Pooled(j)' <=> Pooled(j)
      /\ \A j \in Keys : Client(j)' = Client(j)
      /\ \A j \in Keys \ {k} : connections'[j] = connections[j]
      /\ connections'[k] = e
  BY PoolConstants DEF TypeOK, Store, Pooled, Client
<1>2. Client(k) \in Conns
  BY DEF TypeOK, Pooled, Client, Entries
<1>3. /\ Cardinality(Users(Client(k))') = Cardinality(Users(Client(k))) + 1
      /\ \A d \in Conns \ {Client(k)} : Users(d)' = Users(d)
  BY <1>1, <1>2, UsersGrow
<1>4. ActiveCountsUsers'
  <2> SUFFICES ASSUME NEW j \in Keys, Pooled(j)
               PROVE  connections'[j].active = Cardinality(Users(Client(j))')
    BY <1>1 DEF ActiveCountsUsers, Client
  <2>1. connections[j].active = Cardinality(Users(Client(j)))
    BY DEF Core, ActiveCountsUsers, Client
  <2>2. CASE j = k
    BY <1>1, <1>3, <2>1, <2>2
  <2>3. CASE j # k
    <3>1. Client(j) \in Conns \ {Client(k)}
      BY <2>3 DEF Core, PooledApart, TypeOK, Pooled, Client, Entries
    <3>2. QED
      BY <1>1, <1>3, <2>1, <2>3, <3>1
  <2>4. QED
    BY <2>2, <2>3
<1>5. InUseStaysPooled'
  <2> SUFFICES ASSUME NEW g \in Handlers, held'[g] # None
               PROVE  /\ conn[held'[g]] = "open"
                      /\ Pooled(call[g].key)'
                      /\ connections'[call[g].key].connection = held'[g]
    BY DEF InUseStaysPooled, Ours, Pooled
  <2>1. CASE g = h
    BY <1>1, <2>1 DEF TypeOK, Core, PooledOpen, Client
  <2>2. CASE g # h
    <3>1. held'[g] = held[g] /\ call[g].key \in Keys
      BY <2>2, CallType DEF TypeOK
    <3>2. QED
      BY <1>1, <3>1 DEF Core, InUseStaysPooled, Ours, Client
  <2>3. QED
    BY <2>1, <2>2
<1>6. HeldCreated'
  BY <1>2 DEF TypeOK, Core, HeldCreated, PooledOpen
<1>7. QED
  BY <1>1, <1>4, <1>5, <1>6 DEF Core, PooledOpen, PooledApart, ClosingOpen,
     ClosingApart, NoLeak, ClosedPoolIsEmpty

\* A goroutine takes the entries of some keys out of the pool: entries that no
\* request uses, or all of them when the pool is closed.
LEMMA WithdrawStep ==
    ASSUME TypeOK, Core, NEW p \in Procs, NEW K \in SUBSET Keys,
           \A k \in K : Pooled(k), Remove(p, K),
           closing[p] = {}, ClosingLater',
           \/ UNCHANGED closed /\ \A k \in K : connections[k].active = 0
           \/ closed' /\ \A k \in Keys : Pooled(k) => k \in K,
           UNCHANGED <<conn, held>>,
           \A h \in Handlers : held[h] # None => call'[h] = call[h]
    PROVE  Core'
<1>1. /\ \A j \in Keys \ K : connections'[j] = connections[j]
      /\ \A j \in Keys : Pooled(j)' <=> (Pooled(j) /\ j \notin K)
      /\ closing'[p] = {Client(k) : k \in K}
      /\ \A q \in Procs : q # p => closing'[q] = closing[q]
  BY DEF TypeOK, Remove, Pooled, Client
<1>2. \A c : Users(c)' = Users(c)
  BY DEF Users
<1>3. ActiveCountsUsers'
  BY <1>1, <1>2 DEF Core, ActiveCountsUsers
<1>4. InUseStaysPooled'
  <2> SUFFICES ASSUME NEW h \in Handlers, held[h] # None, ~closed'
               PROVE  /\ conn[held[h]] = "open"
                      /\ Pooled(call[h].key)'
                      /\ connections'[call[h].key].connection = held[h]
    BY DEF InUseStaysPooled, Ours, Pooled
  <2>1. call[h].key \in Keys /\ ~closed
    BY CallType DEF TypeOK
  <2>2. /\ conn[held[h]] = "open"
        /\ Pooled(call[h].key)
        /\ Client(call[h].key) = held[h]
    BY <2>1 DEF Core, InUseStaysPooled, Ours, Client
  <2>3. call[h].key \notin K
    BY <2>1, <2>2, UncountedUnused DEF Core
  <2>4. QED
    BY <1>1, <2>1, <2>2, <2>3 DEF Client
<1>5. ClosedPoolIsEmpty'
  BY <1>1 DEF Core, ClosedPoolIsEmpty
<1>6. ClosingOpen'
  <2> SUFFICES ASSUME NEW q \in Procs, NEW c \in closing'[q]
               PROVE  /\ conn[c] = "open"
                      /\ \A j \in Keys : Pooled(j)' => Client(j)' # c
    BY DEF ClosingOpen
  <2>1. CASE q = p
    BY <1>1, <2>1 DEF Core, PooledOpen, PooledApart, Client
  <2>2. CASE q # p
    BY <1>1, <2>2 DEF Core, ClosingOpen, Client
  <2>3. QED
    BY <2>1, <2>2
<1>7. ClosingApart'
  BY <1>1 DEF Core, ClosingApart, ClosingOpen
<1>8. NoLeak'
  <2> SUFFICES ASSUME NEW c \in Conns, conn[c] = "open",
                      \A q \in Procs : c \notin closing'[q]
               PROVE  \E j \in Keys : Pooled(j)' /\ Client(j)' = c
    BY DEF NoLeak
  <2>1. \A q \in Procs : c \notin closing[q]
    BY <1>1
  <2>2. PICK j \in Keys : Pooled(j) /\ Client(j) = c
    BY <2>1 DEF Core, NoLeak
  <2>3. j \notin K
    BY <1>1, <2>2
  <2>4. QED
    BY <1>1, <2>2, <2>3 DEF Client
<1>9. PooledOpen' /\ PooledApart'
  BY <1>1 DEF Core, PooledOpen, PooledApart, Client
<1>10. QED
  BY <1>3, <1>4, <1>5, <1>6, <1>7, <1>8, <1>9 DEF Core, HeldCreated

\* The three outcomes of release.
LEMMA ReleaseKeeps ==
    ASSUME Typed, Core, NEW h \in Handlers, Release(h), ClosingLater'
    PROVE  Core'
<1> DEFINE c == held[h]
           k == call[h].key
           e == Released(Ours(h))
<1>1. /\ pc[h] = "using"
      /\ c \in Conns
      /\ c # None
      /\ held' = [held EXCEPT ![h] = None]
      /\ UNCHANGED <<closed, conn>>
      /\ k \in Keys
      /\ closing[h] = {}
  <2>1. pc[h] = "using" /\ c # None /\ c \in Conns
    BY DEF Release, Typed, TypeOK
  <2>2. call[h].key \in Keys
    BY <2>1, CallType DEF Typed
  <2>3. closing[h] = {}
    BY <2>1 DEF Core, ClosingLater, Procs
  <2>4. QED
    BY <2>1, <2>2, <2>3 DEF Release
<1>2. \A g \in Handlers : held'[g] # None =>
        g # h /\ held'[g] = held[g] /\ call'[g] = call[g]
  BY <1>1 DEF Release, Return, Typed, TypeOK
<1>3. /\ Cardinality(Users(c)) \in Nat \ {0}
      /\ Cardinality({g \in Handlers : held'[g] = c}) = Cardinality(Users(c)) - 1
      /\ \A d \in Conns \ {c} : {g \in Handlers : held'[g] = d} = Users(d)
  <2>1. \A d \in Conns \ {c} : Users(d)' = Users(d)
    BY <1>1, UsersShrink DEF Typed
  <2>2. \A d \in Conns \ {c} : {g \in Handlers : held'[g] = d} = Users(d)
    BY <2>1 DEF Users
  <2>3. /\ Cardinality(Users(c)) > 0
        /\ Cardinality({g \in Handlers : held'[g] = c}) =
             Cardinality(Users(c)) - 1
    BY <1>1, UsersShrink DEF Typed
  <2>4. Cardinality(Users(c)) \in Nat
    BY UsersFinite
  <2>5. QED
    BY <2>2, <2>3, <2>4
<1>4. HeldCreated'
  BY <1>1, <1>2 DEF Core, HeldCreated
<1>5. ASSUME NEW g \in Handlers, held'[g] # None, ~closed
      PROVE  /\ conn[held[g]] = "open"
             /\ call'[g].key \in Keys
             /\ Pooled(call'[g].key)
             /\ Client(call'[g].key) = held'[g]
  <2>1. held[g] # None /\ held'[g] = held[g] /\ call'[g] = call[g]
    BY <1>2, <1>5
  <2>2. call[g].key \in Keys
    BY <2>1, CallType DEF Typed, TypeOK
  <2>3. QED
    BY <1>5, <2>1, <2>2 DEF Core, InUseStaysPooled, Ours, Client
<1>6. CASE ~(Pooled(k) /\ Client(k) = c)
  <2>1. closed
    BY <1>1, <1>6 DEF Core, InUseStaysPooled, Ours, Client
  <2>2. UNCHANGED <<connections, closing>>
    BY <1>6 DEF Release, Ours, Client
  <2>3. QED
    BY <1>1, <1>4, <2>1, <2>2 DEF Core, PooledOpen, PooledApart, ClosingOpen,
       ClosingApart, NoLeak, InUseStaysPooled, ActiveCountsUsers,
       ClosedPoolIsEmpty, Pooled, Client
<1>7. CASE Pooled(k) /\ Client(k) = c
  <2>1. /\ ~closed
        /\ Ours(h) = connections[k]
        /\ Ours(h) \in Entries
        /\ Ours(h).active = Cardinality(Users(c))
    BY <1>1, <1>7, CallType DEF Core, ClosedPoolIsEmpty, ActiveCountsUsers,
       Ours, Client, Typed
  <2>2. /\ e \in Entries
        /\ e.connection = c
        /\ e.active = Cardinality(Users(c)) - 1
    BY <1>3, <1>7, <2>1 DEF Released, Entry, Entries, Client, Typed, TypeOK
  <2>3. \A j \in Keys \ {k} : Pooled(j) => Client(j) \in Conns \ {c}
    BY <1>1, <1>7 DEF Core, PooledApart, Typed, TypeOK, Pooled, Client, Entries
  <2>4. CASE Finished(e)
    <3>1. Remove(h, {k})
      BY <1>7, <2>4 DEF Release, Ours, Client
    <3>2. /\ \A j \in Keys \ {k} : connections'[j] = connections[j]
          /\ \A j \in Keys : Pooled(j)' <=> (Pooled(j) /\ j # k)
          /\ closing'[h] = {c}
          /\ \A q \in Procs : q # h => closing'[q] = closing[q]
      BY <1>1, <1>7, <3>1 DEF Typed, TypeOK, Remove, Pooled, Client, Procs
    <3>3. \A g \in Handlers : held'[g] # c
      <4>1. Cardinality({g \in Handlers : held'[g] = c}) = 0
        BY <1>3, <2>2, <2>4 DEF Finished
      <4>2. IsFiniteSet({g \in Handlers : held'[g] = c})
        BY PoolConstants, FS_Subset
      <4>3. QED
        BY <4>1, <4>2, FS_EmptySet
    <3>4. ActiveCountsUsers'
      BY <1>3, <2>3, <3>2 DEF Core, ActiveCountsUsers, Client, Users
    <3>5. InUseStaysPooled'
      BY <1>1, <1>2, <1>5, <1>7, <3>2, <3>3 DEF InUseStaysPooled, Ours, Client
    <3>6. ClosingOpen'
      <4> SUFFICES ASSUME NEW q \in Procs, NEW d \in closing'[q]
                   PROVE  /\ conn[d] = "open"
                          /\ \A j \in Keys : Pooled(j)' => Client(j)' # d
        BY <1>1 DEF ClosingOpen
      <4>1. CASE q = h
        BY <1>1, <1>7, <2>3, <3>2, <4>1 DEF Core, PooledOpen, Client
      <4>2. CASE q # h
        BY <3>2, <4>2 DEF Core, ClosingOpen, Client
      <4>3. QED
        BY <4>1, <4>2
    <3>7. ClosingApart'
      BY <1>1, <1>7, <3>2 DEF Core, ClosingApart, ClosingOpen
    <3>8. NoLeak'
      <4> SUFFICES ASSUME NEW d \in Conns, conn[d] = "open",
                          \A q \in Procs : d \notin closing'[q]
                   PROVE  \E j \in Keys : Pooled(j)' /\ Client(j)' = d
        BY <1>1 DEF NoLeak
      <4>1. d # c /\ \A q \in Procs : d \notin closing[q]
        BY <1>1, <3>2 DEF Procs
      <4>2. PICK j \in Keys : Pooled(j) /\ Client(j) = d
        BY <4>1 DEF Core, NoLeak
      <4>3. QED
        BY <1>7, <3>2, <4>1, <4>2 DEF Client
    <3>9. PooledOpen' /\ PooledApart' /\ ClosedPoolIsEmpty'
      BY <1>1, <3>2 DEF Core, PooledOpen, PooledApart, ClosedPoolIsEmpty, Client
    <3>10. QED
      BY <1>4, <3>4, <3>5, <3>6, <3>7, <3>8, <3>9 DEF Core
  <2>5. CASE ~Finished(e)
    <3>1. Store(k, e) /\ UNCHANGED closing
      BY <1>7, <2>5 DEF Release, Ours, Client
    <3>2. /\ \A j \in Keys \ {k} : connections'[j] = connections[j]
          /\ connections'[k] = e
          /\ \A j \in Keys : Pooled(j)' <=> Pooled(j)
          /\ \A j \in Keys : Client(j)' = Client(j)
      BY <1>1, <1>7, <2>2, <3>1, PoolConstants
         DEF Typed, TypeOK, Store, Pooled, Client
    <3>3. ActiveCountsUsers'
      <4> SUFFICES ASSUME NEW j \in Keys, Pooled(j)
                   PROVE  connections'[j].active =
                            Cardinality({g \in Handlers : held'[g] = Client(j)})
        BY <3>2 DEF ActiveCountsUsers, Client, Users
      <4>1. CASE j = k
        BY <1>3, <1>7, <2>2, <3>2, <4>1
      <4>2. CASE j # k
        <5>1. {g \in Handlers : held'[g] = Client(j)} = Users(Client(j))
          BY <1>3, <2>3, <3>2, <4>2
        <5>2. QED
          BY <3>2, <4>2, <5>1 DEF Core, ActiveCountsUsers, Client
      <4>3. QED
        BY <4>1, <4>2
    <3>4. InUseStaysPooled'
      BY <1>1, <1>2, <1>5, <3>2 DEF InUseStaysPooled, Ours, Client
    <3>5. QED
      BY <1>1, <1>4, <3>1, <3>2, <3>3, <3>4 DEF Core, PooledOpen, PooledApart,
         ClosingOpen, ClosingApart, NoLeak, ClosedPoolIsEmpty
  <2>6. QED
    BY <2>4, <2>5
<1>8. QED
  BY <1>6, <1>7

\* A goroutine closes one of the clients it took out.
LEMMA CloseOneStep ==
    ASSUME Typed, Core, NEW p \in Procs, NEW c \in Conns, CloseOne(p, c),
           ClosingLater'
    PROVE  Core'
<1>1. /\ c \in closing[p]
      /\ conn[c] = "open"
      /\ UNCHANGED <<connections, closed, held>>
      /\ conn'[c] = "closed"
      /\ \A d \in Conns \ {c} : conn'[d] = conn[d]
      /\ closing'[p] = closing[p] \ {c}
      /\ \A q \in Procs \ {p} : closing'[q] = closing[q]
      /\ \A q \in Procs : closing'[q] \in SUBSET Conns
  BY DEF CloseOne, Typed, TypeOK, Core, ClosingOpen, poolVars
<1>2. \A k \in Keys : Pooled(k) => Client(k) \in Conns \ {c}
  BY <1>1 DEF Core, ClosingOpen, Typed, TypeOK, Pooled, Client, Entries
<1>3. \A h \in Handlers : held[h] # None =>
        held[h] \in Conns /\ call'[h] = call[h] /\ call[h].key \in Keys
  <2>1. \A h \in Handlers : held[h] # None => held[h] \in Conns /\ pc[h] = "using"
    BY DEF Typed, TypeOK
  <2>2. \A h \in Handlers : held[h] # None => h # p
    BY <2>1 DEF CloseOne
  <2>3. \A h \in Handlers : held[h] # None => call'[h] = call[h]
    BY <2>2 DEF CloseOne, Return, Typed, TypeOK
  <2>4. QED
    BY <2>1, <2>3, CallType DEF Typed
<1>4. InUseStaysPooled'
  BY <1>1, <1>2, <1>3 DEF Core, InUseStaysPooled, Ours, Pooled, Client
<1>5. HeldCreated'
  <2>1. \A h \in Handlers : held[h] # None => conn'[held[h]] # "none"
    BY <1>1, <1>3 DEF Core, HeldCreated
  <2>2. QED
    BY <1>1, <2>1 DEF HeldCreated
<1>6. ActiveCountsUsers' /\ ClosedPoolIsEmpty' /\ PooledApart'
  BY <1>1 DEF Core, ActiveCountsUsers, ClosedPoolIsEmpty, PooledApart, Users,
     Pooled, Client
<1>7. PooledOpen'
  BY <1>1, <1>2 DEF Core, PooledOpen, Pooled, Client
<1>8. ClosingOpen'
  <2> SUFFICES ASSUME NEW q \in Procs, NEW d \in closing'[q]
               PROVE  /\ conn'[d] = "open"
                      /\ \A k \in Keys : Pooled(k) => Client(k) # d
    BY <1>1 DEF ClosingOpen, Pooled, Client
  <2>1. d \in closing[q] /\ d # c /\ d \in Conns
    BY <1>1 DEF Core, ClosingApart
  <2>2. QED
    BY <1>1, <2>1 DEF Core, ClosingOpen
<1>9. ClosingApart'
  <2>1. \A q \in Procs : closing'[q] \subseteq closing[q]
    BY <1>1
  <2>2. QED
    BY <2>1 DEF Core, ClosingApart
<1>10. NoLeak'
  <2> SUFFICES ASSUME NEW d \in Conns, conn'[d] = "open"
               PROVE  \/ \E k \in Keys : Pooled(k) /\ Client(k) = d
                      \/ \E q \in Procs : d \in closing'[q]
    BY <1>1 DEF NoLeak, Pooled, Client
  <2>1. d # c /\ conn[d] = "open"
    BY <1>1
  <2>2. QED
    BY <1>1, <2>1 DEF Core, NoLeak
<1>11. QED
  BY <1>4, <1>5, <1>6, <1>7, <1>8, <1>9, <1>10 DEF Core

\* A factory's client is pooled.
LEMMA FactorySucceedsStep ==
    ASSUME Typed, Core, NEW h \in Handlers, NEW c \in Conns,
           FactorySucceeds(h, c), ~Pooled(call[h].key), ClosingLater'
    PROVE  Core'
<1> DEFINE k == call[h].key
<1>1. /\ k \in Keys
      /\ ~Pooled(k)
      /\ ~closed
      /\ conn[c] = "none"
      /\ conn'[c] = "open"
      /\ \A d \in Conns \ {c} : conn'[d] = conn[d]
      /\ UNCHANGED <<closed, call, held, closing>>
      /\ Store(k, NewEntry(c))
  <2>1. k \in Keys
    BY CallType DEF FactorySucceeds, Typed
  <2>2. QED
    BY <2>1 DEF FactorySucceeds, Typed, TypeOK
<1>2. /\ Pooled(k)'
      /\ Client(k)' = c
      /\ connections'[k].active = 0
      /\ \A j \in Keys \ {k} : connections'[j] = connections[j]
  BY <1>1, NewEntryType, PoolConstants
     DEF Typed, TypeOK, Store, Pooled, Client, NewEntry, Entry
<1>3. \A j \in Keys : Pooled(j) => Client(j) \in Conns \ {c}
  BY <1>1 DEF Core, PooledOpen, Typed, TypeOK, Pooled, Client, Entries
<1>4. \A g \in Handlers : held[g] # None =>
        held[g] \in Conns \ {c} /\ call[g].key \in Keys
  BY <1>1, CallType DEF Core, HeldCreated, Typed, TypeOK
<1>5. \A p \in Procs : \A d \in closing[p] : d \in Conns \ {c}
  BY <1>1 DEF Core, ClosingOpen, Typed, TypeOK
<1>6. ActiveCountsUsers'
  <2>1. {g \in Handlers : held[g] = c} = {}
    BY <1>4, PoolConstants
  <2>2. Cardinality({g \in Handlers : held[g] = c}) = 0
    BY <2>1, FS_EmptySet
  <2>3. QED
    BY <1>1, <1>2, <2>2 DEF Core, ActiveCountsUsers, Users, Pooled, Client
<1>7. InUseStaysPooled'
  BY <1>1, <1>2, <1>4 DEF Core, InUseStaysPooled, Ours, Pooled, Client
<1>8. HeldCreated'
  BY <1>1, <1>4 DEF Core, HeldCreated
<1>9. PooledOpen' /\ PooledApart'
  BY <1>1, <1>2, <1>3 DEF Core, PooledOpen, PooledApart, Pooled, Client
<1>10. ClosingOpen' /\ ClosingApart'
  BY <1>1, <1>2, <1>5 DEF Core, ClosingOpen, ClosingApart, Pooled, Client
<1>11. NoLeak'
  BY <1>1, <1>2 DEF Core, NoLeak, Pooled, Client
<1>12. QED
  BY <1>1, <1>6, <1>7, <1>8, <1>9, <1>10, <1>11 DEF Core, ClosedPoolIsEmpty

\* A factory's client comes too late, and its creator has to close it.
LEMMA FactoryTooLateStep ==
    ASSUME Typed, Core, NEW h \in Handlers, NEW c \in Conns,
           FactoryTooLate(h, c), ClosingLater'
    PROVE  Core'
<1>1. /\ closed
      /\ conn[c] = "none"
      /\ conn'[c] = "open"
      /\ \A d \in Conns \ {c} : conn'[d] = conn[d]
      /\ UNCHANGED <<connections, closed, call, held>>
      /\ closing[h] = {}
      /\ closing'[h] = {c}
      /\ \A q \in Procs \ {h} : closing'[q] = closing[q]
      /\ h \in Procs
  BY DEF FactoryTooLate, Typed, TypeOK, Core, ClosingLater, Procs
<1>2. \A k \in Keys : ~Pooled(k)
  BY <1>1 DEF Core, ClosedPoolIsEmpty
<1>3. \A g \in Handlers : held[g] # None => held[g] \in Conns \ {c}
  BY <1>1 DEF Core, HeldCreated, Typed, TypeOK
<1>4. \A p \in Procs : \A d \in closing[p] : d \in Conns \ {c}
  BY <1>1 DEF Core, ClosingOpen, Typed, TypeOK
<1>5. HeldCreated'
  BY <1>1, <1>3 DEF Core, HeldCreated
<1>6. ClosingOpen' /\ ClosingApart'
  BY <1>1, <1>2, <1>4 DEF Core, ClosingOpen, ClosingApart, Pooled
<1>7. NoLeak'
  BY <1>1, <1>2 DEF Core, NoLeak, Pooled, Procs
<1>8. QED
  BY <1>1, <1>2, <1>5, <1>6, <1>7 DEF Core, PooledOpen, PooledApart,
     InUseStaysPooled, ActiveCountsUsers, ClosedPoolIsEmpty, Pooled

-----------------------------------------------------------------------------
(* One creation per key, and who waits for it *)

Flight ==
    /\ SingleFlight
    /\ \A h \in Handlers : pc[h] = "waiting" => creating[call[h].key] # None

\* Steps that begin or end no creation, and pool no new entry.
LEMMA NoCreationStep ==
    ASSUME Typed, Flight, UNCHANGED creating,
           \A k \in Keys : Pooled(k)' => Pooled(k),
           \A h \in Handlers : pc[h] \in {"creating", "waiting"} =>
               pc'[h] = pc[h] /\ call'[h] = call[h],
           \A h \in Handlers : pc'[h] \in {"creating", "waiting"} =>
               pc[h] = pc'[h]
    PROVE  Flight'
BY DEF Flight, SingleFlight

\* Storing an entry for a pooled key, or removing entries, pools no new key.
LEMMA StorePools ==
    ASSUME TypeOK, NEW k \in Keys, NEW e, Pooled(k), Store(k, e)
    PROVE  \A j \in Keys : Pooled(j)' => Pooled(j)
BY DEF TypeOK, Store, Pooled

LEMMA RemovePools ==
    ASSUME TypeOK, NEW p, NEW K, Remove(p, K)
    PROVE  \A j \in Keys : Pooled(j)' => Pooled(j)
BY DEF TypeOK, Remove, Pooled

LEMMA CreationOverFlight ==
    ASSUME Typed, Flight, NEW h \in Handlers, pc[h] = "creating",
           NEW own \in {"get", "failed", "closing"},
           NEW others \in {"get", "failed"},
           CreationOver(h, own, others), UNCHANGED call,
           \A k \in Keys : Pooled(k)' => Pooled(k) \/ k = call[h].key
    PROVE  Flight'
<1>1. /\ call[h].key \in Keys
      /\ creating'[call[h].key] = None
      /\ \A k \in Keys : k # call[h].key => creating'[k] = creating[k]
  BY CallType DEF Typed, TypeOK, CreationOver
<1>2. pc'[h] = own
  BY DEF CreationOver, Procs
<1>3. \A g \in Handlers \ {h} :
        /\ pc'[g] = "creating" <=> pc[g] = "creating"
        /\ pc'[g] = "waiting" => pc[g] = "waiting" /\ call[g].key # call[h].key
  BY DEF CreationOver, Procs
<1>4. ASSUME NEW k \in Keys, NEW g \in Handlers
      PROVE  creating'[k] = g <=> pc'[g] = "creating" /\ call[g].key = k
  <2>1. CASE g = h
    BY <1>1, <1>2, <2>1, PoolConstants DEF Flight, SingleFlight
  <2>2. CASE g # h
    BY <1>1, <1>3, <2>2, PoolConstants DEF Flight, SingleFlight
  <2>3. QED
    BY <2>1, <2>2
<1>5. \A k \in Keys : creating'[k] # None => ~Pooled(k)'
  BY <1>1 DEF Flight, SingleFlight
<1>6. ASSUME NEW g \in Handlers, pc'[g] = "waiting"
      PROVE  creating'[call[g].key] # None
  <2>1. g # h /\ pc[g] = "waiting" /\ call[g].key # call[h].key
    BY <1>2, <1>3, <1>6
  <2>2. call[g].key \in Keys
    BY <2>1, CallType DEF Typed
  <2>3. QED
    BY <1>1, <2>1, <2>2 DEF Flight
<1>7. QED
  BY <1>4, <1>5, <1>6 DEF Flight, SingleFlight

-----------------------------------------------------------------------------
(* Entries without a lease *)

\* Steps that change no entry they leave, and take no handler away from get
\* whose key stays pooled.
LEMMA OrphanFrame ==
    ASSUME NoOrphan,
           \A k \in Keys : Pooled(k)' =>
               Pooled(k) /\ connections'[k] = connections[k],
           \A h \in Handlers : pc[h] = "get" /\ connections'[call[h].key] # None =>
               pc'[h] = "get" /\ call'[h] = call[h]
    PROVE  NoOrphan'
<1> SUFFICES ASSUME NEW k \in Keys, Pooled(k)', connections'[k].leases = {}
             PROVE  \/ connections'[k].active > 0 /\ connections'[k].closeWhenIdle
                    \/ /\ connections'[k].active = 0
                       /\ \E h \in Handlers : pc'[h] = "get" /\ call'[h].key = k
  BY DEF NoOrphan
<1>1. Pooled(k) /\ connections'[k] = connections[k]
  OBVIOUS
<1>2. CASE connections[k].active > 0 /\ connections[k].closeWhenIdle
  BY <1>1, <1>2
<1>3. CASE ~(connections[k].active > 0 /\ connections[k].closeWhenIdle)
  <2>1. /\ connections[k].active = 0
        /\ \E h \in Handlers : pc[h] = "get" /\ call[h].key = k
    BY <1>1, <1>3 DEF NoOrphan
  <2>2. PICK h \in Handlers : pc[h] = "get" /\ call[h].key = k
    BY <2>1
  <2>3. pc'[h] = "get" /\ call'[h] = call[h]
    BY <2>2 DEF Pooled
  <2>4. QED
    BY <1>1, <2>1, <2>2, <2>3
<1>4. QED
  BY <1>2, <1>3

\* Steps of one handler that store an entry with a lease, or with requests the
\* last of which closes it.
LEMMA OrphanStore ==
    ASSUME Typed, NoOrphan, NEW k \in Keys, NEW e \in Entries, Store(k, e),
           e.leases # {} \/ (e.active > 0 /\ e.closeWhenIdle),
           NEW h \in Handlers, call[h].key = k,
           \A g \in Handlers \ {h} : pc'[g] = pc[g] /\ call'[g] = call[g]
    PROVE  NoOrphan'
<1> SUFFICES ASSUME NEW j \in Keys, Pooled(j)', connections'[j].leases = {}
             PROVE  \/ connections'[j].active > 0 /\ connections'[j].closeWhenIdle
                    \/ /\ connections'[j].active = 0
                       /\ \E g \in Handlers : pc'[g] = "get" /\ call'[g].key = j
  BY DEF NoOrphan
<1>1. CASE j = k
  <2>1. connections'[j] = e
    BY <1>1 DEF Typed, TypeOK, Store
  <2>2. QED
    BY <2>1
<1>2. CASE j # k
  <2>1. Pooled(j) /\ connections'[j] = connections[j]
    BY <1>2 DEF Typed, TypeOK, Store, Pooled
  <2>2. CASE connections[j].active > 0 /\ connections[j].closeWhenIdle
    BY <2>1, <2>2
  <2>3. CASE ~(connections[j].active > 0 /\ connections[j].closeWhenIdle)
    <3>1. /\ connections[j].active = 0
          /\ \E g \in Handlers : pc[g] = "get" /\ call[g].key = j
      BY <2>1, <2>3 DEF NoOrphan
    <3>2. PICK g \in Handlers : pc[g] = "get" /\ call[g].key = j
      BY <3>1
    <3>3. g # h
      BY <1>2, <3>2
    <3>4. QED
      BY <2>1, <3>1, <3>2, <3>3
  <2>4. QED
    BY <2>2, <2>3
<1>3. QED
  BY <1>1, <1>2

-----------------------------------------------------------------------------
(* The inductive invariant *)

IInv == Typed /\ Core /\ Flight /\ NoOrphan

LEMMA InitIInv == Init => IInv
<1> SUFFICES ASSUME Init
             PROVE  IInv
  OBVIOUS
<1>1. Typed
  BY InitTyped
<1>2. \A k \in Keys : ~Pooled(k) /\ creating[k] = None
  BY DEF Init, Pooled
<1>3. \A h \in Handlers : held[h] = None /\ pc[h] = "idle"
  BY DEF Init, Procs
<1>4. \A p \in Procs : closing[p] = {}
  BY DEF Init
<1>5. \A c \in Conns : conn[c] = "none"
  BY DEF Init
<1>6. Core
  BY <1>2, <1>3, <1>4, <1>5 DEF Core, PooledOpen, PooledApart, ClosingOpen,
     ClosingApart, ClosingLater, NoLeak, HeldCreated, InUseStaysPooled,
     ActiveCountsUsers, ClosedPoolIsEmpty
<1>7. Flight
  BY <1>2, <1>3, PoolConstants DEF Flight, SingleFlight
<1>8. NoOrphan
  BY <1>2 DEF NoOrphan
<1>9. QED
  BY <1>1, <1>6, <1>7, <1>8 DEF IInv

Rest == Core /\ Flight /\ NoOrphan

\* Steps that only move goroutines, and not into or out of a creation.
LEMMA QuietStep ==
    ASSUME IInv, ClosingLater',
           UNCHANGED <<connections, creating, closed, conn, held, closing>>,
           \A h \in Handlers : held[h] # None => call'[h] = call[h],
           \A h \in Handlers : pc[h] \in {"creating", "waiting"} =>
               pc'[h] = pc[h] /\ call'[h] = call[h],
           \A h \in Handlers : pc'[h] \in {"creating", "waiting"} =>
               pc[h] = pc'[h],
           \A h \in Handlers : pc[h] = "get" /\ Pooled(call[h].key) =>
               pc'[h] = "get" /\ call'[h] = call[h]
    PROVE  Rest'
<1> USE DEF IInv
<1>1. \A k \in Keys : Pooled(k)' <=> Pooled(k)
  BY DEF Pooled
<1>2. Core'
  BY FrameStep
<1>3. Flight'
  BY <1>1, NoCreationStep
<1>4. NoOrphan'
  BY <1>1, OrphanFrame DEF Pooled
<1>5. QED
  BY <1>2, <1>3, <1>4 DEF Rest

LEMMA StepRest == IInv /\ [Next]_vars => Rest'
<1> SUFFICES ASSUME IInv, [Next]_vars
             PROVE  Rest'
  OBVIOUS
<1> USE DEF IInv, Typed
<1>0. /\ \A h \in Handlers : h \in Procs /\ h # Janitor /\ h # Closer
      /\ Janitor \in Procs
      /\ Closer \in Procs
      /\ \A h \in Handlers : held[h] # None => pc[h] = "using"
      /\ \A p \in Procs : pc[p] \notin {"evicted", "closing"} => closing[p] = {}
  BY PoolConstants DEF Procs, TypeOK, Core, ClosingLater
<1>1. ASSUME NEW h \in Handlers, NEW op \in EvictFirst, NEW k \in Keys,
             NEW lease \in Leases \cup {EmptyLease}, StartCall(h, op, k, lease)
      PROVE  Rest'
  <2>1. ClosingLater'
    BY <1>0, <1>1 DEF StartCall, Goto, TypeOK, ClosingLater
  <2>2. QED
    BY <1>0, <1>1, <2>1, QuietStep DEF StartCall, Goto, TypeOK, poolVars
<1>2. ASSUME NEW h \in Handlers, NEW k \in Keys,
             NEW lease \in Leases \cup {EmptyLease}, StartDisconnect(h, k, lease)
      PROVE  Rest'
  <2>1. ClosingLater'
    BY <1>0, <1>2 DEF StartDisconnect, Goto, TypeOK, ClosingLater
  <2>2. QED
    BY <1>0, <1>2, <2>1, QuietStep DEF StartDisconnect, Goto, TypeOK, poolVars
<1>3. ASSUME NEW h \in Handlers,
             ListLeases(h) \/ GetClosed(h) \/ ReturnError(h)
      PROVE  Rest'
  <2> USE <1>3 DEF ListLeases, GetClosed, ReturnError, Return, Goto
  <2>1. ClosingLater'
    BY <1>0 DEF TypeOK, ClosingLater
  <2>2. pc[h] = "get" => ~Pooled(call[h].key)
    BY CallType DEF Core, ClosedPoolIsEmpty
  <2>3. QED
    BY <1>0, <2>1, <2>2, QuietStep DEF TypeOK, poolVars
<1>4. CASE JanitorTicks \/ JanitorStops
  <2> USE <1>4 DEF JanitorTicks, JanitorStops, Goto
  <2>1. ClosingLater'
    BY <1>0 DEF TypeOK, ClosingLater
  <2>2. \A h \in Handlers : pc'[h] = pc[h]
    BY <1>0 DEF TypeOK
  <2>3. QED
    BY <1>0, <2>1, <2>2, QuietStep DEF poolVars
<1>5. CASE CloseStop \/ CloseReturns
  <2> USE <1>5 DEF CloseStop, CloseReturns, Goto
  <2>1. ClosingLater'
    BY <1>0 DEF TypeOK, ClosingLater
  <2>2. \A h \in Handlers : pc'[h] = pc[h]
    BY <1>0 DEF TypeOK
  <2>3. QED
    BY <1>0, <2>1, <2>2, QuietStep DEF poolVars
<1>6. CASE Tick \/ UNCHANGED vars
  <2>1. ClosingLater'
    BY <1>6 DEF Tick, vars, Core, ClosingLater
  <2>2. QED
    BY <1>6, <2>1, QuietStep DEF Tick, vars, poolVars
<1>7. ASSUME NEW h \in Handlers, GetWait(h)
      PROVE  Rest'
  <2> USE <1>7 DEF GetWait, Goto
  <2>1. /\ UNCHANGED <<connections, creating, closed, conn, call, held, closing>>
        /\ pc'[h] = "waiting"
        /\ \A p \in Procs \ {h} : pc'[p] = pc[p]
    BY <1>0 DEF TypeOK, poolVars
  <2>2. ClosingLater'
    BY <1>0, <2>1 DEF ClosingLater
  <2>3. Core'
    BY <2>1, <2>2, FrameStep
  <2>4. Flight'
    BY <1>0, <2>1 DEF Flight, SingleFlight, Pooled
  <2>5. NoOrphan'
    BY <1>0, <2>1, OrphanFrame DEF Pooled
  <2>6. QED
    BY <2>3, <2>4, <2>5 DEF Rest
<1>8. ASSUME NEW h \in Handlers, GetCreate(h)
      PROVE  Rest'
  <2> USE <1>8 DEF GetCreate, Goto
  <2>1. /\ UNCHANGED <<connections, closed, conn, call, held, closing>>
        /\ pc'[h] = "creating"
        /\ \A p \in Procs \ {h} : pc'[p] = pc[p]
        /\ call[h].key \in Keys
        /\ creating'[call[h].key] = h
        /\ \A k \in Keys \ {call[h].key} : creating'[k] = creating[k]
    BY <1>0, CallType DEF TypeOK
  <2>2. ClosingLater'
    BY <1>0, <2>1 DEF ClosingLater
  <2>3. Core'
    BY <2>1, <2>2, FrameStep
  <2>4. \A g \in Handlers : pc[g] = "waiting" => call[g].key \in Keys
    BY CallType
  <2>5. Flight'
    <3>1. \A k \in Keys, g \in Handlers :
            creating'[k] = g <=> pc'[g] = "creating" /\ call[g].key = k
      <4> SUFFICES ASSUME NEW k \in Keys, NEW g \in Handlers
                   PROVE  creating'[k] = g <=>
                            pc'[g] = "creating" /\ call[g].key = k
        OBVIOUS
      <4>1. CASE g = h
        BY <2>1, <4>1, PoolConstants DEF Flight, SingleFlight
      <4>2. CASE g # h
        BY <1>0, <2>1, <4>2, PoolConstants DEF Flight, SingleFlight
      <4>3. QED
        BY <4>1, <4>2
    <3>2. \A k \in Keys : creating'[k] # None => ~Pooled(k)
      BY <2>1 DEF Flight, SingleFlight
    <3>3. ASSUME NEW g \in Handlers, pc'[g] = "waiting"
          PROVE  creating'[call[g].key] # None
      BY <1>0, <2>1, <2>4, <3>3, PoolConstants DEF Flight
    <3>4. QED
      BY <2>1, <3>1, <3>2, <3>3 DEF Flight, SingleFlight, Pooled
  <2>6. NoOrphan'
    BY <1>0, <2>1, OrphanFrame DEF Pooled
  <2>7. QED
    BY <2>3, <2>5, <2>6 DEF Rest
<1>9. ASSUME NEW h \in Handlers, FactoryFails(h)
      PROVE  Rest'
  <2> USE <1>9 DEF FactoryFails
  <2>1. ClosingLater'
    BY <1>0 DEF CreationOver, ClosingLater
  <2>2. Core'
    BY <2>1, FrameStep
  <2>3. Flight'
    BY CreationOverFlight DEF Pooled
  <2>4. NoOrphan'
    BY <1>0, OrphanFrame DEF CreationOver, Pooled
  <2>5. QED
    BY <2>2, <2>3, <2>4 DEF Rest
<1>10. ASSUME NEW h \in Handlers, NEW c \in Conns, FactorySucceeds(h, c)
       PROVE  Rest'
  <2> USE <1>10 DEF FactorySucceeds
  <2>1. call[h].key \in Keys /\ ~Pooled(call[h].key)
    BY CallType, PoolConstants DEF Flight, SingleFlight
  <2>2. ClosingLater'
    BY <1>0 DEF CreationOver, ClosingLater
  <2>3. Core'
    BY <2>1, <2>2, FactorySucceedsStep
  <2>4. Flight'
    <3>1. \A k \in Keys : Pooled(k)' => Pooled(k) \/ k = call[h].key
      BY DEF Store, Pooled, TypeOK
    <3>2. QED
      BY <3>1, CreationOverFlight
  <2>5. NoOrphan'
    <3> SUFFICES ASSUME NEW j \in Keys, Pooled(j)', connections'[j].leases = {}
                 PROVE  \/ connections'[j].active > 0 /\ connections'[j].closeWhenIdle
                        \/ /\ connections'[j].active = 0
                           /\ \E g \in Handlers : pc'[g] = "get" /\ call'[g].key = j
      BY DEF NoOrphan
    <3>1. CASE j = call[h].key
      <4>1. connections'[j].active = 0
        BY <2>1, <3>1 DEF Store, NewEntry, Entry, TypeOK
      <4>2. pc'[h] = "get" /\ call'[h].key = j
        BY <1>0, <3>1 DEF CreationOver
      <4>3. QED
        BY <4>1, <4>2
    <3>2. CASE j # call[h].key
      <4>1. Pooled(j) /\ connections'[j] = connections[j]
        BY <3>2 DEF Store, Pooled, TypeOK
      <4>2. \A g \in Handlers : pc[g] = "get" => pc'[g] = "get" /\ call'[g] = call[g]
        BY <1>0 DEF CreationOver
      <4>3. QED
        BY <4>1, <4>2 DEF NoOrphan
    <3>3. QED
      BY <3>1, <3>2
  <2>6. QED
    BY <2>3, <2>4, <2>5 DEF Rest
<1>11. ASSUME NEW h \in Handlers, NEW c \in Conns, FactoryTooLate(h, c)
       PROVE  Rest'
  <2> USE <1>11 DEF FactoryTooLate
  <2>1. ClosingLater'
    BY <1>0 DEF CreationOver, ClosingLater, TypeOK
  <2>2. Core'
    BY <2>1, FactoryTooLateStep
  <2>3. Flight'
    BY CreationOverFlight DEF Pooled
  <2>4. NoOrphan'
    BY <1>0, OrphanFrame DEF CreationOver, Pooled
  <2>5. QED
    BY <2>2, <2>3, <2>4 DEF Rest
<1>12. ASSUME NEW p \in Procs, NEW c \in Conns, CloseOne(p, c)
       PROVE  Rest'
  <2> USE <1>12 DEF CloseOne
  <2>1. ClosingLater'
    <3>1. CASE closing[p] = {c}
      <4>1. closing'[p] = {} /\ \A q \in Procs \ {p} : closing'[q] = closing[q]
        BY <3>1 DEF TypeOK
      <4>2. \A q \in Procs \ {p} : pc'[q] = pc[q]
        BY <3>1 DEF Goto, Return, TypeOK
      <4>3. QED
        BY <1>0, <4>1, <4>2 DEF ClosingLater
    <3>2. CASE closing[p] # {c}
      BY <1>0, <3>2 DEF ClosingLater, Core, TypeOK
    <3>3. QED
      BY <3>1, <3>2
  <2>2. Core'
    BY <2>1, CloseOneStep
  <2>3. /\ UNCHANGED <<connections, creating>>
        /\ \A h \in Handlers : h # p => pc'[h] = pc[h] /\ call'[h] = call[h]
        /\ p \in Handlers =>
             /\ pc[p] \in {"evicted", "closing"}
             /\ pc'[p] \in {"evicted", "closing", "get", "existing", "list", "idle"}
    <3>1. \A h \in Handlers : h # p => pc'[h] = pc[h] /\ call'[h] = call[h]
      BY <1>0 DEF Goto, Return, TypeOK
    <3>2. ASSUME p \in Handlers
          PROVE  pc'[p] \in {"evicted", "closing", "get", "existing", "list", "idle"}
      <4>1. pc[p] = "evicted" => AfterEvict(p) \in {"get", "existing", "list"}
        BY <1>0, <3>2 DEF AfterEvict, Control, EvictFirst
      <4>2. QED
        BY <1>0, <3>2, <4>1 DEF Goto, Return, TypeOK
    <3>3. QED
      BY <3>1, <3>2 DEF poolVars
  <2>4. Flight'
    BY <2>3, NoCreationStep DEF Pooled
  <2>5. NoOrphan'
    BY <2>3, OrphanFrame DEF Pooled
  <2>6. QED
    BY <2>2, <2>4, <2>5 DEF Rest
<1>13. ASSUME NEW p \in Procs, EvictIdle(p)
       PROVE  Rest'
  <2> USE <1>13 DEF EvictIdle
  <2>1. /\ Remove(p, Idle(seen[p]))
        /\ Idle(seen[p]) \in SUBSET Keys
        /\ \A k \in Idle(seen[p]) : Pooled(k) /\ connections[k].active = 0
        /\ closing[p] = {}
        /\ UNCHANGED <<creating, closed, conn, call, held>>
    BY <1>0 DEF Idle
  <2>2. p \in Handlers => AfterEvict(p) \in {"get", "existing", "list"}
    BY <1>0 DEF AfterEvict, Control, EvictFirst
  <2>3. /\ \A q \in Procs \ {p} : pc'[q] = pc[q]
        /\ p \in Handlers => pc'[p] \in {"evicted", "get", "existing", "list"}
        /\ Idle(seen[p]) # {} => pc'[p] = "evicted"
    BY <2>2 DEF Goto, TypeOK
  <2>4. ClosingLater'
    BY <1>0, <2>1, <2>3 DEF Remove, ClosingLater, TypeOK
  <2>5. Core'
    BY <2>1, <2>4, WithdrawStep
  <2>6. \A k \in Keys : Pooled(k)' => Pooled(k) /\ connections'[k] = connections[k]
    BY <2>1 DEF Remove, Pooled, TypeOK
  <2>7. Flight'
    BY <1>0, <2>1, <2>3, <2>6, NoCreationStep
  <2>8. NoOrphan'
    BY <1>0, <2>1, <2>3, <2>6, OrphanFrame
  <2>9. QED
    BY <2>5, <2>7, <2>8 DEF Rest
<1>14. ASSUME NEW h \in Handlers, GetPooled(h)
       PROVE  Rest'
  <2> USE <1>14 DEF GetPooled
  <2> DEFINE e == Joined(Ours(h), call[h])
  <2>1. /\ call[h] \in Calls
        /\ call[h].key \in Keys
        /\ Ours(h) \in Entries
        /\ Ours(h).connection = Client(call[h].key)
        /\ e \in Entries
    BY CallType, EntryUpdateTypes DEF Ours, Client
  <2>2. /\ e.connection = Client(call[h].key)
        /\ e.leases # {}
        /\ e.active = IF call[h].op = "Acquire" THEN Ours(h).active + 1
                      ELSE Ours(h).active
    BY <2>1 DEF Joined, Entry
  <2>3. /\ \A g \in Procs \ {h} : pc'[g] = pc[g]
        /\ \A g \in Handlers \ {h} : call'[g] = call[g]
        /\ pc'[h] \in {"using", "idle"}
    BY <1>0 DEF Goto, Return, TypeOK
  <2>4. ClosingLater'
    BY <1>0, <2>3 DEF ClosingLater
  <2>5. Core'
    <3>1. CASE call[h].op = "Acquire"
      <4>1. held[h] = None
        BY <1>0
      <4>2. QED
        BY <2>1, <2>2, <2>4, <3>1, <4>1, AcquireStep DEF Ours
    <3>2. CASE call[h].op # "Acquire"
      <4>1. \A g \in Handlers : held[g] # None => call'[g] = call[g]
        BY <1>0, <2>3
      <4>2. QED
        BY <2>1, <2>2, <2>4, <3>2, <4>1, KeepStep DEF Ours
    <3>3. QED
      BY <3>1, <3>2
  <2>6. Flight'
    <3>1. \A j \in Keys : Pooled(j)' => Pooled(j)
      BY <2>1, StorePools
    <3>2. QED
      BY <1>0, <2>3, <3>1, NoCreationStep
  <2>7. NoOrphan'
    <3> HIDE DEF e
    <3>1. Store(call[h].key, e)
      BY DEF e
    <3>2. QED
      BY <1>0, <2>1, <2>2, <2>3, <3>1, OrphanStore
  <2>8. QED
    BY <2>5, <2>6, <2>7 DEF Rest
<1>15. ASSUME NEW h \in Handlers, AcquireExisting(h)
       PROVE  Rest'
  <2> USE <1>15 DEF AcquireExisting
  <2>1. /\ \A g \in Procs \ {h} : pc'[g] = pc[g]
        /\ \A g \in Handlers \ {h} : call'[g] = call[g]
        /\ pc'[h] \in {"using", "idle"}
    BY <1>0 DEF Goto, Return, TypeOK
  <2>2. ClosingLater'
    BY <1>0, <2>1 DEF ClosingLater
  <2>3. CASE ~closed /\ Pooled(call[h].key) /\ call[h].lease \in Ours(h).leases
    <3> DEFINE e == Reused(Ours(h))
    <3>1. /\ call[h] \in Calls
          /\ call[h].key \in Keys
          /\ Ours(h) \in Entries
          /\ Ours(h).connection = Client(call[h].key)
          /\ e \in Entries
      BY <2>3, CallType, EntryUpdateTypes DEF Ours, Client
    <3>2. /\ e.connection = Client(call[h].key)
          /\ e.leases # {}
          /\ e.active = Ours(h).active + 1
      BY <2>3, <3>1 DEF Reused, Entry
    <3>3. /\ Store(call[h].key, e)
          /\ held[h] = None
          /\ held' = [held EXCEPT ![h] = Client(call[h].key)]
          /\ UNCHANGED <<creating, closed, conn, closing, call>>
      BY <1>0, <2>3, <3>1
    <3> HIDE DEF e
    <3>4. Core'
      BY <2>2, <2>3, <3>1, <3>2, <3>3, AcquireStep DEF Ours
    <3>5. Flight'
      <4>1. \A j \in Keys : Pooled(j)' => Pooled(j)
        BY <2>3, <3>1, <3>3, StorePools
      <4>2. QED
        BY <1>0, <2>1, <3>3, <4>1, NoCreationStep
    <3>6. NoOrphan'
      BY <1>0, <2>1, <3>1, <3>2, <3>3, OrphanStore
    <3>7. QED
      BY <3>4, <3>5, <3>6 DEF Rest
  <2>4. CASE ~(/\ ~closed
               /\ Pooled(call[h].key)
               /\ call[h].lease \in Ours(h).leases)
    <3>1. UNCHANGED <<connections, creating, closed, conn, held, closing>>
      BY <2>4
    <3>2. QED
      BY <1>0, <2>1, <2>2, <3>1, QuietStep
  <2>5. QED
    BY <2>3, <2>4
<1>16. ASSUME NEW h \in Handlers, Disconnect(h)
       PROVE  Rest'
  <2> USE <1>16 DEF Disconnect
  <2> DEFINE k == call[h].key
             e == Unleased(Ours(h), call[h].lease)
  <2>1. /\ \A g \in Procs \ {h} : pc'[g] = pc[g]
        /\ \A g \in Handlers \ {h} : call'[g] = call[g]
        /\ pc'[h] \in {"closing", "idle"}
        /\ held[h] = None
        /\ closing[h] = {}
        /\ UNCHANGED <<creating, closed, conn, held>>
    BY <1>0 DEF Goto, Return, TypeOK
  <2>2. /\ call[h] \in Calls
        /\ k \in Keys
        /\ Pooled(k) => /\ Ours(h) \in Entries
                        /\ Ours(h) = connections[k]
                        /\ e \in Entries
    BY CallType, EntryUpdateTypes DEF Ours
  <2>3. Pooled(k) =>
          /\ e.connection = Client(k)
          /\ e.active = connections[k].active
          /\ e.active \in Nat
          /\ e.leases = {} /\ e.active > 0 => e.closeWhenIdle
    BY <2>2 DEF Unleased, Entry, Client, Entries
  <2>4. CASE ~Pooled(k)
    <3>1. UNCHANGED <<connections, closing>>
      BY <2>4
    <3>2. pc'[h] = "idle"
      BY <1>0, <2>4 DEF Return, Goto, TypeOK
    <3>3. ClosingLater'
      BY <1>0, <2>1, <3>1, <3>2 DEF ClosingLater
    <3>4. QED
      BY <1>0, <2>1, <3>1, <3>3, QuietStep
  <2>5. CASE Pooled(k) /\ Left(e)
    <3>1. Remove(h, {k}) /\ Goto(h, "closing")
      BY <2>5
    <3>2. connections[k].active = 0
      BY <2>3, <2>5 DEF Left
    <3>3. ClosingLater'
      BY <1>0, <2>1, <3>1 DEF Remove, Goto, ClosingLater, TypeOK
    <3>4. Core'
      <4>1. {k} \in SUBSET Keys
        BY <2>2
      <4>2. \A g \in Handlers : held[g] # None => call'[g] = call[g]
        BY <2>1
      <4>3. QED
        BY <1>0, <2>1, <2>5, <3>1, <3>2, <3>3, <4>1, <4>2, WithdrawStep
    <3>5. \A j \in Keys : Pooled(j)' => Pooled(j) /\ connections'[j] = connections[j]
      BY <3>1 DEF Remove, Pooled, TypeOK
    <3>6. Flight'
      BY <1>0, <2>1, <3>5, NoCreationStep
    <3>7. NoOrphan'
      BY <1>0, <2>1, <3>5, OrphanFrame
    <3>8. QED
      BY <3>4, <3>6, <3>7 DEF Rest
  <2>6. CASE Pooled(k) /\ ~Left(e)
    <3>1. Store(k, e) /\ UNCHANGED closing /\ Return(h)
      BY <2>6
    <3> HIDE DEF e
    <3>2. pc'[h] = "idle"
      BY <1>0, <3>1 DEF Return, Goto, TypeOK
    <3>3. ClosingLater'
      BY <1>0, <2>1, <3>1, <3>2 DEF ClosingLater
    <3>4. Core'
      <4>1. \A g \in Handlers : held[g] # None => call'[g] = call[g]
        BY <2>1
      <4>2. QED
        BY <2>1, <2>2, <2>3, <2>6, <3>1, <3>3, <4>1, KeepStep
    <3>5. Flight'
      <4>1. \A j \in Keys : Pooled(j)' => Pooled(j)
        BY <2>2, <2>6, <3>1, StorePools
      <4>2. QED
        BY <1>0, <2>1, <4>1, NoCreationStep
    <3>6. NoOrphan'
      <4>1. e.leases # {} \/ (e.active > 0 /\ e.closeWhenIdle)
        BY <2>3, <2>6 DEF Left
      <4>2. QED
        BY <1>0, <2>1, <2>2, <2>6, <3>1, <4>1, OrphanStore
    <3>7. QED
      BY <3>4, <3>5, <3>6 DEF Rest
  <2>7. QED
    BY <2>4, <2>5, <2>6
<1>17. ASSUME NEW h \in Handlers, Release(h)
       PROVE  Rest'
  <2> USE <1>17 DEF Release
  <2> DEFINE k == call[h].key
             e == Released(Ours(h))
  <2>1. /\ \A g \in Procs \ {h} : pc'[g] = pc[g]
        /\ \A g \in Handlers \ {h} : call'[g] = call[g]
        /\ pc'[h] \in {"closing", "idle"}
        /\ held[h] # None
        /\ closing[h] = {}
        /\ UNCHANGED creating
        /\ k \in Keys
    BY <1>0, CallType DEF Goto, Return, TypeOK
  <2>2. ClosingLater'
    <3>1. CASE pc'[h] = "closing"
      <4>1. \A p \in Procs \ {h} : closing'[p] = closing[p]
        BY <1>0 DEF Remove, TypeOK
      <4>2. QED
        BY <1>0, <2>1, <3>1, <4>1 DEF ClosingLater
    <3>2. CASE pc'[h] # "closing"
      <4>1. UNCHANGED closing
        BY <1>0, <3>2 DEF Goto, TypeOK
      <4>2. QED
        BY <1>0, <2>1, <4>1 DEF ClosingLater
    <3>3. QED
      BY <3>1, <3>2
  <2>3. Core'
    BY <2>2, ReleaseKeeps
  <2>4. Flight'
    <3>1. \A j \in Keys : Pooled(j)' => Pooled(j)
      BY <2>1 DEF Store, Remove, Pooled, TypeOK
    <3>2. QED
      BY <1>0, <2>1, <3>1, NoCreationStep
  <2>5. NoOrphan'
    <3>1. CASE Pooled(k) /\ Ours(h).connection = held[h] /\ ~Finished(e)
      <4>1. Store(k, e)
        BY <3>1
      <4>2. /\ Ours(h) \in Entries
            /\ e \in Entries
            /\ Ours(h) = connections[k]
            /\ Ours(h).active \in Nat
        BY <2>1, <3>1, CallType, EntryUpdateTypes DEF Ours, Entries
      <4>3. Ours(h).active > 0
        <5>1. h \in Users(Client(k))
          BY <3>1, <4>2 DEF Users, Client
        <5>2. Ours(h).active # 0
          BY <2>1, <3>1, <4>2, UncountedUnused DEF Client, Core
        <5>3. QED
          BY <4>2, <5>2
      <4>4. e.leases # {} \/ (e.active > 0 /\ e.closeWhenIdle)
        <5>1. /\ e.leases = Ours(h).leases
              /\ e.closeWhenIdle = Ours(h).closeWhenIdle
              /\ e.active = Ours(h).active - 1
          BY <4>3 DEF Released, Entry
        <5>2. Ours(h).leases = {} => Ours(h).closeWhenIdle
          BY <2>1, <3>1, <4>2, <4>3 DEF NoOrphan
        <5>3. QED
          BY <3>1, <4>2, <4>3, <5>1, <5>2 DEF Finished
      <4> HIDE DEF e
      <4>5. QED
        BY <1>0, <2>1, <4>1, <4>2, <4>4, OrphanStore
    <3>2. CASE ~(Pooled(k) /\ Ours(h).connection = held[h] /\ ~Finished(e))
      <4>1. \A j \in Keys : Pooled(j)' => Pooled(j) /\ connections'[j] = connections[j]
        BY <3>2 DEF Remove, Pooled, TypeOK
      <4>2. QED
        BY <1>0, <2>1, <4>1, OrphanFrame
    <3>3. QED
      BY <3>1, <3>2
  <2>6. QED
    BY <2>3, <2>4, <2>5 DEF Rest
<1>18. CASE Close
  <2> USE <1>18 DEF Close
  <2> DEFINE K == {k \in Keys : Pooled(k)}
  <2>1. /\ \A p \in Procs \ {Closer} : pc'[p] = pc[p]
        /\ K # {} => pc'[Closer] = "closing"
        /\ closing[Closer] = {}
        /\ UNCHANGED <<creating, conn, call, held>>
        /\ closed'
        /\ Remove(Closer, K)
    BY <1>0 DEF Goto, TypeOK
  <2>2. ClosingLater'
    BY <1>0, <2>1 DEF Remove, ClosingLater, TypeOK
  <2>3. Core'
    BY <1>0, <2>1, <2>2, WithdrawStep
  <2>4. \A k \in Keys : ~Pooled(k)'
    BY <2>1 DEF Remove, Pooled, TypeOK
  <2>5. Flight'
    BY <1>0, <2>1, <2>4, NoCreationStep
  <2>6. NoOrphan'
    BY <2>4 DEF NoOrphan
  <2>7. QED
    BY <2>3, <2>5, <2>6 DEF Rest
<1>19. QED
  BY <1>1, <1>2, <1>3, <1>4, <1>5, <1>6, <1>7, <1>8, <1>9, <1>10, <1>11,
     <1>12, <1>13, <1>14, <1>15, <1>16, <1>17, <1>18
     DEF Next, HandlerStep, JanitorStep, CloserStep, Procs

LEMMA Invariance == Spec => []IInv
<1>1. IInv /\ [Next]_vars => IInv'
  BY StepTyped, StepRest DEF IInv, Rest
<1>2. QED
  BY <1>1, InitIInv, PTL DEF Spec

-----------------------------------------------------------------------------
(* The theorems *)

\* The number an entry counts is the number of requests running on its client
\* (active, lines 40, 138, 159 and 230 of connection_pool.go).
THEOREM ActiveCountIsExact == Spec => []ActiveCountsUsers
<1>1. IInv => ActiveCountsUsers
  BY DEF IInv, Core
<1>2. QED
  BY <1>1, Invariance, PTL

\* No disconnect, release, eviction or late creation closes or withdraws a
\* client under a running request; only Close does.
THEOREM InUseIsSafe == Spec => []InUseStaysPooled
<1>1. IInv => InUseStaysPooled
  BY DEF IInv, Core
<1>2. QED
  BY <1>1, Invariance, PTL

\* An open client has exactly one owner, its entry or the goroutine that has
\* to close it: nothing is leaked, nothing closed twice.
THEOREM OwnerIsUnique == Spec => []SoleOwner
<1>1. IInv => SoleOwner
  <2> SUFFICES ASSUME IInv, NEW c \in Conns
               PROVE  Cardinality({k \in Keys : Pooled(k) /\ Client(k) = c})
                        + Cardinality({p \in Procs : c \in closing[p]})
                        = IF conn[c] = "open" THEN 1 ELSE 0
    BY DEF SoleOwner, Client
  <2> DEFINE keys == {k \in Keys : Pooled(k) /\ Client(k) = c}
             procs == {p \in Procs : c \in closing[p]}
  <2>1. conn[c] # "open" => keys = {} /\ procs = {}
    BY DEF IInv, Core, PooledOpen, ClosingOpen
  <2>2. conn[c] = "open" =>
          \/ procs = {} /\ \E k \in Keys : keys = {k}
          \/ keys = {} /\ \E p \in Procs : procs = {p}
    <3> SUFFICES ASSUME conn[c] = "open"
                 PROVE  \/ procs = {} /\ \E k \in Keys : keys = {k}
                        \/ keys = {} /\ \E p \in Procs : procs = {p}
      OBVIOUS
    <3>1. CASE \E k \in Keys : Pooled(k) /\ Client(k) = c
      <4>1. PICK k \in Keys : Pooled(k) /\ Client(k) = c
        BY <3>1
      <4>2. keys = {k} /\ procs = {}
        BY <4>1 DEF IInv, Core, PooledApart, ClosingOpen
      <4>3. QED
        BY <4>2
    <3>2. CASE ~ \E k \in Keys : Pooled(k) /\ Client(k) = c
      <4>1. PICK p \in Procs : c \in closing[p]
        BY <3>2 DEF IInv, Core, NoLeak
      <4>2. keys = {} /\ procs = {p}
        BY <3>2, <4>1 DEF IInv, Core, ClosingApart
      <4>3. QED
        BY <4>2
    <3>3. QED
      BY <3>1, <3>2
  <2>3. Cardinality({}) = 0
    BY FS_EmptySet
  <2> HIDE DEF keys, procs
  <2>4. conn[c] = "open" =>
          \/ Cardinality(procs) = 0 /\ Cardinality(keys) = 1
          \/ Cardinality(keys) = 0 /\ Cardinality(procs) = 1
    <3>1. ASSUME procs = {}, NEW k \in Keys, keys = {k}
          PROVE  Cardinality(procs) = 0 /\ Cardinality(keys) = 1
      BY <2>3, <3>1, FS_Singleton
    <3>2. ASSUME keys = {}, NEW p \in Procs, procs = {p}
          PROVE  Cardinality(keys) = 0 /\ Cardinality(procs) = 1
      BY <2>3, <3>2, FS_Singleton
    <3>3. QED
      BY <2>2, <3>1, <3>2
  <2>5. Cardinality(keys) + Cardinality(procs) =
          IF conn[c] = "open" THEN 1 ELSE 0
    <3>1. CASE conn[c] = "open"
      BY <2>4, <3>1
    <3>2. CASE conn[c] # "open"
      BY <2>1, <2>3, <3>2
    <3>3. QED
      BY <3>1, <3>2
  <2>6. QED
    BY <2>5 DEF keys, procs
<1>2. QED
  BY <1>1, Invariance, PTL

\* A key is in one creation at most, and no creation runs beside an entry.
THEOREM FlightIsSingle == Spec => []SingleFlight
<1>1. IInv => SingleFlight
  BY DEF IInv, Flight
<1>2. QED
  BY <1>1, Invariance, PTL

\* An entry without leases is about to be leased or to be closed by the last
\* request that runs on it.
THEOREM NothingIsOrphaned == Spec => []NoOrphan
<1>1. IInv => NoOrphan
  BY DEF IInv
<1>2. QED
  BY <1>1, Invariance, PTL

\* A handler never waits for a creation that is over.
THEOREM NoWakeUpIsLost == Spec => []WaitersHaveCreator
<1>1. IInv => WaitersHaveCreator
  <2> SUFFICES ASSUME IInv, NEW h \in Handlers, pc[h] = "waiting"
               PROVE  \E g \in Handlers : /\ pc[g] = "creating"
                                          /\ call[g].key = call[h].key
    BY DEF WaitersHaveCreator
  <2>1. call[h].key \in Keys
    BY CallType DEF IInv, Typed
  <2>2. creating[call[h].key] \in Handlers
    BY <2>1 DEF IInv, Flight, Typed, TypeOK
  <2>3. PICK g \in Handlers : creating[call[h].key] = g
    BY <2>2
  <2>4. pc[g] = "creating" /\ call[g].key = call[h].key
    BY <2>1, <2>3 DEF IInv, Flight, SingleFlight
  <2>5. QED
    BY <2>4
<1>2. QED
  BY <1>1, Invariance, PTL

\* A pool that Close has emptied stays empty.
THEOREM ClosedStaysEmpty == Spec => []ClosedPoolIsEmpty
<1>1. IInv => ClosedPoolIsEmpty
  BY DEF IInv, Core
<1>2. QED
  BY <1>1, Invariance, PTL

-----------------------------------------------------------------------------
(* The steps: the refinement of SharedClients, and what leaves the pool *)

\* The client of SharedClients that is offered for a key.
Offer(k) == IF Pooled(k) THEN connections[k].connection ELSE None
Offers == [k \in Keys |-> Offer(k)]

LEMMA InitRefines == Init => Clients!Init
BY DEF Init, Clients!Init, Pooled

\* Steps that change no entry's client change no offer.
LEMMA SameOffers ==
    ASSUME \A k \in Keys : Offer(k)' = Offer(k),
           UNCHANGED <<conn, held, closed>>
    PROVE  UNCHANGED Clients!vars
BY DEF Offer, Clients!vars

\* Storing an entry for the same client changes no offer.
LEMMA StoreOffers ==
    ASSUME TypeOK, NEW k \in Keys, NEW e \in Entries, Pooled(k), Store(k, e),
           e.connection = connections[k].connection
    PROVE  \A j \in Keys : Offer(j)' = Offer(j)
BY PoolConstants DEF TypeOK, Store, Offer, Pooled

\* Removing entries withdraws their offers.
LEMMA RemoveOffers ==
    ASSUME TypeOK, NEW p \in Procs, NEW K \in SUBSET Keys, Remove(p, K)
    PROVE  \A j \in Keys : Offer(j)' = IF j \in K THEN None ELSE Offer(j)
BY DEF TypeOK, Remove, Offer, Pooled

LEMMA UseRefines ==
    ASSUME IInv, NEW h \in Handlers, held[h] = None, NEW k \in Keys, Pooled(k),
           NEW e \in Entries, Store(k, e),
           e.connection = connections[k].connection,
           held' = [held EXCEPT ![h] = connections[k].connection],
           UNCHANGED <<conn, closed>>
    PROVE  Clients!Use(h, k)
<1>1. \A j \in Keys : Offer(j)' = Offer(j)
  BY StoreOffers DEF IInv, Typed
<1>2. connections[k].connection \in Conns
  BY DEF IInv, Typed, TypeOK, Pooled, Entries
<1>3. conn[connections[k].connection] = "open"
  BY DEF IInv, Core, PooledOpen, Client
<1>4. QED
  BY <1>1, <1>2, <1>3, PoolConstants DEF Clients!Use, Offer

LEMMA WithdrawRefines ==
    ASSUME IInv, NEW p \in Procs, NEW K \in SUBSET Keys, Remove(p, K),
           \A k \in K : Pooled(k) /\ connections[k].active = 0,
           UNCHANGED <<conn, held, closed>>
    PROVE  Clients!Withdraw(K)
<1>1. \A j \in Keys : Offer(j)' = IF j \in K THEN None ELSE Offer(j)
  BY RemoveOffers DEF IInv, Typed
<1>2. \A k \in K, h \in Handlers : held[h] # connections[k].connection
  BY UncountedUnused DEF IInv, Typed, Core, Client
<1>3. QED
  BY <1>1, <1>2 DEF Clients!Withdraw, Clients!Withdrawn, Offer

\* A client that a goroutine has taken out of the open pool is not in use.
TakenAreUnused ==
    closed \/ \A p \in Procs : \A c \in closing[p] : c \notin {held[h] : h \in Handlers}

LEMMA TakenUnused == IInv => TakenAreUnused
<1> SUFFICES ASSUME IInv, ~closed, NEW p \in Procs, NEW c \in closing[p],
                    NEW h \in Handlers, held[h] = c
             PROVE  FALSE
  BY DEF TakenAreUnused
<1>1. c # None
  BY PoolConstants DEF IInv, Typed, TypeOK
<1>2. call[h].key \in Keys
  BY <1>1, CallType DEF IInv, Typed, TypeOK
<1>3. Pooled(call[h].key) /\ Client(call[h].key) = c
  BY <1>1 DEF IInv, Core, InUseStaysPooled, Ours, Client
<1>4. QED
  BY <1>2, <1>3 DEF IInv, Core, ClosingOpen

LEMMA TakenUnusedNext == IInv' => TakenAreUnused'
BY TakenUnused, PTL

LEMMA ReleaseRefines ==
    ASSUME IInv, IInv', NEW h \in Handlers, Release(h)
    PROVE  \E K \in SUBSET Keys : Clients!Done(h, K)
<1> DEFINE k == call[h].key
           e == Released(Ours(h))
<1>1. /\ held[h] # None
      /\ k \in Keys
      /\ UNCHANGED <<conn, closed>>
      /\ held' = [held EXCEPT ![h] = None]
  BY CallType DEF Release, IInv, Typed, TypeOK
<1>2. CASE /\ Pooled(k) /\ Ours(h).connection = held[h]
           /\ Finished(e)
  <2>1. Remove(h, {k})
    BY <1>2 DEF Release
  <2>2. \A j \in Keys : Offer(j)' = IF j \in {k} THEN None ELSE Offer(j)
    BY <1>1, <2>1, RemoveOffers DEF IInv, Typed, Procs
  <2>3. ~closed'
    BY <1>1, <1>2 DEF IInv, Core, ClosedPoolIsEmpty
  <2>4. h \in Procs /\ Client(k) \in closing'[h]
    BY <2>1 DEF Remove, Client, IInv, Typed, TypeOK, Procs
  <2>5. \A g \in Handlers : held'[g] # Client(k)
    BY <1>1, <1>2, <2>3, <2>4, TakenUnusedNext DEF TakenAreUnused
  <2>6. Clients!Done(h, {k})
    BY <1>1, <2>2, <2>5 DEF Clients!Done, Clients!Withdrawn, Offer, Client
  <2>7. {k} \in SUBSET Keys
    BY <1>1
  <2>8. QED
    BY <2>6, <2>7 DEF Clients!Done, Clients!Withdrawn
<1>3. CASE ~(Pooled(k) /\ Ours(h).connection = held[h] /\ Finished(e))
  <2>1. \A j \in Keys : Offer(j)' = Offer(j)
    <3>1. CASE Pooled(k) /\ Ours(h).connection = held[h]
      <4>1. Store(k, e)
        BY <1>3, <3>1 DEF Release
      <4>2. e \in Entries /\ e.connection = connections[k].connection
        BY <1>1, <3>1, CallType, EntryUpdateTypes
           DEF Released, Entry, Ours, IInv, Typed, TypeOK
      <4> HIDE DEF e
      <4>3. QED
        BY <1>1, <3>1, <4>1, <4>2, StoreOffers DEF IInv, Typed
    <3>2. CASE ~(Pooled(k) /\ Ours(h).connection = held[h])
      BY <1>3, <3>2 DEF Release, Offer, Pooled
    <3>3. QED
      BY <3>1, <3>2
  <2>2. Clients!Done(h, {})
    BY <1>1, <2>1 DEF Clients!Done, Clients!Withdrawn, Offer
  <2>3. QED
    BY <2>2
<1>4. QED
  BY <1>2, <1>3

\* Every step of the pool is a step of SharedClients or changes nothing there.
LEMMA StepRefines ==
    IInv /\ IInv' /\ [Next]_vars => [Clients!Next]_Clients!vars
<1> SUFFICES ASSUME IInv, IInv', [Next]_vars
             PROVE  Clients!Next \/ UNCHANGED Clients!vars
  OBVIOUS
<1> USE DEF Clients!Next
<1>0. Typed /\ TypeOK /\ Core /\ Flight /\ \A h \in Handlers : h \in Procs
  BY DEF IInv, Typed, Procs
\* Steps that touch neither the entries nor the clients.
<1>1. CASE UNCHANGED <<connections, conn, held, closed>>
  <2>1. \A k \in Keys : Offer(k)' = Offer(k)
    BY <1>1 DEF Offer, Pooled
  <2>2. QED
    BY <1>1, <2>1, SameOffers
<1>2. ASSUME NEW h \in Handlers, GetPooled(h)
      PROVE  Clients!Next \/ UNCHANGED Clients!vars
  <2> DEFINE k == call[h].key
             e == Joined(Ours(h), call[h])
  <2>1. /\ Pooled(k) /\ Store(k, e) /\ UNCHANGED <<conn, closed>>
        /\ pc[h] = "get"
    BY <1>2 DEF GetPooled
  <2>2. k \in Keys /\ e \in Entries /\ held[h] = None
    BY <1>0, <2>1, CallType, EntryUpdateTypes DEF TypeOK
  <2>3. e.connection = connections[k].connection
    BY <2>1 DEF Joined, Entry, Ours
  <2>4. \/ held' = [held EXCEPT ![h] = connections[k].connection]
        \/ UNCHANGED held
    BY <1>2 DEF GetPooled, Ours
  <2> HIDE DEF e
  <2>5. CASE UNCHANGED held
    <3>1. \A j \in Keys : Offer(j)' = Offer(j)
      BY <1>0, <2>1, <2>2, <2>3, StoreOffers
    <3>2. QED
      BY <2>1, <2>5, <3>1, SameOffers
  <2>6. CASE held' = [held EXCEPT ![h] = connections[k].connection]
    <3>1. Clients!Use(h, k)
      BY <2>1, <2>2, <2>3, <2>6, UseRefines
    <3>2. QED
      BY <2>2, <3>1
  <2>7. QED
    BY <2>4, <2>5, <2>6
<1>3. ASSUME NEW h \in Handlers, AcquireExisting(h),
             ~UNCHANGED <<connections, conn, held, closed>>
      PROVE  Clients!Next
  <2> DEFINE k == call[h].key
             e == Reused(Ours(h))
  <2>1. /\ Pooled(k) /\ Store(k, e) /\ UNCHANGED <<conn, closed>>
        /\ held' = [held EXCEPT ![h] = connections[k].connection]
        /\ pc[h] = "existing"
    BY <1>3 DEF AcquireExisting, Ours
  <2>2. k \in Keys /\ e \in Entries /\ held[h] = None
    BY <1>0, <2>1, CallType, EntryUpdateTypes DEF TypeOK
  <2>3. e.connection = connections[k].connection
    BY <2>1 DEF Reused, Entry, Ours
  <2> HIDE DEF e
  <2>4. Clients!Use(h, k)
    BY <2>1, <2>2, <2>3, UseRefines
  <2>5. QED
    BY <2>2, <2>4
<1>4. ASSUME NEW h \in Handlers, Disconnect(h)
      PROVE  Clients!Next \/ UNCHANGED Clients!vars
  <2> DEFINE k == call[h].key
             e == Unleased(Ours(h), call[h].lease)
  <2>1. /\ k \in Keys /\ call[h] \in Calls /\ UNCHANGED <<conn, held, closed>>
        /\ Pooled(k) => Ours(h) \in Entries /\ e \in Entries
    BY <1>0, <1>4, CallType, EntryUpdateTypes DEF Disconnect
  <2>2. e.connection = connections[k].connection /\ e.active = Ours(h).active
    BY DEF Unleased, Entry, Ours
  <2>3. CASE ~Pooled(k)
    BY <1>1, <1>4, <2>3 DEF Disconnect
  <2>4. CASE Pooled(k) /\ Left(e)
    <3>1. Remove(h, {k}) /\ connections[k].active = 0
      BY <1>4, <2>2, <2>4 DEF Disconnect, Left, Ours
    <3>2. Clients!Withdraw({k})
      BY <1>0, <2>1, <2>4, <3>1, {k} \in SUBSET Keys, WithdrawRefines
         DEF Clients!Withdraw, Clients!Withdrawn
    <3>3. QED
      BY <2>1, <3>2 DEF Clients!Withdraw, Clients!Withdrawn
  <2>5. CASE Pooled(k) /\ ~Left(e)
    <3>1. Store(k, e)
      BY <1>4, <2>5 DEF Disconnect
    <3> HIDE DEF e
    <3>2. \A j \in Keys : Offer(j)' = Offer(j)
      BY <1>0, <2>1, <2>2, <2>5, <3>1, StoreOffers
    <3>3. QED
      BY <2>1, <3>2, SameOffers
  <2>6. QED
    BY <2>3, <2>4, <2>5
<1>5. ASSUME NEW h \in Handlers, Release(h)
      PROVE  Clients!Next
  <2>1. PICK K \in SUBSET Keys : Clients!Done(h, K)
    BY <1>5, ReleaseRefines
  <2>2. QED
    BY <2>1 DEF Clients!Done, Clients!Withdrawn
<1>6. ASSUME NEW p \in Procs, EvictIdle(p)
      PROVE  Clients!Next
  <2> DEFINE K == Idle(seen[p])
  <2>1. /\ K \in SUBSET Keys
        /\ \A k \in K : Pooled(k) /\ connections[k].active = 0
    BY DEF Idle
  <2>2. Remove(p, K) /\ UNCHANGED <<conn, held, closed>>
    BY <1>6 DEF EvictIdle
  <2> HIDE DEF K
  <2>3. Clients!Withdraw(K)
    BY <2>1, <2>2, WithdrawRefines DEF Clients!Withdraw, Clients!Withdrawn
  <2>4. QED
    BY <2>1, <2>3 DEF Clients!Withdraw, Clients!Withdrawn
<1>7. ASSUME NEW h \in Handlers, NEW c \in Conns, FactorySucceeds(h, c)
      PROVE  Clients!Next
  <2> DEFINE k == call[h].key
  <2>1. /\ k \in Keys /\ ~closed /\ conn[c] = "none"
        /\ conn' = [conn EXCEPT ![c] = "open"]
        /\ Store(k, NewEntry(c)) /\ UNCHANGED <<closed, held>>
    BY <1>0, <1>7, CallType DEF FactorySucceeds
  <2>2. ~Pooled(k)
    BY <1>0, <1>7, <2>1, PoolConstants DEF FactorySucceeds, Flight, SingleFlight
  <2>3. NewEntry(c) # None /\ NewEntry(c).connection = c
    BY <1>0, NewEntryType, PoolConstants DEF NewEntry, Entry
  <2>4. \A j \in Keys : Offer(j)' = IF j = k THEN c ELSE Offer(j)
    BY <1>0, <2>1, <2>3 DEF Store, Offer, Pooled, TypeOK
  <2>5. Clients!Open(k, c)
    BY <2>1, <2>2, <2>4 DEF Clients!Open, Offer
  <2>6. QED
    BY <2>1, <2>5
<1>8. ASSUME NEW h \in Handlers, NEW c \in Conns, FactoryTooLate(h, c)
      PROVE  Clients!Next
  <2>1. \A k \in Keys : Offer(k)' = Offer(k)
    BY <1>8 DEF FactoryTooLate, Offer, Pooled
  <2>2. Clients!OpenTooLate(c)
    BY <1>8, <2>1 DEF FactoryTooLate, Clients!OpenTooLate, Offer
  <2>3. QED
    BY <2>2
<1>9. ASSUME NEW p \in Procs, NEW c \in Conns, CloseOne(p, c)
      PROVE  Clients!Next
  <2>1. /\ c \in closing[p]
        /\ conn' = [conn EXCEPT ![c] = "closed"]
        /\ UNCHANGED <<connections, held, closed>>
    BY <1>9 DEF CloseOne, poolVars
  <2>2. \A k \in Keys : Offer(k)' = Offer(k)
    BY <2>1 DEF Offer, Pooled
  <2>3. conn[c] = "open" /\ \A k \in Keys : Offer(k) # c
    BY <1>0, <2>1, PoolConstants DEF Core, ClosingOpen, Offer, Client
  <2>4. closed \/ \A h \in Handlers : held[h] # c
    BY <2>1, TakenUnused DEF TakenAreUnused
  <2>5. Clients!Close(c)
    BY <2>1, <2>2, <2>3, <2>4
       DEF Clients!Close, Clients!Offered, Clients!Used, Offer
  <2>6. QED
    BY <2>5
<1>10. ASSUME Close
       PROVE  Clients!Next
  <2>1. /\ closed' /\ UNCHANGED <<conn, held>>
        /\ Remove(Closer, {k \in Keys : Pooled(k)})
    BY <1>10 DEF Close
  <2>2. \A k \in Keys : Offer(k)' = None
    BY <2>1, RemoveOffers, <1>0 DEF Procs, Offer
  <2>3. closed' = TRUE
    BY <1>10 DEF Close
  <2>4. Clients!Shutdown
    BY <2>1, <2>2, <2>3 DEF Clients!Shutdown, Offer
  <2>5. QED
    BY <2>4
<1>11. QED
  <2>1. ASSUME NEW h \in Handlers,
               \/ \E op \in EvictFirst, k \in Keys,
                     lease \in Leases \cup {EmptyLease} :
                     StartCall(h, op, k, lease)
               \/ \E k \in Keys, lease \in Leases \cup {EmptyLease} :
                     StartDisconnect(h, k, lease)
               \/ ListLeases(h) \/ GetClosed(h) \/ GetWait(h)
               \/ GetCreate(h) \/ FactoryFails(h) \/ ReturnError(h)
        PROVE  UNCHANGED <<connections, conn, held, closed>>
    BY <2>1 DEF StartCall, StartDisconnect, ListLeases, GetClosed, GetWait,
       GetCreate, FactoryFails, ReturnError, poolVars
  <2>2. ASSUME JanitorTicks \/ JanitorStops \/ CloseStop \/ CloseReturns \/ Tick
               \/ UNCHANGED vars
        PROVE  UNCHANGED <<connections, conn, held, closed>>
    BY <2>2 DEF JanitorTicks, JanitorStops, CloseStop, CloseReturns, Tick,
       poolVars, vars
  <2>3. Janitor \in Procs /\ Closer \in Procs
    BY DEF Procs
  <2>4. ASSUME NEW h \in Handlers, HandlerStep(h)
        PROVE  Clients!Next \/ UNCHANGED Clients!vars
    BY <1>0, <1>1, <1>2, <1>3, <1>4, <1>6, <1>7, <1>8, <1>9, <2>1, <2>4
       DEF HandlerStep
  <2> HIDE DEF Clients!Next
  <2>5. QED
    BY <1>1, <1>5, <1>6, <1>9, <1>10, <2>1, <2>2, <2>3, <2>4
       DEF Next, JanitorStep, CloserStep

\* The pool implements SharedClients: whatever the interleaving of sessions,
\* requests, evictions and creations, clients are offered one per key and
\* closed only once withdrawn, and only the shutdown withdraws one in use.
THEOREM PoolImplementsSharedClients == Spec => ImplementsSharedClients
<1>1. QED
  BY InitRefines, StepRefines, Invariance, PTL
     DEF Spec, ImplementsSharedClients, Clients!Spec

-----------------------------------------------------------------------------
(* What a step may take out of the pool *)

\* The time that EvictIdle read has passed.
SeenPast == clock \in Nat /\ \A p \in Procs : seen[p] \in Nat /\ seen[p] <= clock

LEMMA StepSeen == IInv /\ SeenPast /\ [Next]_vars => SeenPast'
<1> SUFFICES ASSUME IInv, SeenPast, [Next]_vars
             PROVE  SeenPast'
  OBVIOUS
<1> USE DEF SeenPast
<1>0. seen \in [Procs -> 0..MaxTime] /\ \A h \in Handlers : h \in Procs
  BY DEF IInv, Typed, TypeOK, Procs
<1>1. Janitor \in Procs /\ Closer \in Procs
  BY DEF Procs
<1>2. CASE UNCHANGED <<clock, seen>>
  BY <1>2
<1>3. CASE Tick
  BY <1>3 DEF Tick
<1>4. ASSUME NEW p \in Procs, clock' = clock,
             seen' = [seen EXCEPT ![p] = clock] \/ seen' = [seen EXCEPT ![p] = 0]
      PROVE  SeenPast'
  BY <1>0, <1>4
<1>5. ASSUME NEW p \in Procs, EvictIdle(p)
      PROVE  SeenPast'
  BY <1>4, <1>5 DEF EvictIdle
<1>6. ASSUME NEW p \in Procs, NEW c \in Conns, CloseOne(p, c)
      PROVE  SeenPast'
  BY <1>2, <1>6 DEF CloseOne
<1>7. ASSUME NEW h \in Handlers, NEW op \in EvictFirst, NEW k \in Keys,
             NEW lease \in Leases \cup {EmptyLease}, StartCall(h, op, k, lease)
      PROVE  SeenPast'
  BY <1>0, <1>4, <1>7 DEF StartCall
<1>8. CASE JanitorTicks
  BY <1>1, <1>4, <1>8 DEF JanitorTicks
<1>9. ASSUME NEW h \in Handlers,
             \/ \E k \in Keys, lease \in Leases \cup {EmptyLease} :
                   StartDisconnect(h, k, lease)
             \/ ListLeases(h) \/ GetClosed(h) \/ GetPooled(h) \/ GetWait(h)
             \/ GetCreate(h) \/ FactoryFails(h) \/ ReturnError(h)
             \/ \E c \in Conns : FactorySucceeds(h, c) \/ FactoryTooLate(h, c)
             \/ AcquireExisting(h) \/ Disconnect(h) \/ Release(h)
      PROVE  SeenPast'
  BY <1>2, <1>9 DEF StartDisconnect, ListLeases, GetClosed, GetPooled, GetWait,
     GetCreate, FactoryFails, ReturnError, FactorySucceeds, FactoryTooLate,
     AcquireExisting, Disconnect, Release
<1>10. CASE JanitorStops \/ Close \/ CloseStop \/ CloseReturns \/ UNCHANGED vars
  BY <1>2, <1>10 DEF JanitorStops, Close, CloseStop, CloseReturns, vars
<1>11. QED
  <2> HIDE DEF SeenPast
  <2>1. QED
    BY <1>0, <1>1, <1>3, <1>5, <1>6, <1>7, <1>8, <1>9, <1>10
       DEF Next, HandlerStep, JanitorStep, CloserStep

LEMMA SeenInvariance == Spec => []SeenPast
<1>1. Init => SeenPast
  BY DEF Init, SeenPast
<1>2. QED
  BY <1>1, StepSeen, Invariance, PTL DEF Spec

\* What the open pool loses of key k in a step, and why.
KeptUnless(k) ==
    /\ \A h \in Handlers : held'[h] # connections[k].connection
    /\ \/ clock - connections[k].lastUsed >= IdleTimeout
       \/ \E h \in Handlers : /\ pc[h] = "disconnect"
                              /\ pc'[h] = "closing"
                              /\ connections[k].leases \subseteq {call[h].lease}
       \/ connections[k].leases = {}

\* Only these steps take entries out of an open pool.
LEMMA Removals ==
    ASSUME IInv, [Next]_vars, ~closed',
           NEW k \in Keys, Pooled(k), connections'[k] = None
    PROVE  \/ \E p \in Procs : EvictIdle(p)
           \/ \E h \in Handlers : Disconnect(h) \/ Release(h)
<1>1. connections \in [Keys -> Entries \cup {None}]
      /\ \A h \in Handlers : h \in Procs
  BY DEF IInv, Typed, TypeOK, Procs
<1>2. connections' # connections
  BY DEF Pooled
<1>3. Janitor \in Procs
  BY DEF Procs
<1>4. ASSUME NEW j, NEW e \in Entries, Store(j, e)
      PROVE  FALSE
  BY <1>1, <1>4, PoolConstants DEF Store, Pooled
<1>5. ASSUME NEW h \in Handlers, GetPooled(h) \/ AcquireExisting(h)
      PROVE  FALSE
  <2>1. /\ Pooled(call[h].key) /\ call[h] \in Calls /\ Ours(h) \in Entries
        /\ \/ Store(call[h].key, Joined(Ours(h), call[h]))
           \/ Store(call[h].key, Reused(Ours(h)))
    BY <1>2, <1>5, CallType
       DEF GetPooled, AcquireExisting, IInv, Typed, TypeOK
  <2>2. QED
    BY <1>4, <2>1, EntryUpdateTypes DEF IInv, Typed
<1>6. ASSUME NEW h \in Handlers, NEW c \in Conns, FactorySucceeds(h, c)
      PROVE  FALSE
  BY <1>4, <1>6, NewEntryType DEF FactorySucceeds, IInv, Typed
<1>7. ASSUME NEW h \in Handlers,
             \/ \E op \in EvictFirst, j \in Keys,
                   lease \in Leases \cup {EmptyLease} :
                   StartCall(h, op, j, lease)
             \/ \E j \in Keys, lease \in Leases \cup {EmptyLease} :
                   StartDisconnect(h, j, lease)
             \/ ListLeases(h) \/ GetClosed(h) \/ GetWait(h)
             \/ GetCreate(h) \/ FactoryFails(h) \/ ReturnError(h)
             \/ \E c \in Conns : FactoryTooLate(h, c)
      PROVE  FALSE
  BY <1>2, <1>7 DEF StartCall, StartDisconnect, ListLeases, GetClosed, GetWait,
     GetCreate, FactoryFails, ReturnError, FactoryTooLate, poolVars
<1>8. ASSUME \/ JanitorTicks \/ JanitorStops \/ CloseStop \/ CloseReturns
             \/ Tick \/ UNCHANGED vars \/ Close
             \/ \E p \in Procs, c \in Conns : CloseOne(p, c)
      PROVE  FALSE
  BY <1>2, <1>8 DEF JanitorTicks, JanitorStops, CloseStop, CloseReturns, Tick,
     Close, CloseOne, poolVars, vars
<1>9. QED
  BY <1>1, <1>3, <1>5, <1>6, <1>7, <1>8
     DEF Next, HandlerStep, JanitorStep, CloserStep, Procs

LEMMA StepKeeps ==
    ASSUME IInv, IInv', SeenPast, [Next]_vars, ~closed',
           NEW k \in Keys, Pooled(k), connections'[k] = None
    PROVE  KeptUnless(k)
<1> DEFINE e == connections[k]
<1>0. /\ Typed /\ TypeOK /\ e \in Entries
      /\ \A h \in Handlers : h \in Procs
  BY DEF IInv, Typed, TypeOK, Pooled, Procs
<1>1. ASSUME NEW p \in Procs, NEW K \in SUBSET Keys, Remove(p, K)
      PROVE  k \in K /\ \A h \in Handlers : held'[h] # e.connection
  <2>1. k \in K
    BY <1>1 DEF Remove, Pooled
  <2>2. e.connection \in closing'[p]
    BY <1>0, <1>1, <2>1 DEF Remove, TypeOK
  <2>3. QED
    BY <2>1, <2>2, TakenUnusedNext DEF TakenAreUnused
<1>2. ASSUME NEW j, NEW f \in Entries, Store(j, f)
      PROVE  FALSE
  BY <1>0, <1>2, PoolConstants DEF Store, Pooled, TypeOK
<1>3. ASSUME NEW p \in Procs, EvictIdle(p)
      PROVE  KeptUnless(k)
  <2>1. Remove(p, Idle(seen[p])) /\ Idle(seen[p]) \in SUBSET Keys
    BY <1>3 DEF EvictIdle, Idle
  <2>2. k \in Idle(seen[p]) /\ \A h \in Handlers : held'[h] # e.connection
    BY <1>1, <2>1
  <2>3. seen[p] - e.lastUsed >= IdleTimeout
    BY <2>2 DEF Idle
  <2>4. seen[p] \in Nat /\ clock \in Nat /\ seen[p] <= clock /\ e.lastUsed \in Int
    BY <1>0 DEF SeenPast, Entries
  <2>5. clock - e.lastUsed >= IdleTimeout
    BY <2>3, <2>4, PoolConstants
  <2>6. QED
    BY <2>2, <2>5 DEF KeptUnless
<1>4. ASSUME NEW h \in Handlers, Disconnect(h)
      PROVE  KeptUnless(k)
  <2> DEFINE j == call[h].key
             f == Unleased(Ours(h), call[h].lease)
  <2>1. j \in Keys /\ (Pooled(j) => f \in Entries)
    BY <1>0, <1>4, CallType, EntryUpdateTypes DEF Disconnect
  <2>2. Pooled(j) /\ Left(f)
    BY <1>2, <1>4, <2>1 DEF Disconnect, Pooled
  <2>3. Remove(h, {j}) /\ pc[h] = "disconnect" /\ pc'[h] = "closing"
    BY <1>0, <1>4, <2>2 DEF Disconnect, Goto, TypeOK
  <2>4. {j} \in SUBSET Keys
    BY <2>1
  <2>5. k = j /\ \A g \in Handlers : held'[g] # e.connection
    BY <1>0, <1>1, <2>3, <2>4
  <2>6. e.leases \ {call[h].lease} = {}
    BY <2>2, <2>5 DEF Left, Unleased, Entry, Ours
  <2>7. QED
    BY <2>3, <2>5, <2>6 DEF KeptUnless
<1>5. ASSUME NEW h \in Handlers, Release(h)
      PROVE  KeptUnless(k)
  <2> DEFINE j == call[h].key
             f == Released(Ours(h))
  <2>1. j \in Keys /\ (Pooled(j) => f \in Entries)
    BY <1>0, <1>5, CallType, EntryUpdateTypes DEF Release
  <2>2. Pooled(j) /\ Ours(h).connection = held[h] /\ Finished(f)
    BY <1>2, <1>5, <2>1 DEF Release, Pooled
  <2>3. Remove(h, {j})
    BY <1>5, <2>2 DEF Release
  <2>4. {j} \in SUBSET Keys
    BY <2>1
  <2>5. k = j /\ \A g \in Handlers : held'[g] # e.connection
    BY <1>0, <1>1, <2>3, <2>4
  <2>6. e.leases = {}
    BY <2>2, <2>5 DEF Finished, Released, Entry, Ours
  <2>7. QED
    BY <2>5, <2>6 DEF KeptUnless
<1>6. QED
  BY <1>3, <1>4, <1>5, Removals

\* A client that sessions lease leaves the open pool only when no request uses
\* it, and then only for idleness or with the last session that leases it.
THEOREM LeasedIsKept == Spec => LeasedClientKept
<1>1. IInv /\ IInv' /\ SeenPast /\ [Next]_vars =>
        [\A k \in Keys : Pooled(k) /\ connections'[k] = None /\ ~closed' =>
                             KeptUnless(k)]_vars
  BY StepKeeps
<1>2. QED
  BY <1>1, Invariance, SeenInvariance, PTL
     DEF Spec, LeasedClientKept, KeptUnless

=============================================================================
