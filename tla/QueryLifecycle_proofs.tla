----------------------- MODULE QueryLifecycle_proofs -----------------------
(***************************************************************************)
(* Proofs about the request handlers on the connection pool, for any       *)
(* number of handlers, keys and clients: queries run on open clients,      *)
(* leave nothing behind, and every step is one that Requests allows.       *)
(*                                                                         *)
(* A step of the handlers is a step of the pool or leaves the pool alone,  *)
(* so the pool's inductive invariant holds here too.                       *)
(***************************************************************************)
EXTENDS QueryLifecycle, ConnectionPool_proofs

-----------------------------------------------------------------------------
(* The inductive invariant *)

ServerTyped ==
    /\ at \in [Handlers -> {"idle", "pool", "run", "get", "scan", "reply",
                             "release"}]
    /\ kind \in [Handlers -> Kinds \cup {None}]
    /\ aborted \in [Handlers -> BOOLEAN]
    /\ out \in [Handlers -> Outcomes \cup {None}]
    /\ answer \in [Handlers -> {"none", "pending", "ok", "error"}]
    /\ scanning \in [Handlers -> BOOLEAN]
    /\ strays \in [Conns -> Nat]

\* Where a handler is in its request says where it is in its pool call.
InStep ==
    \A h \in Handlers :
        /\ at[h] = "idle" => pc[h] = "idle" /\ kind[h] = None
        /\ at[h] = "pool" => pc[h] \notin {"idle", "using"}
        /\ at[h] \in {"run", "get", "scan"} => pc[h] = "using"
        /\ at[h] = "reply" => pc[h] \in {"idle", "using"}
        /\ at[h] = "release" => pc[h] \in {"idle", "using", "closing"}

\* A Get is awaited, and a recordset open, only by a handler that is there.
Awaiting ==
    \A h \in Handlers : /\ answer[h] = "none" <=> at[h] # "get"
                        /\ scanning[h] <=> at[h] = "scan"

\* Only a browser that has left makes a query return a cancellation.
Honest == \A h \in Handlers : out[h] = "cancelled" => aborted[h]

LifecycleIInv == IInv /\ ServerTyped /\ InStep /\ Awaiting /\ Honest

-----------------------------------------------------------------------------
(* The pool under the handlers *)

\* Every step of the handlers is a step of the pool, or a stutter of it.
LEMMA PoolPart ==
    ASSUME [LifecycleNext]_allVars
    PROVE  [Next]_vars
<1>1. ASSUME NEW h \in Handlers, NEW request \in Kinds, NEW preset \in BOOLEAN,
             NEW k \in Keys, NEW lease \in Leases \cup {EmptyLease},
             Begin(h, request, preset, k, lease)
      PROVE  [Next]_vars
  <2>1. \/ StartCall(h, AcquireOp(preset), k, lease)
        \/ StartCall(h, "Connect", k, lease)
        \/ StartCall(h, "ActiveLeases", k, lease)
        \/ StartDisconnect(h, k, lease)
    BY <1>1 DEF Begin, Kinds
  <2>2. AcquireOp(preset) \in EvictFirst
    BY DEF AcquireOp, EvictFirst, GetOps
  <2>3. "Connect" \in EvictFirst /\ "ActiveLeases" \in EvictFirst
    BY DEF EvictFirst, GetOps
  <2>4. QED
    BY <2>1, <2>2, <2>3 DEF Next
<1>2. ASSUME NEW h \in Handlers, PoolStep(h)
      PROVE  [Next]_vars
  BY <1>2 DEF PoolStep, Next
<1>3. ASSUME NEW h \in Handlers, ReleaseStep(h)
      PROVE  [Next]_vars
  BY <1>3 DEF ReleaseStep, Next
<1>4. ASSUME NEW h \in Handlers,
             \/ Abort(h) \/ RunRefuses(h) \/ DatabaseStep(h)
             \/ GetStarts(h) \/ ScanStarts(h) \/ GetReturns(h) \/ GetCancelled(h)
             \/ ScanReturns(h, "cancelled") \/ Reply(h) \/ EndRequest(h)
      PROVE  UNCHANGED vars
  BY <1>4 DEF Abort, RunRefuses, DatabaseStep, OptionsReturn, GetAnswers,
     RedisReturns, ScanReturns, GetStarts, ScanStarts, GetReturns, GetCancelled,
     Reply, EndRequest
<1>5. ASSUME NEW c \in Conns, StrayEnds(c)
      PROVE  UNCHANGED vars
  BY <1>5 DEF StrayEnds
<1>6. CASE PoolAlone
  BY <1>6 DEF PoolAlone, Next
<1>7. CASE UNCHANGED allVars
  BY <1>7 DEF allVars
<1>8. QED
  BY <1>1, <1>2, <1>3, <1>4, <1>5, <1>6, <1>7 DEF LifecycleNext, ServerStep

\* The inductive invariant of the pool, and with it all that
\* ConnectionPool_proofs shows, holds under the request handlers.
LEMMA PoolHolds == LifecycleSpec => []IInv
<1>1. LifecycleInit => IInv
  BY InitIInv DEF LifecycleInit
<1>2. IInv /\ [LifecycleNext]_allVars => IInv'
  BY PoolPart, StepTyped, StepRest DEF IInv, Rest
<1>3. QED
  BY <1>1, <1>2, PTL DEF LifecycleSpec

\* How a step of one handler's pool call moves the handlers: it wakes those
\* that wait for its creation, and leaves a call only by its end or by "using".
LEMMA HandlerMoves ==
    ASSUME IInv, NEW h \in Handlers, HandlerStep(h)
    PROVE  /\ \A g \in Handlers \ {h} :
               \/ pc'[g] = pc[g]
               \/ pc[g] = "waiting" /\ pc'[g] \in {"get", "failed"}
           /\ pc[h] = "closing" => pc'[h] \in {"closing", "idle"}
<1> DEFINE Moves == /\ \A g \in Handlers \ {h} :
                        \/ pc'[g] = pc[g]
                        \/ pc[g] = "waiting" /\ pc'[g] \in {"get", "failed"}
                    /\ pc[h] = "closing" => pc'[h] \in {"closing", "idle"}
<1> SUFFICES Moves
  OBVIOUS
<1> USE PoolConstants DEF IInv, Typed, TypeOK, Procs, Goto, Return
<1>1. CASE EvictIdle(h)
  BY <1>1 DEF EvictIdle
<1>2. ASSUME NEW c \in Conns, CloseOne(h, c)
      PROVE  Moves
  BY <1>2 DEF CloseOne
<1>3. CASE ListLeases(h)
  BY <1>3 DEF ListLeases
<1>4. CASE GetClosed(h)
  BY <1>4 DEF GetClosed
<1>5. CASE GetPooled(h)
  BY <1>5 DEF GetPooled
<1>6. CASE GetWait(h)
  BY <1>6 DEF GetWait
<1>7. CASE GetCreate(h)
  BY <1>7 DEF GetCreate
<1>8. CASE FactoryFails(h)
  BY <1>8 DEF FactoryFails, CreationOver
<1>9. ASSUME NEW c \in Conns, FactorySucceeds(h, c)
      PROVE  Moves
  BY <1>9 DEF FactorySucceeds, CreationOver
<1>10. ASSUME NEW c \in Conns, FactoryTooLate(h, c)
      PROVE  Moves
  BY <1>10 DEF FactoryTooLate, CreationOver
<1>11. CASE ReturnError(h)
  BY <1>11 DEF ReturnError
<1>12. CASE AcquireExisting(h)
  BY <1>12 DEF AcquireExisting
<1>13. CASE Disconnect(h)
  BY <1>13 DEF Disconnect
<1> HIDE DEF Moves
<1>14. QED
  BY <1>1, <1>2, <1>3, <1>4, <1>5, <1>6, <1>7, <1>8, <1>9, <1>10, <1>11,
     <1>12, <1>13 DEF HandlerStep

-----------------------------------------------------------------------------
(* The steps of the handlers *)

\* What concerns the handlers alone.
ServerData == ServerTyped /\ Awaiting /\ Honest

\* What handlers know, wait for and return (query, pluginOptions, and the
\* plugins' Run).
LEMMA StepData ==
    IInv /\ InStep /\ ServerData /\ [LifecycleNext]_allVars => ServerData'
<1> SUFFICES ASSUME IInv /\ InStep /\ ServerData, [LifecycleNext]_allVars
             PROVE  ServerData'
  OBVIOUS
<1> USE LifecycleConstants DEF InStep, ServerData, ServerTyped, Awaiting,
     Honest, Queries, Move, Returned, Kinds, Outcomes, runVars, serverVars,
     allVars
<1>1. ASSUME NEW h \in Handlers, NEW request \in Kinds, NEW preset \in BOOLEAN,
             NEW k \in Keys, NEW lease \in Leases \cup {EmptyLease},
             Begin(h, request, preset, k, lease)
      PROVE  ServerData'
  BY <1>1 DEF Begin
<1>2. ASSUME NEW h \in Handlers, PoolStep(h)
      PROVE  ServerData'
  <2>1. Refusal(h) \in {"ok", "error", "notConnected"}
    BY DEF Refusal
  <2>2. QED
    BY <1>2, <2>1 DEF PoolStep
<1>3. ASSUME NEW h \in Handlers, Abort(h)
      PROVE  ServerData'
  BY <1>3 DEF Abort
<1>4. ASSUME NEW h \in Handlers, NEW o \in {"ok", "error"}, OptionsReturn(h, o)
      PROVE  ServerData'
  BY <1>4 DEF OptionsReturn
<1>5. ASSUME NEW h \in Handlers, Reply(h)
      PROVE  ServerData'
  BY <1>5 DEF Reply
<1>6. ASSUME NEW h \in Handlers, ReleaseStep(h)
      PROVE  ServerData'
  BY <1>6 DEF ReleaseStep
<1>7. ASSUME NEW h \in Handlers, EndRequest(h)
      PROVE  ServerData'
  BY <1>7 DEF EndRequest
<1>8. ASSUME NEW h \in Handlers, RunRefuses(h)
      PROVE  ServerData'
  BY <1>8 DEF RunRefuses
<1>9. ASSUME NEW h \in Handlers, NEW o \in {"ok", "error", "cancelled"},
             RedisReturns(h, o)
      PROVE  ServerData'
  BY <1>9 DEF RedisReturns
<1>10. ASSUME NEW h \in Handlers, GetStarts(h)
      PROVE  ServerData'
  BY <1>10 DEF GetStarts
<1>11. ASSUME NEW h \in Handlers, NEW o \in {"ok", "error"}, GetAnswers(h, o)
      PROVE  ServerData'
  BY <1>11 DEF GetAnswers
<1>12. ASSUME NEW h \in Handlers, GetReturns(h)
      PROVE  ServerData'
  BY <1>12 DEF GetReturns
<1>13. ASSUME NEW h \in Handlers, GetCancelled(h)
      PROVE  ServerData'
  <2>1. held[h] \in Conns
    BY <1>13 DEF GetCancelled, IInv, Typed, TypeOK
  <2>2. QED
    BY <1>13, <2>1 DEF GetCancelled
<1>14. ASSUME NEW c \in Conns, StrayEnds(c)
      PROVE  ServerData'
  <2>1. strays[c] \in Nat /\ strays[c] > 0
    BY <1>14 DEF StrayEnds
  <2>2. QED
    BY <1>14, <2>1 DEF StrayEnds
<1>15. ASSUME NEW h \in Handlers, ScanStarts(h)
      PROVE  ServerData'
  BY <1>15 DEF ScanStarts
<1>16. ASSUME NEW h \in Handlers, NEW o \in {"ok", "error", "cancelled"},
             ScanReturns(h, o)
      PROVE  ServerData'
  BY <1>16 DEF ScanReturns
<1>17. CASE PoolAlone
  BY <1>17 DEF PoolAlone
<1>18. CASE UNCHANGED allVars
  BY <1>18 DEF allVars
<1> HIDE DEF InStep, ServerData, ServerTyped, Awaiting, Honest, Queries, Move,
     Returned, Kinds, Outcomes, runVars, serverVars, allVars
<1>19. QED
  BY <1>1, <1>2, <1>3, <1>4, <1>5, <1>6, <1>7, <1>8, <1>9, <1>10, <1>11,
     <1>12, <1>13, <1>14, <1>15, <1>16, <1>17, <1>18 DEF LifecycleNext,
     DatabaseStep, ServerStep

\* The handlers and their pool calls stay in step: a handler goes on when its
\* call is over, and no other goroutine ends its call or takes its client.
LEMMA StepInStep ==
    IInv /\ InStep /\ ServerTyped /\ [LifecycleNext]_allVars => InStep'
<1> SUFFICES ASSUME IInv /\ InStep /\ ServerTyped, [LifecycleNext]_allVars
             PROVE  InStep'
  OBVIOUS
<1> USE LifecycleConstants DEF InStep, ServerTyped, Queries, Move, Returned,
     Kinds, runVars, serverVars, vars, allVars
<1>1. ASSUME NEW h \in Handlers, NEW request \in Kinds, NEW preset \in BOOLEAN,
             NEW k \in Keys, NEW lease \in Leases \cup {EmptyLease},
             Begin(h, request, preset, k, lease)
      PROVE  InStep'
  <2>1. /\ pc'[h] \in {"evict", "disconnect"}
        /\ \A g \in Handlers \ {h} : pc'[g] = pc[g]
    <3>1. PICK label \in {"evict", "disconnect"} : Goto(h, label)
      BY <1>1 DEF Begin, StartCall, StartDisconnect
    <3>2. pc \in [Procs -> Labels] /\ h \in Procs /\ Handlers \subseteq Procs
      BY DEF IInv, Typed, TypeOK, Procs
    <3>3. QED
      BY ONLY <3>1, <3>2 DEF Goto
  <2>2. QED
    BY <1>1, <2>1 DEF Begin
<1>2. ASSUME NEW h \in Handlers, PoolStep(h)
      PROVE  InStep'
  <2>1. HandlerStep(h) /\ at[h] = "pool"
    BY <1>2 DEF PoolStep
  <2>2. \A g \in Handlers \ {h} :
            pc'[g] = pc[g] \/ (pc[g] = "waiting" /\ pc'[g] \in {"get", "failed"})
    BY <2>1, HandlerMoves
  <2>3. QED
    BY <1>2, <2>1, <2>2 DEF PoolStep
<1>3. ASSUME NEW h \in Handlers, Abort(h)
      PROVE  InStep'
  BY <1>3 DEF Abort
<1>4. ASSUME NEW h \in Handlers, NEW o \in {"ok", "error"}, OptionsReturn(h, o)
      PROVE  InStep'
  BY <1>4 DEF OptionsReturn
<1>5. ASSUME NEW h \in Handlers, Reply(h)
      PROVE  InStep'
  BY <1>5 DEF Reply
<1>6. ASSUME NEW h \in Handlers, ReleaseStep(h)
      PROVE  InStep'
  <2>1. CASE Release(h)
    <3>1. /\ pc'[h] \in {"idle", "closing"}
          /\ \A g \in Handlers \ {h} : pc'[g] = pc[g]
      BY <2>1 DEF Release, Goto, Return, IInv, Typed, TypeOK, Procs
    <3>2. QED
      BY <1>6, <3>1 DEF ReleaseStep
  <2>2. CASE HandlerStep(h)
    <3>1. pc[h] = "closing"
      BY <1>6, <2>2, PoolConstants DEF ReleaseStep, HandlerStep, EvictIdle,
           CloseOne, ListLeases,
         GetClosed, GetPooled, GetWait, GetCreate, FactoryFails, FactorySucceeds,
         FactoryTooLate, ReturnError, AcquireExisting, Disconnect
    <3>2. /\ pc'[h] \in {"idle", "closing"}
          /\ \A g \in Handlers \ {h} :
               pc'[g] = pc[g] \/ (pc[g] = "waiting" /\ pc'[g] \in {"get", "failed"})
      BY <2>2, <3>1, HandlerMoves
    <3>3. QED
      BY <1>6, <3>2 DEF ReleaseStep
  <2>3. QED
    BY <1>6, <2>1, <2>2 DEF ReleaseStep
<1>7. ASSUME NEW h \in Handlers, EndRequest(h)
      PROVE  InStep'
  BY <1>7 DEF EndRequest
<1>8. ASSUME NEW h \in Handlers, RunRefuses(h)
      PROVE  InStep'
  BY <1>8 DEF RunRefuses
<1>9. ASSUME NEW h \in Handlers, NEW o \in {"ok", "error", "cancelled"},
             RedisReturns(h, o)
      PROVE  InStep'
  BY <1>9 DEF RedisReturns
<1>10. ASSUME NEW h \in Handlers, GetStarts(h)
      PROVE  InStep'
  BY <1>10 DEF GetStarts
<1>11. ASSUME NEW h \in Handlers, NEW o \in {"ok", "error"}, GetAnswers(h, o)
      PROVE  InStep'
  BY <1>11 DEF GetAnswers
<1>12. ASSUME NEW h \in Handlers, GetReturns(h)
      PROVE  InStep'
  BY <1>12 DEF GetReturns
<1>13. ASSUME NEW h \in Handlers, GetCancelled(h)
      PROVE  InStep'
  BY <1>13 DEF GetCancelled
<1>14. ASSUME NEW c \in Conns, StrayEnds(c)
      PROVE  InStep'
  BY <1>14 DEF StrayEnds
<1>15. ASSUME NEW h \in Handlers, ScanStarts(h)
      PROVE  InStep'
  BY <1>15 DEF ScanStarts
<1>16. ASSUME NEW h \in Handlers, NEW o \in {"ok", "error", "cancelled"},
             ScanReturns(h, o)
      PROVE  InStep'
  BY <1>16 DEF ScanReturns
<1>17. CASE PoolAlone
  <2>1. \A h \in Handlers : pc'[h] = pc[h]
    <3> USE PoolConstants DEF Goto, IInv, Typed, TypeOK, Control, Procs
    <3>1. CASE JanitorTicks \/ EvictIdle(Janitor)
      BY <3>1 DEF JanitorTicks, EvictIdle
    <3>2. ASSUME NEW c \in Conns, CloseOne(Janitor, c) \/ CloseOne(Closer, c)
          PROVE  \A h \in Handlers : pc'[h] = pc[h]
      BY <3>2 DEF CloseOne
    <3>3. CASE CloseStop \/ CloseReturns \/ JanitorStops \/ Close
      BY <3>3 DEF CloseStop, CloseReturns, JanitorStops, Close
    <3>4. CASE Tick
      BY <3>4 DEF Tick
    <3>5. QED
      BY <1>17, <3>1, <3>2, <3>3, <3>4 DEF PoolAlone, JanitorStep, CloserStep
  <2>2. QED
    BY <1>17, <2>1 DEF PoolAlone
<1>18. CASE UNCHANGED allVars
  BY <1>18 DEF allVars
<1> HIDE DEF InStep, ServerTyped, Queries, Move, Returned, Kinds, runVars,
     serverVars, vars, allVars
<1>19. QED
  BY <1>1, <1>2, <1>3, <1>4, <1>5, <1>6, <1>7, <1>8, <1>9, <1>10, <1>11,
     <1>12, <1>13, <1>14, <1>15, <1>16, <1>17, <1>18 DEF LifecycleNext,
     DatabaseStep, ServerStep

\* The server starts with no request and an empty pool.
LEMMA LifecycleInitIInv == LifecycleInit => LifecycleIInv
<1> SUFFICES ASSUME LifecycleInit
             PROVE  LifecycleIInv
  OBVIOUS
<1>1. IInv
  BY InitIInv DEF LifecycleInit
<1>2. ServerTyped /\ Awaiting
  BY DEF LifecycleInit, ServerTyped, Awaiting
<1>3. InStep
  BY DEF LifecycleInit, Init, InStep, Procs
<1>4. Honest
  BY LifecycleConstants DEF LifecycleInit, Honest, Outcomes
<1>5. QED
  BY <1>1, <1>2, <1>3, <1>4 DEF LifecycleIInv

\* The inductive invariant holds in every state.
LEMMA LifecycleInvariance == LifecycleSpec => []LifecycleIInv
<1>1. LifecycleIInv /\ [LifecycleNext]_allVars => LifecycleIInv'
  <2>1. IInv /\ [LifecycleNext]_allVars => IInv'
    BY PoolPart, StepTyped, StepRest DEF IInv, Rest
  <2>2. QED
    BY <2>1, StepData, StepInStep DEF LifecycleIInv, ServerData
<1>2. QED
  BY LifecycleInitIInv, <1>1, PTL DEF LifecycleSpec

-----------------------------------------------------------------------------
(* The theorems *)

\* Until the pool is shut down, a query runs only on an open client that is
\* pooled under its key (acquireConnection, query, pluginOptions).
THEOREM QueriesRunOnOpenClients == LifecycleSpec => []RunsOnOpenClient
<1>1. LifecycleIInv => RunsOnOpenClient
  <2> SUFFICES ASSUME LifecycleIInv, NEW h \in Handlers, InRun(h), ~closed
               PROVE  /\ conn[held[h]] = "open"
                      /\ Pooled(call[h].key)
                      /\ connections[call[h].key].connection = held[h]
    BY DEF RunsOnOpenClient
  <2>1. held[h] # None
    BY DEF LifecycleIInv, InStep, InRun, IInv, Typed, TypeOK
  <2>2. QED
    BY <2>1 DEF LifecycleIInv, IInv, Core, InUseStaysPooled, Ours
<1>2. QED
  BY LifecycleInvariance, <1>1, PTL

\* However a query ends, it leaves no awaited Get, no open recordset, and the
\* right count of requests on its client (release, deferred in query).
THEOREM RequestsLeaveNothing == LifecycleSpec => []NothingLeftBehind
<1>1. LifecycleIInv => NothingLeftBehind
  <2> SUFFICES ASSUME LifecycleIInv
               PROVE  NothingLeftBehind
    OBVIOUS
  <2>1. ASSUME NEW h \in Handlers, at[h] \in {"idle", "pool", "reply", "release"}
        PROVE  answer[h] = "none" /\ ~scanning[h]
    BY <2>1 DEF LifecycleIInv, Awaiting
  <2>2. ASSUME NEW k \in Keys, Pooled(k)
        PROVE  connections[k].active =
                   Cardinality({h \in Handlers :
                                  /\ at[h] # "idle"
                                  /\ held[h] = connections[k].connection})
    <3>1. connections[k].connection \in Conns
      BY <2>2 DEF LifecycleIInv, IInv, Typed, TypeOK, Pooled, Entries
    <3>2. ASSUME NEW h \in Handlers, held[h] = connections[k].connection
          PROVE  at[h] # "idle"
      BY <3>1, <3>2, PoolConstants DEF LifecycleIInv, InStep, IInv, Typed,
           TypeOK
    <3>3. {h \in Handlers : at[h] # "idle" /\ held[h] = connections[k].connection}
              = Users(connections[k].connection)
      BY <3>2 DEF Users
    <3>4. QED
      BY <2>2, <3>3 DEF LifecycleIInv, IInv, Core, ActiveCountsUsers
  <2>3. QED
    BY <2>1, <2>2 DEF NothingLeftBehind
<1>2. QED
  BY LifecycleInvariance, <1>1, PTL

-----------------------------------------------------------------------------
(* The refinement of Requests *)

Phases == [h \in Handlers |-> Phase(h)]

\* Every response has one of the four statuses.
LEMMA StatusType ==
    ASSUME NEW h \in Handlers
    PROVE  ReplyStatus(h) \in {"success", "error", "cancelled", "conflict"}
BY DEF ReplyStatus

\* Steps between the arrival of a request and its answer.
LEMMA WorkStutters ==
    ASSUME ServerTyped, NEW h \in Handlers, NEW label,
           Phase(h) = "pending", label \notin {"idle", "release"},
           Move(h, label) \/ UNCHANGED at, UNCHANGED <<aborted, reply>>
    PROVE  UNCHANGED Service!vars
<1>1. \A g \in Handlers : Phase(g)' = Phase(g)
  BY DEF ServerTyped, Move, Phase
<1>2. QED
  BY <1>1 DEF Service!vars

\* The handlers do only what Requests allows: each request is answered once
\* before it ends, and called cancelled only if the browser has left it.
THEOREM HandlersImplementRequests == LifecycleSpec => ImplementsRequests
<1>1. LifecycleInit => Service!Init
  BY DEF LifecycleInit, Service!Init, Phase
<1>2. LifecycleIInv /\ [LifecycleNext]_allVars => [Service!Next]_(Service!vars)
  <2> SUFFICES ASSUME LifecycleIInv, [LifecycleNext]_allVars
               PROVE  [Service!Next]_(Service!vars)
    OBVIOUS
  <2> USE DEF LifecycleIInv
  <2>1. ASSUME NEW h \in Handlers, NEW request \in Kinds, NEW preset \in BOOLEAN,
               NEW k \in Keys, NEW lease \in Leases \cup {EmptyLease},
               Begin(h, request, preset, k, lease)
        PROVE  [Service!Next]_(Service!vars)
    <3>1. Phases[h] = "idle" /\ Phases' = [Phases EXCEPT ![h] = "pending"]
      BY <2>1 DEF Begin, Move, Phases, Phase, ServerTyped
    <3>2. Service!Arrive(h)
      BY <2>1, <3>1 DEF Begin, Service!Arrive, Phases
    <3>3. QED
      BY <3>2 DEF Service!Next
  <2>2. ASSUME NEW h \in Handlers, PoolStep(h)
        PROVE  [Service!Next]_(Service!vars)
    <3>1. /\ Phase(h) = "pending" /\ UNCHANGED <<aborted, reply>>
          /\ \E label \in {"run", "get", "scan", "reply"} : Move(h, label) \/ UNCHANGED at
      BY <2>2 DEF PoolStep, Phase, Returned, Queries
    <3>2. QED
      BY <3>1, WorkStutters
  <2>3. ASSUME NEW h \in Handlers, Abort(h)
        PROVE  [Service!Next]_(Service!vars)
    <3>1. Phase(h) # "idle" /\ Phases' = Phases
      BY <2>3, LifecycleConstants DEF Abort, Phase, Phases, InStep,
           ServerTyped, Kinds
    <3>2. Service!Abort(h)
      BY <2>3, <3>1 DEF Abort, Service!Abort, Phases
    <3>3. QED
      BY <3>2 DEF Service!Next
  <2>4. ASSUME NEW h \in Handlers, NEW o \in {"ok", "error"}, OptionsReturn(h, o)
        PROVE  [Service!Next]_(Service!vars)
    <3>1. /\ Phase(h) = "pending" /\ UNCHANGED <<aborted, reply>>
          /\ \E label \in {"run", "get", "scan", "reply"} : Move(h, label) \/ UNCHANGED at
      BY <2>4 DEF OptionsReturn, Phase, Returned, Queries
    <3>2. QED
      BY <3>1, WorkStutters
  <2>5. ASSUME NEW h \in Handlers, Reply(h)
        PROVE  [Service!Next]_(Service!vars)
    <3>1. Phase(h) = "pending" /\ Phases' = [Phases EXCEPT ![h] = "answered"]
      BY <2>5 DEF Reply, Move, Phases, Phase, ServerTyped
    <3>2. ReplyStatus(h) = "cancelled" => aborted[h]
      BY DEF ReplyStatus, RunError, Honest
    <3>3. Service!Answer(h, ReplyStatus(h))
      BY <2>5, <3>1, <3>2 DEF Reply, Service!Answer, Phases
    <3>4. QED
      BY <3>3, StatusType DEF Service!Next
  <2>6. ASSUME NEW h \in Handlers, ReleaseStep(h)
        PROVE  [Service!Next]_(Service!vars)
    <3>1. UNCHANGED <<at, aborted, reply>>
      BY <2>6 DEF ReleaseStep, serverVars
    <3>2. QED
      BY <3>1 DEF Service!vars, Phase
  <2>7. ASSUME NEW h \in Handlers, EndRequest(h)
        PROVE  [Service!Next]_(Service!vars)
    <3>1. Phase(h) = "answered" /\ Phases' = [Phases EXCEPT ![h] = "idle"]
      BY <2>7 DEF EndRequest, Move, Phases, Phase, ServerTyped
    <3>2. Service!End(h)
      BY <2>7, <3>1 DEF EndRequest, Service!End, Phases
    <3>3. QED
      BY <3>2 DEF Service!Next
  <2>8. ASSUME NEW h \in Handlers, RunRefuses(h)
        PROVE  [Service!Next]_(Service!vars)
    <3>1. /\ Phase(h) = "pending" /\ UNCHANGED <<aborted, reply>>
          /\ \E label \in {"run", "get", "scan", "reply"} : Move(h, label) \/ UNCHANGED at
      BY <2>8 DEF RunRefuses, Phase, Returned, Queries
    <3>2. QED
      BY <3>1, WorkStutters
  <2>9. ASSUME NEW h \in Handlers, NEW o \in {"ok", "error", "cancelled"},
               RedisReturns(h, o)
        PROVE  [Service!Next]_(Service!vars)
    <3>1. /\ Phase(h) = "pending" /\ UNCHANGED <<aborted, reply>>
          /\ \E label \in {"run", "get", "scan", "reply"} : Move(h, label) \/ UNCHANGED at
      BY <2>9 DEF RedisReturns, Phase, Returned, Queries
    <3>2. QED
      BY <3>1, WorkStutters
  <2>10. ASSUME NEW h \in Handlers, GetStarts(h)
        PROVE  [Service!Next]_(Service!vars)
    <3>1. /\ Phase(h) = "pending" /\ UNCHANGED <<aborted, reply>>
          /\ \E label \in {"run", "get", "scan", "reply"} : Move(h, label) \/ UNCHANGED at
      BY <2>10 DEF GetStarts, Phase, Returned, Queries
    <3>2. QED
      BY <3>1, WorkStutters
  <2>11. ASSUME NEW h \in Handlers, NEW o \in {"ok", "error"}, GetAnswers(h, o)
        PROVE  [Service!Next]_(Service!vars)
    <3>1. UNCHANGED <<at, aborted, reply>>
      BY <2>11 DEF GetAnswers, serverVars
    <3>2. QED
      BY <3>1 DEF Service!vars, Phase
  <2>12. ASSUME NEW h \in Handlers, GetReturns(h)
        PROVE  [Service!Next]_(Service!vars)
    <3>1. /\ Phase(h) = "pending" /\ UNCHANGED <<aborted, reply>>
          /\ \E label \in {"run", "get", "scan", "reply"} : Move(h, label) \/ UNCHANGED at
      BY <2>12 DEF GetReturns, Phase, Returned, Queries
    <3>2. QED
      BY <3>1, WorkStutters
  <2>13. ASSUME NEW h \in Handlers, GetCancelled(h)
        PROVE  [Service!Next]_(Service!vars)
    <3>1. /\ Phase(h) = "pending" /\ UNCHANGED <<aborted, reply>>
          /\ \E label \in {"run", "get", "scan", "reply"} : Move(h, label) \/ UNCHANGED at
      BY <2>13 DEF GetCancelled, Phase, Returned, Queries
    <3>2. QED
      BY <3>1, WorkStutters
  <2>14. ASSUME NEW c \in Conns, StrayEnds(c)
        PROVE  [Service!Next]_(Service!vars)
    <3>1. UNCHANGED <<at, aborted, reply>>
      BY <2>14 DEF StrayEnds, serverVars
    <3>2. QED
      BY <3>1 DEF Service!vars, Phase
  <2>15. ASSUME NEW h \in Handlers, ScanStarts(h)
        PROVE  [Service!Next]_(Service!vars)
    <3>1. /\ Phase(h) = "pending" /\ UNCHANGED <<aborted, reply>>
          /\ \E label \in {"run", "get", "scan", "reply"} : Move(h, label) \/ UNCHANGED at
      BY <2>15 DEF ScanStarts, Phase, Returned, Queries
    <3>2. QED
      BY <3>1, WorkStutters
  <2>16. ASSUME NEW h \in Handlers, NEW o \in {"ok", "error", "cancelled"},
               ScanReturns(h, o)
        PROVE  [Service!Next]_(Service!vars)
    <3>1. /\ Phase(h) = "pending" /\ UNCHANGED <<aborted, reply>>
          /\ \E label \in {"run", "get", "scan", "reply"} : Move(h, label) \/ UNCHANGED at
      BY <2>16 DEF ScanReturns, Phase, Returned, Queries
    <3>2. QED
      BY <3>1, WorkStutters
  <2>17. CASE PoolAlone
    <3>1. UNCHANGED <<at, aborted, reply>>
      BY <2>17 DEF PoolAlone, serverVars
    <3>2. QED
      BY <3>1 DEF Service!vars, Phase
  <2>18. CASE UNCHANGED allVars
    <3>1. UNCHANGED <<at, aborted, reply>>
      BY <2>18 DEF allVars, serverVars
    <3>2. QED
      BY <3>1 DEF Service!vars, Phase
  <2>19. QED
    BY <2>1, <2>2, <2>3, <2>4, <2>5, <2>6, <2>7, <2>8, <2>9, <2>10,
       <2>11, <2>12, <2>13, <2>14, <2>15, <2>16, <2>17, <2>18 DEF
       LifecycleNext, DatabaseStep, ServerStep
<1>3. QED
  BY <1>1, <1>2, LifecycleInvariance, PTL DEF LifecycleSpec, ImplementsRequests,
     Service!Spec
=============================================================================
