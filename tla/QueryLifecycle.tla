--------------------------- MODULE QueryLifecycle ---------------------------
(***************************************************************************)
(* The request handlers of src/server.go and src/connection_handlers.go on *)
(* the ConnectionPool, and what the plugins do with the client a query     *)
(* holds: the Aerospike plugin's Get (on a goroutine of its own) and Scan, *)
(* and the Redis plugin's Execute.  The browser may abort any request.     *)
(*                                                                         *)
(* Requests refused before they reach the pool (method, form, unknown      *)
(* tool, bad address) change nothing and are left out.  Databases, and the *)
(* libraries that talk to them, answer when they like.                     *)
(***************************************************************************)
EXTENDS ConnectionPool

CONSTANTS
    Tool,       \* the plugin of each key: connectionKey begins with its name
    MaxStrays   \* bound of the Gets in progress on one client, abandoned or not

Kinds == {"query", "options", "connect", "disconnect", "status"}
Outcomes == {"ok", "error", "cancelled", "notConnected"}

ASSUME LifecycleConstants ==
    /\ Tool \in [Keys -> {"aerospike", "redis"}]
    /\ MaxStrays \in Nat
    /\ None \notin Kinds \cup Outcomes

VARIABLES
    at,        \* where each handler is in its request
    kind,      \* the request it serves
    aborted,   \* is request.Context() cancelled?
    out,       \* what the pool or the plugin returned to it
    answer,    \* the channel `done` of its Get: "none", "pending" or the answer
    scanning,  \* has it a recordset that is not closed?
    strays,    \* goroutines on each client that a cancelled Get left behind
    reply      \* the status of the response it has written

runVars == <<answer, scanning, strays>>
serverVars == <<at, kind, aborted, out, answer, scanning, strays, reply>>
allVars == <<vars, serverVars>>

Move(h, label) == at' = [at EXCEPT ![h] = label]
Returned(h, o) == Move(h, "reply") /\ out' = [out EXCEPT ![h] = o]

LifecycleInit ==
    /\ Init
    /\ at = [h \in Handlers |-> "idle"]
    /\ kind = [h \in Handlers |-> None]
    /\ aborted = [h \in Handlers |-> FALSE]
    /\ out = [h \in Handlers |-> None]
    /\ answer = [h \in Handlers |-> "none"]
    /\ scanning = [h \in Handlers |-> FALSE]
    /\ strays = [c \in Conns |-> 0]
    /\ reply = [h \in Handlers |-> None]

-----------------------------------------------------------------------------
(* The handlers *)

\* acquireConnection: a preset has to be connected already.
AcquireOp(preset) == IF preset THEN "AcquireExisting" ELSE "Acquire"

\* A request arrives, and its handler enters the pool.
Begin(h, request, preset, k, lease) ==
    /\ at[h] = "idle"
    /\ CASE request \in {"query", "options"} ->
              StartCall(h, AcquireOp(preset), k, lease)
         [] request = "connect"    -> StartCall(h, "Connect", k, lease)
         [] request = "status"     -> StartCall(h, "ActiveLeases", k, lease)
         [] request = "disconnect" -> StartDisconnect(h, k, lease)
    /\ Move(h, "pool")
    /\ kind' = [kind EXCEPT ![h] = request]
    /\ UNCHANGED <<aborted, out, runVars, reply>>

\* What a pool call that hands out no client returns with its last step.
\* Disconnect and ActiveLeases return no error, closed pool or not; Connect has
\* found its entry in get.
Refusal(h) ==
    IF call[h].op \in {"Disconnect", "ActiveLeases"} THEN "ok"
    ELSE IF closed THEN "error"
    ELSE CASE pc[h] = "existing" -> "notConnected"
           [] pc[h] = "get"      -> "ok"
           [] OTHER              -> "error"

\* A step of the pool call; with the last one the handler goes on.
PoolStep(h) ==
    /\ at[h] = "pool"
    /\ HandlerStep(h)
    /\ CASE pc'[h] = "using" -> Move(h, "run") /\ UNCHANGED out
         [] pc'[h] = "idle"  -> Returned(h, Refusal(h))
         [] OTHER            -> UNCHANGED <<at, out>>
    /\ UNCHANGED <<kind, aborted, runVars, reply>>

\* The browser aborts the request or loses the connection; only query looks
\* at its request's context.
Abort(h) ==
    /\ kind[h] = "query"
    /\ ~aborted[h]
    /\ aborted' = [aborted EXCEPT ![h] = TRUE]
    /\ UNCHANGED <<vars, at, kind, out, runVars, reply>>

\* pluginOptions asks the client, whatever the browser does meanwhile; the
\* Redis plugin has no options.
OptionsReturn(h, o) ==
    /\ at[h] = "run"
    /\ kind[h] = "options"
    /\ o = "ok" => Tool[call[h].key] = "aerospike"
    /\ Returned(h, o)
    /\ UNCHANGED <<vars, kind, aborted, runVars, reply>>

\* Aerospike: "%v" hides context.Canceled from errors.Is in the handler.
RunError(h) == IF out[h] = "cancelled" /\ Tool[call[h].key] = "aerospike"
               THEN "error" ELSE out[h]

\* The response, by query, pluginOptions, connect, disconnect and
\* connectionStatus.
ReplyStatus(h) ==
    CASE kind[h] = "options" /\ out[h] = "notConnected" -> "conflict"
      [] out[h] = "ok"                                  -> "success"
      [] kind[h] = "query" /\ RunError(h) = "cancelled" -> "cancelled"
      [] OTHER                                          -> "error"

FaultyReply(h) ==          \* takes every failure for a cancellation
    /\ at[h] = "reply"
    /\ reply' = [reply EXCEPT ![h] = IF out[h] = "error" THEN "cancelled"
                                     ELSE ReplyStatus(h)]
    /\ Move(h, "release")
    /\ UNCHANGED <<vars, kind, aborted, out, runVars>>
Reply(h) ==
    /\ at[h] = "reply"
    /\ reply' = [reply EXCEPT ![h] = ReplyStatus(h)]
    /\ Move(h, "release")
    /\ UNCHANGED <<vars, kind, aborted, out, runVars>>

\* The deferred release, which may have to close the client, and the end.
ReleaseStep(h) ==
    /\ at[h] = "release"
    /\ pc[h] # "idle"
    /\ Release(h) \/ HandlerStep(h)
    /\ UNCHANGED serverVars
EndRequest(h) ==
    /\ at[h] = "release"
    /\ pc[h] = "idle"
    /\ Move(h, "idle")
    /\ kind' = [kind EXCEPT ![h] = None]
    /\ aborted' = [aborted EXCEPT ![h] = FALSE]
    /\ out' = [out EXCEPT ![h] = None]
    /\ reply' = [reply EXCEPT ![h] = None]
    /\ UNCHANGED <<vars, runVars>>

-----------------------------------------------------------------------------
(* Run of the plugins *)

Queries(h, tool) ==
    /\ at[h] = "run"
    /\ kind[h] = "query"
    /\ Tool[call[h].key] = tool

\* The command or the format is refused before the database is asked, or the
\* scan cannot be started.
RunRefuses(h) ==
    /\ at[h] = "run"
    /\ kind[h] = "query"
    /\ Returned(h, "error")
    /\ UNCHANGED <<vars, kind, aborted, runVars, reply>>

\* Redis: Execute or BROWSE, in the hands of the library until it returns.
RedisReturns(h, o) ==
    /\ Queries(h, "redis")
    /\ o = "cancelled" => aborted[h]
    /\ Returned(h, o)
    /\ UNCHANGED <<vars, kind, aborted, runVars, reply>>

\* Goroutines that ask the database for a record on client c.
Gets(c) == strays[c] + Cardinality({h \in Handlers : /\ held[h] = c
                                                    /\ answer[h] = "pending"})

\* Get: a goroutine asks the database while the handler selects.
GetStarts(h) ==
    /\ Queries(h, "aerospike")
    /\ Gets(held[h]) < MaxStrays
    /\ answer' = [answer EXCEPT ![h] = "pending"]
    /\ Move(h, "get")
    /\ UNCHANGED <<vars, kind, aborted, out, scanning, strays, reply>>

\* The goroutine sends its answer; the channel holds it.
GetAnswers(h, o) ==
    /\ answer[h] = "pending"
    /\ answer' = [answer EXCEPT ![h] = o]
    /\ UNCHANGED <<vars, at, kind, aborted, out, scanning, strays, reply>>

FaultyGetReturns(h) ==     \* nobody sends an error to the channel
    /\ at[h] = "get"
    /\ answer[h] = "ok"
    /\ Returned(h, answer[h])
    /\ answer' = [answer EXCEPT ![h] = "none"]
    /\ UNCHANGED <<vars, kind, aborted, scanning, strays, reply>>
GetReturns(h) ==
    /\ at[h] = "get"
    /\ answer[h] # "pending"
    /\ Returned(h, answer[h])
    /\ answer' = [answer EXCEPT ![h] = "none"]
    /\ UNCHANGED <<vars, kind, aborted, scanning, strays, reply>>

\* select takes ctx.Done(), perhaps with an answer in the channel; else the
\* goroutine stays behind.
FaultyGetCancelled(h) ==   \* waits for the goroutine all the same
    /\ at[h] = "get"
    /\ aborted[h]
    /\ answer[h] # "pending"
    /\ Returned(h, "cancelled")
    /\ answer' = [answer EXCEPT ![h] = "none"]
    /\ UNCHANGED <<vars, kind, aborted, scanning, strays, reply>>
GetCancelled(h) ==
    /\ at[h] = "get"
    /\ aborted[h]
    /\ Returned(h, "cancelled")
    /\ answer' = [answer EXCEPT ![h] = "none"]
    /\ strays' = [strays EXCEPT ![held[h]] =
                    IF answer[h] = "pending" THEN @ + 1 ELSE @]
    /\ UNCHANGED <<vars, kind, aborted, scanning, reply>>

\* Such a goroutine has its answer, or its policy times out; nobody receives
\* what it sends, but the channel has room for it.
StrayEnds(c) ==
    /\ strays[c] > 0
    /\ strays' = [strays EXCEPT ![c] = @ - 1]
    /\ UNCHANGED <<vars, at, kind, aborted, out, answer, scanning, reply>>

\* Scan: collectRecords until the recordset ends, fails, or the browser leaves.
ScanStarts(h) ==
    /\ Queries(h, "aerospike")
    /\ scanning' = [scanning EXCEPT ![h] = TRUE]
    /\ Move(h, "scan")
    /\ UNCHANGED <<vars, kind, aborted, out, answer, strays, reply>>

FaultyScanReturns(h, o) ==    \* returns a record's error without Close
    /\ at[h] = "scan"
    /\ Returned(h, o)
    /\ scanning' = [scanning EXCEPT ![h] = o = "error"]
    /\ UNCHANGED <<vars, kind, aborted, answer, strays, reply>>
ScanReturns(h, o) ==
    /\ at[h] = "scan"
    /\ o = "cancelled" => aborted[h]
    /\ Returned(h, o)
    /\ scanning' = [scanning EXCEPT ![h] = FALSE]
    /\ UNCHANGED <<vars, kind, aborted, answer, strays, reply>>

-----------------------------------------------------------------------------

DatabaseStep(h) ==
    \/ \E o \in {"ok", "error"} : OptionsReturn(h, o) \/ GetAnswers(h, o)
    \/ \E o \in {"ok", "error", "cancelled"} : RedisReturns(h, o)
    \/ \E o \in {"ok", "error"} : ScanReturns(h, o)

\* What a handler does next without waiting for a database.
ServerStep(h) ==
    \/ PoolStep(h)
    \/ GetStarts(h)
    \/ ScanStarts(h)
    \/ GetReturns(h)
    \/ GetCancelled(h)
    \/ ScanReturns(h, "cancelled")
    \/ Reply(h)
    \/ ReleaseStep(h)
    \/ EndRequest(h)

PoolAlone == (JanitorStep \/ JanitorStops \/ Close \/ CloserStep \/ Tick)
             /\ UNCHANGED serverVars

LifecycleNext ==
    \/ \E h \in Handlers :
         \/ \E request \in Kinds, preset \in BOOLEAN, k \in Keys,
               lease \in Leases \cup {EmptyLease} :
              Begin(h, request, preset, k, lease)
         \/ Abort(h)
         \/ RunRefuses(h)
         \/ DatabaseStep(h)
         \/ ServerStep(h)
    \/ \E c \in Conns : StrayEnds(c)
    \/ PoolAlone

LifecycleSpec == LifecycleInit /\ [][LifecycleNext]_allVars

\* Handlers get the processor.
ServerFairness == \A h \in Handlers : WF_allVars(ServerStep(h))

\* A database answers a query that is still waited for, or times out (10 s in
\* both plugins).  Of an Aerospike query whose browser has left nothing is
\* assumed; a Redis call is in the hands of its library, whose timeouts end it
\* whether the browser has left or not.
Awaited(h) == aborted[h] => Tool[call[h].key] = "redis"
DatabaseFairness ==
    \A h \in Handlers : WF_allVars(DatabaseStep(h) /\ Awaited(h))

FairLifecycle == LifecycleSpec /\ ServerFairness /\ DatabaseFairness

-----------------------------------------------------------------------------
(* Properties *)

InRun(h) == at[h] \in {"run", "get", "scan"}

\* Until the pool is shut down, whatever a query that is still waited for does
\* with its client, it does while the client is open and pooled under its key:
\* only a goroutine that a cancelled Get left behind can use a closed client.
RunsOnOpenClient ==
    \A h \in Handlers : InRun(h) /\ ~closed =>
        /\ conn[held[h]] = "open"
        /\ Pooled(call[h].key)
        /\ connections[call[h].key].connection = held[h]

\* A request that is over has left nothing behind: its Get is not awaited, its
\* scan is closed, and its client's count of requests no longer includes it.
NothingLeftBehind ==
    /\ \A h \in Handlers : at[h] \in {"idle", "pool", "reply", "release"} =>
           answer[h] = "none" /\ ~scanning[h]
    /\ \A k \in Keys : Pooled(k) =>
           connections[k].active =
               Cardinality({h \in Handlers :
                              /\ at[h] # "idle"
                              /\ held[h] = connections[k].connection})

\* The handlers keep the promise of Requests: every request is answered once,
\* before it ends, and called cancelled only if its browser has left.
Phase(h) == CASE at[h] = "idle"    -> "idle"
              [] at[h] = "release" -> "answered"
              [] OTHER             -> "pending"
Service == INSTANCE Requests WITH
    Results <- {"success", "error", "cancelled", "conflict"},
    phase <- [h \in Handlers |-> Phase(h)],
    gone <- aborted,
    result <- reply
ImplementsRequests == Service!Spec

\* A request that has its client, or never asked for one, ends: no answer of a
\* plugin, no response and no release is waited for in vain.  The loop of get is
\* left out, in which clients that are made and go may overtake a call for ever
\* (CallsEnd in ConnectionPool).
RequestsEnd ==
    \A h \in Handlers : (at[h] # "idle" /\ ~Overtakable(h)) ~> at[h] = "idle"

\* A query that the browser has left ends without the database's help.
AbortEndsQuery ==
    \A h \in Handlers :
        (at[h] \in {"get", "scan"} /\ aborted[h]) ~> at[h] = "idle"

\* TestCancelAbortsRunningQuery (src/main_test.go:1276): the response to a query
\* that ended because the browser left is marked cancelled.
CancelReported ==
    \A h \in Handlers :
        at[h] = "release" /\ kind[h] = "query" /\ out[h] = "cancelled" =>
            reply[h] = "cancelled"
=============================================================================
