---------------------------- MODULE ConnectionKeys ----------------------------
(***************************************************************************)
(* Which pooled client a request gets: the parsing of its seeds            *)
(* (src/plugins/types.go), connectionKey and requestLease                  *)
(* (src/request.go), the handlers that connect, query and disconnect       *)
(* (src/connection_handlers.go) and the clients the plugins make.  Requests*)
(* write the same connection in many ways.  What the pool does under its   *)
(* mutex is one step here; ConnectionPool shows how it does it.            *)
(***************************************************************************)
EXTENDS Integers, Sequences, FiniteSets

CONSTANTS
    Requests,   \* tool, seeds, port, mode, db, id, lease
    PresetIDs,  \* the connection IDs that begin with "preset:"
    Fold,       \* a text without surrounding blanks, in lower case
    Number,     \* what strconv.Atoi makes of a text, or None
    MaxKeys,    \* bound: connections in the pool
    None

ASSUME FoldIsIdempotent == \A t \in DOMAIN Fold : Fold[Fold[t]] = Fold[t]
ASSUME NumberOfZero == Number["0"] = 0
ASSUME SeedsAreFinite == \A r \in Requests : IsFiniteSet(DOMAIN r.seeds)

VARIABLES
    pool,       \* by key: the client, its leases and the request that made it
    answer      \* the last answer: op, request, status, client

keysVars == <<pool, answer>>

-----------------------------------------------------------------------------

IsPort(p) == p \in 1..65535

\* The seeds of a request, each with its own port or with the request's.
Addresses(r) ==
    [i \in DOMAIN r.seeds |->
        [host |-> Fold[r.seeds[i].host],
         port |-> IF r.seeds[i].port = None THEN r.port ELSE r.seeds[i].port]]

ParseSeeds(r) ==
    /\ IsPort(r.port)
    /\ r.seeds # <<>>
    /\ \A i \in DOMAIN r.seeds :
           r.seeds[i].host # "" /\ IsPort(Addresses(r)[i].port)

Default(text, default) == IF Fold[text] = "" THEN default ELSE Fold[text]

\* The labels are sorted and joined, so that a key tells how often each occurs.
\* Texts hold no comma, colon or equals sign of their own.
FaultyConnectionKey(r) ==  \* forgets that a DB index selects another database
    LET labels == Addresses(r)
    IN [tool   |-> r.tool,
        labels |-> {<<l, Cardinality({i \in DOMAIN labels : labels[i] = l})>> :
                       l \in {labels[i] : i \in DOMAIN labels}},
        mode   |-> IF r.tool = "redis" THEN Default(r.mode, "single") ELSE "",
        db     |-> ""]
FaultyLabels(r) ==         \* joins the labels in the order they come
    [tool   |-> r.tool,
     labels |-> Addresses(r),
     mode   |-> IF r.tool = "redis" THEN Default(r.mode, "single") ELSE "",
     db     |-> IF r.tool = "redis" THEN Default(r.db, "0") ELSE ""]
ConnectionKey(r) ==
    LET labels == Addresses(r)
    IN [tool   |-> r.tool,
        labels |-> {<<l, Cardinality({i \in DOMAIN labels : labels[i] = l})>> :
                       l \in {labels[i] : i \in DOMAIN labels}},
        mode   |-> IF r.tool = "redis" THEN Default(r.mode, "single") ELSE "",
        db     |-> IF r.tool = "redis" THEN Default(r.db, "0") ELSE ""]

RequestLease(r) == IF r.lease # None THEN r.lease ELSE r.id

RedisDB(r) == IF Fold[r.db] = "" THEN 0 ELSE Number[Fold[r.db]]

\* The client a plugin makes for a request, or None if it refuses to.  The Redis
\* library makes a client for a cluster, which has no databases, of several addresses
\* too, whatever the mode.
Several(r) == \E i, j \in DOMAIN r.seeds : i # j
ClientOf(r) ==
    LET servers == {Addresses(r)[i] : i \in DOMAIN r.seeds}
        cluster == Fold[r.mode] = "cluster"
    IN CASE ~ParseSeeds(r) -> None
         [] r.tool # "redis" -> [servers |-> servers]
         [] r.tool = "redis" /\ (RedisDB(r) \notin Nat \/ (cluster /\ RedisDB(r) # 0)) -> None
         [] OTHER -> IF cluster \/ Several(r)
                     THEN [servers |-> servers, cluster |-> TRUE, db |-> 0]
                     ELSE [servers |-> servers, cluster |-> FALSE, db |-> RedisDB(r)]

-----------------------------------------------------------------------------

KeysInit ==
    /\ pool = <<>>
    /\ answer = None

Answer(op, r, status, client) ==
    answer' = [op |-> op, request |-> r, status |-> status, client |-> client]

Put(k, entry) == pool' = [j \in DOMAIN pool \cup {k} |->
                             IF j = k THEN entry ELSE pool[j]]
Drop(k) == pool' = [j \in DOMAIN pool \ {k} |-> pool[j]]

\* The handlers answer a request whose seeds do not parse at once.
Refuse(op, r) ==
    /\ ~ParseSeeds(r)
    /\ Answer(op, r, "bad request", None)
    /\ UNCHANGED pool

\* connectionPool.get: the pooled client, which the lease then holds, or a new
\* one, unless the plugin refuses or no server answers.
Get(op, r) ==
    LET k == ConnectionKey(r)
    IN /\ ParseSeeds(r)
       /\ \/ /\ k \in DOMAIN pool
             /\ Put(k, [pool[k] EXCEPT !.leases = @ \cup {RequestLease(r)}])
             /\ Answer(op, r, "served", pool[k].client)
          \/ /\ k \notin DOMAIN pool
             /\ ClientOf(r) # None
             /\ Cardinality(DOMAIN pool) < MaxKeys
             /\ Put(k, [client |-> ClientOf(r), leases |-> {RequestLease(r)},
                        request |-> r])
             /\ Answer(op, r, "served", ClientOf(r))
          \/ /\ k \notin DOMAIN pool
             /\ Answer(op, r, "failed", None)
             /\ UNCHANGED pool

Connect(r) == Refuse("connect", r) \/ Get("connect", r)

\* A query or a request for options: only what names a preset must have been
\* connected before.
AcquireExisting(r) ==
    LET k == ConnectionKey(r)
        found == k \in DOMAIN pool /\ RequestLease(r) \in pool[k].leases
    IN /\ ParseSeeds(r)
       /\ Answer("query", r, IF found THEN "served" ELSE "not connected",
                 IF found THEN pool[k].client ELSE None)
       /\ UNCHANGED pool

AcquireConnection(r) ==
    \/ Refuse("query", r)
    \/ r.id \in PresetIDs /\ AcquireExisting(r)
    \/ r.id \notin PresetIDs /\ Get("query", r)

\* A connection nobody holds any more is closed (queries that still run keep
\* it a little longer: see ConnectionPool).
Release(r) ==
    LET k == ConnectionKey(r)
        left == pool[k].leases \ {RequestLease(r)}
    IN IF k \notin DOMAIN pool THEN UNCHANGED pool
       ELSE IF left = {} THEN Drop(k)
       ELSE Put(k, [pool[k] EXCEPT !.leases = left])

Disconnect(r) ==
    \/ Refuse("disconnect", r)
    \/ /\ ParseSeeds(r)
       /\ Release(r)
       /\ Answer("disconnect", r, "disconnected", None)

\* EvictIdle
Evict(k) ==
    /\ Drop(k)
    /\ answer' = None

KeysNext ==
    \/ \E r \in Requests : Connect(r) \/ AcquireConnection(r) \/ Disconnect(r)
    \/ \E k \in DOMAIN pool : Evict(k)

KeysSpec == KeysInit /\ [][KeysNext]_keysVars

-----------------------------------------------------------------------------
(* Properties *)

\* Do two requests write the same connection, but for the order of the seeds,
\* the letter case, blanks, and defaults that are left out?
SameText(s, t, default) ==
    LET same == {Fold[s], Fold[t]}
    IN Cardinality(same) = 1 \/ same = {"", default}
SameSeed(q, i, r, j) ==
    /\ Fold[q.seeds[i].host] = Fold[r.seeds[j].host]
    /\ (IF q.seeds[i].port = None THEN q.port ELSE q.seeds[i].port)
           = (IF r.seeds[j].port = None THEN r.port ELSE r.seeds[j].port)
Alike(q, r) ==
    /\ q.tool = r.tool
    /\ \E match \in [DOMAIN q.seeds -> DOMAIN r.seeds] :
           /\ \A i \in DOMAIN q.seeds : SameSeed(q, i, r, match[i])
           /\ \A j \in DOMAIN r.seeds :
                  Cardinality({i \in DOMAIN q.seeds : match[i] = j}) = 1
    /\ q.tool = "redis" => /\ SameText(q.mode, r.mode, "single")
                           /\ SameText(q.db, r.db, "0")

\* A pooled client that somebody else connected is the client that the
\* plugin would have made for this request: the same servers, the same kind of
\* client, the same database (comment of connectionKey).
ServedAsAsked ==
    answer # None /\ answer.status = "served" =>
        answer.client = ClientOf(answer.request)

\* A query on a preset is served exactly if its session connected it before
\* and still holds it, however either request is written.
ConnectedMeansFound ==
    [][ /\ answer' # None /\ answer' # answer
        /\ answer'.op = "query" /\ answer'.request.id \in PresetIDs
        /\ ParseSeeds(answer'.request)
        => ( answer'.status = "served"
             <=> \E k \in DOMAIN pool :
                     /\ Alike(answer'.request, pool[k].request)
                     /\ RequestLease(answer'.request) \in pool[k].leases ) ]_keysVars

\* Nobody loses a connection because somebody else disconnects: a lease ends
\* with the idle timeout or by a request of its own for that connection.
LeasesAreKept ==
    [][ \A k \in DOMAIN pool : \A l \in pool[k].leases :
            \/ k \in DOMAIN pool' /\ l \in pool'[k].leases
            \/ answer' = None
            \/ /\ answer'.op = "disconnect"
               /\ RequestLease(answer'.request) = l
               /\ Alike(answer'.request, pool[k].request) ]_keysVars
=============================================================================
