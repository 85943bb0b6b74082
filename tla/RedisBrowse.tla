----------------------------- MODULE RedisBrowse -----------------------------
(***************************************************************************)
(* A BROWSE query of the Redis plugin: SCAN pages from each master node,   *)
(* then a pipeline of TYPE and one of TTL for the keys that are displayed, *)
(* while other clients create, retype, delete, expire and move keys.  A    *)
(* single host (scanKeys) is a cluster of one node (ScanCluster).          *)
(***************************************************************************)
EXTENDS Integers, FiniteSets, SequencesExt

CONSTANTS
    Keys,         \* key names
    Types,        \* the types of values
    Expiries,     \* what TTL replies for a key: -1, or the seconds left
    Nodes,        \* the master nodes
    Buckets,      \* buckets of a node's table, which cursors run through
    Bucket,       \* the bucket of each key
    Prefix,       \* browsePrefix of each key
    Limit,        \* the LIMIT of the query
    GroupCap,     \* browseGroupCap: keys displayed per prefix
    MaxChanges,   \* bound of what other clients do during the browse
    Gone          \* a key that does not exist

ASSUME BrowseConstants ==
    /\ IsFiniteSet(Keys)
    /\ IsFiniteSet(Nodes) /\ Nodes # {}
    /\ Expiries \subseteq {-1} \cup Nat
    /\ Buckets \in Nat \ {0}
    /\ Bucket \in [Keys -> 0..(Buckets - 1)]
    /\ DOMAIN Prefix = Keys
    /\ Limit \in Nat \ {0}
    /\ GroupCap \in Nat \ {0}
    /\ MaxChanges \in Nat

Values == [type : Types, ttl : Expiries]
ASSUME NoValueIsGone == Gone \notin Values

VARIABLES
    db,        \* the value of each key, or Gone
    home,      \* the node each key is on
    changes,   \* what other clients have done so far
    steady,    \* history: keys that exist and stay since the browse began
    pc,        \* "start", "scan", "inspect", "done" or "failed"
    nodes,     \* the nodes in the order of the scan
    at,        \* the node whose page is read next
    cursor,    \* the cursor of each node, or -1 once the node is done
    scanned,   \* the keys found, in order
    limited,   \* was Limit reached?
    types,     \* replies of the TYPE pipeline, by index into scanned
    ttls,      \* replies of the TTL pipeline, by index into scanned
    missing    \* history: indices of keys that were Gone when TTL read them

dbVars == <<db, home, changes, steady>>
scanVars == <<nodes, at, cursor, scanned, limited>>
replyVars == <<types, ttls, missing>>
vars == <<dbVars, pc, scanVars, replyVars>>

-----------------------------------------------------------------------------
(* The keyspace, which belongs to other clients *)

Exists(k) == db[k] # Gone

Init ==
    /\ db \in [Keys -> Values \cup {Gone}]
    /\ home \in [Keys -> Nodes]
    /\ changes = 0
    /\ steady = {k \in Keys : Exists(k)}
    /\ pc = "start"
    /\ nodes = <<>>
    /\ at = 1
    /\ cursor = [n \in Nodes |-> 0]
    /\ scanned = <<>>
    /\ limited = FALSE
    /\ types = <<>>
    /\ ttls = <<>>
    /\ missing = {}

Change(k, value, n) ==
    /\ changes < MaxChanges
    /\ changes' = changes + 1
    /\ db' = [db EXCEPT ![k] = value]
    /\ home' = [home EXCEPT ![k] = n]
    /\ UNCHANGED <<pc, scanVars, replyVars>>

Write(k, value)  == Change(k, value, home[k]) /\ UNCHANGED steady
Delete(k)        == Exists(k) /\ Change(k, Gone, home[k])
                              /\ steady' = steady \ {k}
Reshard(k, n)    == Exists(k) /\ n # home[k] /\ Change(k, db[k], n)
                              /\ steady' = steady \ {k}

-----------------------------------------------------------------------------
(* The scan *)

\* ForEachMaster collects the nodes concurrently, in any order.
ListNodes(order) ==
    /\ pc = "start"
    /\ nodes' = order
    /\ pc' = "scan"
    /\ UNCHANGED <<dbVars, at, cursor, scanned, limited, replyVars>>

\* SCAN of node n replies with every key of the cursor's bucket, and with any
\* other keys it holds, such as those it replied with before.
Pages(n) ==
    LET there == {k \in Keys : Exists(k) /\ home[k] = n}
        due   == {k \in there : Bucket[k] = cursor[n]}
    IN {due \cup others : others \in SUBSET (there \ due)}

NextCursor(n) == (cursor[n] + 1) % Buckets

\* Is node n done, after a page that came with cursor next?
FaultyExhausted(next, n, page) ==     \* loops when the cursor comes back to 0
    next = cursor[n] /\ next # 0
FaultyExhaustedEarly(next, n, page) ==    \* takes an empty page for the end
    next = 0 \/ next = cursor[n] \/ page = {}
Exhausted(next, n, page) == next = 0 \/ next = cursor[n]

\* The keys of a page that are not seen yet are appended, until Limit.
FaultyUnseen(page) == page          \* keeps repeated keys
Unseen(page) == page \ Range(scanned)
Cut(keys) == IF Len(keys) >= Limit THEN SubSeq(keys, 1, Limit) ELSE keys

\* The node that is read after the one at index i, given the cursors c.
Follower(i, c) ==
    LET later(d) == ((i - 1 + d) % Len(nodes)) + 1
        d == CHOOSE d \in 1..Len(nodes) :
                 /\ c[nodes[later(d)]] # -1
                 /\ \A e \in 1..(d - 1) : c[nodes[later(e)]] = -1
    IN later(d)

\* The page lists what is unseen in this order.
ScanPage(page, order) ==
    LET n     == nodes[at]
        next  == NextCursor(n)
        rest  == [cursor EXCEPT ![n] =
                      IF Exhausted(next, n, page) THEN -1 ELSE next]
        found == scanned \o order
        full  == Len(found) >= Limit
        over  == full \/ \A m \in Nodes : rest[m] = -1
    IN /\ pc = "scan"
       /\ scanned' = Cut(found)
       /\ limited' = full
       /\ cursor' = IF full THEN cursor ELSE rest
       /\ at' = IF over THEN at ELSE Follower(at, rest)
       /\ pc' = IF ~over THEN "scan"
                ELSE IF scanned' = <<>> THEN "done" ELSE "inspect"
       /\ UNCHANGED <<dbVars, nodes, replyVars>>

-----------------------------------------------------------------------------
(* The groups, and the two pipelines.  A reply is paired with its key by the *)
(* key's place in the list: the code numbers the displayed keys group by     *)
(* group, once to send the commands and once to read the replies.            *)

Group(p) == {i \in DOMAIN scanned : Prefix[scanned[i]] = p}
\* The first keys of each group.
Displayed ==
    {i \in DOMAIN scanned :
        Cardinality(Group(Prefix[scanned[i]]) \cap 1..i) <= GroupCap}

\* The replies with one more.
Answered(replies, i, reply) ==
    [j \in DOMAIN replies \cup {i} |-> IF j = i THEN reply ELSE replies[j]]

\* The server answers a pipeline's commands one by one, and those for
\* different nodes in any order; TTL follows when every TYPE is answered.
LookUpType(i) ==
    /\ pc = "inspect"
    /\ i \in Displayed \ DOMAIN types
    /\ types' = Answered(types, i, IF Exists(scanned[i]) THEN db[scanned[i]].type
                                                         ELSE "none")
    /\ UNCHANGED <<dbVars, pc, scanVars, ttls, missing>>

\* What TTL replies, and what TTLs makes of it: go-redis keeps the replies -1
\* and -2 as that many nanoseconds, which are 0 seconds.
Reply(k) == IF Exists(k) THEN db[k].ttl ELSE -2
Seconds(reply) == IF reply < 0 THEN 0 ELSE reply

LookUpTTL(i) ==
    /\ pc = "inspect"
    /\ DOMAIN types = Displayed
    /\ i \in Displayed \ DOMAIN ttls
    /\ ttls' = Answered(ttls, i, Seconds(Reply(scanned[i])))
    /\ missing' = IF Exists(scanned[i]) THEN missing ELSE missing \cup {i}
    /\ pc' = IF DOMAIN ttls' = Displayed THEN "done" ELSE pc
    /\ UNCHANGED <<dbVars, scanVars, types>>

\* The rows of the answer: keys that vanished (-2) are dropped, and a TTL is
\* kept if there is one.
Kept(i) == ttls[i] # -2
Rows == {[name |-> scanned[i], type |-> types[i],
          ttl |-> IF ttls[i] >= 0 THEN ttls[i] ELSE 0] :
             i \in {j \in DOMAIN ttls : Kept(j)}}

\* A call to the server fails, or the context was cancelled.
Fail ==
    /\ pc \in {"start", "scan", "inspect"}
    /\ pc' = "failed"
    /\ UNCHANGED <<dbVars, scanVars, replyVars>>

-----------------------------------------------------------------------------

Browse ==
    \/ \E order \in SetToSeqs(Nodes) : ListNodes(order)
    \/ pc = "scan" /\ \E page \in Pages(nodes[at]) :
                         \E order \in SetToSeqs(Unseen(page)) : ScanPage(page, order)
    \/ \E i \in Displayed : LookUpType(i) \/ LookUpTTL(i)
    \/ Fail

Others ==
    \E k \in Keys :
        \/ \E value \in Values : Write(k, value)
        \/ Delete(k)
        \/ \E n \in Nodes : Reshard(k, n)

Next == Browse \/ Others

Spec == Init /\ [][Next]_vars

\* The server answers: a query that is not cancelled goes on.
FairSpec == Spec /\ WF_vars(Browse)

-----------------------------------------------------------------------------
(* Properties *)

TypeOK ==
    /\ db \in [Keys -> Values \cup {Gone}]
    /\ home \in [Keys -> Nodes]
    /\ changes \in 0..MaxChanges
    /\ steady \subseteq Keys
    /\ pc \in {"start", "scan", "inspect", "done", "failed"}
    /\ cursor \in [Nodes -> -1..(Buckets - 1)]
    /\ scanned \in Seq(Keys)
    /\ limited \in BOOLEAN
    /\ DOMAIN ttls \subseteq DOMAIN types
    /\ \A i \in DOMAIN types : types[i] \in Types \cup {"none"}
    /\ \A i \in DOMAIN ttls : ttls[i] \in {-2} \cup Expiries \cup {0}
    /\ missing \subseteq DOMAIN ttls

\* However often SCAN repeats a key, it is listed once, and a list that is cut
\* off says so: it has Limit keys exactly when it is marked as limited.
ListedOnce ==
    /\ IsInjective(scanned)
    /\ Len(scanned) <= Limit
    /\ limited <=> Len(scanned) = Limit

\* A key that exists, and stays on its node, from the beginning to the end of a
\* browse that is not limited has a row, or its group has more keys than rows.
SteadyKeysShown ==
    pc = "done" /\ ~limited =>
        \A k \in steady :
            \/ \E row \in Rows : row.name = k
            \/ Cardinality(Group(Prefix[k])) > GroupCap /\ k \in Range(scanned)

\* Keys that vanished between the scan and the inspection are dropped from the
\* answer ("key vanished between scan and inspection", browse.go:203).
VanishedKeysDropped ==
    pc = "done" => \A i \in missing : \A row \in Rows : row.name # scanned[i]

\* A browse ends, whatever other clients do to the keyspace meanwhile.
BrowseEnds == <>(pc \in {"done", "failed"})

=============================================================================
