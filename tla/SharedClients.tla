---------------------------- MODULE SharedClients ----------------------------
(***************************************************************************)
(* What the connection pool promises its callers: database clients that    *)
(* are offered one per key, used by any number of handlers, withdrawn only *)
(* while nobody uses them, and closed only after they were withdrawn.  The *)
(* one exception is the shutdown of the pool, which withdraws everything.  *)
(* Leases, idle timeouts, single-flight creation and locking are how       *)
(* ConnectionPool keeps this promise, and do not appear here.              *)
(***************************************************************************)
CONSTANTS
    Handlers,   \* the goroutines that use clients
    Keys,       \* what a client is a client of
    Conns,      \* the clients that may ever be created
    None        \* no client

VARIABLES
    life,       \* life[c]: has client c been created, and closed?
    offered,    \* offered[k]: the client handed out for key k, or None
    using,      \* using[h]: the client handler h runs requests on, or None
    shut        \* has the pool been shut down?

vars == <<life, offered, using, shut>>

Offered(c) == \E k \in Keys : offered[k] = c
Used(c)    == \E h \in Handlers : using[h] = c

TypeOK ==
    /\ life \in [Conns -> {"none", "open", "closed"}]
    /\ offered \in [Keys -> Conns \cup {None}]
    /\ using \in [Handlers -> Conns \cup {None}]
    /\ shut \in BOOLEAN

Init ==
    /\ life = [c \in Conns |-> "none"]
    /\ offered = [k \in Keys |-> None]
    /\ using = [h \in Handlers |-> None]
    /\ shut = FALSE

\* A client is created for a key that has none.
Open(k, c) ==
    /\ ~shut
    /\ offered[k] = None
    /\ life[c] = "none"
    /\ life' = [life EXCEPT ![c] = "open"]
    /\ offered' = [offered EXCEPT ![k] = c]
    /\ UNCHANGED <<using, shut>>

\* A creation that ends after the shutdown yields a client for nobody.
OpenTooLate(c) ==
    /\ shut
    /\ life[c] = "none"
    /\ life' = [life EXCEPT ![c] = "open"]
    /\ UNCHANGED <<offered, using, shut>>

Use(h, k) ==
    /\ using[h] = None
    /\ offered[k] # None
    /\ life[offered[k]] = "open"
    /\ using' = [using EXCEPT ![h] = offered[k]]
    /\ UNCHANGED <<life, offered, shut>>

\* Clients that no handler uses, once the step is over, may be withdrawn.
Withdrawn(K) ==
    /\ \A k \in K, h \in Handlers : offered[k] # None => using'[h] # offered[k]
    /\ offered' = [k \in Keys |-> IF k \in K THEN None ELSE offered[k]]

Withdraw(K) ==
    /\ UNCHANGED <<life, using, shut>>
    /\ Withdrawn(K)

Done(h, K) ==
    /\ using[h] # None
    /\ using' = [using EXCEPT ![h] = None]
    /\ Withdrawn(K)
    /\ UNCHANGED <<life, shut>>

Close(c) ==
    /\ life[c] = "open"
    /\ ~Offered(c)
    /\ shut \/ ~Used(c)
    /\ life' = [life EXCEPT ![c] = "closed"]
    /\ UNCHANGED <<offered, using, shut>>

Shutdown ==
    /\ shut' = TRUE
    /\ offered' = [k \in Keys |-> None]
    /\ UNCHANGED <<life, using>>

Next ==
    \/ \E k \in Keys, c \in Conns : Open(k, c)
    \/ \E c \in Conns : OpenTooLate(c)
    \/ \E h \in Handlers, k \in Keys : Use(h, k)
    \/ \E K \in SUBSET Keys : Withdraw(K)
    \/ \E h \in Handlers, K \in SUBSET Keys : Done(h, K)
    \/ \E c \in Conns : Close(c)
    \/ Shutdown

Spec == Init /\ [][Next]_vars

=============================================================================
