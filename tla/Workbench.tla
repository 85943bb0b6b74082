------------------------------ MODULE Workbench ------------------------------
(***************************************************************************)
(* The connection a workbench page shows and the leases its session holds  *)
(* at the server: selecting, connecting, editing, disconnecting, polling   *)
(* and running a query again (src/static/app.js).  An event handler runs   *)
(* up to its next await as one step.  The host stands for the host, the    *)
(* port and the mode, the field for the inputs a plugin adds (the database *)
(* of Redis): together they make a pooled client (ConnectionKeys).         *)
(***************************************************************************)
EXTENDS Integers, FiniteSets

CONSTANTS
    Listed,     \* IDs of the presets in the rail
    HostOf,     \* by listed connection: its host
    Hosts,
    Fields,     \* values of the plugin's inputs
    FieldOf,    \* by listed connection, or New: the value it begins with
    MaxManual,  \* bound: IDs made for connections that are not listed
    MaxPolls,   \* bound: connection-status requests under way
    MaxOpen,    \* bound: leases of this session at the server
    MaxStray,   \* bound: aborted requests that the server goes on with
    Queried,    \* bound: hosts that are queried
    New, None

HostNames == Hosts \cup {HostOf[s] : s \in Listed} \cup {None}
Forms    == [id : Listed \cup 1..MaxManual, host : HostNames]
Requests == [id : Listed \cup 1..MaxManual, host : HostNames, field : Fields]
Probes   == [for : Requests, phase : {"sent", "reachable", "unreachable"}]

ASSUME PageConstants ==
    /\ MaxManual \in Nat \ {0}
    /\ New \notin Listed
    /\ FieldOf \in [Listed \cup {New} -> Fields]
    /\ None \notin Requests \cup Probes

VARIABLES
    selected,   \* composerConnection: a listed ID or New
    manual,     \* manualConnectionID
    host,       \* the input
    field,      \* the plugin's input
    form,       \* the hidden inputs a request sends: id (and so the lease), host
    status,     \* connectionState
    probe,      \* the probe with the current generation: the request it is for,
                \* phase; or None
    stray,      \* connect requests the page gave up and the server still has
    waiting,    \* a handler that waits for its composer's options: what it does
                \* then, and for which connection or block; or None
    leaving,    \* the disconnect under way: for, phase; or None
    open,       \* the leases of this session that the server holds
    active,     \* activeConnectionIDs
    polls,      \* polls under way: the IDs they carry (or None yet), and the
                \* status that is shown when they arrive
    running,    \* the request of the query under way, or None
    block       \* a block in the output: the request of its query, or None

page == <<selected, manual, host, field, form, status>>
vars == <<page, probe, stray, waiting, leaving, open, active, polls, running, block>>

\* refreshActiveConnections, up to its request; beyond the bound the request fails.
Refresh ==
    polls' = IF Cardinality(polls) < MaxPolls THEN polls \cup {[ids |-> None, then |-> None]}
             ELSE polls

\* syncFormState
FormOf(s, m, h) == [id |-> IF s = New THEN m ELSE s, host |-> h]
Sync == form' = FormOf(selected, manual, host)

\* connectionParams: the hidden inputs, and the plugin's inputs as they are now.
RequestOf(f, d) == [id |-> f.id, host |-> f.host, field |-> d]

Init ==
    /\ selected = New
    /\ manual = 1
    /\ host = None
    /\ field = FieldOf[New]
    /\ form = FormOf(New, 1, None)
    /\ status = "disconnected"
    /\ probe = None
    /\ stray = {}
    /\ waiting = None
    /\ leaving = None
    /\ open = {}
    /\ active = {}
    /\ polls = {}
    /\ running = None
    /\ block = None

-----------------------------------------------------------------------------
(* The page *)

\* applyConnection, but for the status.
Apply(s) ==
    /\ s = New => manual < MaxManual
    /\ selected' = s
    /\ manual' = IF s = New THEN manual + 1 ELSE manual
    /\ host' = IF s = New THEN None ELSE HostOf[s]
    /\ field' = FieldOf[s]
    /\ form' = FormOf(s, manual', host')

\* The server may go on with a request that is aborted.
Abandon ==
    \/ stray' = stray
    \/ /\ probe # None /\ probe.phase = "sent"
       /\ stray' = stray \cup {probe.for}
       /\ Cardinality(stray') <= MaxStray

\* connectSelectedConnection, up to its request.
StartProbe ==
    /\ Sync
    /\ status' = "pending"
    /\ probe' = [for |-> RequestOf(form', field), phase |-> "sent"]
    /\ Abandon

\* A dropdown, or the button for a new connection.  A probe goes on.
Select(s) ==
    /\ Apply(s)
    /\ status' = "disconnected"
    /\ UNCHANGED <<probe, stray, waiting, leaving, open, active, polls, running, block>>

\* A click in the rail selects, and once the composer has its options connects,
\* unless the connection is known as connected: whatever is selected by then.
SelectAndConnect(s) ==
    /\ waiting = None
    /\ Apply(s)
    /\ status' = "disconnected"
    /\ waiting' = [then |-> "connect", for |-> s]
    /\ UNCHANGED <<probe, stray, leaving, open, active, polls, running, block>>

ThenConnect ==
    /\ waiting # None /\ waiting.then = "connect"
    /\ waiting' = None
    /\ \/ waiting.for \notin active /\ StartProbe
       \/ /\ waiting.for \in active
          /\ status' = "reachable"
          /\ UNCHANGED <<form, probe, stray>>
    /\ UNCHANGED <<selected, manual, host, field, leaving, open, active, polls, running, block>>

Connect ==
    /\ host # None
    /\ status # "pending"
    /\ StartProbe
    /\ UNCHANGED <<selected, manual, host, field, waiting, leaving, open, active, polls, running, block>>

\* Edits of the host, the port, the mode, or of the name beside the same host,
\* give up the probe and say that the details have changed.
FaultyEdit(h) ==           \* does not invalidate the status
    /\ host' = h
    /\ form' = FormOf(selected, manual, h)
    /\ UNCHANGED <<selected, manual, field, status, probe, stray, waiting, leaving, open, active, polls, running, block>>
Edit(h) ==
    /\ host' = h
    /\ form' = FormOf(selected, manual, h)
    /\ status' = "details-changed"
    /\ probe' = None
    /\ Abandon
    /\ UNCHANGED <<selected, manual, field, waiting, leaving, open, active, polls, running, block>>

\* Nothing listens to the plugin's inputs.
EditField(d) ==
    /\ field' = d
    /\ UNCHANGED <<selected, manual, host, form, status, probe, stray, waiting, leaving, open, active, polls, running, block>>

Disconnect ==
    /\ status = "reachable"
    /\ leaving = None
    /\ Sync
    /\ leaving' = [for |-> RequestOf(form', field), phase |-> "sent"]
    /\ UNCHANGED <<selected, manual, host, field, status, probe, stray, waiting, open, active, polls, running, block>>

\* The submit handler syncs the form before the request is made.
Submit ==
    /\ running = None
    /\ host \in Queried
    /\ Sync
    /\ running' = RequestOf(form', field)
    /\ UNCHANGED <<selected, manual, host, field, status, probe, stray, waiting, leaving, open, active, polls, block>>

\* rerunQuery: applyBlockConnection shows the connection of the block and puts
\* back its ID and its lease; the options are loaded with them.
FaultyRerun ==             \* leaves the selection as it is
    /\ waiting = None
    /\ block # None
    /\ host' = block.host
    /\ field' = block.field
    /\ form' = [id |-> block.id, host |-> block.host]
    /\ status' = "reachable"
    /\ waiting' = [then |-> "submit", for |-> block]
    /\ UNCHANGED <<selected, manual, probe, stray, leaving, open, active, polls, running, block>>
Rerun ==
    /\ waiting = None
    /\ block # None
    /\ selected' = IF block.id \in Listed THEN block.id ELSE New
    /\ host' = block.host
    /\ field' = block.field
    /\ form' = [id |-> block.id, host |-> block.host]
    /\ status' = "reachable"
    /\ waiting' = [then |-> "submit", for |-> block]
    /\ UNCHANGED <<manual, probe, stray, leaving, open, active, polls, running, block>>

\* requestSubmit: the handler of Submit.
ThenSubmit ==
    /\ waiting # None /\ waiting.then = "submit"
    /\ waiting' = None
    /\ \/ running = None /\ Sync /\ running' = RequestOf(form', field)
       \/ running # None /\ UNCHANGED <<form, running>>
    /\ UNCHANGED <<selected, manual, host, field, status, probe, stray, leaving, open, active, polls, block>>

-----------------------------------------------------------------------------
(* The server *)

\* A connect request that succeeds leaves the lease.
Grant(l) ==
    /\ l.host # None
    /\ Cardinality(open \cup {l}) <= MaxOpen
    /\ open' = open \cup {l}

ServeProbe ==
    /\ probe # None /\ probe.phase = "sent"
    /\ \/ probe' = [probe EXCEPT !.phase = "reachable"] /\ Grant(probe.for)
       \/ probe' = [probe EXCEPT !.phase = "unreachable"] /\ UNCHANGED open
    /\ UNCHANGED <<page, stray, waiting, leaving, active, polls, running, block>>

ServeStray(l) ==
    /\ stray' = stray \ {l}
    /\ Grant(l) \/ UNCHANGED open
    /\ UNCHANGED <<page, probe, waiting, leaving, active, polls, running, block>>

ServeDisconnect ==
    /\ leaving # None /\ leaving.phase = "sent"
    /\ leaving' = [leaving EXCEPT !.phase = "done"]
    /\ open' = open \ {leaving.for}
    /\ UNCHANGED <<page, probe, stray, waiting, active, polls, running, block>>

\* A query that is not on a preset takes its lease by itself.
Answer ==
    /\ running # None
    /\ block' = running
    /\ running' = None
    /\ \/ running.id \notin Listed /\ Grant(running)
       \/ UNCHANGED open
    /\ UNCHANGED <<page, probe, stray, waiting, leaving, active, polls>>

\* The janitor of the pool closes a client, whoever leased it.
Evict(h, d) ==
    /\ open' = {l \in open : l.host # h \/ l.field # d}
    /\ UNCHANGED <<page, probe, stray, waiting, leaving, active, polls, running, block>>

ServePoll(p) ==
    /\ p \in polls
    /\ p.ids = None
    /\ polls' = (polls \ {p}) \cup {[p EXCEPT !.ids = {l.id : l \in open}]}
    /\ UNCHANGED <<page, probe, stray, waiting, leaving, open, active, running, block>>

-----------------------------------------------------------------------------
(* Answers that come back to the page *)

ProbeAnswered ==
    /\ probe # None /\ probe.phase # "sent"
    /\ probe' = None
    /\ status' = probe.phase
    /\ IF probe.phase = "reachable" THEN Refresh ELSE UNCHANGED polls
    /\ UNCHANGED <<selected, manual, host, field, form, stray, waiting, leaving, open, active, running, block>>

\* After a disconnect the page polls, and then shows it.
Disconnected ==
    /\ leaving # None /\ leaving.phase = "done"
    /\ Cardinality(polls) < MaxPolls
    /\ leaving' = None
    /\ polls' = polls \cup {[ids |-> None, then |-> "disconnected"]}
    /\ UNCHANGED <<page, probe, stray, waiting, open, active, running, block>>

\* Every 30 seconds.
Poll ==
    /\ Cardinality(polls) < MaxPolls
    /\ Refresh
    /\ UNCHANGED <<page, probe, stray, waiting, leaving, open, active, running, block>>

FaultyPolled(p) ==         \* only ever adds connections
    /\ p \in polls
    /\ p.ids # None
    /\ active' = active \cup p.ids
    /\ status' = IF p.then # None THEN p.then ELSE status
    /\ polls' = polls \ {p}
    /\ UNCHANGED <<selected, manual, host, field, form, probe, stray, waiting, leaving, open, running, block>>
Polled(p) ==
    /\ p \in polls
    /\ p.ids # None
    /\ active' = p.ids
    /\ status' = IF p.then # None THEN p.then ELSE status
    /\ polls' = polls \ {p}
    /\ UNCHANGED <<selected, manual, host, field, form, probe, stray, waiting, leaving, open, running, block>>

User ==
    \/ \E s \in Listed \cup {New} : Select(s)
    \/ \E s \in Listed : SelectAndConnect(s)
    \/ \E h \in Hosts : Edit(h)
    \/ \E d \in Fields : EditField(d)
    \/ Connect \/ Disconnect \/ Submit \/ Rerun
Server ==
    \/ ServeProbe \/ ServeDisconnect \/ Answer
    \/ \E l \in stray : ServeStray(l)
    \/ \E h \in Hosts, d \in Fields : Evict(h, d)
    \/ \E p \in polls : ServePoll(p)
Back ==
    \/ ThenConnect \/ ThenSubmit \/ ProbeAnswered \/ Disconnected \/ Poll
    \/ \E p \in polls : Polled(p)
Next == User \/ Server \/ Back

\* The server answers, the answers arrive and the interval goes on.
Fairness ==
    /\ WF_vars(ServeProbe)
    /\ WF_vars(ProbeAnswered)
    /\ WF_vars(Poll)
    /\ WF_vars(\E p \in polls : ServePoll(p))
    /\ WF_vars(\E p \in polls : Polled(p))

Spec == Init /\ [][Next]_vars
FairSpec == Spec /\ Fairness

-----------------------------------------------------------------------------
(* Properties *)

\* "Connecting" is shown only while a probe is under way for the lease, host,
\* port and mode that the page shows, however connections are selected, edited
\* and run again meanwhile.  Only the plugin's inputs may have been edited since:
\* the page does not listen to them.
PendingIsOwn ==
    status = "pending" =>
        /\ probe # None
        /\ probe.for = RequestOf(FormOf(selected, manual, host), probe.for.field)

\* Once the leases at the server no longer change, the rail comes to show them,
\* although the answers to polls may overtake each other.
RailConverges ==
    <>[][FALSE]_open => <>[](active = {l.id : l \in open})

\* "Replay the original lease so pool/preset lookups match the first run"
\* (src/static/app.js:1130): a block of a connection in the rail runs again on
\* its own lease, whatever was selected or edited before, if nothing has
\* changed the form since it was put back.
RerunKeepsLease ==
    [][ /\ ThenSubmit
        /\ running = None
        /\ RequestOf(form, field) = waiting.for
        /\ form.id \in Listed
        => running' = waiting.for ]_vars
=============================================================================
