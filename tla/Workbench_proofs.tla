-------------------------- MODULE Workbench_proofs --------------------------
(***************************************************************************)
(* Proofs that the page shows what belongs to the connection on it, for    *)
(* any connections, hosts and namespaces: the status "connecting" and the  *)
(* lease of a block that runs again (Workbench), and the sets on offer     *)
(* (ComposerOptions).                                                      *)
(***************************************************************************)
EXTENDS Workbench, ComposerOptions, TLAPS

-----------------------------------------------------------------------------
(* The workbench *)

IDs == Listed \cup 1..MaxManual
PollsTyped == [ids : (SUBSET IDs) \cup {None}, then : {None, "disconnected"}]

PageTyped ==
    /\ selected \in Listed \cup {New}
    /\ manual \in 1..MaxManual
    /\ host \in HostNames
    /\ field \in Fields
    /\ form \in Forms
    /\ status \in {"disconnected", "pending", "reachable", "unreachable",
                   "details-changed"}
    /\ probe \in Probes \cup {None}
    /\ running \in Requests \cup {None}
    /\ block \in Requests \cup {None}
    /\ waiting # None =>
           /\ waiting.then = "connect" => waiting.for \in Listed
           /\ waiting.then = "submit" => waiting.for \in Requests
    /\ stray \in SUBSET Requests
    /\ leaving \in [for : Requests, phase : {"sent", "done"}] \cup {None}
    /\ open \in SUBSET Requests
    /\ active \in SUBSET IDs
    /\ polls \in SUBSET PollsTyped

\* The form is the one the page shows, but after a block whose connection is not
\* in the rail was put back.
FormIsShown == form.id \in Listed => form = FormOf(selected, manual, host)

PageIInv == PageTyped /\ FormIsShown /\ PendingIsOwn

\* What the page shows makes a form.
LEMMA FormType ==
    ASSUME NEW s \in Listed \cup {New}, NEW m \in 1..MaxManual, NEW h \in HostNames
    PROVE  FormOf(s, m, h) \in Forms
BY DEF FormOf, Forms

\* The hidden inputs and the plugin's make a request.
LEMMA RequestType ==
    ASSUME NEW f \in Forms, NEW d \in Fields
    PROVE  RequestOf(f, d) \in Requests
BY DEF RequestOf, Forms, Requests

\* Choosing a connection shows it and puts it into the form.
LEMMA ApplyShows ==
    ASSUME PageTyped, NEW s \in Listed \cup {New}, Apply(s)
    PROVE  /\ selected' \in Listed \cup {New} /\ manual' \in 1..MaxManual
           /\ host' \in HostNames /\ field' \in Fields /\ form' \in Forms
           /\ form' = FormOf(selected', manual', host')
<1>1. selected' = s /\ selected' \in Listed \cup {New}
  BY DEF Apply
<1>2. manual' \in 1..MaxManual
  BY PageConstants DEF Apply, PageTyped
<1>3. host' \in HostNames /\ field' \in Fields
  BY PageConstants DEF Apply, HostNames
<1>4. form' = FormOf(selected', manual', host')
  BY <1>1 DEF Apply
<1>5. QED
  BY <1>1, <1>2, <1>3, <1>4, FormType

\* What the page gives up and the server goes on with are connect requests.
LEMMA AbandonTyped ==
    ASSUME PageTyped, Abandon
    PROVE  stray' \in SUBSET Requests
BY DEF Abandon, PageTyped, Probes

\* A new probe is for what the page shows.
LEMMA ProbeShows ==
    ASSUME PageTyped, StartProbe
    PROVE  /\ form' \in Forms /\ form' = FormOf(selected, manual, host)
           /\ probe' \in Probes /\ probe' # None
           /\ probe'.for = RequestOf(form', probe'.for.field)
           /\ status' = "pending" /\ stray' \in SUBSET Requests
<1>1. form' \in Forms /\ form' = FormOf(selected, manual, host)
  BY FormType DEF StartProbe, Sync, PageTyped
<1>2. probe' = [for |-> RequestOf(form', field), phase |-> "sent"]
  BY DEF StartProbe
<1>3. RequestOf(form', field) \in Requests
  BY <1>1, RequestType DEF PageTyped
<1>4. probe'.for = RequestOf(form', probe'.for.field)
  BY <1>2 DEF RequestOf
<1>5. QED
  BY <1>1, <1>2, <1>3, <1>4, PageConstants, AbandonTyped DEF StartProbe, Probes

\* Every step of the page and of the server keeps the inductive invariant:
\* whatever changes the connection on the page ends or replaces the status
\* "connecting" (applyConnection, connectSelectedConnection, editing,
\* rerunQuery), but for the plugin's inputs, which it does not name.
LEMMA PageStep == PageIInv /\ [Next]_vars => PageIInv'
<1> SUFFICES ASSUME PageTyped, FormIsShown, PendingIsOwn, [Next]_vars
             PROVE  PageTyped' /\ FormIsShown' /\ PendingIsOwn'
  BY DEF PageIInv
<1> USE DEF PageTyped, FormIsShown, PendingIsOwn, page
<1>1. ASSUME NEW s \in Listed \cup {New}, Select(s)
      PROVE  PageTyped' /\ FormIsShown' /\ PendingIsOwn'
  <2>1. PageTyped' /\ FormIsShown'
    BY <1>1, ApplyShows DEF Select
  <2>2. PendingIsOwn'
    BY <1>1 DEF Select
  <2>3. QED
    BY <2>1, <2>2
<1>2. ASSUME NEW s \in Listed, SelectAndConnect(s)
      PROVE  PageTyped' /\ FormIsShown' /\ PendingIsOwn'
  <2>1. PageTyped' /\ FormIsShown'
    BY <1>2, ApplyShows DEF SelectAndConnect
  <2>2. PendingIsOwn'
    BY <1>2 DEF SelectAndConnect
  <2>3. QED
    BY <2>1, <2>2
<1>3. ASSUME NEW h \in Hosts, Edit(h)
      PROVE  PageTyped' /\ FormIsShown' /\ PendingIsOwn'
  <2>1. host' \in HostNames /\ form' = FormOf(selected, manual, host') /\ form' \in Forms
    BY <1>3, FormType DEF Edit, HostNames
  <2>2. stray' \in SUBSET Requests
    BY <1>3, AbandonTyped DEF Edit
  <2>3. QED
    BY <1>3, <2>1, <2>2 DEF Edit
<1>4. ASSUME NEW d \in Fields, EditField(d)
      PROVE  PageTyped' /\ FormIsShown' /\ PendingIsOwn'
  BY <1>4 DEF EditField
<1>5. CASE Connect
  BY <1>5, ProbeShows DEF Connect
<1>6. CASE Disconnect
  <2>1. form' = FormOf(selected, manual, host) /\ form' \in Forms
    BY <1>6, FormType DEF Disconnect, Sync
  <2>2. RequestOf(form', field) \in Requests
    BY <2>1, RequestType
  <2>3. QED
    BY <1>6, <2>1, <2>2 DEF Disconnect
<1>7. CASE Submit
  <2>1. form' = FormOf(selected, manual, host) /\ form' \in Forms
    BY <1>7, FormType DEF Submit, Sync
  <2>2. RequestOf(form', field) \in Requests
    BY <2>1, RequestType
  <2>3. QED
    BY <1>7, <2>1, <2>2 DEF Submit
<1>8. CASE Rerun
  <2>1. block \in Requests
    BY <1>8 DEF Rerun
  <2>2. /\ selected' \in Listed \cup {New} /\ host' \in HostNames
        /\ field' \in Fields
        /\ form' = [id |-> block.id, host |-> host'] /\ form' \in Forms
        /\ form'.id \in Listed => selected' = form'.id
    BY <1>8, <2>1 DEF Rerun, Requests, Forms
  <2>3. FormIsShown'
    BY <2>2, PageConstants DEF FormOf
  <2>4. PageTyped' /\ PendingIsOwn'
    BY <1>8, <2>1, <2>2 DEF Rerun
  <2>5. QED
    BY <2>3, <2>4
<1>9. CASE ServeProbe
  <2>1. /\ probe \in Probes /\ probe.for \in Requests
        /\ probe' \in Probes /\ probe'.for = probe.for
    BY <1>9 DEF ServeProbe, Probes
  <2>2. QED
    BY <1>9, <2>1, PageConstants DEF ServeProbe, Grant
<1>10. CASE ServeDisconnect
  BY <1>10 DEF ServeDisconnect
<1>11. CASE Answer
  BY <1>11 DEF Answer, Grant
<1>12. ASSUME NEW l \in stray, ServeStray(l)
      PROVE  PageTyped' /\ FormIsShown' /\ PendingIsOwn'
  BY <1>12 DEF ServeStray, Grant
<1>13. ASSUME NEW h \in Hosts, NEW d \in Fields, Evict(h, d)
      PROVE  PageTyped' /\ FormIsShown' /\ PendingIsOwn'
  BY <1>13 DEF Evict
<1>14. ASSUME NEW p \in polls, ServePoll(p)
      PROVE  PageTyped' /\ FormIsShown' /\ PendingIsOwn'
  <2>1. {l.id : l \in open} \in SUBSET IDs
    BY DEF Requests, IDs
  <2>2. p \in PollsTyped /\ [p EXCEPT !.ids = {l.id : l \in open}] \in PollsTyped
    BY <2>1 DEF PollsTyped
  <2>3. polls' \in SUBSET PollsTyped
    BY <1>14, <2>2 DEF ServePoll
  <2>4. QED
    BY <1>14, <2>3 DEF ServePoll
<1>15. CASE ThenConnect
  <2>1. CASE StartProbe
    BY <1>15, <2>1, ProbeShows DEF ThenConnect
  <2>2. CASE status' = "reachable" /\ UNCHANGED <<form, probe, stray>>
    BY <1>15, <2>2 DEF ThenConnect
  <2>3. QED
    BY <1>15, <2>1, <2>2 DEF ThenConnect
<1>16. CASE ThenSubmit
  <2>1. CASE running = None /\ Sync /\ running' = RequestOf(form', field)
    <3>1. form' = FormOf(selected, manual, host) /\ form' \in Forms
      BY <2>1, FormType DEF Sync
    <3>2. RequestOf(form', field) \in Requests
      BY <3>1, RequestType
    <3>3. QED
      BY <1>16, <2>1, <3>1, <3>2 DEF ThenSubmit
  <2>2. CASE running # None /\ UNCHANGED <<form, running>>
    BY <1>16, <2>2 DEF ThenSubmit
  <2>3. QED
    BY <1>16, <2>1, <2>2 DEF ThenSubmit
<1>17. CASE ProbeAnswered
  <2>1. status' \in {"reachable", "unreachable"}
    BY <1>17 DEF ProbeAnswered, Probes
  <2>2. polls' \in SUBSET PollsTyped
    BY <1>17 DEF ProbeAnswered, Refresh, PollsTyped
  <2>3. QED
    BY <1>17, <2>1, <2>2 DEF ProbeAnswered
<1>18. CASE Disconnected
  BY <1>18 DEF Disconnected, PollsTyped
<1>19. CASE Poll
  BY <1>19 DEF Poll, Refresh, PollsTyped
<1>20. ASSUME NEW p \in polls, Polled(p)
      PROVE  PageTyped' /\ FormIsShown' /\ PendingIsOwn'
  BY <1>20 DEF Polled, PollsTyped
<1>21. CASE UNCHANGED vars
  BY <1>21 DEF vars
<1> HIDE DEF PageTyped, FormIsShown, PendingIsOwn
<1>22. QED
  BY <1>1, <1>2, <1>3, <1>4, <1>5, <1>6, <1>7, <1>8, <1>9, <1>10, <1>11,
     <1>12, <1>13, <1>14, <1>15, <1>16, <1>17, <1>18, <1>19, <1>20, <1>21 DEF
     Next, User, Server, Back

\* The inductive invariant holds in every state.
LEMMA PageInvariance == Spec => []PageIInv
<1>1. Init => PageIInv
  <2> SUFFICES ASSUME Init
               PROVE  PageIInv
    OBVIOUS
  <2>1. /\ selected = New /\ manual \in 1..MaxManual /\ host \in HostNames
        /\ field \in Fields
        /\ form = FormOf(selected, manual, host)
    BY PageConstants DEF Init, HostNames
  <2>2. form \in Forms
    BY <2>1, FormType
  <2>3. QED
    BY <2>1, <2>2 DEF Init, PageIInv, PageTyped, FormIsShown, PendingIsOwn
<1>2. QED
  BY <1>1, PageStep, PTL DEF Spec

\* "Connecting" is shown only while a probe is under way for the lease, host, port
\* and mode on the page; nothing keeps the plugin's inputs as they were.
THEOREM ProbeIsShown == Spec => []PendingIsOwn
<1>1. PageIInv => PendingIsOwn
  BY DEF PageIInv
<1>2. QED
  BY <1>1, PageInvariance, PTL

\* A block of a connection in the rail that runs again is sent with its own
\* lease, unless the form was changed after it was put back.
THEOREM BlocksKeepTheirLease == Spec => RerunKeepsLease
<1>1. PageIInv /\ [Next]_vars =>
          [/\ ThenSubmit
           /\ running = None
           /\ RequestOf(form, field) = waiting.for
           /\ form.id \in Listed
           => running' = waiting.for]_vars
  BY DEF PageIInv, FormIsShown, ThenSubmit, Sync, page
<1>2. QED
  BY <1>1, PageInvariance, PTL DEF Spec, RerunKeepsLease

-----------------------------------------------------------------------------
(* The composer *)

\* A load of the current render or choice asks the connection in the form, if that
\* was not edited since.
LoadsAreCurrent ==
    \A l \in loads : /\ l.generation \in Nat
                     /\ l.generation <= renderGeneration
                     /\ l.generation = renderGeneration /\ ~edited => l.conn = conn

ComposerIInv ==
    /\ renderGeneration \in Nat
    /\ LoadsAreCurrent
    /\ SetsOfConnection

\* The sets are asked of the connection that is in the form then.
LEMMA LoadSetsKeeps ==
    ASSUME ComposerIInv, NEW generation \in Nat, NEW ns, NEW others \in SUBSET loads,
           generation <= renderGeneration, LoadSets(generation, ns, others),
           UNCHANGED <<renderGeneration, details>>
    PROVE  ComposerIInv'
<1> USE DEF details
<1>1. CASE ns = Nil \/ ~reachable
  BY <1>1 DEF LoadSets, ComposerIInv, LoadsAreCurrent, SetsOfConnection
<1>2. CASE ns # Nil /\ reachable
  <2>1. /\ loads' = others \cup {Load(generation, "sets", conn, ns)}
        /\ sets' = sets
    BY <1>2 DEF LoadSets
  <2>2. LoadsAreCurrent'
    BY <2>1 DEF Load, ComposerIInv, LoadsAreCurrent
  <2>3. QED
    BY <2>1, <2>2 DEF ComposerIInv, SetsOfConnection
<1>3. QED
  BY <1>1, <1>2

\* Every step of the composer keeps its inductive invariant.
LEMMA ComposerStep == ComposerIInv /\ [ComposerNext]_composer => ComposerIInv'
<1> SUFFICES ASSUME ComposerIInv, [ComposerNext]_composer
             PROVE  ComposerIInv'
  OBVIOUS
<1> USE DEF details
<1>1. ASSUME NEW c \in Conns, NEW up \in BOOLEAN, RenderComposer(c, up)
      PROVE  ComposerIInv'
  <2>1. /\ renderGeneration' = renderGeneration + 1 /\ conn' = c
        /\ loads' \subseteq loads \cup {Load(renderGeneration', "namespaces", c, Nil)}
        /\ sets' = Nil /\ edited' = FALSE
    BY <1>1 DEF RenderComposer
  <2>2. LoadsAreCurrent'
    BY <2>1 DEF Load, ComposerIInv, LoadsAreCurrent
  <2>3. QED
    BY <2>1, <2>2 DEF ComposerIInv, SetsOfConnection
<1>2. ASSUME NEW ns \in Namespaces, ChooseNamespace(ns)
      PROVE  ComposerIInv'
  <2>1. renderGeneration \in Nat /\ renderGeneration <= renderGeneration
    BY DEF ComposerIInv
  <2>2. LoadSets(renderGeneration, ns, loads) /\ UNCHANGED <<renderGeneration, details>>
    BY <1>2 DEF ChooseNamespace
  <2>3. QED
    BY <2>1, <2>2, LoadSetsKeeps
<1>3. ASSUME NEW l \in loads, NamespacesLoaded(l)
      PROVE  ComposerIInv'
  <2>1. l.generation \in Nat /\ l.generation <= renderGeneration
    BY DEF ComposerIInv, LoadsAreCurrent
  <2>2. loads \ {l} \in SUBSET loads
    OBVIOUS
  <2>3. /\ LoadSets(l.generation, namespace', loads \ {l})
        /\ UNCHANGED <<renderGeneration, details>>
    BY <1>3 DEF NamespacesLoaded
  <2>4. QED
    BY <2>1, <2>2, <2>3, LoadSetsKeeps
<1>4. ASSUME NEW l \in loads, SetsLoaded(l)
      PROVE  ComposerIInv'
  BY <1>4 DEF SetsLoaded, ComposerIInv, LoadsAreCurrent, SetsOfConnection
<1>5. ASSUME NEW c \in Conns, EditDetails(c)
      PROVE  ComposerIInv'
  <2>1. /\ ~edited' => ~edited /\ conn' = conn
        /\ UNCHANGED <<renderGeneration, sets, loads>>
    BY <1>5 DEF EditDetails
  <2>2. QED
    BY <2>1 DEF ComposerIInv, LoadsAreCurrent, SetsOfConnection
<1>6. CASE StatusChanges
  BY <1>6 DEF StatusChanges, ComposerIInv, LoadsAreCurrent, SetsOfConnection
<1>7. CASE UNCHANGED composer
  BY <1>7 DEF composer, ComposerIInv, LoadsAreCurrent, SetsOfConnection
<1>8. QED
  BY <1>1, <1>2, <1>3, <1>4, <1>5, <1>6, <1>7 DEF ComposerNext

\* The sets on offer are those of the connection in the form, however late the
\* answers for other connections come (loadOptions and its generation), as long as
\* a new connection comes with a new composer: after an edit nothing is said.
THEOREM SetsBelong == ComposerSpec => []SetsOfConnection
<1>1. ComposerInit => ComposerIInv
  BY DEF ComposerInit, ComposerIInv, LoadsAreCurrent, SetsOfConnection
<1>2. ComposerIInv => SetsOfConnection
  BY DEF ComposerIInv
<1>3. QED
  BY <1>1, <1>2, ComposerStep, PTL DEF ComposerSpec
=============================================================================
