--------------------------- MODULE ComposerOptions ---------------------------
(***************************************************************************)
(* The two live dropdowns of the Aerospike composer: renderComposer,       *)
(* bindComposerEvents and loadOptions (src/static/app.js).  The options of *)
(* "set" depend on the namespace chosen; both are fetched from the         *)
(* connection in the form while its status is "reachable", and answers     *)
(* come in any order.  The form changes with a new composer, when a        *)
(* connection is selected or a block runs again, and without one, when the *)
(* host, the port or the mode is edited.  A load that fails shows its      *)
(* message as an answer shows its options.                                 *)
(***************************************************************************)
EXTENDS Integers, FiniteSets

CONSTANTS
    Conns,          \* the connections a user selects or enters
    Namespaces,     \* the namespaces each of them has, or none
    MaxRenders,     \* bound: composers
    MaxChoices,     \* bound: namespaces chosen by hand
    Nil

VARIABLES
    renderGeneration,
    conn,       \* the connection in the form
    reachable,  \* is its status "reachable"?
    edited,     \* history: has it changed since the composer was rendered?
    namespace,  \* the value of the first dropdown, or Nil
    sets,       \* whose sets the second dropdown offers: conn, ns; or Nil
    disabled,   \* is the second dropdown disabled?
    loads,      \* fetches under way: generation, resource, conn, ns (equal
                \* ones are one)
    choices     \* namespaces chosen by hand

details  == <<conn, reachable, edited>>
composer == <<renderGeneration, details, namespace, sets, disabled, loads, choices>>

Load(generation, resource, c, ns) ==
    [generation |-> generation, resource |-> resource, conn |-> c, ns |-> ns]

ComposerInit ==
    /\ renderGeneration = 0
    /\ conn = Nil
    /\ reachable = FALSE
    /\ edited = FALSE
    /\ namespace = Nil
    /\ sets = Nil
    /\ disabled = FALSE
    /\ loads = {}
    /\ choices = 0

-----------------------------------------------------------------------------

\* A new composer replaces the old one and, if the connection is reachable,
\* loads its first dropdown: for a connection that is selected (which is not), for
\* one whose probe has succeeded, or for the connection of a block.
FaultyRenderComposer(c, up) ==     \* keeps the dropdowns
    /\ renderGeneration < MaxRenders
    /\ renderGeneration' = renderGeneration + 1
    /\ conn' = c
    /\ reachable' = up
    /\ edited' = FALSE
    /\ loads' = IF up THEN loads \cup {Load(renderGeneration', "namespaces", c, Nil)}
                ELSE loads
    /\ UNCHANGED <<namespace, sets, disabled, choices>>
RenderComposer(c, up) ==
    /\ renderGeneration < MaxRenders
    /\ renderGeneration' = renderGeneration + 1
    /\ conn' = c
    /\ reachable' = up
    /\ edited' = FALSE
    /\ namespace' = Nil
    /\ sets' = Nil
    /\ disabled' = FALSE
    /\ loads' = IF up THEN loads \cup {Load(renderGeneration', "namespaces", c, Nil)}
                ELSE loads
    /\ UNCHANGED choices

\* Edits of the host, the port or the mode: the dropdowns stay as they are.
EditDetails(c) ==
    /\ conn' = c
    /\ reachable' = FALSE
    /\ edited' = (edited \/ c # conn)
    /\ UNCHANGED <<renderGeneration, namespace, sets, disabled, loads, choices>>

\* A probe begins, is answered or fails, or a disconnect is.
StatusChanges ==
    /\ reachable' = ~reachable
    /\ UNCHANGED <<renderGeneration, conn, edited, namespace, sets, disabled, loads, choices>>

\* loadOptions of the second dropdown, which is looked up in the page as it is
\* now, for the render or the change with the given generation.
LoadSets(generation, ns, others) ==
    IF ns = Nil \/ ~reachable
    THEN /\ sets' = Nil
         /\ loads' = others
         /\ UNCHANGED disabled
    ELSE /\ disabled' = TRUE
         /\ loads' = others \cup {Load(generation, "sets", conn, ns)}
         /\ UNCHANGED sets

\* The namespaces have arrived: only the current composer shows them, but the
\* render that asked for them goes on to the sets in any case.
NamespacesLoaded(l) ==
    /\ l \in loads
    /\ l.resource = "namespaces"
    /\ IF l.generation = renderGeneration
       THEN namespace' \in Namespaces \cup {Nil}
       ELSE UNCHANGED namespace
    /\ LoadSets(l.generation, namespace', loads \ {l})
    /\ UNCHANGED <<renderGeneration, details, choices>>

ChooseNamespace(ns) ==
    /\ choices < MaxChoices
    /\ namespace \notin {Nil, ns}
    /\ \A l \in loads : l.resource = "sets" \/ l.generation # renderGeneration
    /\ namespace' = ns
    /\ LoadSets(renderGeneration, ns, loads)
    /\ choices' = choices + 1
    /\ UNCHANGED <<renderGeneration, details>>

SetsLoaded(l) ==
    /\ l \in loads
    /\ l.resource = "sets"
    /\ IF l.generation = renderGeneration
       THEN sets' = [conn |-> l.conn, ns |-> l.ns] /\ disabled' = FALSE
       ELSE UNCHANGED <<sets, disabled>>
    /\ loads' = loads \ {l}
    /\ UNCHANGED <<renderGeneration, details, namespace, choices>>

ComposerNext ==
    \/ \E c \in Conns, up \in BOOLEAN : RenderComposer(c, up)
    \/ \E c \in Conns : EditDetails(c)
    \/ StatusChanges
    \/ \E ns \in Namespaces : ChooseNamespace(ns)
    \/ \E l \in loads : NamespacesLoaded(l) \/ SetsLoaded(l)

ComposerSpec == ComposerInit /\ [][ComposerNext]_composer

-----------------------------------------------------------------------------
(* Properties *)

\* The sets on offer are those of the connection in the form, whatever answers
\* for other connections come in late, unless that connection was edited after
\* the composer was rendered (src/static/app.js:1206-1209 renders none): then the
\* sets of the connection before stay on offer, or still arrive.
SetsOfConnection == sets # Nil /\ ~edited => sets.conn = conn
=============================================================================
