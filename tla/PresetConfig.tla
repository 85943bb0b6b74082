----------------------------- MODULE PresetConfig -----------------------------
(***************************************************************************)
(* The connections an operator configures: how loadPresetConfig walks and  *)
(* normalises the file (src/preset_config.go), and how the server and      *)
(* Python scripts look up what was loaded (src/server.go,                  *)
(* src/python_ide.go).  A path is the sequence of its segments.            *)
(***************************************************************************)
EXTENDS Integers, Sequences, FiniteSets

CONSTANTS
    Files,      \* records: state, ide, profiles
    Trim,       \* by text: strings.TrimSpace
    Lower,      \* by text: strings.ToLower
    Prefixed,   \* the texts that begin with "preset:"
    Tools,      \* knownTools
    Routes,     \* the paths that the server answers without the IDE
    Unset

\* What a file may hold: its connections are what requests are made of.
Text == DOMAIN Trim
WrittenConnections ==
    [id : Text, name : Text, tool : Text, mode : Text, environment : Text,
     hosts : Seq(Int \cup {Unset}) \cup {Unset}, port : Int \cup {Unset}]
WrittenProfiles == [id : Text, label : Text, connections : Seq(WrittenConnections)]
IDEs == [enabled : BOOLEAN, path : Seq(STRING), credentials : BOOLEAN]

ASSUME FilesAreTyped ==
    \A f \in Files : f.state = "json" => f.ide \in IDEs /\ f.profiles \in Seq(WrittenProfiles)
ASSUME TextsAreNormalised ==
    /\ {"", "prod", "stage"} \subseteq Text
    /\ Trim \in [Text -> Text] /\ \A t \in Text : Trim[Trim[t]] = Trim[t]
    /\ Lower \in [Text -> Text]
    /\ "" \notin Prefixed \cup Tools
ASSUME RoutesAreFlat == \A r \in Routes : r \in Seq(STRING) /\ Len(r) = 1
ASSUME UnsetIsNone ==
    Unset \notin WrittenConnections \cup [id : Text, rest : Seq(WrittenConnections)]
                 \cup Seq(STRING)

VARIABLES
    file,       \* the file, as the operator wrote it
    todo,       \* profiles that are not checked yet
    profile,    \* the profile whose connections are checked: id, rest, or Unset
    profileIDs, connectionIDs, connectionNames,     \* seen, as in the code
    loaded,     \* the connections of the configuration
    path,       \* the path of the Python IDE, or Unset
    startup     \* "reading", "loaded" or "refused"

seen == <<profileIDs, connectionIDs, connectionNames>>
configVars == <<file, todo, profile, seen, loaded, path, startup>>

Unopened ==
    /\ todo = <<>>
    /\ profile = Unset
    /\ profileIDs = {} /\ connectionIDs = {} /\ connectionNames = {}
    /\ loaded = <<>>
    /\ path = Unset
    /\ startup = "opening"

ConfigInit == file \in Files /\ Unopened

-----------------------------------------------------------------------------

RefuseFile ==
    /\ startup' = "refused"
    /\ loaded' = <<>>
    /\ UNCHANGED <<file, todo, profile, seen, path>>

\* No file, and an empty one, configure nothing; other errors are errors.
OpenFile ==
    /\ startup = "opening"
    /\ \/ /\ file.state = "unreadable"
          /\ RefuseFile
       \/ /\ file.state \in {"missing", "empty"}
          /\ startup' = "loaded"
          /\ UNCHANGED <<file, todo, profile, seen, loaded, path>>
       \/ /\ file.state = "json"
          /\ startup' = "ide"
          /\ todo' = file.profiles
          /\ UNCHANGED <<file, profile, seen, loaded, path>>

\* The IDE must not take a path that the server has another use for.
IsFree(p) ==
    /\ p # <<>>
    /\ p \notin Routes
    /\ ~(Len(p) > 1 /\ p[1] = "static")

CheckIDE ==
    LET ide == file.ide
    IN /\ startup = "ide"
       /\ \/ /\ ide.enabled
             /\ ~(IsFree(ide.path) /\ ide.credentials)
             /\ RefuseFile
          \/ /\ ide.enabled => IsFree(ide.path) /\ ide.credentials
             /\ path' = IF ide.enabled THEN ide.path ELSE Unset
             /\ startup' = "reading"
             /\ UNCHANGED <<file, todo, profile, seen, loaded>>

CheckProfile ==
    LET next == Head(todo)
        id   == Trim[next.id]
    IN /\ startup = "reading"
       /\ profile = Unset
       /\ todo # <<>>
       /\ \/ /\ "" \in {id, Trim[next.label]} \/ id \in {"saved"} \cup profileIDs
             /\ RefuseFile
          \/ /\ "" \notin {id, Trim[next.label]}
             /\ id # "saved"
             /\ id \notin profileIDs
             /\ profileIDs' = profileIDs \cup {id}
             /\ profile' = [id |-> id, rest |-> next.connections]
             /\ todo' = Tail(todo)
             /\ UNCHANGED <<file, connectionIDs, connectionNames, loaded, path, startup>>

\* A connection as it is kept.
FaultyEnvironment(text) ==     \* takes the environment as it is written
    IF Trim[text] = "" THEN "prod" ELSE Trim[text]
Environment(text) == IF Lower[Trim[text]] = "" THEN "prod" ELSE Lower[Trim[text]]
Normalized(c) ==
    [id |-> Trim[c.id], name |-> Trim[c.name], tool |-> Trim[c.tool], mode |-> Trim[c.mode],
     environment |-> Environment(c.environment), hosts |-> c.hosts, port |-> c.port]

Ports == 1..65535

\* May a normalised connection be added to those seen?
Acceptable(c) ==
    /\ "" \notin {c.id, c.name, c.tool}
    /\ c.hosts # Unset
    /\ c.id \in Prefixed
    /\ c.id \notin connectionIDs
    /\ c.name \notin connectionNames
    /\ c.tool \in Tools
    /\ c.mode \in {"single", "cluster"}
    /\ c.environment \in {"prod", "stage"}
    /\ c.port \in Ports

CheckConnection ==
    LET c == Normalized(Head(profile.rest))
    IN /\ startup = "reading"
       /\ profile # Unset
       /\ profile.rest # <<>>
       /\ \/ ~Acceptable(c) /\ RefuseFile
          \/ /\ Acceptable(c)
             /\ connectionIDs' = connectionIDs \cup {c.id}
             /\ connectionNames' = connectionNames \cup {c.name}
             /\ loaded' = Append(loaded, c)
             /\ profile' = [profile EXCEPT !.rest = Tail(@)]
             /\ UNCHANGED <<file, todo, profileIDs, path, startup>>

ProfileDone ==
    /\ startup = "reading"
    /\ profile # Unset
    /\ profile.rest = <<>>
    /\ profile' = Unset
    /\ UNCHANGED <<file, todo, seen, loaded, path, startup>>

Loaded ==
    /\ startup = "reading"
    /\ profile = Unset
    /\ todo = <<>>
    /\ startup' = "loaded"
    /\ UNCHANGED <<file, todo, profile, seen, loaded, path>>

ConfigNext ==
    OpenFile \/ CheckIDE \/ CheckProfile \/ CheckConnection \/ ProfileDone \/ Loaded

ConfigSpec == ConfigInit /\ [][ConfigNext]_configVars

-----------------------------------------------------------------------------
(* What a running server makes of the configuration. *)

\* The first connection at one of these positions, or Unset.
First(found) ==
    IF found = {} THEN Unset
    ELSE loaded[CHOOSE i \in found : \A j \in found : i <= j]

FaultyConnectionByID(id) ==    \* also finds it by its name
    First({i \in DOMAIN loaded : id \in {loaded[i].id, loaded[i].name}})
ConnectionByID(id) == First({i \in DOMAIN loaded : loaded[i].id = id})

\* A query may write where this is "stage".
ResolveEnvironment(id, form) ==
    IF id \notin Prefixed
    THEN IF Lower[Trim[form]] = "stage" THEN "stage" ELSE "prod"
    ELSE IF ConnectionByID(id) # Unset THEN ConnectionByID(id).environment ELSE "prod"

\* orby.client in a script, and the server's look-up of what it then names.
PythonPreset(identifier) ==
    First({i \in DOMAIN loaded : Trim[identifier] \in {loaded[i].id, loaded[i].name}})
PythonClient(identifier) ==
    First({i \in DOMAIN loaded : identifier \in {loaded[i].id, loaded[i].name}})

\* The paths that go to the Python IDE.
IDERoutes ==
    IF path = Unset THEN {} ELSE {path, Append(path, "login"), Append(path, "logout")}

-----------------------------------------------------------------------------
(* Properties *)

Running == startup = "loaded"
\* The connections of the file: <<profile, connection>>.
Written == UNION {{<<p, c>> : c \in DOMAIN file.profiles[p].connections} :
                     p \in DOMAIN file.profiles}
WrittenAt(w) == file.profiles[w[1]].connections[w[2]]

\* The rules of the README's section on preconfigured connections.
ProfileRule(p) == /\ Trim[p.id] \notin {"", "saved"}
                  /\ Trim[p.label] # ""
ConnectionRule(c) ==
    /\ Trim[c.id] \in Prefixed
    /\ Trim[c.name] # "" /\ c.hosts # Unset
    /\ Trim[c.tool] \in Tools
    /\ Trim[c.mode] \in {"single", "cluster"}
    /\ Lower[Trim[c.environment]] \in {"", "prod", "stage"}
    /\ c.port \in Ports
Clash(c, d) == Trim[c.id] = Trim[d.id] \/ Trim[c.name] = Trim[d.name]

Sound ==
    /\ \A p \in DOMAIN file.profiles : ProfileRule(file.profiles[p])
    /\ \A p, q \in DOMAIN file.profiles :
           Trim[file.profiles[p].id] = Trim[file.profiles[q].id] => p = q
    /\ \A w \in Written : ConnectionRule(WrittenAt(w))
    /\ \A v, w \in Written : Clash(WrittenAt(v), WrittenAt(w)) => v = w

\* Orby starts exactly with the files that keep the rules, wherever in the file
\* two profiles or connections clash, and with all that is written in them.
LoadedIffSound ==
    file.state = "json" =>
        /\ startup = "refused" =>
               ~Sound \/ (file.ide.enabled /\ ~(IsFree(file.ide.path) /\ file.ide.credentials))
        /\ Running => Sound /\ Len(loaded) = Cardinality(Written)

\* Only a connection that its operator wrote down as stage may be written to,
\* and what was written down as stage may be, whatever the browser's form says.
WritesAsDeclared ==
    Running /\ file.state = "json" =>
        \A id \in Prefixed, form \in DOMAIN Trim :
            ResolveEnvironment(id, form) = "stage" <=>
                \E w \in Written : /\ Trim[WrittenAt(w).id] = id
                                   /\ Lower[Trim[WrittenAt(w).environment]] = "stage"

\* A script finds every connection by its ID and by its name, and what it asks
\* of a client reaches the connection the client was made for, unless a
\* connection's name is another one's ID.
ScriptsFindPresets ==
    LET clear == \A i, j \in DOMAIN loaded : loaded[i].name = loaded[j].id => i = j
    IN Running /\ clear =>
           \A i \in DOMAIN loaded : \A x \in {loaded[i].id, loaded[i].name} :
               /\ PythonClient(x) = loaded[i]
               /\ PythonPreset(x) = loaded[i]
               /\ PythonPreset(PythonClient(x).id) = loaded[i]

\* The IDE takes no page of the workbench away.
RoutesStay ==
    Running => IDERoutes \cap (Routes \cup {<<>>, <<"static", "app.js">>}) = {}

\* Whoever looks up a connection or a page of the running server finds what the
\* file says: browsers by ID, scripts by ID or name, requests by path.
LookUpsAgree == WritesAsDeclared /\ ScriptsFindPresets /\ RoutesStay
=============================================================================
