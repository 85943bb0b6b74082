------------------------------- MODULE MCInputs -------------------------------
(***************************************************************************)
(* Instances for TLC of the modules about what the program is given: the   *)
(* connections requests write (ConnectionKeys), commands (RedisCommand),   *)
(* filters (FilterExpression) and the configuration (PresetConfig).  They  *)
(* share no state, so that each behaviour is one of them, the others'      *)
(* variables staying as they are at first.                                 *)
(***************************************************************************)
EXTENDS ConnectionKeys, RedisCommand, FilterExpression, PresetConfig, TLC

VARIABLE part   \* which of the four moves

inputVars == <<part, keysVars, commandVars, filterVars, configVars>>

-----------------------------------------------------------------------------
(* ConnectionKeys *)

Seed(h, p) == [host |-> h, port |-> p]

MCFold == [t \in {"", "a", "A", "b", "single", "cluster", " CLUSTER",
                  "0", "1", " 1", "01", "-1", "x"} |->
              CASE t = "A" -> "a" [] t = " CLUSTER" -> "cluster"
                [] t = " 1" -> "1" [] OTHER -> t]
MCNumber == [t \in {"0", "1", "01", "-1", "x"} |->
                CASE t = "0" -> 0 [] t \in {"1", "01"} -> 1 [] t = "-1" -> -1
                  [] OTHER -> None]

Basic == [tool |-> "redis", seeds |-> <<Seed("a", None)>>, port |-> 1, mode |-> "",
          db |-> "", id |-> "preset:p", lease |-> "tab1"]

\* The ways a session writes its connections, and another session and an
\* ad-hoc connection that share some of them.
Databases ==
    {[Basic EXCEPT !.mode = m, !.db = d] :
        m \in {" CLUSTER", "single"}, d \in {"0", " 1"}}
Spellings ==
    Databases
    \cup {[Basic EXCEPT !.db = d] : d \in {"", "01", "-1", "x"}}
    \cup {[Basic EXCEPT !.tool = "aerospike", !.seeds = s] :
              s \in {<<>>, <<Seed("", None)>>, <<Seed("A", 65535)>>, <<Seed("a", 65536)>>,
                     <<Seed("a", 1), Seed("a", 1)>>, <<Seed("b", 2), Seed("A", 1)>>,
                     <<Seed("a", None), Seed("b", 2)>>}}
    \cup {[Basic EXCEPT !.port = 0]}
    \cup {[Basic EXCEPT !.db = "1", !.seeds = s] :
              s \in {<<Seed("a", 1), Seed("b", 2)>>, <<Seed("b", 2), Seed("A", None)>>}}
Others == {[Basic EXCEPT !.mode = "single", !.lease = "tab2"],
           [Basic EXCEPT !.tool = "aerospike", !.lease = "tab2",
                         !.seeds = <<Seed("a", None), Seed("b", 2)>>]}
AdHoc == {[Basic EXCEPT !.mode = "cluster", !.lease = None, !.id = "mine"],
          [Basic EXCEPT !.db = "1", !.lease = None, !.id = "mine"]}

MCRequests == Spellings \cup Others \cup AdHoc

-----------------------------------------------------------------------------
(* RedisCommand *)

Alphabet == {"g", "b", "s", Space, Single, Double, Backslash}
Words == BoundedSeq(Alphabet \ {"b"}, 2)

\* Every source of up to four characters, and every command of up to two
\* arguments of up to two characters from a Python script.
MCInputs ==
    {[source |-> s, words |-> Nil] : s \in BoundedSeq(Alphabet, 4)}
        \cup {[source |-> Join(ws), words |-> ws] :
               ws \in UNION {[1..n -> Words] : n \in 1..2}}

-----------------------------------------------------------------------------
(* PresetConfig *)

MCTexts == {"", "p", " p", "q", "saved", "a", " a", "b", "preset:a", " preset:a", "preset:b",
            "redis", "single", "stage", " Stage", "Stage", "prod", "other"}
MCTrim == [t \in MCTexts |->
             CASE t = " p" -> "p" [] t = " a" -> "a" [] t = " preset:a" -> "preset:a"
               [] t = " Stage" -> "Stage" [] OTHER -> t]
MCLower == [t \in MCTexts |-> IF t \in {" Stage", "Stage"} THEN "stage" ELSE t]

Connection(id, name, environment) ==
    [id |-> id, name |-> name, tool |-> "redis", hosts |-> <<Unset>>, port |-> 1,
     mode |-> "single", environment |-> environment]
Profile(id, connections) == [id |-> id, label |-> "p", connections |-> connections]
NoIDE == [enabled |-> FALSE, path |-> <<>>, credentials |-> FALSE]
File(ide, profiles) == [state |-> "json", ide |-> ide, profiles |-> profiles]

A == Connection("preset:a", "a", "prod")

\* The second of two connections, in the same profile or in another one.
Seconds ==
    {Connection(id, name, environment) :
        id \in {"", "a", " preset:a", "preset:b"}, name \in {"", " a", "b", "preset:a", "preset:b"},
        environment \in {"", " Stage", "prod", "other"}}
    \cup UNION {
        {[Connection("preset:b", "b", "stage") EXCEPT !.hosts = h, !.port = p] :
            h \in {Unset, <<>>, <<Unset, 2>>, <<65536>>}, p \in {Unset, 0, 1, 65535, 65536}},
        {[Connection("preset:b", "b", "stage") EXCEPT !.tool = t, !.mode = m] :
            t \in {"", "redis", "other"}, m \in {"", "single", "other"}}}

Paths == {<<>>, <<"query">>, <<"query", "x">>, <<"static">>, <<"static", "app.js">>, <<"ide">>}
MCRoutes == {<<"query">>, <<"connect">>}

MCFiles ==
    {[state |-> s, ide |-> NoIDE, profiles |-> <<>>] : s \in {"missing", "empty", "unreadable"}}
    \cup {File(NoIDE, <<Profile("p", IF swap THEN <<c, A>> ELSE <<A, c>>)>>) :
             c \in Seconds, swap \in BOOLEAN}
    \cup {File(NoIDE, <<Profile("p", <<A>>), Profile(id, <<c>>)>>) :
             c \in Seconds, id \in {"q", "saved", " p", ""}}
    \cup {File([enabled |-> e, path |-> r, credentials |-> k], <<Profile("p", <<A>>)>>) :
             e \in BOOLEAN, r \in Paths, k \in BOOLEAN}

-----------------------------------------------------------------------------

\* A part that does not move has one input or file.
NoInput == [source |-> <<>>, words |-> Nil]
NoFile == [state |-> "missing", ide |-> NoIDE, profiles |-> <<>>]

InputsInit ==
    /\ part \in {"keys", "command", "filter", "config"}
    /\ input \in IF part = "command" THEN Inputs ELSE {NoInput}
    /\ file \in IF part = "config" THEN Files ELSE {NoFile}
    /\ KeysInit /\ Unread /\ FilterInit /\ Unopened

InputsNext ==
    \/ part = "keys" /\ KeysNext /\ UNCHANGED <<part, commandVars, filterVars, configVars>>
    \/ part = "command" /\ CommandNext /\ UNCHANGED <<part, keysVars, filterVars, configVars>>
    \/ part = "filter" /\ FilterNext /\ UNCHANGED <<part, keysVars, commandVars, configVars>>
    \/ part = "config" /\ ConfigNext /\ UNCHANGED <<part, keysVars, commandVars, filterVars>>

InputsSpec == InputsInit /\ [][InputsNext]_inputVars
=============================================================================
