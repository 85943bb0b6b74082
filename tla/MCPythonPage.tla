---------------------------- MODULE MCPythonPage ----------------------------
(***************************************************************************)
(* Instances for TLC of PythonSessions and PythonOutput.  They share no    *)
(* state, so that each behaviour is one of either, the other's variables   *)
(* staying as they are at first.                                           *)
(***************************************************************************)
EXTENDS PythonSessions, PythonOutput, TLC

VARIABLE part   \* which of the two moves

PageInit == Init /\ OutputInit /\ part \in {"sessions", "output"}

PageNext ==
    \/ part = "sessions" /\ Next /\ UNCHANGED <<part, outputVars>>
    \/ part = "output" /\ OutputNext /\ UNCHANGED <<part, vars>>

PageSpec == PageInit /\ [][PageNext]_<<part, vars, outputVars>>

Symmetry == Permutations(Tokens) \cup Permutations(Requests) \cup Permutations(Runs)

\* A limit of 2 falls inside a character of the first text and is just enough
\* for the second; a script may end after any part of its text, a blank say.
MCTexts == { <<"blank", "lead", "trail">>, <<"lead", "trail">> }
=============================================================================
