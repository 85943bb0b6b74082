---------------------------- MODULE MCWorkbench ----------------------------
(***************************************************************************)
(* Instances for TLC of Workbench and ComposerOptions.  They share no      *)
(* state here, so that each behaviour is one of either, the other's        *)
(* variables staying as they are at first.                                 *)
(***************************************************************************)
EXTENDS Workbench, ComposerOptions

CONSTANTS h1, d1, d2

VARIABLE part   \* which of the two moves

pageVars == <<part, vars, composer>>

MCInit == Init /\ ComposerInit /\ part \in {"workbench", "composer"}

MCNext ==
    \/ part = "workbench" /\ Next /\ UNCHANGED <<part, composer>>
    \/ part = "composer" /\ ComposerNext /\ UNCHANGED <<part, vars>>

MCSpec == MCInit /\ [][MCNext]_pageVars

\* The page alone, with its fairness.
LiveInit == MCInit /\ part = "workbench"
LiveSpec == LiveInit /\ [][MCNext]_pageVars /\ Fairness

MCHostOf == [s \in Listed |-> h1]
MCFieldOf == [s \in Listed \cup {New} |-> IF s = New THEN d1 ELSE d2]
=============================================================================
