------------------------------ MODULE Requests ------------------------------
(***************************************************************************)
(* What the server promises for each request, whatever clients, pools and  *)
(* databases do: it is answered once before it ends, and is called         *)
(* cancelled only if the browser has left it.  When it ends depends on     *)
(* those it has to wait for: see RequestsEnd in QueryLifecycle.            *)
(***************************************************************************)
CONSTANTS Handlers, Results, None

VARIABLES
    phase,   \* "idle", "pending" or "answered"
    gone,    \* has the browser aborted the request?
    result   \* what the answer says

vars == <<phase, gone, result>>

Init ==
    /\ phase = [h \in Handlers |-> "idle"]
    /\ gone = [h \in Handlers |-> FALSE]
    /\ result = [h \in Handlers |-> None]

Arrive(h) ==
    /\ phase[h] = "idle"
    /\ phase' = [phase EXCEPT ![h] = "pending"]
    /\ UNCHANGED <<gone, result>>

Abort(h) ==
    /\ phase[h] # "idle"
    /\ gone' = [gone EXCEPT ![h] = TRUE]
    /\ UNCHANGED <<phase, result>>

Answer(h, r) ==
    /\ phase[h] = "pending"
    /\ r = "cancelled" => gone[h]
    /\ phase' = [phase EXCEPT ![h] = "answered"]
    /\ result' = [result EXCEPT ![h] = r]
    /\ UNCHANGED gone

End(h) ==
    /\ phase[h] = "answered"
    /\ phase' = [phase EXCEPT ![h] = "idle"]
    /\ gone' = [gone EXCEPT ![h] = FALSE]
    /\ result' = [result EXCEPT ![h] = None]

Next ==
    \E h \in Handlers :
        \/ Arrive(h)
        \/ Abort(h)
        \/ \E r \in Results : Answer(h, r)
        \/ End(h)

Spec == Init /\ [][Next]_vars
=============================================================================
