---------------------------- MODULE FilterExpression ----------------------------
(***************************************************************************)
(* A filter from the page that builds it to the expression the Aerospike   *)
(* plugin sends: the editor and its check (src/static/app.js), the types   *)
(* and operators the plugin declares (src/plugins/aerospike/aerospike.go)  *)
(* and what the plugin makes of the tree (src/plugins/aerospike/           *)
(* expression.go).  The nodes of the tree are objects the handlers hold on *)
(* to: each has a slot, and a child's slot is above its parent's.          *)
(***************************************************************************)
EXTENDS Integers, Sequences, SequencesExt

CONSTANTS
    MaxNodes,   \* bound: nodes of a filter, the root included
    Types,      \* bound: types that are used, "string" with them
    Comparisons,\* bound: operators that are used, "eq" with them
    Bins,       \* what is typed as the name of a bin
    Texts,      \* what is typed as a text
    Numbers,    \* what is typed as a number
    Wholes,     \* those that are whole
    Blank,      \* the texts that are blank
    Nothing

Supported == {"eq", "ne", "gt", "gte", "lt", "lte"}

ASSUME FilterConstants ==
    /\ MaxNodes \in Nat \ {0}
    /\ Types \subseteq {"string", "integer", "float", "boolean"}
    /\ Comparisons \subseteq Supported
    /\ "" \in Blank

VARIABLES
    node,       \* by slot: a node of expressionState, or Nothing
    sent        \* the plugin's expression of the filter that was submitted
                \* and not changed since, or Nothing

filterVars == <<node, sent>>

Slots == 1..MaxNodes
Operators(t) == IF t = "boolean" THEN Comparisons \cap {"eq", "ne"} ELSE Comparisons

\* What the control for a value can hold: a text, a number or a choice.
Values(t) ==
    CASE t = "string" -> Texts
      [] t \in {"integer", "float"} -> Numbers \cup {""}
      [] t = "boolean" -> {"true", "false"}

EmptyGroup == [kind |-> "group", logic |-> "and", children |-> <<>>]
EmptyCondition ==
    [kind |-> "condition", bin |-> "", type |-> "string", operator |-> "eq", value |-> ""]

\* What a slot can hold.  Nothing is no node and no slot.
Groups == [kind : {"group"}, logic : {"and", "or"}, children : Seq(Slots)]
Conditions == [kind : {"condition"}, bin : Bins \cup {""}, type : Types \cup {"string"},
               operator : Comparisons \cup {"eq"},
               value : Texts \cup Numbers \cup {"", "true", "false"}]
ASSUME NothingIsNoNode == Nothing \notin Groups \cup Conditions \cup Slots

IsGroup(n) == node[n] # Nothing /\ node[n].kind = "group"
IsCondition(n) == node[n] # Nothing /\ node[n].kind = "condition"

FilterInit ==
    /\ node = [n \in Slots |-> IF n = 1 THEN EmptyGroup ELSE Nothing]
    /\ sent = Nothing

-----------------------------------------------------------------------------
(* The page *)

Change(n, changed) ==
    /\ node' = [node EXCEPT ![n] = changed]
    /\ sent' = Nothing

\* The buttons that add a condition or a group to group p.
Add(p, new) ==
    /\ IsGroup(p)
    /\ \E n \in p+1..MaxNodes :
           /\ node[n] = Nothing
           /\ \A k \in p+1..n-1 : node[k] # Nothing
           /\ node' = [node EXCEPT ![n] = new, ![p].children = Append(@, n)]
    /\ sent' = Nothing

SetLogic(p, logic) ==
    /\ IsGroup(p)
    /\ Change(p, [node[p] EXCEPT !.logic = logic])

\* Node n goes, and all that is in it.
Below[k \in Slots] ==
    {k} \cup IF IsGroup(k) THEN UNION {Below[c] : c \in Range(node[k].children)} ELSE {}
RemoveNode(p, n) ==
    /\ IsGroup(p)
    /\ \E i \in DOMAIN node[p].children :
           /\ node[p].children[i] = n
           /\ node' = [k \in Slots |->
                          CASE k \in Below[n] -> Nothing
                            [] k = p -> [node[p] EXCEPT !.children = RemoveAt(@, i)]
                            [] OTHER -> node[k]]
    /\ sent' = Nothing

SetBin(n, bin) == IsCondition(n) /\ Change(n, [node[n] EXCEPT !.bin = bin])

\* The value is cleared; an operator the type does not have becomes its first.
FaultySetType(n, type) ==  \* keeps the operator
    /\ IsCondition(n)
    /\ Change(n, [node[n] EXCEPT !.type = type, !.value = ""])
SetType(n, type) ==
    /\ IsCondition(n)
    /\ Change(n, [node[n] EXCEPT
           !.type = type,
           !.value = "",
           !.operator = IF @ \in Operators(type) THEN @ ELSE "eq"])

SetOperator(n, operator) ==
    /\ IsCondition(n)
    /\ operator \in Operators(node[n].type)
    /\ Change(n, [node[n] EXCEPT !.operator = operator])

SetValue(n, value) ==
    /\ IsCondition(n)
    /\ value \in Values(node[n].type)
    /\ Change(n, [node[n] EXCEPT !.value = value])

\* validateExpression.  Any empty group passes, for the first line of the
\* function answers before the one that would complain.
Complete(n) ==
    /\ node[n].bin # ""
    /\ node[n].value \notin Blank
Valid == \A n \in Slots : IsCondition(n) => Complete(n)

-----------------------------------------------------------------------------
(* The plugin *)

Parses(type, value) ==
    CASE type = "string" -> TRUE
      [] type = "integer" -> value \in Wholes
      [] type = "float" -> value \in Numbers
      [] type = "boolean" -> value \in {"true", "false"}

\* compileCondition: a condition becomes a comparison unless it is refused.
Accepted(c) ==
    /\ c.bin \notin Blank
    /\ Parses(c.type, c.value)
    /\ c.type = "boolean" => c.operator \in {"eq", "ne"}
    /\ c.operator \in Supported

\* compileExpression, the tree being the page's: by slot, the one whose
\* expression a node compiles to, or Nothing if it is refused.  A group of one
\* is its only child.
Compiled[n \in Slots] ==
    IF IsCondition(n) THEN IF Accepted(node[n]) THEN n ELSE Nothing
    ELSE IF IsGroup(n) /\ Len(node[n].children) = 1 THEN Compiled[node[n].children[1]]
    ELSE IF /\ IsGroup(n)
            /\ node[n].children # <<>>
            /\ \A i \in DOMAIN node[n].children : Compiled[node[n].children[i]] # Nothing
         THEN n ELSE Nothing

\* The expression: its root, and by slot the comparison that is made there, or
\* what ExpAnd or ExpOr is applied to.
Made == {n \in Slots : Compiled[n] = n}
Expression ==
    [root |-> Compiled[1],
     part |-> [n \in Made |->
         IF IsGroup(n)
         THEN [op |-> node[n].logic,
               of |-> [i \in DOMAIN node[n].children |-> Compiled[node[n].children[i]]]]
         ELSE [op |-> "compare", of |-> node[n]]]]

\* The form is submitted if the page finds nothing wrong with the filter.  With
\* nothing in the root there is no filter.
Submit ==
    /\ Valid
    /\ node[1].children # <<>>
    /\ sent' = Expression
    /\ UNCHANGED node

FilterNext ==
    \/ \E p \in Slots : Add(p, EmptyCondition) \/ Add(p, EmptyGroup)
    \/ \E p \in Slots, logic \in {"and", "or"} : SetLogic(p, logic)
    \/ \E p, n \in Slots : RemoveNode(p, n)
    \/ \E n \in Slots :
           \/ \E bin \in Bins : SetBin(n, bin)
           \/ \E type \in Types : SetType(n, type)
           \/ \E operator \in Comparisons : SetOperator(n, operator)
           \/ \E value \in Texts \cup Numbers \cup {"true", "false"} : SetValue(n, value)
    \/ Submit

FilterSpec == FilterInit /\ [][FilterNext]_filterVars

-----------------------------------------------------------------------------
(* Properties *)

EmptyInside == \E n \in Slots \ {1} : IsGroup(n) /\ node[n].children = <<>>
Refused(c) == c.bin \in Blank \/ (c.type = "integer" /\ c.value \notin Wholes)

\* Whatever types, operators and values are chosen in which order, the plugin
\* refuses a filter the page let through only for an empty group, a blank name
\* of a bin or a fraction given for an integer.
PassesTheServer ==
    (sent # Nothing /\ sent.root = Nothing) =>
        EmptyInside \/ \E n \in Slots : IsCondition(n) /\ Refused(node[n])

\* Whether the tree of the page holds of a record for which the conditions in
\* true are true, and whether the expression selects it.
Holds(true) ==
    LET holds[n \in Slots] ==
            \/ IsCondition(n) /\ node[n] \in true
            \/ IsGroup(n) /\ LET c == node[n].children IN
                   \/ node[n].logic = "and" /\ \A i \in DOMAIN c : holds[c[i]]
                   \/ node[n].logic = "or" /\ \E i \in DOMAIN c : holds[c[i]]
    IN holds[1]
Selects(e, true) ==
    LET selects[n \in DOMAIN e.part] ==
            LET p == e.part[n] IN
            \/ p.op = "compare" /\ p.of \in true
            \/ p.op = "and" /\ \A i \in DOMAIN p.of : selects[p.of[i]]
            \/ p.op = "or" /\ \E i \in DOMAIN p.of : selects[p.of[i]]
    IN selects[e.root]

\* The expression selects the records for which the tree on the page holds,
\* whichever of its conditions are true of a record.
FilterMeansTree ==
    (sent # Nothing /\ sent.root # Nothing) =>
        \A true \in SUBSET {node[n] : n \in {m \in Slots : IsCondition(m)}} :
            Selects(sent, true) <=> Holds(true)

\* What the page lets through arrives, and means what the page shows.
FilterArrives == PassesTheServer /\ FilterMeansTree
=============================================================================
