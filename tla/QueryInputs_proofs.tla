-------------------------- MODULE QueryInputs_proofs --------------------------
(***************************************************************************)
(* Proofs about what a query is written as: that a Redis command is read   *)
(* word for word as it was written, and in read-only mode run only if its  *)
(* first word is on the allow-list (RedisCommand); and that an Aerospike   *)
(* filter arrives as the expression that its tree means                    *)
(* (FilterExpression).  For any source, any arguments and any tree.        *)
(*                                                                         *)
(* Both modules define what is meant by recursion, along a source or down  *)
(* a tree.  That such a recursion has a solution, and what holds of it at  *)
(* every position or node, rests on one fact of WellFoundedInduction: a    *)
(* nonempty set of numbers has a least element.                            *)
(***************************************************************************)
EXTENDS RedisCommand, FilterExpression, WellFoundedInduction, FiniteSetTheorems,
        SequenceTheorems, TLAPS

-----------------------------------------------------------------------------
(* Recursion along a rank *)

NatOrder == {ss \in Nat \X Nat : ss[1] < ss[2]}

\* A nonempty set of numbers has a least element.
LEMMA Least ==
    ASSUME NEW T, T \subseteq Nat, T # {}
    PROVE  \E x \in T : \A y \in T : x <= y
<1>1. IsWellFoundedOn(NatOrder, Nat)
  BY NatLessThanWellFounded DEF OpToRel, NatOrder
<1>2. PICK x \in T : \A y \in T : <<y, x>> \notin NatOrder
  BY <1>1, WFMin
<1>3. ASSUME NEW y \in T
      PROVE  x <= y
  <2>1. x \in Nat /\ y \in Nat
    OBVIOUS
  <2>2. ~(y < x)
    BY <1>2, <2>1 DEF NatOrder
  <2>3. QED
    BY <2>1, <2>2
<1>4. QED
  BY <1>3

\* F takes a function to one whose value at d depends only on the values at
\* what ranks below d.
Descends(F, D, S, rank) ==
    \A f, g \in [D -> S], d \in D :
        (\A c \in D : rank[c] < rank[d] => f[c] = g[c]) => F[f][d] = F[g][d]

\* f solves the equation f = F[f] below rank n.
SolvesBelow(f, F, D, rank, n) == \A d \in D : rank[d] < n => f[d] = F[f][d]

\* One more application of F solves its equation one rank further.
LEMMA SolvedNext ==
    ASSUME NEW D, NEW S, NEW rank \in [D -> Nat], NEW F \in [[D -> S] -> [D -> S]],
           Descends(F, D, S, rank), NEW n \in Nat, NEW f \in [D -> S],
           SolvesBelow(f, F, D, rank, n)
    PROVE  SolvesBelow(F[f], F, D, rank, n + 1)
<1> SUFFICES ASSUME NEW d \in D, rank[d] < n + 1
             PROVE  F[f][d] = F[F[f]][d]
  BY DEF SolvesBelow
<1>1. F[f] \in [D -> S]
  OBVIOUS
<1>2. ASSUME NEW c \in D, rank[c] < rank[d]
      PROVE  f[c] = F[f][c]
  <2>1. rank[c] \in Nat /\ rank[d] \in Nat
    OBVIOUS
  <2>2. rank[c] < n
    BY <1>2, <2>1
  <2>3. QED
    BY <2>2 DEF SolvesBelow
<1>3. QED
  BY <1>1, <1>2 DEF Descends

IsRecursion(F, D, S, rank) ==
    /\ S # {}
    /\ rank \in [D -> Nat]
    /\ \E N \in Nat : \A d \in D : rank[d] < N
    /\ F \in [[D -> S] -> [D -> S]]
    /\ Descends(F, D, S, rank)

\* A recursion along a bounded rank has a solution.
LEMMA Recursion ==
    ASSUME NEW F, NEW D, NEW S, NEW rank, IsRecursion(F, D, S, rank)
    PROVE  \E f \in [D -> S] : f = F[f]
<1> PICK N \in Nat : \A d \in D : rank[d] < N
  BY DEF IsRecursion
<1> PICK s : s \in S
  BY DEF IsRecursion
<1>0. /\ rank \in [D -> Nat]
      /\ F \in [[D -> S] -> [D -> S]]
      /\ Descends(F, D, S, rank)
  BY DEF IsRecursion
<1> DEFINE Unsolved == {n \in Nat : ~ \E f \in [D -> S] : SolvesBelow(f, F, D, rank, n)}
<1>1. Unsolved = {}
  <2> SUFFICES ASSUME Unsolved # {} PROVE FALSE
    OBVIOUS
  <2>1. PICK n \in Unsolved : \A m \in Unsolved : n <= m
    <3>1. Unsolved \subseteq Nat
      OBVIOUS
    <3> HIDE DEF Unsolved
    <3> QED BY <3>1, Least
  <2>2. n # 0
    <3>1. [d \in D |-> s] \in [D -> S]
      OBVIOUS
    <3>2. SolvesBelow([d \in D |-> s], F, D, rank, 0)
      BY <1>0 DEF SolvesBelow
    <3>3. QED
      BY <3>1, <3>2
  <2>3. n - 1 \in Nat /\ n - 1 \notin Unsolved
    BY <2>1, <2>2
  <2>4. PICK f \in [D -> S] : SolvesBelow(f, F, D, rank, n - 1)
    BY <2>3
  <2>5. SolvesBelow(F[f], F, D, rank, n - 1 + 1)
    BY <1>0, <2>3, <2>4, SolvedNext
  <2>6. F[f] \in [D -> S] /\ n - 1 + 1 = n
    BY <1>0
  <2>7. QED
    BY <2>5, <2>6
<1>2. PICK f \in [D -> S] : SolvesBelow(f, F, D, rank, N)
  BY <1>1
<1>3. \A d \in D : f[d] = F[f][d]
  BY <1>0, <1>2 DEF SolvesBelow
<1>4. f \in [D -> S] /\ F[f] \in [D -> S]
  BY <1>0
<1>5. QED
  BY <1>3, <1>4
-----------------------------------------------------------------------------
(* Filters: what the nodes and the expression are *)

\* What Compiled is at slot n, given what it is at others.
CompiledAt(f, n) ==
    IF IsCondition(n) THEN IF Accepted(node[n]) THEN n ELSE Nothing
    ELSE IF IsGroup(n) /\ Len(node[n].children) = 1 THEN f[node[n].children[1]]
    ELSE IF /\ IsGroup(n)
            /\ node[n].children # <<>>
            /\ \A i \in DOMAIN node[n].children : f[node[n].children[i]] # Nothing
         THEN n ELSE Nothing

BelowAt(f, k) ==
    {k} \cup IF IsGroup(k) THEN UNION {f[c] : c \in Range(node[k].children)} ELSE {}

\* The nodes are nodes, and the first is the root, a group.
NodesTyped ==
    /\ node \in [Slots -> Groups \cup Conditions \cup {Nothing}]
    /\ IsGroup(1)

Child(n, i) == node[n].children[i]
Indexes(n) == DOMAIN node[n].children

\* The nodes form a tree.
IsTree ==
    /\ \A n \in Slots : IsGroup(n) => \A i \in Indexes(n) :
           Child(n, i) \in Slots /\ Child(n, i) > n /\ node[Child(n, i)] # Nothing
    /\ \A n, m \in Slots : IsGroup(n) /\ IsGroup(m) =>
           \A i \in Indexes(n), j \in Indexes(m) :
               Child(n, i) = Child(m, j) => n = m /\ i = j

\* A condition has an operator and a value that its type can have.
IsFit ==
    \A n \in Slots : IsCondition(n) =>
        /\ node[n].operator \in Operators(node[n].type) \cup {"eq"}
        /\ node[n].value \in Values(node[n].type) \cup {""}

SentIsCurrent ==
    sent # Nothing => Valid /\ node[1].children # <<>> /\ sent = Expression

FilterIInv == NodesTyped /\ IsTree /\ IsFit /\ SentIsCurrent

Depth == [n \in Slots |-> MaxNodes - n]

\* The slots are numbers, the first is the root's, and none is Nothing.
LEMMA SlotsAre ==
    /\ Slots \subseteq Nat
    /\ 1 \in Slots
    /\ Nothing \notin Slots
    /\ \A n, m \in Slots : (n < m <=> ~(m <= n))
    /\ \A n, m, k \in Slots : n < m /\ m <= k => n < k /\ n # k
<1>1. MaxNodes \in Nat \ {0}
  BY FilterConstants
<1>2. Slots \subseteq Nat /\ 1 \in Slots
  BY <1>1 DEF Slots
<1>3. \A n, m \in Nat : (n < m <=> ~(m <= n))
  OBVIOUS
<1>4. \A n, m, k \in Nat : n < m /\ m <= k => n < k /\ n # k
  OBVIOUS
<1>5. Nothing \notin Slots
  BY NothingIsNoNode
<1>6. QED
  BY <1>2, <1>3, <1>4, <1>5

\* Depth ranks the slots: those further on are deeper, and rank lower.
LEMMA DepthIs ==
    /\ MaxNodes \in Nat
    /\ Depth \in [Slots -> Nat]
    /\ \A n \in Slots : Depth[n] < MaxNodes
    /\ \A n, m \in Slots : n > m => Depth[n] < Depth[m]
<1>1. MaxNodes \in Nat
  BY FilterConstants
<1>2. QED
  BY <1>1 DEF Depth, Slots

\* A group has a logic and a list of slots as children.
LEMMA GroupIs ==
    ASSUME NodesTyped, NEW n \in Slots, IsGroup(n)
    PROVE  /\ node[n] \in Groups
           /\ node[n].children \in Seq(Slots)
           /\ node[n].logic \in {"and", "or"}
           /\ ~IsCondition(n)
           /\ DOMAIN node[n].children = 1..Len(node[n].children)
           /\ Len(node[n].children) \in Nat
<1>1. node[n] \in Groups
  BY DEF NodesTyped, IsGroup, Conditions
<1>2. QED
  BY <1>1 DEF Groups, IsCondition

\* A condition is no group.
LEMMA ConditionIs ==
    ASSUME NodesTyped, NEW n \in Slots, IsCondition(n)
    PROVE  node[n] \in Conditions /\ ~IsGroup(n)
  BY DEF NodesTyped, IsGroup, Conditions, Groups, IsCondition

\* The recursion of compileExpression ends, since the children of a node are
\* deeper.
LEMMA CompiledIs ==
    ASSUME NodesTyped, IsTree
    PROVE  /\ Compiled = [n \in Slots |-> CompiledAt(Compiled, n)]
           /\ \A n \in Slots : Compiled[n] = CompiledAt(Compiled, n)
<1> DEFINE S == Slots \cup {Nothing}
           F == [f \in [Slots -> S] |-> [n \in Slots |-> CompiledAt(f, n)]]
<1>1. ASSUME NEW f \in [Slots -> S], NEW n \in Slots
      PROVE  CompiledAt(f, n) \in S
  <2>1. IsGroup(n) /\ Len(node[n].children) = 1 => f[node[n].children[1]] \in S
    BY GroupIs
  <2>2. QED
    BY <2>1 DEF CompiledAt
<1>2. F \in [[Slots -> S] -> [Slots -> S]]
  BY <1>1
<1>3. Descends(F, Slots, S, Depth)
  <2> SUFFICES ASSUME NEW f \in [Slots -> S], NEW g \in [Slots -> S], NEW n \in Slots,
                      \A m \in Slots : Depth[m] < Depth[n] => f[m] = g[m]
               PROVE  CompiledAt(f, n) = CompiledAt(g, n)
    BY DEF Descends
  <2>1. CASE IsGroup(n)
    <3>1. ASSUME NEW i \in DOMAIN node[n].children
          PROVE  f[node[n].children[i]] = g[node[n].children[i]]
      <4>1. node[n].children[i] \in Slots /\ node[n].children[i] > n
        BY <2>1 DEF IsTree, Child, Indexes
      <4>2. QED
        BY <4>1, DepthIs
    <3>2. Len(node[n].children) = 1 => 1 \in DOMAIN node[n].children
      BY <2>1, GroupIs
    <3>3. QED
      BY <2>1, <3>1, <3>2 DEF CompiledAt
  <2>2. CASE ~IsGroup(n)
    BY <2>2 DEF CompiledAt
  <2> QED BY <2>1, <2>2
<1>4. \E f : f = [n \in Slots |-> CompiledAt(f, n)]
  <2>1. Nothing \in S
    OBVIOUS
  <2>2. IsRecursion(F, Slots, S, Depth)
    <3> HIDE DEF F
    <3> QED BY <1>2, <1>3, <2>1, DepthIs DEF IsRecursion
  <2> HIDE DEF F, S
  <2>3. \E f \in [Slots -> S] : f = F[f]
    BY <2>2, Recursion
  <2> QED BY <2>3 DEF F
<1>5. Compiled = CHOOSE f : f = [n \in Slots |-> CompiledAt(f, n)]
  BY DEF Compiled, CompiledAt
<1>6. Compiled = [n \in Slots |-> CompiledAt(Compiled, n)]
  BY <1>4, <1>5
<1>7. QED
  BY <1>6

\* A nonempty set of slots has a deepest one.
LEMMA Deepest ==
    ASSUME NEW T, T \subseteq Slots, T # {}
    PROVE  \E n \in T : \A m \in T : m <= n
<1> DEFINE D == {Depth[n] : n \in T}
<1>1. D \subseteq Nat /\ D # {}
  BY DepthIs
<1>2. PICK d \in D : \A e \in D : d <= e
  <2> HIDE DEF D
  <2> QED BY <1>1, Least
<1>3. PICK n \in T : d = Depth[n]
  BY <1>2
<1>4. ASSUME NEW m \in T
      PROVE  m <= n
  <2>1. Depth[n] <= Depth[m]
    BY <1>2, <1>3
  <2>2. n \in Slots /\ m \in Slots /\ MaxNodes \in Nat
    BY FilterConstants
  <2>3. QED
    BY <2>1, <2>2 DEF Depth, Slots
<1>5. QED
  BY <1>4

\* What a node compiles to is a part of the expression that is made, at the
\* node or below it.
CompilesWell(n) ==
    Compiled[n] # Nothing =>
        /\ Compiled[n] \in Made
        /\ Compiled[n] >= n

\* What a node compiles to is made, whether itself or its only child's.
LEMMA CompiledMade ==
    ASSUME NodesTyped, IsTree
    PROVE  \A n \in Slots : CompilesWell(n)
<1> DEFINE Bad == {n \in Slots : ~CompilesWell(n)}
<1> SUFFICES ASSUME Bad # {} PROVE FALSE
  OBVIOUS
<1>1. PICK n \in Bad : \A m \in Bad : m <= n
  <2>1. Bad \subseteq Slots
    OBVIOUS
  <2> HIDE DEF Bad
  <2> QED BY <2>1, Deepest
<1>2. Slots \subseteq Nat
  BY SlotsAre
<1>3. Compiled[n] = CompiledAt(Compiled, n) /\ Compiled[n] # Nothing
  BY CompiledIs DEF CompilesWell
<1>4. Compiled[n] # n
  BY <1>2 DEF Made, CompilesWell
<1>5. /\ IsGroup(n) /\ Len(node[n].children) = 1
      /\ Compiled[n] = Compiled[node[n].children[1]]
  BY <1>3, <1>4 DEF CompiledAt
<1> DEFINE c == node[n].children[1]
<1>6. c \in Slots /\ c > n
  BY <1>5, GroupIs DEF IsTree, Child, Indexes
<1>7. CompilesWell(c)
  <2>1. n \in Nat /\ c \in Nat
    BY <1>1, <1>2, <1>6
  <2>2. ~(c <= n)
    BY <1>6, <2>1
  <2>3. c \notin Bad
    BY <1>1, <2>2
  <2>4. QED
    BY <1>6, <2>3
<1>8. QED
  <2>1. Compiled[n] \in Slots /\ Compiled[n] >= c /\ Compiled[n] \in Made
    BY <1>3, <1>5, <1>7 DEF CompilesWell, Made
  <2>2. n \in Nat /\ c \in Nat /\ Compiled[n] \in Nat
    BY <1>2, <1>6, <2>1
  <2>3. Compiled[n] >= n
    BY <1>6, <2>1, <2>2
  <2>4. QED
    BY <2>1, <2>3 DEF CompilesWell

\* A part that is made is a comparison, or joins what the children of a group
\* compile to.
LEMMA MadeIs ==
    ASSUME NodesTyped, IsTree, NEW n \in Made
    PROVE  /\ n \in Slots
           /\ \/ IsCondition(n) /\ Expression.part[n] = [op |-> "compare", of |-> node[n]]
              \/ /\ IsGroup(n)
                 /\ Expression.part[n].op = node[n].logic
                 /\ DOMAIN Expression.part[n].of = Indexes(n)
                 /\ \A i \in Indexes(n) :
                        /\ Child(n, i) \in Slots
                        /\ Child(n, i) > n
                        /\ Expression.part[n].of[i] = Compiled[Child(n, i)]
                        /\ Compiled[Child(n, i)] \in Made
                        /\ Compiled[Child(n, i)] > n
<1>1. n \in Slots /\ Compiled[n] = n /\ n # Nothing /\ Slots \subseteq Nat
  BY SlotsAre DEF Made
<1>2. n = CompiledAt(Compiled, n)
  BY <1>1, CompiledIs
<1>3. CASE IsCondition(n)
  BY <1>1, <1>3, ConditionIs DEF Expression
<1>4. CASE ~IsCondition(n)
  <2>1. IsGroup(n)
    BY <1>1, <1>2, <1>4 DEF CompiledAt
  <2>2. \A i \in Indexes(n) : Child(n, i) \in Slots /\ Child(n, i) > n
    BY <1>1, <2>1 DEF IsTree
  <2>3. \A i \in Indexes(n) : CompilesWell(Child(n, i))
    BY <2>2, CompiledMade
  <2>4. ASSUME Len(node[n].children) = 1
        PROVE  FALSE
    <3>1. 1 \in Indexes(n) /\ Compiled[Child(n, 1)] = n
      BY <1>1, <1>2, <1>4, <2>1, <2>4, GroupIs DEF Indexes, Child, CompiledAt
    <3>2. n >= Child(n, 1) /\ Child(n, 1) > n /\ Child(n, 1) \in Slots
      BY <1>1, <2>2, <2>3, <3>1 DEF CompilesWell
    <3>3. n \in Nat /\ Child(n, 1) \in Nat
      BY <1>1, <3>2
    <3>4. QED
      BY <3>2, <3>3
  <2>5. \A i \in Indexes(n) : Compiled[Child(n, i)] # Nothing
    BY <1>1, <1>2, <1>4, <2>4 DEF CompiledAt, Indexes, Child
  <2>6. ASSUME NEW i \in Indexes(n)
        PROVE  Compiled[Child(n, i)] \in Made /\ Compiled[Child(n, i)] > n
    <3> DEFINE m == Compiled[Child(n, i)]
    <3>1. m \in Made /\ m >= Child(n, i)
      BY <2>2, <2>3, <2>5 DEF CompilesWell
    <3>2. m \in Nat /\ n \in Nat /\ Child(n, i) \in Nat /\ Child(n, i) > n
      BY <1>1, <2>2, <3>1 DEF Made
    <3>3. m > n
      <4> HIDE DEF m
      <4> QED BY <3>1, <3>2
    <3>4. QED
      BY <3>1, <3>3
  <2>7. Expression.part[n] = [op |-> node[n].logic,
               of |-> [i \in Indexes(n) |-> Compiled[Child(n, i)]]]
    BY <2>1 DEF Expression, Indexes, Child
  <2>8. QED
    BY <1>1, <2>1, <2>2, <2>6, <2>7
<1>5. QED
  BY <1>3, <1>4


HoldsAt(h, n, true) ==
    \/ IsCondition(n) /\ node[n] \in true
    \/ IsGroup(n) /\ LET c == node[n].children IN
           \/ node[n].logic = "and" /\ \A i \in DOMAIN c : h[c[i]]
           \/ node[n].logic = "or" /\ \E i \in DOMAIN c : h[c[i]]

SelectsAt(s, n, e, true) ==
    LET p == e.part[n] IN
    \/ p.op = "compare" /\ p.of \in true
    \/ p.op = "and" /\ \A i \in DOMAIN p.of : s[p.of[i]]
    \/ p.op = "or" /\ \E i \in DOMAIN p.of : s[p.of[i]]

\* Holds is a recursion down the tree, and ends.
LEMMA HoldsIs ==
    ASSUME NodesTyped, IsTree, NEW true
    PROVE  \E h : /\ \A n \in Slots : h[n] = HoldsAt(h, n, true)
                  /\ Holds(true) = h[1]
<1> DEFINE S == BOOLEAN
           F == [f \in [Slots -> S] |-> [n \in Slots |-> HoldsAt(f, n, true)]]
<1>1. F \in [[Slots -> S] -> [Slots -> S]]
  BY DEF HoldsAt
<1>2. Descends(F, Slots, S, Depth)
  <2> SUFFICES ASSUME NEW f \in [Slots -> S], NEW g \in [Slots -> S], NEW n \in Slots,
                      \A m \in Slots : Depth[m] < Depth[n] => f[m] = g[m]
               PROVE  HoldsAt(f, n, true) = HoldsAt(g, n, true)
    BY DEF Descends
  <2>1. ASSUME IsGroup(n), NEW i \in DOMAIN node[n].children
        PROVE  f[node[n].children[i]] = g[node[n].children[i]]
    <3>1. node[n].children[i] \in Slots /\ node[n].children[i] > n
      BY <2>1 DEF IsTree, Child, Indexes
    <3>2. QED
      BY <3>1, DepthIs
  <2>2. QED
    BY <2>1 DEF HoldsAt
<1>3. \E f : f = [n \in Slots |-> HoldsAt(f, n, true)]
  <2>1. IsRecursion(F, Slots, S, Depth)
    <3> HIDE DEF F
    <3> QED BY <1>1, <1>2, DepthIs DEF IsRecursion
  <2> HIDE DEF F, S
  <2>2. \E f \in [Slots -> S] : f = F[f]
    BY <2>1, Recursion
  <2> QED BY <2>2 DEF F
<1> DEFINE holds == CHOOSE f : f = [n \in Slots |-> HoldsAt(f, n, true)]
<1>4. Holds(true) = holds[1]
  BY DEF Holds, HoldsAt
<1>5. holds = [n \in Slots |-> HoldsAt(holds, n, true)]
  BY <1>3
<1>6. \A n \in Slots : holds[n] = HoldsAt(holds, n, true)
  <2> HIDE DEF holds
  <2> QED BY <1>5
<1>7. QED
  BY <1>4, <1>6

\* Selects is a recursion down the parts that are made, and ends.
LEMMA SelectsIs ==
    ASSUME NodesTyped, IsTree, NEW true
    PROVE  \E s : /\ \A n \in Made : s[n] = SelectsAt(s, n, Expression, true)
                  /\ Selects(Expression, true) = s[Expression.root]
<1> DEFINE S == BOOLEAN
           F == [f \in [Made -> S] |-> [n \in Made |-> SelectsAt(f, n, Expression, true)]]
           rank == [n \in Made |-> Depth[n]]
<1>1. F \in [[Made -> S] -> [Made -> S]]
  BY DEF SelectsAt
<1>2. Descends(F, Made, S, rank)
  <2> SUFFICES ASSUME NEW f \in [Made -> S], NEW g \in [Made -> S], NEW n \in Made,
                      \A m \in Made : Depth[m] < Depth[n] => f[m] = g[m]
               PROVE  SelectsAt(f, n, Expression, true) = SelectsAt(g, n, Expression, true)
    BY DEF Descends
  <2> DEFINE p == Expression.part[n]
  <2>1. CASE IsCondition(n) /\ p = [op |-> "compare", of |-> node[n]]
    BY <2>1 DEF SelectsAt
  <2>2. CASE ~(IsCondition(n) /\ p = [op |-> "compare", of |-> node[n]])
    <3>0. n \in Slots /\ IsGroup(n) /\ p.op = node[n].logic
      BY <2>2, MadeIs
    <3>1. ASSUME NEW i \in DOMAIN p.of
          PROVE  f[p.of[i]] = g[p.of[i]]
      <4>1. p.of[i] \in Made /\ p.of[i] > n
        BY <2>2, MadeIs
      <4>2. p.of[i] \in Slots /\ n \in Slots
        BY <4>1 DEF Made
      <4>3. QED
        BY <4>1, <4>2, DepthIs
    <3>2. p.op # "compare"
      BY <3>0, GroupIs
    <3> HIDE DEF p
    <3>3. QED
      BY <3>1, <3>2 DEF SelectsAt, p
  <2>3. QED
    BY <2>1, <2>2
<1>3. \E f : f = [n \in Made |-> SelectsAt(f, n, Expression, true)]
  <2>1. rank \in [Made -> Nat] /\ \E N \in Nat : \A d \in Made : rank[d] < N
    BY DepthIs DEF Made
  <2>2. IsRecursion(F, Made, S, rank)
    <3> HIDE DEF F, rank
    <3> QED BY <1>1, <1>2, <2>1 DEF IsRecursion
  <2> HIDE DEF F, S, rank
  <2>3. \E f \in [Made -> S] : f = F[f]
    BY <2>2, Recursion
  <2> QED BY <2>3 DEF F
<1> DEFINE selects == CHOOSE f : f = [n \in Made |-> SelectsAt(f, n, Expression, true)]
<1>4. DOMAIN Expression.part = Made
  BY DEF Expression
<1>5. Selects(Expression, true) = selects[Expression.root]
  BY <1>4 DEF Selects, SelectsAt
<1>6. selects = [n \in Made |-> SelectsAt(selects, n, Expression, true)]
  BY <1>3
<1>7. \A n \in Made : selects[n] = SelectsAt(selects, n, Expression, true)
  <2> HIDE DEF selects
  <2> QED BY <1>6
<1>8. QED
  BY <1>5, <1>7

\* What a node compiles to selects what the node says.
LEMMA CompiledMeans ==
    ASSUME NodesTyped, IsTree, NEW true, Expression.root # Nothing
    PROVE  Selects(Expression, true) <=> Holds(true)
<1>1. PICK h : /\ \A n \in Slots : h[n] = HoldsAt(h, n, true)
               /\ Holds(true) = h[1]
  BY HoldsIs
<1>2. PICK s : /\ \A n \in Made : s[n] = SelectsAt(s, n, Expression, true)
               /\ Selects(Expression, true) = s[Expression.root]
  BY SelectsIs
<1> DEFINE Agree(n) == Compiled[n] # Nothing => s[Compiled[n]] = h[n]
           Bad == {n \in Slots : ~Agree(n)}
<1>3. Bad = {}
  <2> SUFFICES ASSUME Bad # {} PROVE FALSE
    OBVIOUS
  <2>1. PICK n \in Bad : \A m \in Bad : m <= n
    <3>1. Bad \subseteq Slots
      OBVIOUS
    <3> HIDE DEF Bad
    <3> QED BY <3>1, Deepest
  <2>2. Slots \subseteq Nat /\ n \in Slots
    BY SlotsAre
  <2>3. Compiled[n] = CompiledAt(Compiled, n) /\ Compiled[n] # Nothing
    BY CompiledIs
  <2>4. ASSUME IsGroup(n), NEW i \in Indexes(n)
        PROVE  Child(n, i) \in Slots /\ Agree(Child(n, i))
    <3>1. Child(n, i) \in Slots /\ Child(n, i) > n
      BY <2>2, <2>4 DEF IsTree
    <3>2. ~(Child(n, i) <= n)
      BY <2>2, <3>1, SlotsAre
    <3>3. Child(n, i) \notin Bad
      BY <2>1, <3>2
    <3> HIDE DEF Agree
    <3> QED
      BY <3>1, <3>3
  <2>5. h[n] = HoldsAt(h, n, true)
    BY <1>1
  <2>6. CASE IsGroup(n) /\ Len(node[n].children) = 1
    <3>1. Indexes(n) = {1}
      BY <2>6, GroupIs DEF Indexes
    <3>2. Compiled[n] = Compiled[Child(n, 1)]
      BY <2>3, <2>6, GroupIs DEF CompiledAt, Child
    <3>3. s[Compiled[n]] = h[Child(n, 1)]
      BY <2>3, <2>4, <2>6, <3>1, <3>2
    <3>4. Child(n, 1) \in Slots /\ h[Child(n, 1)] \in BOOLEAN
      BY <1>1, <2>4, <2>6, <3>1 DEF HoldsAt
    <3>5. h[n] = h[Child(n, 1)]
      <4>1. node[n].logic \in {"and", "or"} /\ ~IsCondition(n)
        BY <2>6, GroupIs
      <4>2. HoldsAt(h, n, true) = h[Child(n, 1)]
        BY <2>6, <3>1, <3>4, <4>1 DEF HoldsAt, Indexes, Child
      <4>3. QED
        BY <2>5, <4>2
    <3>6. QED
      BY <2>1, <3>3, <3>5
  <2>7. CASE ~(IsGroup(n) /\ Len(node[n].children) = 1)
    <3>1. Compiled[n] = n
      BY <2>3, <2>7 DEF CompiledAt
    <3>2. n \in Made
      BY <3>1 DEF Made
    <3>3. s[n] = SelectsAt(s, n, Expression, true)
      BY <1>2, <3>2
    <3>4. CASE IsCondition(n) /\ Expression.part[n] = [op |-> "compare", of |-> node[n]]
      <4>1. ~IsGroup(n)
        BY <3>4, ConditionIs
      <4>2. HoldsAt(h, n, true) <=> node[n] \in true
        BY <3>4, <4>1 DEF HoldsAt
      <4>3. SelectsAt(s, n, Expression, true) <=> node[n] \in true
        <5>1. Expression.part[n].op = "compare" /\ Expression.part[n].of = node[n]
          BY <3>4
        <5>2. QED
          BY <5>1 DEF SelectsAt
      <4>4. SelectsAt(s, n, Expression, true) = HoldsAt(h, n, true)
        BY <4>2, <4>3 DEF SelectsAt, HoldsAt
      <4>5. QED
        BY <2>1, <2>5, <3>1, <3>3, <4>4
    <3>5. CASE ~(IsCondition(n) /\ Expression.part[n] = [op |-> "compare", of |-> node[n]])
      <4>1. /\ IsGroup(n)
            /\ Expression.part[n].op = node[n].logic
            /\ DOMAIN Expression.part[n].of = Indexes(n)
            /\ \A i \in Indexes(n) :
                   /\ Expression.part[n].of[i] = Compiled[Child(n, i)]
                   /\ Compiled[Child(n, i)] \in Made
        BY <3>2, <3>5, MadeIs
      <4>2. \A i \in Indexes(n) : Compiled[Child(n, i)] # Nothing
        BY <4>1, NothingIsNoNode DEF Made
      <4>3. \A i \in Indexes(n) : s[Expression.part[n].of[i]] = h[Child(n, i)]
        BY <2>4, <4>1, <4>2
      <4>4. node[n].logic \in {"and", "or"} /\ ~IsCondition(n)
        BY <2>2, <4>1, GroupIs
      <4>5. SelectsAt(s, n, Expression, true) = HoldsAt(h, n, true)
        BY <4>1, <4>3, <4>4 DEF SelectsAt, HoldsAt, Indexes, Child
      <4>6. QED
        BY <2>1, <2>5, <3>1, <3>3, <4>5
    <3>6. QED
      BY <3>4, <3>5
  <2>8. QED
    BY <2>6, <2>7
<1>4. Expression.root = Compiled[1] /\ 1 \in Slots
  BY SlotsAre DEF Expression
<1>5. s[Expression.root] = h[1]
  BY <1>3, <1>4
<1>6. QED
  BY <1>1, <1>2, <1>5
-----------------------------------------------------------------------------
(* Filters: the steps *)

\* The expression is the nodes', and stays the same as long as they do.
LEMMA ExpressionSame ==
    ASSUME node' = node
    PROVE  Expression' = Expression /\ (Valid' <=> Valid)
<1>1. Compiled' = Compiled
  BY DEF Compiled, IsGroup, IsCondition
<1>2. Made' = Made
  BY <1>1 DEF Made
<1>3. \A n : IsGroup(n)' = IsGroup(n) /\ IsCondition(n)' = IsCondition(n)
  BY DEF IsGroup, IsCondition
<1>4. Expression' = Expression
  BY <1>1, <1>2, <1>3 DEF Expression
<1>5. Valid' <=> Valid
  BY <1>3 DEF Valid, Complete
<1>6. QED
  BY <1>4, <1>5

\* Groups keep their children, and no node goes.
ChildrenKept ==
    \A m \in Slots :
        /\ node[m] # Nothing => node'[m] # Nothing
        /\ IsGroup(m)' => IsGroup(m) /\ node'[m].children = node[m].children

\* Nodes that keep their kind and their children stay a tree.
LEMMA TreeKept ==
    ASSUME IsTree, ChildrenKept
    PROVE  IsTree'
<1>1. \A m \in Slots : IsGroup(m)' =>
          IsGroup(m) /\ Indexes(m)' = Indexes(m) /\ \A i : Child(m, i)' = Child(m, i)
  BY DEF ChildrenKept, Indexes, Child
<1>2. ASSUME NEW n \in Slots, IsGroup(n)', NEW i \in Indexes(n)'
      PROVE  /\ Child(n, i)' \in Slots /\ Child(n, i)' > n
             /\ node'[Child(n, i)'] # Nothing
  <2>1. Child(n, i) \in Slots /\ Child(n, i) > n /\ node[Child(n, i)] # Nothing
    BY <1>1, <1>2 DEF IsTree
  <2>2. Child(n, i)' = Child(n, i)
    BY <1>1, <1>2
  <2>3. QED
    BY <2>1, <2>2 DEF ChildrenKept
<1>3. ASSUME NEW n \in Slots, NEW m \in Slots, IsGroup(n)', IsGroup(m)',
             NEW i \in Indexes(n)', NEW j \in Indexes(m)',
             Child(n, i)' = Child(m, j)'
      PROVE  n = m /\ i = j
  BY <1>1, <1>3 DEF IsTree
<1>4. QED
  BY <1>2, <1>3 DEF IsTree

\* A changed condition leaves the nodes a tree.
LEMMA ConditionChanged ==
    ASSUME NodesTyped, IsTree, IsFit, NEW n \in Slots, IsCondition(n), NEW c \in Conditions,
           c.operator \in Operators(c.type) \cup {"eq"},
           c.value \in Values(c.type) \cup {""},
           Change(n, c)
    PROVE  FilterIInv'
<1>1. node' = [node EXCEPT ![n] = c] /\ sent' = Nothing /\ n # 1
  BY SlotsAre, ConditionIs DEF Change, NodesTyped
<1>2. c # Nothing /\ c.kind = "condition"
  BY NothingIsNoNode DEF Conditions
<1>3. node' \in [Slots -> Groups \cup Conditions \cup {Nothing}]
  BY <1>1 DEF NodesTyped
<1>4. \A m \in Slots : node'[m] = IF m = n THEN c ELSE node[m]
  BY <1>1 DEF NodesTyped
<1>5. \A m \in Slots : IsGroup(m)' => m # n /\ IsGroup(m)
  BY <1>2, <1>4 DEF IsGroup
<1>6. NodesTyped'
  <2>1. IsGroup(1)'
    BY <1>1, <1>4, SlotsAre DEF IsGroup, NodesTyped
  <2>2. QED
    BY <1>3, <2>1 DEF NodesTyped
<1>7. IsTree'
  <2>1. ChildrenKept
    BY <1>2, <1>4, <1>5 DEF ChildrenKept
  <2>2. QED
    BY <2>1, TreeKept
<1>8. IsFit'
  <2> SUFFICES ASSUME NEW m \in Slots, IsCondition(m)'
               PROVE  /\ node'[m].operator \in Operators(node'[m].type) \cup {"eq"}
                      /\ node'[m].value \in Values(node'[m].type) \cup {""}
    BY DEF IsFit
  <2>1. CASE m = n
    BY <1>4, <2>1
  <2>2. CASE m # n
    <3>1. IsCondition(m) /\ node'[m] = node[m]
      BY <1>4, <2>2 DEF IsCondition
    <3>2. QED
      BY <3>1 DEF IsFit
  <2>3. QED
    BY <2>1, <2>2
<1>9. SentIsCurrent'
  BY <1>1 DEF SentIsCurrent
<1>10. QED
  BY <1>6, <1>7, <1>8, <1>9 DEF FilterIInv

\* Setting the bin of a condition keeps the invariant.
LEMMA SetBinStep ==
    ASSUME FilterIInv, NEW n \in Slots, NEW bin \in Bins, SetBin(n, bin)
    PROVE  FilterIInv'
<1> DEFINE c == [node[n] EXCEPT !.bin = bin]
<1>1. IsCondition(n) /\ node[n] \in Conditions /\ Change(n, c)
  BY ConditionIs DEF SetBin, FilterIInv
<1>2. c \in Conditions
  BY <1>1 DEF Conditions
<1>3. /\ c.operator = node[n].operator
      /\ c.value = node[n].value /\ c.type = node[n].type
  BY <1>1 DEF Conditions
<1>4. /\ c.operator \in Operators(c.type) \cup {"eq"}
      /\ c.value \in Values(c.type) \cup {""}
  BY <1>1, <1>3 DEF FilterIInv, IsFit
<1> HIDE DEF c
<1>5. QED
  BY <1>1, <1>2, <1>4, ConditionChanged DEF FilterIInv

\* Setting the type of a condition resets what the type cannot have, and
\* keeps the invariant.
LEMMA SetTypeStep ==
    ASSUME FilterIInv, NEW n \in Slots, NEW type \in Types, SetType(n, type)
    PROVE  FilterIInv'
<1> DEFINE c == [node[n] EXCEPT !.type = type, !.value = "",
                     !.operator = IF @ \in Operators(type) THEN @ ELSE "eq"]
<1>1. IsCondition(n) /\ node[n] \in Conditions /\ Change(n, c)
  BY ConditionIs DEF SetType, FilterIInv
<1>2. c \in Conditions
  BY <1>1 DEF Conditions
<1>3. /\ c.operator = IF node[n].operator \in Operators(type) THEN node[n].operator ELSE "eq"
      /\ c.value = ""
      /\ c.type = type
  BY <1>1 DEF Conditions
<1>4. /\ c.operator \in Operators(c.type) \cup {"eq"}
      /\ c.value \in Values(c.type) \cup {""}
  BY <1>3
<1> HIDE DEF c
<1>5. QED
  BY <1>1, <1>2, <1>4, ConditionChanged DEF FilterIInv

\* Setting the operator of a condition keeps the invariant.
LEMMA SetOperatorStep ==
    ASSUME FilterIInv, NEW n \in Slots, NEW operator \in Comparisons, SetOperator(n, operator)
    PROVE  FilterIInv'
<1> DEFINE c == [node[n] EXCEPT !.operator = operator]
<1>1. /\ IsCondition(n)
      /\ node[n] \in Conditions
      /\ Change(n, c)
      /\ operator \in Operators(node[n].type)
  BY ConditionIs DEF SetOperator, FilterIInv
<1>2. c \in Conditions
  BY <1>1 DEF Conditions
<1>3. c.operator = operator /\ c.value = node[n].value /\ c.type = node[n].type
  BY <1>1 DEF Conditions
<1>4. /\ c.operator \in Operators(c.type) \cup {"eq"}
      /\ c.value \in Values(c.type) \cup {""}
  BY <1>1, <1>3 DEF FilterIInv, IsFit
<1> HIDE DEF c
<1>5. QED
  BY <1>1, <1>2, <1>4, ConditionChanged DEF FilterIInv

\* Setting the value of a condition keeps the invariant.
LEMMA SetValueStep ==
    ASSUME FilterIInv, NEW n \in Slots, NEW value \in Texts \cup Numbers \cup {"true", "false"},
           SetValue(n, value)
    PROVE  FilterIInv'
<1> DEFINE c == [node[n] EXCEPT !.value = value]
<1>1. /\ IsCondition(n)
      /\ node[n] \in Conditions
      /\ Change(n, c)
      /\ value \in Values(node[n].type)
  BY ConditionIs DEF SetValue, FilterIInv
<1>2. c \in Conditions
  BY <1>1 DEF Conditions
<1>3. c.operator = node[n].operator /\ c.value = value /\ c.type = node[n].type
  BY <1>1 DEF Conditions
<1>4. /\ c.operator \in Operators(c.type) \cup {"eq"}
      /\ c.value \in Values(c.type) \cup {""}
  BY <1>1, <1>3 DEF FilterIInv, IsFit
<1> HIDE DEF c
<1>5. QED
  BY <1>1, <1>2, <1>4, ConditionChanged DEF FilterIInv

\* Setting the logic of a group keeps the invariant.
LEMMA SetLogicStep ==
    ASSUME FilterIInv, NEW p \in Slots, NEW logic \in {"and", "or"}, SetLogic(p, logic)
    PROVE  FilterIInv'
<1> DEFINE g == [node[p] EXCEPT !.logic = logic]
<1>1. /\ IsGroup(p) /\ node[p] \in Groups
      /\ node' = [node EXCEPT ![p] = g] /\ sent' = Nothing
  BY GroupIs DEF SetLogic, Change, FilterIInv
<1>2. g \in Groups /\ g.kind = "group" /\ g.children = node[p].children
  BY <1>1 DEF Groups
<1>3. g # Nothing
  BY <1>2, NothingIsNoNode
<1> HIDE DEF g
<1>4. \A m \in Slots : node'[m] = IF m = p THEN g ELSE node[m]
  BY <1>1 DEF FilterIInv, NodesTyped
<1>5. NodesTyped'
  <2>1. IsGroup(1)'
    BY <1>2, <1>3, <1>4, SlotsAre DEF IsGroup, NodesTyped, FilterIInv
  <2>2. node' \in [Slots -> Groups \cup Conditions \cup {Nothing}]
    BY <1>1, <1>2 DEF NodesTyped, FilterIInv
  <2>3. QED
    BY <2>1, <2>2 DEF NodesTyped
<1>6. IsTree'
  <2>1. ChildrenKept
    BY <1>1, <1>2, <1>3, <1>4 DEF ChildrenKept, IsGroup
  <2>2. QED
    BY <2>1, TreeKept DEF FilterIInv
<1>7. IsFit'
  <2>1. \A m \in Slots : IsCondition(m)' => IsCondition(m) /\ node'[m] = node[m]
    BY <1>2, <1>4 DEF IsCondition
  <2>2. QED
    BY <2>1 DEF IsFit, FilterIInv
<1>8. SentIsCurrent'
  BY <1>1 DEF SentIsCurrent
<1>9. QED
  BY <1>5, <1>6, <1>7, <1>8 DEF FilterIInv

\* Submitting a filter keeps the invariant: what is sent is the expression of
\* the nodes.
LEMMA SubmitStep ==
    ASSUME FilterIInv, Submit
    PROVE  FilterIInv'
<1>1. node' = node
  BY DEF Submit
<1>2. \A n : IsGroup(n)' = IsGroup(n) /\ IsCondition(n)' = IsCondition(n)
  BY <1>1 DEF IsGroup, IsCondition
<1>3. NodesTyped' /\ IsTree' /\ IsFit'
  <2>1. NodesTyped'
    BY <1>1, <1>2 DEF FilterIInv, NodesTyped
  <2>2. \A n, i : Indexes(n)' = Indexes(n) /\ Child(n, i)' = Child(n, i)
    BY <1>1 DEF Indexes, Child
  <2>3. IsTree'
    <3>1. IsTree
      BY DEF FilterIInv
    <3>2. QED
      BY ONLY <1>1, <1>2, <2>2, <3>1 DEF IsTree
  <2>4. IsFit'
    <3>1. IsFit
      BY DEF FilterIInv
    <3>2. QED
      BY ONLY <1>1, <1>2, <3>1 DEF IsFit
  <2>5. QED
    BY <2>1, <2>3, <2>4
<1>4. SentIsCurrent'
  BY <1>1, ExpressionSame DEF Submit, SentIsCurrent
<1>5. QED
  BY <1>3, <1>4 DEF FilterIInv

\* The invariant stays when nothing changes.
LEMMA FilterStutter ==
    ASSUME FilterIInv, UNCHANGED filterVars
    PROVE  FilterIInv'
<1>1. node' = node /\ sent' = sent
  BY DEF filterVars
<1>2. \A n : IsGroup(n)' = IsGroup(n) /\ IsCondition(n)' = IsCondition(n)
  BY <1>1 DEF IsGroup, IsCondition
<1>3. NodesTyped' /\ IsTree' /\ IsFit'
  <2>1. NodesTyped'
    BY <1>1, <1>2 DEF FilterIInv, NodesTyped
  <2>2. \A n, i : Indexes(n)' = Indexes(n) /\ Child(n, i)' = Child(n, i)
    BY <1>1 DEF Indexes, Child
  <2>3. IsTree'
    <3>1. IsTree
      BY DEF FilterIInv
    <3>2. QED
      BY ONLY <1>1, <1>2, <2>2, <3>1 DEF IsTree
  <2>4. IsFit'
    <3>1. IsFit
      BY DEF FilterIInv
    <3>2. QED
      BY ONLY <1>1, <1>2, <3>1 DEF IsFit
  <2>5. QED
    BY <2>1, <2>3, <2>4
<1>4. SentIsCurrent'
  BY <1>1, ExpressionSame DEF FilterIInv, SentIsCurrent
<1>5. QED
  BY <1>3, <1>4 DEF FilterIInv

\* Adding a node under a group keeps the invariant: the slot was free, and no
\* child of another.
LEMMA AddStep ==
    ASSUME FilterIInv, NEW p \in Slots, NEW new \in {EmptyCondition, EmptyGroup}, Add(p, new)
    PROVE  FilterIInv'
<1>1. IsGroup(p) /\ node[p] \in Groups /\ sent' = Nothing
  BY GroupIs DEF Add, FilterIInv
<1>2. PICK n \in p+1..MaxNodes :
          /\ node[n] = Nothing
          /\ node' = [node EXCEPT ![n] = new, ![p].children = Append(@, n)]
  BY DEF Add
<1>3. n \in Slots /\ n > p /\ n # p
  <2>1. MaxNodes \in Nat /\ p \in 1..MaxNodes
    BY DepthIs DEF Slots
  <2>2. QED
    BY <2>1 DEF Slots
<1> DEFINE g == [node[p] EXCEPT !.children = Append(@, n)]
<1>4. \A m \in Slots : node'[m] = IF m = n THEN new ELSE IF m = p THEN g ELSE node[m]
  BY <1>2, <1>3 DEF FilterIInv, NodesTyped
<1>5. g \in Groups /\ g.kind = "group" /\ g.children = Append(node[p].children, n)
  <2> PICK s \in Seq(Slots) : s = node[p].children
    BY <1>1 DEF Groups
  <2>1. Append(s, n) \in Seq(Slots)
    BY <1>3
  <2>2. g = [node[p] EXCEPT !.children = Append(s, n)]
    OBVIOUS
  <2>3. QED
    BY <1>1, <2>1, <2>2 DEF Groups
<1>6. g # Nothing
  BY <1>5, NothingIsNoNode
<1> HIDE DEF g
<1>7. /\ new \in Groups \cup Conditions
      /\ new.kind = "group" => new.children = <<>>
      /\ new.kind = "condition" => new.operator = "eq" /\ new.value = ""
  <2>1. EmptyGroup \in Groups
    BY DEF EmptyGroup, Groups
  <2>2. EmptyCondition \in Conditions
    BY DEF EmptyCondition, Conditions
  <2>3. EmptyGroup.children = <<>> /\ EmptyGroup.kind = "group"
    BY DEF EmptyGroup
  <2>4. /\ EmptyCondition.operator = "eq" /\ EmptyCondition.value = ""
        /\ EmptyCondition.kind = "condition"
    BY DEF EmptyCondition
  <2>5. QED
    BY <2>1, <2>2, <2>3, <2>4
<1>8. new # Nothing
  BY <1>7, NothingIsNoNode
<1>9. n # 1
  BY <1>2, SlotsAre DEF FilterIInv, NodesTyped, IsGroup
<1>10. NodesTyped'
  <2>1. IsGroup(1)'
    BY <1>4, <1>5, <1>6, <1>9, SlotsAre DEF IsGroup, NodesTyped, FilterIInv
  <2>2. \A m \in Slots : node'[m] \in Groups \cup Conditions \cup {Nothing}
    BY <1>4, <1>5, <1>7 DEF NodesTyped, FilterIInv
  <2>3. node' = [m \in Slots |-> node'[m]]
    BY <1>2 DEF NodesTyped, FilterIInv
  <2>4. QED
    BY <2>1, <2>2, <2>3 DEF NodesTyped
\* The children of a group are those it had, and the new one of p.
<1>11. ASSUME NEW m \in Slots, IsGroup(m)', NEW i \in Indexes(m)'
       PROVE  \/ /\ m = p
                 /\ i = Len(node[p].children) + 1
                 /\ Child(m, i)' = n
              \/ /\ IsGroup(m)
                 /\ i \in Indexes(m)
                 /\ Child(m, i)' = Child(m, i)
                 /\ Child(m, i) # n
  <2>1. CASE m = p
    <3> PICK s \in Seq(Slots) : s = node[p].children
      BY <1>1 DEF Groups
    <3>1. node'[p].children = Append(s, n)
      BY <1>3, <1>4, <1>5
    <3>2. i \in 1..Len(s) + 1
      BY <1>11, <2>1, <3>1 DEF Indexes
    <3>3. CASE i = Len(s) + 1
      BY <1>3, <2>1, <3>1, <3>3 DEF Child
    <3>4. CASE i # Len(s) + 1
      <4>1. i \in 1..Len(s)
        BY <3>2, <3>4
      <4>2. i \in Indexes(p) /\ Child(p, i) = s[i] /\ Child(p, i)' = s[i]
        BY <3>1, <4>1, <1>3 DEF Indexes, Child
      <4>3. node[Child(p, i)] # Nothing
        BY <1>1, <4>2 DEF FilterIInv, IsTree
      <4>4. QED
        BY <1>1, <1>2, <2>1, <4>2, <4>3
    <3>5. QED
      BY <3>3, <3>4
  <2>2. CASE m = n
    <3>1. node'[m] = new
      BY <1>4, <2>2
    <3>2. new.children = <<>>
      BY <1>7, <1>11, <3>1 DEF IsGroup
    <3>3. DOMAIN new.children = {}
      BY <3>2
    <3>4. Indexes(m)' = {}
      BY <3>1, <3>3 DEF Indexes
    <3>5. QED
      BY <1>11, <3>4
  <2>3. CASE m # p /\ m # n
    <3>1. node'[m] = node[m]
      BY <1>4, <2>3
    <3>2. IsGroup(m) /\ i \in Indexes(m) /\ Child(m, i)' = Child(m, i)
      BY <1>11, <3>1 DEF IsGroup, Indexes, Child
    <3>3. node[Child(m, i)] # Nothing
      BY <3>2 DEF FilterIInv, IsTree
    <3>4. QED
      BY <1>2, <3>2, <3>3
  <2>4. QED
    BY <2>1, <2>2, <2>3
<1>12. IsTree'
  <2>1. ASSUME NEW m \in Slots, IsGroup(m)', NEW i \in Indexes(m)'
        PROVE  /\ Child(m, i)' \in Slots /\ Child(m, i)' > m
               /\ node'[Child(m, i)'] # Nothing
    <3>1. CASE m = p /\ Child(m, i)' = n
      BY <1>3, <1>4, <1>8, <3>1
    <3>2. CASE IsGroup(m) /\ i \in Indexes(m) /\ Child(m, i)' = Child(m, i)
      <4>1. /\ Child(m, i) \in Slots /\ Child(m, i) > m
            /\ node[Child(m, i)] # Nothing
        BY <3>2 DEF FilterIInv, IsTree
      <4>2. node'[Child(m, i)] # Nothing
        BY <1>4, <1>6, <1>8, <4>1
      <4>3. QED
        BY <3>2, <4>1, <4>2
    <3>3. QED
      BY <1>11, <2>1, <3>1, <3>2
  <2>2. ASSUME NEW k \in Slots, NEW m \in Slots, IsGroup(k)', IsGroup(m)',
               NEW i \in Indexes(k)', NEW j \in Indexes(m)',
               Child(k, i)' = Child(m, j)'
        PROVE  k = m /\ i = j
    <3>1. CASE Child(k, i)' = n
      BY <1>11, <2>2, <3>1
    <3>2. CASE Child(k, i)' # n
      <4>1. /\ IsGroup(k) /\ i \in Indexes(k) /\ Child(k, i)' = Child(k, i)
            /\ IsGroup(m) /\ j \in Indexes(m) /\ Child(m, j)' = Child(m, j)
        BY <1>11, <2>2, <3>2
      <4>2. QED
        BY <2>2, <4>1 DEF FilterIInv, IsTree
    <3>3. QED
      BY <3>1, <3>2
  <2>3. QED
    BY <2>1, <2>2 DEF IsTree
<1>13. IsFit'
  <2> SUFFICES ASSUME NEW m \in Slots, IsCondition(m)'
               PROVE  /\ node'[m].operator \in Operators(node'[m].type) \cup {"eq"}
                      /\ node'[m].value \in Values(node'[m].type) \cup {""}
    BY DEF IsFit
  <2>1. CASE m = n
    BY <1>4, <1>7, <2>1 DEF IsCondition
  <2>2. CASE m # n
    <3>1. IsCondition(m) /\ node'[m] = node[m]
      BY <1>4, <1>5, <2>2 DEF IsCondition
    <3>2. QED
      BY <3>1 DEF IsFit, FilterIInv
  <2>3. QED
    BY <2>1, <2>2
<1>14. SentIsCurrent'
  BY <1>1 DEF SentIsCurrent
<1>15. QED
  BY <1>10, <1>12, <1>13, <1>14 DEF FilterIInv
-----------------------------------------------------------------------------
(* Filters: removing a node, and the theorem *)

\* What is left in a list after one element is cut out, and where it was.
LEMMA RemoveAtIs ==
    ASSUME NEW S, NEW s \in Seq(S), NEW i \in DOMAIN s
    PROVE  /\ RemoveAt(s, i) \in Seq(S)
           /\ \A j \in DOMAIN RemoveAt(s, i) :
                  LET k == IF j < i THEN j ELSE j + 1
                  IN k \in DOMAIN s /\ k # i /\ RemoveAt(s, i)[j] = s[k]
<1> DEFINE a == SubSeq(s, 1, i - 1)
           b == SubSeq(s, i + 1, Len(s))
<1>1. Len(s) \in Nat /\ i \in 1..Len(s) /\ DOMAIN s = 1..Len(s)
  OBVIOUS
<1>2. a \in Seq(S) /\ Len(a) = i - 1 /\ \A j \in 1..(i-1) : a[j] = s[j]
  BY <1>1, SubSeqProperties
<1>3. /\ b \in Seq(S) /\ Len(b) = Len(s) - i
      /\ \A j \in 1..(Len(s) - i) : b[j] = s[i + j]
  <2>1. b \in Seq(S)
    BY <1>1, SubSeqProperties
  <2>2. Len(b) = Len(s) - i
    BY <1>1, SubSeqProperties
  <2>3. ASSUME NEW j \in 1..(Len(s) - i)
        PROVE  b[j] = s[i + j]
    BY <1>1, SubSeqProperties
  <2>4. QED
    BY <2>1, <2>2, <2>3
<1>4. RemoveAt(s, i) = a \o b
  BY DEF RemoveAt
<1> HIDE DEF a, b
<1>5. /\ a \o b \in Seq(S)
      /\ Len(a \o b) = Len(a) + Len(b)
      /\ \A j \in 1..(Len(a) + Len(b)) :
             (a \o b)[j] = IF j <= Len(a) THEN a[j] ELSE b[j - Len(a)]
  BY <1>2, <1>3, ConcatProperties
<1> PICK n \in Nat, r \in Seq(S) : n = Len(s) /\ r = RemoveAt(s, i)
  BY <1>1, <1>4, <1>5
<1>6. Len(r) = n - 1 /\ DOMAIN r = 1..(n - 1)
  <2>1. Len(r) = n - 1
    BY <1>1, <1>2, <1>3, <1>4, <1>5
  <2>2. QED
    BY <2>1
<1>7. ASSUME NEW j \in 1..(n - 1)
      PROVE  LET k == IF j < i THEN j ELSE j + 1
             IN k \in 1..n /\ k # i /\ r[j] = s[k]
  <2>1. i \in 1..n /\ n \in Nat
    BY <1>1
  <2>2. r[j] = IF j <= i - 1 THEN a[j] ELSE b[j - (i - 1)]
    <3>1. Len(a) = i - 1 /\ Len(b) = n - i
      BY <1>2, <1>3
    <3>2. j \in 1..(Len(a) + Len(b))
      BY ONLY <2>1, <3>1, j \in 1..(n - 1)
    <3>3. r = a \o b
      BY <1>4
    <3>4. QED
      BY ONLY <1>5, <3>1, <3>2, <3>3
  <2>3. CASE j < i
    <3>1. j \in 1..(i - 1) /\ j <= i - 1 /\ j \in 1..n /\ j # i
      BY <2>1, <2>3
    <3>2. QED
      BY <1>2, <2>2, <2>3, <3>1
  <2>4. CASE ~(j < i)
    <3>1. /\ j - (i - 1) \in 1..(n - i)
          /\ i + (j - (i - 1)) = j + 1
          /\ ~(j <= i - 1)
          /\ j + 1 \in 1..n
          /\ j + 1 # i
      BY <2>1, <2>4
    <3>2. b[j - (i - 1)] = s[i + (j - (i - 1))]
      BY <1>3, <3>1
    <3>3. QED
      BY <2>2, <2>4, <3>1, <3>2
  <2>5. QED
    BY <2>3, <2>4
<1>8. QED
  BY <1>1, <1>6, <1>7

\* Below is a recursion down the tree, and ends.
LEMMA BelowIs ==
    ASSUME NodesTyped, IsTree
    PROVE  \A n \in Slots : Below[n] = BelowAt(Below, n)
<1> DEFINE S == SUBSET Slots
           F == [f \in [Slots -> S] |-> [n \in Slots |-> BelowAt(f, n)]]
<1>1. ASSUME NEW n \in Slots, IsGroup(n), NEW c \in Range(node[n].children)
      PROVE  c \in Slots /\ c > n
  <2>1. PICK i \in Indexes(n) : c = Child(n, i)
    BY <1>1 DEF Range, Indexes, Child
  <2>2. QED
    BY <1>1, <2>1 DEF IsTree
<1>2. F \in [[Slots -> S] -> [Slots -> S]]
  BY <1>1 DEF BelowAt
<1>3. Descends(F, Slots, S, Depth)
  <2> SUFFICES ASSUME NEW f \in [Slots -> S], NEW g \in [Slots -> S], NEW n \in Slots,
                      \A m \in Slots : Depth[m] < Depth[n] => f[m] = g[m]
               PROVE  BelowAt(f, n) = BelowAt(g, n)
    BY DEF Descends
  <2>1. \A c : IsGroup(n) /\ c \in Range(node[n].children) => f[c] = g[c]
    BY <1>1, DepthIs
  <2>2. IsGroup(n) => {f[c] : c \in Range(node[n].children)}
                        = {g[c] : c \in Range(node[n].children)}
    BY <2>1
  <2>3. QED
    BY <2>2 DEF BelowAt
<1>4. \E f : f = [n \in Slots |-> BelowAt(f, n)]
  <2>1. S # {}
    OBVIOUS
  <2>2. IsRecursion(F, Slots, S, Depth)
    <3> HIDE DEF F, S
    <3> QED BY <1>2, <1>3, <2>1, DepthIs DEF IsRecursion
  <2> HIDE DEF F, S
  <2>3. \E f \in [Slots -> S] : f = F[f]
    BY <2>2, Recursion
  <2> QED BY <2>3 DEF F
<1>5. Below = CHOOSE f : f = [n \in Slots |-> BelowAt(f, n)]
  BY DEF Below, BelowAt
<1>6. Below = [n \in Slots |-> BelowAt(Below, n)]
  BY <1>4, <1>5
<1>7. QED
  BY <1>6

\* What is below a node n and is not n has its parent there.
HasParents(n) ==
    /\ Below[n] \subseteq Slots
    /\ \A x \in Below[n] : x >= n
    /\ \A x \in Below[n] \ {n} :
           \E m \in Below[n] : IsGroup(m) /\ \E i \in Indexes(m) : Child(m, i) = x

\* What is below a node is reached from it, parent by parent.
LEMMA BelowHasParents ==
    ASSUME NodesTyped, IsTree
    PROVE  \A n \in Slots : HasParents(n)
<1> DEFINE Bad == {n \in Slots : ~HasParents(n)}
<1> SUFFICES ASSUME Bad # {} PROVE FALSE
  OBVIOUS
<1>1. PICK n \in Bad : \A m \in Bad : m <= n
  <2>1. Bad \subseteq Slots
    OBVIOUS
  <2> HIDE DEF Bad
  <2> QED BY <2>1, Deepest
<1>2. n \in Slots /\ Below[n] = BelowAt(Below, n)
  BY BelowIs
<1>3. n \in Below[n]
  BY <1>2 DEF BelowAt
<1>4. ASSUME NEW x \in Below[n], x # n
      PROVE  /\ x \in Slots /\ x >= n
             /\ \E m \in Below[n] : IsGroup(m) /\ \E i \in Indexes(m) : Child(m, i) = x
  <2>1. IsGroup(n) /\ \E c \in Range(node[n].children) : x \in Below[c]
    BY <1>2, <1>4 DEF BelowAt
  <2>2. PICK i \in Indexes(n) : x \in Below[Child(n, i)]
    BY <2>1 DEF Range, Indexes, Child
  <2> DEFINE c == Child(n, i)
  <2>3. c \in Slots /\ c > n
    BY <1>2, <2>1 DEF IsTree
  <2>4. ~(c <= n)
    BY <1>2, <2>3, SlotsAre
  <2>5. HasParents(c)
    BY <1>1, <2>3, <2>4
  <2>6. Below[c] \subseteq Below[n]
    BY <1>2, <2>1 DEF BelowAt, Range, Indexes, Child
  <2>7. x \in Slots /\ x >= n
    <3>1. x \in Slots /\ x >= c
      BY <2>2, <2>5 DEF HasParents
    <3>2. x \in Nat /\ c \in Nat /\ n \in Nat
      BY <1>2, <2>3, <3>1, SlotsAre
    <3> HIDE DEF c
    <3>3. QED
      BY <2>3, <3>1, <3>2
  <2>8. CASE x = c
    BY <1>3, <2>1, <2>7, <2>8
  <2>9. CASE x # c
    <3>1. \E m \in Below[c] : IsGroup(m) /\ \E j \in Indexes(m) : Child(m, j) = x
      BY <2>2, <2>5, <2>9 DEF HasParents
    <3>2. QED
      BY <2>6, <2>7, <3>1
  <2>10. QED
    BY <2>8, <2>9
<1>5. n >= n
  BY <1>2, SlotsAre
<1>6. HasParents(n)
  BY <1>2, <1>4, <1>5 DEF HasParents
<1>7. QED
  BY <1>6

\* Removing a node and all below it keeps the invariant: no node that is left
\* has a child that is gone.
LEMMA RemoveNodeStep ==
    ASSUME FilterIInv, NEW p \in Slots, NEW n \in Slots, RemoveNode(p, n)
    PROVE  FilterIInv'
<1>0. NodesTyped /\ IsTree /\ IsFit
  BY DEF FilterIInv
<1>1. IsGroup(p) /\ node[p] \in Groups /\ sent' = Nothing
  BY <1>0, GroupIs DEF RemoveNode
<1>2. PICK i0 \in Indexes(p) :
          /\ Child(p, i0) = n
          /\ node' = [k \in Slots |->
                         CASE k \in Below[n] -> Nothing
                           [] k = p -> [node[p] EXCEPT !.children = RemoveAt(@, i0)]
                           [] OTHER -> node[k]]
  BY DEF RemoveNode, Indexes, Child
<1>3. n > p
  BY <1>0, <1>1, <1>2 DEF IsTree
<1>4. p \notin Below[n] /\ 1 \notin Below[n]
  <2>1. \A x \in Below[n] : x \in Slots /\ x >= n
    BY <1>0, BelowHasParents DEF HasParents
  <2>2. n \in Nat /\ p \in Nat /\ p >= 1
    <3>1. p \in 1..MaxNodes
      BY DEF Slots
    <3>2. QED
      BY <3>1, SlotsAre
  <2>3. ASSUME NEW x \in Nat, x >= n PROVE x # p /\ x # 1
    BY <1>3, <2>2, <2>3
  <2>4. QED
    BY <2>1, <2>3, SlotsAre
<1> DEFINE g == [node[p] EXCEPT !.children = RemoveAt(@, i0)]
<1>5. \A k \in Slots :
          node'[k] = IF k \in Below[n] THEN Nothing ELSE IF k = p THEN g ELSE node[k]
  BY <1>2, <1>4
<1>6. /\ g \in Groups /\ g.kind = "group"
      /\ g.children = RemoveAt(node[p].children, i0)
  <2> PICK s \in Seq(Slots) : s = node[p].children
    BY <1>1 DEF Groups
  <2>1. RemoveAt(s, i0) \in Seq(Slots)
    BY RemoveAtIs DEF Indexes
  <2>2. g = [node[p] EXCEPT !.children = RemoveAt(s, i0)]
    OBVIOUS
  <2>3. QED
    BY <1>1, <2>1, <2>2 DEF Groups
<1>7. g # Nothing
  BY <1>6, NothingIsNoNode
<1> HIDE DEF g
<1>8. NodesTyped'
  <2>1. IsGroup(1)'
    BY <1>0, <1>4, <1>5, <1>6, <1>7, SlotsAre DEF IsGroup, NodesTyped
  <2>2. \A k \in Slots : node'[k] \in Groups \cup Conditions \cup {Nothing}
    BY <1>0, <1>5, <1>6 DEF NodesTyped
  <2>3. node' = [k \in Slots |-> node'[k]]
    BY <1>2
  <2>4. QED
    BY <2>1, <2>2, <2>3 DEF NodesTyped
\* Where the child i of m was.
<1> DEFINE K(m, i) == IF m = p /\ ~(i < i0) THEN i + 1 ELSE i
<1>9. ASSUME NEW m \in Slots, IsGroup(m)', NEW i \in Indexes(m)'
      PROVE  /\ m \notin Below[n]
             /\ IsGroup(m)
             /\ K(m, i) \in Indexes(m)
             /\ m = p => K(m, i) # i0
             /\ Child(m, i)' = Child(m, K(m, i))
  <2>1. m \notin Below[n]
    BY <1>5, <1>9 DEF IsGroup
  <2>2. CASE m = p
    <3> PICK s \in Seq(Slots) : s = node[p].children
      BY <1>1 DEF Groups
    <3>1. node'[p].children = RemoveAt(s, i0)
      BY <1>4, <1>5, <1>6
    <3>2. i0 \in DOMAIN s /\ i \in DOMAIN RemoveAt(s, i0)
      BY <1>9, <2>2, <3>1 DEF Indexes
    <3>3. LET k == IF i < i0 THEN i ELSE i + 1
          IN k \in DOMAIN s /\ k # i0 /\ RemoveAt(s, i0)[i] = s[k]
      BY <3>2, RemoveAtIs
    <3>4. QED
      BY <1>1, <2>1, <2>2, <3>1, <3>3 DEF Indexes, Child
  <2>3. CASE m # p
    BY <1>5, <1>9, <2>1, <2>3 DEF IsGroup, Indexes, Child
  <2>4. QED
    BY <2>2, <2>3
<1>10. ASSUME NEW m \in Slots, IsGroup(m)', NEW i \in Indexes(m)'
       PROVE  /\ Child(m, i)' \in Slots /\ Child(m, i)' > m
              /\ node'[Child(m, i)'] # Nothing
  <2> DEFINE c == Child(m, K(m, i))
  <2>1. c \in Slots /\ c > m /\ node[c] # Nothing
    BY <1>0, <1>9, <1>10 DEF IsTree
  <2>2. c \notin Below[n]
    <3> SUFFICES ASSUME c \in Below[n] PROVE FALSE
      OBVIOUS
    <3>1. CASE c = n
      BY <1>0, <1>1, <1>2, <1>9, <1>10, <3>1 DEF IsTree
    <3>2. CASE c # n
      <4>1. PICK l \in Below[n] : IsGroup(l) /\ \E j \in Indexes(l) : Child(l, j) = c
        BY <1>0, <3>2, BelowHasParents DEF HasParents
      <4>2. l \in Slots
        BY <1>0, BelowHasParents DEF HasParents
      <4>3. l = m
        BY <1>0, <1>9, <1>10, <4>1, <4>2 DEF IsTree
      <4>4. QED
        BY <1>9, <1>10, <4>3
    <3>3. QED
      BY <3>1, <3>2
  <2>3. node'[c] # Nothing
    BY <1>5, <1>7, <2>1, <2>2
  <2>4. Child(m, i)' = c
    BY <1>9, <1>10
  <2>5. QED
    BY <2>1, <2>3, <2>4
<1>11. ASSUME NEW k \in Slots, NEW m \in Slots, IsGroup(k)', IsGroup(m)',
              NEW i \in Indexes(k)', NEW j \in Indexes(m)',
              Child(k, i)' = Child(m, j)'
       PROVE  k = m /\ i = j
  <2>1. /\ IsGroup(k) /\ K(k, i) \in Indexes(k)
        /\ Child(k, i)' = Child(k, K(k, i))
        /\ IsGroup(m) /\ K(m, j) \in Indexes(m)
        /\ Child(m, j)' = Child(m, K(m, j))
    BY <1>9, <1>11
  <2>2. k = m /\ K(k, i) = K(m, j)
    <3> HIDE DEF K
    <3>1. Child(k, K(k, i)) = Child(m, K(m, j))
      BY <1>11, <2>1
    <3>2. QED
      BY <1>0, <2>1, <3>1 DEF IsTree
  <2>3. i \in Nat /\ j \in Nat /\ i0 \in Nat
    <3>1. \A l \in Slots : IsGroup(l)' => Indexes(l)' \subseteq Nat
      <4>1. \A s \in Seq(Slots) : DOMAIN s \subseteq Nat
        OBVIOUS
      <4>2. \A l \in Slots : IsGroup(l)' => node'[l].children \in Seq(Slots)
        BY <1>8 DEF NodesTyped, IsGroup, Groups, Conditions
      <4>3. QED
        BY <4>1, <4>2 DEF Indexes
    <3>2. i0 \in Nat
      BY <1>0, <1>1, GroupIs DEF Indexes
    <3>3. QED
      BY <1>11, <3>1, <3>2
  <2>4. i = j
    BY <2>2, <2>3
  <2>5. QED
    BY <2>2, <2>4
<1>12. IsTree'
  <2> HIDE DEF K
  <2> QED BY <1>10, <1>11 DEF IsTree
<1>13. IsFit'
  <2>1. \A m \in Slots : IsCondition(m)' => IsCondition(m) /\ node'[m] = node[m]
    BY <1>5, <1>6 DEF IsCondition
  <2>2. QED
    BY <1>0, <2>1 DEF IsFit
<1>14. SentIsCurrent'
  BY <1>1 DEF SentIsCurrent
<1>15. QED
  BY <1>8, <1>12, <1>13, <1>14 DEF FilterIInv

\* The invariant holds of the empty filter.
LEMMA FilterInitHolds == FilterInit => FilterIInv
<1> SUFFICES ASSUME FilterInit PROVE FilterIInv
  OBVIOUS
<1>1. /\ EmptyGroup \in Groups /\ EmptyGroup.kind = "group"
      /\ EmptyGroup.children = <<>>
  BY DEF EmptyGroup, Groups
<1>2. EmptyGroup # Nothing
  BY <1>1, NothingIsNoNode
<1>3. \A n \in Slots : node[n] = IF n = 1 THEN EmptyGroup ELSE Nothing
  BY DEF FilterInit
<1>4. NodesTyped
  <2>1. IsGroup(1)
    BY <1>1, <1>2, <1>3, SlotsAre DEF IsGroup
  <2>2. node \in [Slots -> Groups \cup Conditions \cup {Nothing}]
    BY <1>1 DEF FilterInit
  <2>3. QED
    BY <2>1, <2>2 DEF NodesTyped
<1>5. \A n \in Slots : ~IsCondition(n) /\ (IsGroup(n) => Indexes(n) = {})
  <2>1. DOMAIN EmptyGroup.children = {}
    BY <1>1
  <2>2. QED
    BY <1>1, <1>3, <2>1 DEF IsCondition, IsGroup, Indexes
<1>6. QED
  BY <1>4, <1>5 DEF FilterInit, FilterIInv, IsTree, IsFit, SentIsCurrent

\* Each step of the editor and each submission keep the invariant.
LEMMA FilterStep == FilterIInv /\ [FilterNext]_filterVars => FilterIInv'
<1> SUFFICES ASSUME FilterIInv, [FilterNext]_filterVars PROVE FilterIInv'
  OBVIOUS
<1>1. ASSUME NEW p \in Slots, Add(p, EmptyCondition) \/ Add(p, EmptyGroup)
      PROVE  FilterIInv'
  BY <1>1, AddStep
<1>2. ASSUME NEW p \in Slots, NEW logic \in {"and", "or"}, SetLogic(p, logic)
      PROVE  FilterIInv'
  BY <1>2, SetLogicStep
<1>3. ASSUME NEW p \in Slots, NEW n \in Slots, RemoveNode(p, n)
      PROVE  FilterIInv'
  BY <1>3, RemoveNodeStep
<1>4. ASSUME NEW n \in Slots, NEW bin \in Bins, SetBin(n, bin)
      PROVE  FilterIInv'
  BY <1>4, SetBinStep
<1>5. ASSUME NEW n \in Slots, NEW type \in Types, SetType(n, type)
      PROVE  FilterIInv'
  BY <1>5, SetTypeStep
<1>6. ASSUME NEW n \in Slots, NEW operator \in Comparisons, SetOperator(n, operator)
      PROVE  FilterIInv'
  BY <1>6, SetOperatorStep
<1>7. ASSUME NEW n \in Slots, NEW value \in Texts \cup Numbers \cup {"true", "false"},
             SetValue(n, value)
      PROVE  FilterIInv'
  BY <1>7, SetValueStep
<1>8. CASE Submit
  BY <1>8, SubmitStep
<1>9. CASE UNCHANGED filterVars
  BY <1>9, FilterStutter
<1>10. QED
  BY <1>1, <1>2, <1>3, <1>4, <1>5, <1>6, <1>7, <1>8, <1>9 DEF FilterNext

\* A condition the page lets through and the plugin has no reason to refuse
\* becomes a comparison.
LEMMA AcceptedUnlessRefused ==
    ASSUME NodesTyped, IsFit, Valid, NEW n \in Slots, IsCondition(n), ~Refused(node[n])
    PROVE  Accepted(node[n])
<1> DEFINE c == node[n]
<1>1. c \in Conditions
  BY ConditionIs
<1>2. c.bin \notin Blank /\ (c.type = "integer" => c.value \in Wholes)
  BY DEF Refused
<1>3. c.value \notin Blank /\ c.value # ""
  BY FilterConstants DEF Valid, Complete
<1>4. c.operator \in Operators(c.type) \cup {"eq"} /\ c.value \in Values(c.type)
  BY <1>3 DEF IsFit
<1>5. c.type \in {"string", "integer", "float", "boolean"}
  BY <1>1, FilterConstants DEF Conditions
<1> HIDE DEF c
<1>6. Parses(c.type, c.value)
  <2>1. CASE c.type = "string"
    BY <2>1 DEF Parses
  <2>2. CASE c.type = "integer"
    BY <1>2, <2>2 DEF Parses
  <2>3. CASE c.type = "float"
    BY <1>3, <1>4, <2>3 DEF Parses, Values
  <2>4. CASE c.type = "boolean"
    BY <1>4, <2>4 DEF Parses, Values
  <2>5. QED
    BY <1>5, <2>1, <2>2, <2>3, <2>4
<1>7. c.type = "boolean" => c.operator \in {"eq", "ne"}
  BY <1>4 DEF Operators
<1>8. c.operator \in Supported
  <2>1. Comparisons \subseteq Supported /\ "eq" \in Supported
    BY FilterConstants DEF Supported
  <2>2. QED
    BY <1>4, <2>1 DEF Operators
<1>9. QED
  BY <1>2, <1>6, <1>7, <1>8 DEF Accepted, c

\* In a filter the page lets through without an empty group or a condition
\* the plugin refuses, every node compiles.
LEMMA AllCompiled ==
    ASSUME NodesTyped, IsTree, IsFit, Valid, node[1].children # <<>>, ~EmptyInside,
           \A n \in Slots : IsCondition(n) => ~Refused(node[n])
    PROVE  \A n \in Slots : node[n] # Nothing => Compiled[n] # Nothing
<1> DEFINE Bad == {n \in Slots : node[n] # Nothing /\ Compiled[n] = Nothing}
<1> SUFFICES ASSUME Bad # {} PROVE FALSE
  OBVIOUS
<1>1. PICK n \in Bad : \A m \in Bad : m <= n
  <2>1. Bad \subseteq Slots
    OBVIOUS
  <2> HIDE DEF Bad
  <2> QED BY <2>1, Deepest
<1>2. /\ n \in Slots /\ node[n] # Nothing /\ n # Nothing
      /\ CompiledAt(Compiled, n) = Nothing
  BY CompiledIs, SlotsAre
<1>3. IsCondition(n) \/ IsGroup(n)
  BY <1>2 DEF NodesTyped, IsCondition, IsGroup, Groups, Conditions
<1>4. CASE IsCondition(n)
  <2>1. Accepted(node[n])
    BY <1>2, <1>4, AcceptedUnlessRefused
  <2>2. QED
    BY <1>2, <1>4, <2>1 DEF CompiledAt
<1>5. CASE IsGroup(n)
  <2>1. ~IsCondition(n)
    BY <1>2, <1>5, GroupIs
  <2>2. node[n].children # <<>>
    BY <1>2, <1>5 DEF EmptyInside
  <2>3. ASSUME NEW i \in Indexes(n)
        PROVE  Compiled[Child(n, i)] # Nothing
    <3>1. Child(n, i) \in Slots /\ Child(n, i) > n /\ node[Child(n, i)] # Nothing
      BY <1>2, <1>5 DEF IsTree
    <3>2. ~(Child(n, i) <= n)
      BY <1>2, <3>1, SlotsAre
    <3>3. QED
      BY <1>1, <3>1, <3>2
  <2>4. Len(node[n].children) = 1 => 1 \in Indexes(n)
    BY <1>2, <1>5, GroupIs DEF Indexes
  <2>5. QED
    BY <1>2, <1>5, <2>1, <2>2, <2>3, <2>4 DEF CompiledAt, Indexes, Child
<1>6. QED
  BY <1>3, <1>4, <1>5

\* The invariant of the editor.
LEMMA FilterInvariance == FilterSpec => []FilterIInv
  BY FilterInitHolds, FilterStep, PTL DEF FilterSpec

\* The invariant implies that a filter arrives.
LEMMA FilterIInvArrives == FilterIInv => FilterArrives
<1> SUFFICES ASSUME FilterIInv PROVE FilterArrives
  OBVIOUS
<1>1. PassesTheServer
  <2> SUFFICES ASSUME sent # Nothing, sent.root = Nothing, ~EmptyInside,
                      \A n \in Slots : IsCondition(n) => ~Refused(node[n])
               PROVE  FALSE
    BY DEF PassesTheServer
  <2>1. Valid /\ node[1].children # <<>> /\ sent = Expression
    BY DEF FilterIInv, SentIsCurrent
  <2>2. Compiled[1] # Nothing
    BY <2>1, AllCompiled, SlotsAre DEF FilterIInv, NodesTyped, IsGroup
  <2>3. Expression.root = Compiled[1]
    BY DEF Expression
  <2>4. QED
    BY <2>1, <2>2, <2>3
<1>2. FilterMeansTree
  BY CompiledMeans DEF FilterMeansTree, FilterIInv, SentIsCurrent
<1>3. QED
  BY <1>1, <1>2 DEF FilterArrives

\* For any number of nodes, bins and values: the filter that is sent is
\* refused only for an empty group or a condition the plugin must refuse, and
\* else selects exactly the records that the tree on the page means
\* (expressionEditor in app.js, compileExpression in expression.go).
THEOREM SubmittedFilterArrives == FilterSpec => []FilterArrives
  BY FilterInvariance, FilterIInvArrives, PTL
-----------------------------------------------------------------------------
(* Commands: what a source means *)

Ends == 1..Len(source) + 1

LiteralAt(f, i) == i > 1 /\ source[i - 1] = Backslash /\ ~f[i - 1]

InAt(f, i) ==
    IF i = 1 THEN Nil
    ELSE LET before == source[i - 1]
         IN IF Literal[i - 1] \/ before \notin Quotes THEN f[i - 1]
            ELSE IF f[i - 1] = Nil THEN before
            ELSE IF f[i - 1] = before THEN Nil ELSE f[i - 1]

\* The characters with a meaning are different ones.
LEMMA CharsDiffer ==
    /\ Space \notin Quotes /\ Backslash \notin Quotes /\ Space # Backslash
    /\ Single \in Quotes /\ Double \in Quotes /\ Single # Double
  BY DEF Space, Single, Double, Backslash, Quotes

\* A source is a sequence of characters.
LEMMA SourceIs ==
    ASSUME input \in Inputs
    PROVE  /\ source \in Seq(Chars)
           /\ Len(source) \in Nat
           /\ Positions = 1..Len(source)
<1>1. source \in Seq(Chars)
  BY InputsAreWritten DEF source
<1>2. QED
  BY <1>1 DEF Positions

\* A function over the positions and the end that is given from left to right.
LEMMA EndsRecursion ==
    ASSUME input \in Inputs, NEW S, S # {}, NEW F \in [[Ends -> S] -> [Ends -> S]],
           \A f, g \in [Ends -> S], i \in Ends :
               (i > 1 => f[i - 1] = g[i - 1]) => F[f][i] = F[g][i]
    PROVE  \E f \in [Ends -> S] : f = F[f]
<1> DEFINE rank == [i \in Ends |-> i]
<1>1. Len(source) \in Nat
  BY SourceIs
<1>2. /\ rank \in [Ends -> Nat] /\ Len(source) + 2 \in Nat
      /\ \A i \in Ends : rank[i] < Len(source) + 2
  BY <1>1 DEF Ends
<1>3. Descends(F, Ends, S, rank)
  <2> SUFFICES ASSUME NEW f \in [Ends -> S], NEW g \in [Ends -> S], NEW i \in Ends,
                      \A j \in Ends : rank[j] < rank[i] => f[j] = g[j]
               PROVE  F[f][i] = F[g][i]
    BY DEF Descends
  <2>1. ASSUME i > 1 PROVE f[i - 1] = g[i - 1]
    <3>1. i - 1 \in Ends /\ i - 1 < i
      BY <1>1, <2>1 DEF Ends
    <3>2. QED
      BY <3>1
  <2>2. QED
    BY <2>1
<1>4. IsRecursion(F, Ends, S, rank)
  <2> HIDE DEF rank
  <2> QED BY <1>2, <1>3 DEF IsRecursion
<1> HIDE DEF rank
<1>5. QED
  BY <1>4, Recursion

\* Whether a character stands for itself, from left to right.
LEMMA LiteralIs ==
    ASSUME input \in Inputs
    PROVE  \A i \in Ends : Literal[i] = LiteralAt(Literal, i)
<1> DEFINE F == [f \in [Ends -> BOOLEAN] |-> [i \in Ends |-> LiteralAt(f, i)]]
<1>1. F \in [[Ends -> BOOLEAN] -> [Ends -> BOOLEAN]]
  BY DEF LiteralAt
<1>2. ASSUME NEW f \in [Ends -> BOOLEAN], NEW g \in [Ends -> BOOLEAN], NEW i \in Ends,
             i > 1 => f[i - 1] = g[i - 1]
      PROVE  F[f][i] = F[g][i]
  BY <1>2 DEF LiteralAt
<1>3. \E f : f = [i \in Ends |-> LiteralAt(f, i)]
  <2> HIDE DEF F
  <2>1. \E f \in [Ends -> BOOLEAN] : f = F[f]
    BY <1>1, <1>2, EndsRecursion
  <2>2. QED
    BY <2>1 DEF F
<1>4. Literal = CHOOSE f : f = [i \in Ends |-> LiteralAt(f, i)]
  BY DEF Literal, LiteralAt, Ends
<1>5. Literal = [i \in Ends |-> LiteralAt(Literal, i)]
  BY <1>3, <1>4
<1>6. QED
  BY <1>5

\* The quotation a character is in, from left to right.
LEMMA InIs ==
    ASSUME input \in Inputs
    PROVE  \A i \in Ends : In[i] = InAt(In, i)
<1> DEFINE S == Quotes \cup {Nil}
           F == [f \in [Ends -> S] |-> [i \in Ends |-> InAt(f, i)]]
<1>1. F \in [[Ends -> S] -> [Ends -> S]]
  <2> SUFFICES ASSUME NEW f \in [Ends -> S], NEW i \in Ends
               PROVE  InAt(f, i) \in S
    OBVIOUS
  <2>1. i # 1 => i - 1 \in Ends
    BY SourceIs DEF Ends
  <2>2. i # 1 => f[i - 1] \in S
    BY <2>1
  <2>3. QED
    BY <2>2 DEF InAt
<1>2. ASSUME NEW f \in [Ends -> S], NEW g \in [Ends -> S], NEW i \in Ends,
             i > 1 => f[i - 1] = g[i - 1]
      PROVE  F[f][i] = F[g][i]
  <2>1. i # 1 => f[i - 1] = g[i - 1]
    BY <1>2, SourceIs DEF Ends
  <2>2. QED
    BY <2>1 DEF InAt
<1>3. \E f : f = [i \in Ends |-> InAt(f, i)]
  <2>1. S # {}
    OBVIOUS
  <2> HIDE DEF F, S
  <2>2. \E f \in [Ends -> S] : f = F[f]
    BY <1>1, <1>2, <2>1, EndsRecursion
  <2>3. QED
    BY <2>2 DEF F
<1>4. In = CHOOSE f : f = [i \in Ends |-> InAt(f, i)]
  BY DEF In, InAt, Ends
<1>5. In = [i \in Ends |-> InAt(In, i)]
  BY <1>3, <1>4
<1>6. QED
  BY <1>5

\* What a source means stays the same as long as the input does.
LEMMA MeaningSame ==
    ASSUME input' = input
    PROVE  /\ source' = source /\ Literal' = Literal
           /\ In' = In /\ Starts' = Starts
           /\ \A i : Separates(i)' = Separates(i)
           /\ \A i : IsSyntax(i)' = IsSyntax(i)
           /\ \A i : Word(i)' = Word(i)
           /\ \A w, K : Spells(w, K)' = Spells(w, K)
<1>1. source' = source /\ Positions' = Positions
  BY DEF source, Positions
<1>2. Literal' = Literal
  BY DEF source, Literal
<1>3. In' = In
  BY <1>2 DEF source, In
<1>4. \A i : Separates(i)' = Separates(i) /\ IsSyntax(i)' = IsSyntax(i)
  BY <1>1, <1>2, <1>3 DEF Separates, IsSyntax
<1>5. Starts' = Starts
  BY <1>1, <1>4 DEF Starts
<1>6. \A i : Word(i)' = Word(i)
  BY <1>1, <1>4 DEF Word
<1>7. \A w, K : Spells(w, K)' = Spells(w, K)
  BY <1>1 DEF Spells
<1>8. QED
  BY <1>1, <1>2, <1>3, <1>4, <1>5, <1>6, <1>7
-----------------------------------------------------------------------------
(* Commands: the tokens so far, and the invariant *)

\* ts are the words that start at the positions in K, in order.
Lists(ts, K) ==
    /\ Len(ts) = Cardinality(K)
    /\ \A i \in K : Spells(ts[Rank(K, i)], Word(i))

\* i is the first position after the last blank that separates, up to n.
Current(i, n) ==
    /\ i \in 1..n + 1
    /\ i = 1 \/ Separates(i - 1)
    /\ \A k \in i..n : ~Separates(k)

WordTo(i, n) == {j \in Word(i) : j <= n}
StartsBefore(i) == {j \in Starts : j < i}

ReaderTyped ==
    /\ input \in Inputs
    /\ allow \in BOOLEAN
    /\ at \in 0..Len(source)
    /\ tokens \in Seq(Seq(Chars))
    /\ token \in Seq(Chars)
    /\ quote \in Quotes \cup {Nil}
    /\ escaped \in BOOLEAN
    /\ started \in BOOLEAN
    /\ outcome \in {"reading", "tokens", "error", "browse", "execute"}

\* The state of the tokenizer is what the characters read so far mean.
ReadSoFar ==
    /\ escaped = Literal[at + 1]
    /\ quote = In[at + 1]
    /\ \E i \in 1..at + 1 :
        /\ Current(i, at)
        /\ started <=> i <= at
        /\ Spells(token, WordTo(i, at))
        /\ Lists(tokens, StartsBefore(i))

ReaderIInv ==
    /\ ReaderTyped
    /\ outcome = "reading" => ReadSoFar
    /\ outcome \in {"tokens", "browse", "execute"} => Lists(tokens, Starts)
    /\ outcome \in {"browse", "execute"} =>
          /\ tokens # <<>>
          /\ allow \/ tokens[1] \in ReadCommands

\* A number beyond a finite set of numbers ranks last when added to it.
LEMMA RankGrows ==
    ASSUME NEW K, K \subseteq Nat, IsFiniteSet(K), NEW j \in Nat, \A k \in K : k < j
    PROVE  /\ Cardinality(K) \in Nat
           /\ IsFiniteSet(K \cup {j})
           /\ Cardinality(K \cup {j}) = Cardinality(K) + 1
           /\ Rank(K \cup {j}, j) = Cardinality(K) + 1
           /\ \A k \in K : /\ Rank(K \cup {j}, k) = Rank(K, k)
                           /\ Rank(K, k) \in 1..Cardinality(K)
<1>1. j \notin K
  OBVIOUS
<1>2. /\ Cardinality(K) \in Nat /\ IsFiniteSet(K \cup {j})
      /\ Cardinality(K \cup {j}) = Cardinality(K) + 1
  BY <1>1, FS_CardinalityType, FS_AddElement
<1>3. {k \in K \cup {j} : k <= j} = K \cup {j}
  <2>1. \A k \in K \cup {j} : k <= j
    OBVIOUS
  <2>2. QED
    BY <2>1
<1>4. ASSUME NEW k \in K
      PROVE  Rank(K \cup {j}, k) = Rank(K, k) /\ Rank(K, k) \in 1..Cardinality(K)
  <2> DEFINE B == {i \in K : i <= k}
  <2>1. {i \in K \cup {j} : i <= k} = B
    OBVIOUS
  <2>2. B \subseteq K /\ B # {}
    OBVIOUS
  <2> HIDE DEF B
  <2>3. IsFiniteSet(B) /\ Cardinality(B) <= Cardinality(K)
    BY <2>2, FS_Subset
  <2>4. Cardinality(B) \in Nat /\ Cardinality(B) # 0
    BY <2>2, <2>3, FS_CardinalityType, FS_EmptySet
  <2>5. Rank(K, k) = Cardinality(B) /\ Rank(K \cup {j}, k) = Cardinality(B)
    BY <2>1 DEF Rank, B
  <2>6. QED
    BY <2>3, <2>4, <2>5, <1>2
<1>5. QED
  BY <1>2, <1>3, <1>4 DEF Rank

\* A word grows at its end by a character further on.
LEMMA SpellsMore ==
    ASSUME NEW T, NEW w \in Seq(T), NEW K, K \subseteq Nat, IsFiniteSet(K),
           NEW j \in Nat, \A k \in K : k < j,
           Spells(w, K), source[j] \in T
    PROVE  Spells(Append(w, source[j]), K \cup {j})
<1> DEFINE v == Append(w, source[j])
           c == Cardinality(K)
<1>1. c \in Nat /\ Len(w) = c
  BY RankGrows DEF Spells
<1>2. Len(v) = c + 1 /\ v[c + 1] = source[j] /\ \A n \in 1..c : v[n] = w[n]
  BY <1>1
<1>3. \A k \in K : v[Rank(K \cup {j}, k)] = source[k]
  BY <1>2, RankGrows DEF Spells
<1>4. v[Rank(K \cup {j}, j)] = source[j]
  BY <1>2, RankGrows
<1> HIDE DEF v
<1>5. Len(v) = Cardinality(K \cup {j})
  BY <1>2, RankGrows
<1>6. Spells(v, K \cup {j})
  BY <1>3, <1>4, <1>5 DEF Spells
<1>7. QED
  BY <1>6 DEF v

\* A list of words grows at its end by a word further on.
LEMMA ListsMore ==
    ASSUME NEW T, NEW ts \in Seq(T), NEW w \in T, NEW K, K \subseteq Nat, IsFiniteSet(K),
           NEW j \in Nat, \A k \in K : k < j,
           Lists(ts, K), Spells(w, Word(j))
    PROVE  Lists(Append(ts, w), K \cup {j})
<1> DEFINE v == Append(ts, w)
           c == Cardinality(K)
<1>1. c \in Nat /\ Len(ts) = c
  BY RankGrows DEF Lists
<1>2. Len(v) = c + 1 /\ v[c + 1] = w /\ \A n \in 1..c : v[n] = ts[n]
  BY <1>1
<1>3. \A k \in K : Spells(v[Rank(K \cup {j}, k)], Word(k))
  BY <1>2, RankGrows DEF Lists
<1>4. v[Rank(K \cup {j}, j)] = w
  BY <1>2, RankGrows
<1> HIDE DEF v
<1>5. Len(v) = Cardinality(K \cup {j})
  BY <1>2, RankGrows
<1>6. Lists(v, K \cup {j})
  BY <1>3, <1>4, <1>5 DEF Lists
<1>7. QED
  BY <1>6 DEF v

\* The empty word spells no positions, and is the only one to do so.
LEMMA SpellsNothing ==
    /\ Spells(<<>>, {})
    /\ \A T, w : w \in Seq(T) /\ Spells(w, {}) => w = <<>>
<1>1. Cardinality({}) = 0
  BY FS_EmptySet
<1>2. QED
  BY <1>1 DEF Spells

\* Words and starts are finite sets of positions.
LEMMA PositionsAreFinite ==
    ASSUME input \in Inputs
    PROVE  /\ \A i : IsFiniteSet(Word(i)) /\ Word(i) \subseteq Nat
           /\ \A i, n : IsFiniteSet(WordTo(i, n)) /\ WordTo(i, n) \subseteq Nat
           /\ \A i : IsFiniteSet(StartsBefore(i)) /\ StartsBefore(i) \subseteq Nat
           /\ IsFiniteSet(Starts) /\ Starts \subseteq Nat
<1>1. IsFiniteSet(1..Len(source)) /\ 1..Len(source) \subseteq Nat
  BY SourceIs, FS_Interval
<1>2. Positions = 1..Len(source)
  BY SourceIs
<1>3. \A K : K \subseteq 1..Len(source) => IsFiniteSet(K) /\ K \subseteq Nat
  BY <1>1, FS_Subset
<1>4. \A i : Word(i) \subseteq 1..Len(source)
  BY <1>2 DEF Word
<1>5. \A i, n : WordTo(i, n) \subseteq 1..Len(source)
  BY <1>4 DEF WordTo
<1>6. Starts \subseteq 1..Len(source)
  BY <1>2 DEF Starts
<1>7. \A i : StartsBefore(i) \subseteq 1..Len(source)
  BY <1>6 DEF StartsBefore
<1>8. QED
  BY <1>3, <1>4, <1>5, <1>6, <1>7

\* The words up to a character that separates nothing.
LEMMA WordGoesOn ==
    ASSUME input \in Inputs, NEW n \in 0..Len(source) - 1, NEW i \in 1..n + 1,
           Current(i, n), ~Separates(n + 1)
    PROVE  /\ Current(i, n + 1)
           /\ IsSyntax(n + 1) => WordTo(i, n + 1) = WordTo(i, n)
           /\ ~IsSyntax(n + 1) => WordTo(i, n + 1) = WordTo(i, n) \cup {n + 1}
<1>0. Len(source) \in Nat /\ Positions = 1..Len(source)
  BY SourceIs
<1>1. \A k \in i..n + 1 : ~Separates(k)
  <2>1. \A k \in i..n + 1 : k = n + 1 \/ k \in i..n
    BY <1>0
  <2>2. QED
    BY <2>1 DEF Current
<1>2. i \in 1..(n + 1) + 1
  BY <1>0
<1>3. Current(i, n + 1)
  BY <1>1, <1>2 DEF Current
<1>4. \A j \in Positions : j <= n + 1 <=> j <= n \/ j = n + 1
  BY <1>0
<1>5. n + 1 \in Positions /\ i <= n + 1
  BY <1>0
<1>6. n + 1 \in Word(i) <=> ~IsSyntax(n + 1)
  BY <1>1, <1>5 DEF Word
<1>7. Word(i) \subseteq Positions
  BY DEF Word
<1>8. QED
  BY <1>3, <1>4, <1>5, <1>6, <1>7, <1>0 DEF WordTo

\* A character that separates ends the word before it, if there is one.
LEMMA WordEnds ==
    ASSUME input \in Inputs, NEW n \in 0..Len(source), NEW i \in 1..n + 1,
           Current(i, n), n = Len(source) \/ Separates(n + 1)
    PROVE  /\ i <= n => i \in Starts /\ WordTo(i, n) = Word(i)
           /\ i <= n => {j \in Starts : j <= n + 1} = StartsBefore(i) \cup {i}
           /\ i = n + 1 => {j \in Starts : j <= n + 1} = StartsBefore(i)
<1>0. Len(source) \in Nat /\ Positions = 1..Len(source)
  BY SourceIs
<1>1. \A j \in Starts : j > i => ~(j <= n)
  <2> SUFFICES ASSUME NEW j \in Starts, j > i, j <= n PROVE FALSE
    OBVIOUS
  <2>1. j \in 1..Len(source) /\ (j = 1 \/ Separates(j - 1))
    BY <1>0 DEF Starts
  <2>2. Separates(j - 1) /\ j - 1 \in i..n
    BY <2>1, <1>0
  <2>3. QED
    BY <2>2 DEF Current
<1>2. n + 1 \notin Starts
  BY <1>0 DEF Starts
<1>3. Starts \subseteq Nat
  BY <1>0 DEF Starts
<1>4. ASSUME i <= n
      PROVE  i \in Starts /\ WordTo(i, n) = Word(i)
  <2>1. i \in Positions /\ i \in i..n
    BY <1>0, <1>4
  <2>2. i \in Starts
    BY <2>1 DEF Starts, Current
  <2>3. ASSUME NEW j \in Word(i)
        PROVE  j <= n
    <3>1. j \in 1..Len(source) /\ \A k \in i..j : ~Separates(k)
      BY <1>0 DEF Word
    <3>2. CASE j > n
      <4>1. n + 1 \in i..j /\ n # Len(source)
        BY <3>1, <3>2, <1>0
      <4>2. QED
        BY <4>1, <3>1
    <3>3. QED
      BY <3>1, <3>2, <1>0
  <2>4. QED
    BY <2>2, <2>3 DEF WordTo
<1>5. \A j \in Starts : j <= n + 1 <=> j <= n
  BY <1>2, <1>3
<1>6. ASSUME i <= n
      PROVE  {j \in Starts : j <= n + 1} = StartsBefore(i) \cup {i}
  <2>1. \A j \in Starts : j <= n + 1 <=> j < i \/ j = i
    <3> SUFFICES ASSUME NEW j \in Starts PROVE j <= n + 1 <=> j < i \/ j = i
      OBVIOUS
    <3>1. j \in Nat /\ (j <= n + 1 <=> j <= n) /\ (j > i => ~(j <= n))
      BY <1>1, <1>3, <1>5
    <3>2. QED
      BY <3>1, <1>6, <1>0
  <2>2. i \in Starts
    BY <1>4, <1>6
  <2>3. QED
    BY <2>1, <2>2 DEF StartsBefore
<1>7. ASSUME i = n + 1
      PROVE  {j \in Starts : j <= n + 1} = StartsBefore(i)
  <2>1. \A j \in Starts : j <= n + 1 <=> j < i
    <3> SUFFICES ASSUME NEW j \in Starts PROVE j <= n + 1 <=> j < i
      OBVIOUS
    <3>1. j \in Nat /\ (j <= n + 1 <=> j <= n)
      BY <1>3, <1>5
    <3>2. QED
      BY <3>1, <1>7, <1>0
  <2>2. QED
    BY <2>1 DEF StartsBefore
<1>8. QED
  BY <1>4, <1>6, <1>7
-----------------------------------------------------------------------------
(* Commands: one character *)

\* What every character that separates nothing does.
Takes ==
    /\ More
    /\ ~Separates(at + 1)
    /\ IF IsSyntax(at + 1) THEN token' = token ELSE token' = Append(token, source[at + 1])
    /\ started' = TRUE
    /\ UNCHANGED <<tokens, input, allow, outcome>>
    /\ at' = at + 1
    /\ escaped' = Literal[at + 2]
    /\ quote' = In[at + 2]

Parts == /\ More
         /\ ReaderTyped
         /\ ReadSoFar

\* What the next character means, in terms of the tokenizer's state.
LEMMA NextMeans ==
    ASSUME Parts
    PROVE  /\ at \in Nat /\ at + 1 \in 1..Len(source)
           /\ char = source[at + 1] /\ char \in Chars
           /\ escaped = Literal[at + 1] /\ quote = In[at + 1]
           /\ Literal[at + 2] = (char = Backslash /\ ~escaped)
           /\ In[at + 2] = IF escaped \/ char \notin Quotes THEN quote
                           ELSE IF quote = Nil THEN char
                           ELSE IF quote = char THEN Nil ELSE quote
           /\ Separates(at + 1) = (char = Space /\ ~escaped /\ quote = Nil)
           /\ IsSyntax(at + 1) = (~escaped /\ \/ char = Backslash
                                              \/ char \in Quotes /\ quote \in {Nil, char})
<1>0. input \in Inputs
  BY DEF Parts, ReaderTyped
<1>1. source \in Seq(Chars) /\ Len(source) \in Nat
  BY <1>0, SourceIs
<1>2. at \in Nat /\ at + 1 \in 1..Len(source)
  BY <1>1 DEF Parts, ReaderTyped, More, source
<1>3. char = source[at + 1] /\ source[at + 1] \in Chars
  BY <1>1, <1>2 DEF char, source
<1>4. escaped = Literal[at + 1] /\ quote = In[at + 1]
  BY DEF Parts, ReadSoFar
<1>5. at + 2 \in Ends /\ at + 2 > 1 /\ at + 2 # 1 /\ (at + 2) - 1 = at + 1
  BY <1>1, <1>2 DEF Ends
<1>6. Literal[at + 2] = (source[at + 1] = Backslash /\ ~Literal[at + 1])
  BY <1>0, <1>5, LiteralIs DEF LiteralAt
<1>7. In[at + 2] = InAt(In, at + 2)
  BY <1>0, <1>5, InIs
<1>8. InAt(In, at + 2) = IF Literal[at + 1] \/ source[at + 1] \notin Quotes THEN In[at + 1]
            ELSE IF In[at + 1] = Nil THEN source[at + 1]
            ELSE IF In[at + 1] = source[at + 1] THEN Nil ELSE In[at + 1]
  BY <1>5 DEF InAt
<1>9. escaped \in BOOLEAN
  BY DEF Parts, ReaderTyped
<1>10. QED
  BY <1>2, <1>3, <1>4, <1>6, <1>7, <1>8, <1>9 DEF Separates, IsSyntax

\* All steps but one take a character that separates nothing.
LEMMA TakesSteps ==
    ASSUME Parts
    PROVE  /\ Escaped => Takes
           /\ Escape => Takes
           /\ Quoted => Takes
           /\ OpenQuote => Takes
           /\ Letter => Takes
<1>0. More /\ quote \in Quotes \cup {Nil} /\ escaped \in BOOLEAN
  BY DEF Parts, ReaderTyped
<1>1. ASSUME Escaped PROVE Takes
  BY <1>0, <1>1, NextMeans DEF Escaped, Takes, Advance
<1>2. ASSUME Escape PROVE Takes
  BY <1>0, <1>2, NextMeans, CharsDiffer DEF Escape, Takes, Advance
<1>3. ASSUME Quoted PROVE Takes
  BY <1>0, <1>3, NextMeans, CharsDiffer, NilIsNoQuote DEF Quoted, Plain,
       Takes, Advance
<1>4. ASSUME OpenQuote PROVE Takes
  BY <1>0, <1>4, NextMeans, CharsDiffer, NilIsNoQuote DEF OpenQuote, Plain,
       Takes, Advance
<1>5. ASSUME Letter PROVE Takes
  BY <1>0, <1>5, NextMeans, CharsDiffer, NilIsNoQuote DEF Letter, Plain,
       Takes, Advance
<1>6. QED
  BY <1>1, <1>2, <1>3, <1>4, <1>5

\* Words and lists of the next state are those of this one as long as the
\* input stays.
LEMMA PrimedMeaning ==
    ASSUME input' = input
    PROVE  /\ source' = source /\ Literal' = Literal
           /\ In' = In /\ Starts' = Starts
           /\ \A i, n : Current(i, n)' = Current(i, n)
           /\ \A i, n : WordTo(i, n)' = WordTo(i, n)
           /\ \A i : StartsBefore(i)' = StartsBefore(i)
           /\ \A w, K : Spells(w, K)' = Spells(w, K)
           /\ \A ts, K : Lists(ts, K)' = Lists(ts, K)
<1>1. /\ source' = source /\ Literal' = Literal /\ In' = In /\ Starts' = Starts
      /\ \A i : Separates(i)' = Separates(i)
      /\ \A i : Word(i)' = Word(i)
      /\ \A w, K : Spells(w, K)' = Spells(w, K)
  BY MeaningSame
<1>2. \A i, n : Current(i, n)' = Current(i, n)
  BY <1>1 DEF Current
<1>3. \A i, n : WordTo(i, n)' = WordTo(i, n)
  BY <1>1 DEF WordTo
<1>4. \A i : StartsBefore(i)' = StartsBefore(i)
  BY <1>1 DEF StartsBefore
<1>5. \A ts, K : Lists(ts, K)' = Lists(ts, K)
  BY <1>1 DEF Lists
<1>6. QED
  BY <1>1, <1>2, <1>3, <1>4, <1>5

\* ReadSoFar in the next state, in terms of this one's input.
LEMMA ReadNext ==
    ASSUME input' = input, escaped' = Literal[at' + 1], quote' = In[at' + 1],
           NEW i \in 1..at' + 1, Current(i, at'), started' <=> i <= at',
           Spells(token', WordTo(i, at')), Lists(tokens', StartsBefore(i))
    PROVE  ReadSoFar'
<1>1. escaped' = Literal'[at' + 1] /\ quote' = In'[at' + 1]
  BY PrimedMeaning
<1>2. /\ source' = source /\ Starts' = Starts
      /\ \A j : Separates(j)' = Separates(j)
      /\ \A j : Word(j)' = Word(j)
  BY MeaningSame
<1>3. Current(i, at)'
  BY <1>2 DEF Current
<1>4. Spells(token, WordTo(i, at))'
  <2>1. WordTo(i, at)' = WordTo(i, at')
    BY <1>2 DEF WordTo
  <2>2. QED
    BY <1>2, <2>1 DEF Spells
<1>5. Lists(tokens, StartsBefore(i))'
  <2>1. StartsBefore(i)' = StartsBefore(i)
    BY <1>2 DEF StartsBefore
  <2>2. \A w, j : Spells(w, Word(j))' = Spells(w, Word(j))
    BY <1>2 DEF Spells
  <2>3. QED
    BY <1>2, <2>1, <2>2 DEF Lists
<1>6. QED
  BY <1>1, <1>3, <1>4, <1>5 DEF ReadSoFar
-----------------------------------------------------------------------------
(* Commands: the steps *)

\* A character that separates nothing keeps the invariant.
LEMMA TakesKeeps ==
    ASSUME Parts, Takes
    PROVE  ReaderIInv'
<1>0. /\ input \in Inputs /\ at \in 0..Len(source) /\ token \in Seq(Chars)
      /\ Len(source) \in Nat /\ input' = input /\ outcome' = "reading"
      /\ at' = at + 1 /\ at + 1 \in 1..Len(source)
  BY NextMeans, SourceIs DEF Parts, ReaderTyped, Takes, More
<1>1. PICK i \in 1..at + 1 : /\ Current(i, at)
                             /\ started <=> i <= at
                             /\ Spells(token, WordTo(i, at))
                             /\ Lists(tokens, StartsBefore(i))
  BY DEF Parts, ReadSoFar
<1>2. at \in 0..Len(source) - 1 /\ ~Separates(at + 1) /\ i \in 1..at' + 1
  BY <1>0 DEF Takes
<1>3. /\ Current(i, at + 1)
      /\ IsSyntax(at + 1) => WordTo(i, at + 1) = WordTo(i, at)
      /\ ~IsSyntax(at + 1) => WordTo(i, at + 1) = WordTo(i, at) \cup {at + 1}
  BY <1>0, <1>1, <1>2, WordGoesOn
<1>4. Spells(token', WordTo(i, at + 1))
  <2>1. CASE IsSyntax(at + 1)
    BY <1>1, <1>3, <2>1 DEF Takes
  <2>2. CASE ~IsSyntax(at + 1)
    <3>1. IsFiniteSet(WordTo(i, at)) /\ WordTo(i, at) \subseteq Nat
      BY <1>0, PositionsAreFinite
    <3>2. \A k \in WordTo(i, at) : k < at + 1
      BY <3>1, <1>0 DEF WordTo
    <3>3. source[at + 1] \in Chars /\ at + 1 \in Nat
      BY NextMeans
    <3>4. Spells(Append(token, source[at + 1]), WordTo(i, at) \cup {at + 1})
      <4> DEFINE K == WordTo(i, at)
                 j == at + 1
      <4>1. /\ K \subseteq Nat /\ IsFiniteSet(K)
            /\ j \in Nat /\ \A k \in K : k < j
            /\ Spells(token, K) /\ source[j] \in Chars /\ token \in Seq(Chars)
        BY <1>0, <1>1, <3>1, <3>2, <3>3
      <4> HIDE DEF K, j
      <4>2. Spells(Append(token, source[j]), K \cup {j})
        BY <4>1, SpellsMore
      <4>3. QED
        BY <4>2 DEF K, j
    <3>5. QED
      BY <1>3, <2>2, <3>4 DEF Takes
  <2>3. QED
    BY <2>1, <2>2
<1>5. started' <=> i <= at'
  BY <1>0, <1>1, <1>2 DEF Takes
<1>6. escaped' = Literal[at' + 1] /\ quote' = In[at' + 1]
  BY <1>0 DEF Takes
<1>7. ReadSoFar'
  <2>1. /\ Current(i, at') /\ Spells(token', WordTo(i, at'))
        /\ Lists(tokens', StartsBefore(i))
    BY <1>0, <1>1, <1>3, <1>4 DEF Takes
  <2>2. QED
    BY <1>0, <1>2, <1>5, <1>6, <2>1, ReadNext
<1>8. ReaderTyped'
  <2>1. source' = source
    BY <1>0, PrimedMeaning
  <2>2. token' \in Seq(Chars)
    BY <1>0, NextMeans DEF Takes
  <2>3. escaped' \in BOOLEAN /\ quote' \in Quotes \cup {Nil}
    BY NextMeans DEF Takes, Parts, ReaderTyped
  <2>4. QED
    BY <1>0, <2>1, <2>2, <2>3 DEF Takes, Parts, ReaderTyped
<1>9. QED
  BY <1>0, <1>7, <1>8 DEF ReaderIInv

\* The tokens once the token that was begun, if any, is added.
Closed == IF started THEN Append(tokens, token) ELSE tokens

\* At a blank that separates, or at the end, the tokens list the words so
\* far.
LEMMA ClosedLists ==
    ASSUME ReaderTyped, ReadSoFar, at = Len(source) \/ Separates(at + 1)
    PROVE  /\ Closed \in Seq(Seq(Chars))
           /\ Lists(Closed, {j \in Starts : j <= at + 1})
           /\ ~started => token = <<>>
<1>0. /\ input \in Inputs /\ at \in 0..Len(source) /\ token \in Seq(Chars)
      /\ tokens \in Seq(Seq(Chars)) /\ Len(source) \in Nat
  BY SourceIs DEF ReaderTyped
<1>1. PICK i \in 1..at + 1 : /\ Current(i, at)
                             /\ started <=> i <= at
                             /\ Spells(token, WordTo(i, at))
                             /\ Lists(tokens, StartsBefore(i))
  BY DEF ReadSoFar
<1>2. /\ i <= at => i \in Starts /\ WordTo(i, at) = Word(i)
      /\ i <= at => {j \in Starts : j <= at + 1} = StartsBefore(i) \cup {i}
      /\ i = at + 1 => {j \in Starts : j <= at + 1} = StartsBefore(i)
  BY <1>0, <1>1, WordEnds
<1>3. CASE started
  <2>1. i <= at /\ i \in Nat
    BY <1>0, <1>1, <1>3
  <2>2. Spells(token, Word(i))
    BY <1>1, <1>2, <2>1
  <2>3. /\ IsFiniteSet(StartsBefore(i)) /\ StartsBefore(i) \subseteq Nat
        /\ \A k \in StartsBefore(i) : k < i
    BY <1>0, PositionsAreFinite DEF StartsBefore
  <2>4. Lists(Append(tokens, token), StartsBefore(i) \cup {i})
    BY <1>0, <1>1, <2>1, <2>2, <2>3, ListsMore
  <2>5. Closed = Append(tokens, token)
    BY <1>3 DEF Closed
  <2>6. Closed \in Seq(Seq(Chars))
    BY <1>0, <2>5
  <2>7. QED
    BY <1>2, <1>3, <2>1, <2>4, <2>5, <2>6
<1>4. CASE ~started
  <2>1. i = at + 1
    BY <1>0, <1>1, <1>4
  <2>2. WordTo(i, at) = {}
    BY <1>0, <2>1, SourceIs DEF WordTo, Word
  <2>3. token = <<>>
    BY <1>0, <1>1, <2>2, SpellsNothing
  <2>4. QED
    BY <1>0, <1>1, <1>2, <1>4, <2>1, <2>3 DEF Closed
<1>5. QED
  BY <1>3, <1>4 DEF ReaderTyped

\* A blank that separates keeps the invariant.
LEMMA SeparateKeeps ==
    ASSUME Parts, Separate
    PROVE  ReaderIInv'
<1>0. /\ input \in Inputs /\ at \in 0..Len(source) /\ ReaderTyped /\ ReadSoFar
      /\ Len(source) \in Nat /\ input' = input /\ outcome' = "reading"
      /\ at' = at + 1 /\ at + 1 \in 1..Len(source)
  BY NextMeans, SourceIs DEF Parts, ReaderTyped, Separate, Advance, Plain, More
<1>1. Separates(at + 1)
  BY NextMeans DEF Separate, Plain
<1>2. /\ Closed \in Seq(Seq(Chars))
      /\ Lists(Closed, {j \in Starts : j <= at + 1})
      /\ ~started => token = <<>>
  BY <1>0, <1>1, ClosedLists
<1>3. /\ tokens' = Closed /\ token' = <<>> /\ started' = FALSE
      /\ quote' = quote /\ escaped' = escaped
  BY <1>2 DEF Separate, Closed, Parts, ReaderTyped
<1>4. escaped' = Literal[at' + 1] /\ quote' = In[at' + 1]
  <2>1. Literal[at + 2] = escaped /\ In[at + 2] = quote
    BY NextMeans, CharsDiffer DEF Separate, Plain, Parts, ReaderTyped
  <2>2. at' + 1 = at + 2
    BY <1>0
  <2>3. QED
    BY <2>1, <2>2, <1>3
<1> DEFINE i == at + 2
<1>5. i \in 1..at' + 1 /\ Current(i, at') /\ (started' <=> i <= at')
  <2>1. /\ i \in 1..at' + 1 /\ i - 1 = at + 1
        /\ (at + 1) + 1 = i /\ i..at' = {} /\ ~(i <= at')
    BY <1>0
  <2>2. \A k \in i..at' : ~Separates(k)
    BY <2>1
  <2>3. Separates(i - 1)
    BY <1>1, <2>1
  <2>4. Current(i, at')
    BY <2>1, <2>2, <2>3 DEF Current
  <2>5. QED
    BY <1>3, <2>1, <2>4
<1>6. Spells(token', WordTo(i, at'))
  <2>1. WordTo(i, at') = {}
    BY <1>0, SourceIs DEF WordTo, Word
  <2>2. QED
    BY <1>3, <2>1, SpellsNothing
<1>7. Lists(tokens', StartsBefore(i))
  <2>1. Starts \subseteq Nat
    BY <1>0, PositionsAreFinite
  <2>2. \A j \in Starts : j <= at + 1 <=> j < i
    BY <1>0, <2>1
  <2>3. {j \in Starts : j <= at + 1} = StartsBefore(i)
    BY <2>2 DEF StartsBefore
  <2>4. QED
    BY <1>2, <1>3, <2>3
<1> HIDE DEF i
<1>8. ReadSoFar'
  BY <1>0, <1>4, <1>5, <1>6, <1>7, ReadNext
<1>9. ReaderTyped'
  <2>1. source' = source
    BY <1>0, PrimedMeaning
  <2>2. /\ allow' \in BOOLEAN /\ token' \in Seq(Chars)
        /\ tokens' \in Seq(Seq(Chars))
        /\ quote' \in Quotes \cup {Nil}
        /\ escaped' \in BOOLEAN /\ started' \in BOOLEAN
    <3>1. allow' = allow
      BY DEF Separate, Advance
    <3>2. allow \in BOOLEAN /\ quote \in Quotes \cup {Nil} /\ escaped \in BOOLEAN
      BY <1>0 DEF ReaderTyped
    <3>3. token' \in Seq(Chars)
      BY <1>3
    <3>4. tokens' \in Seq(Seq(Chars))
      BY <1>2, <1>3
    <3>5. QED
      BY <1>3, <3>1, <3>2, <3>3, <3>4
  <2>3. input' \in Inputs /\ at' \in 0..Len(source)
    BY <1>0
  <2>4. QED
    BY <1>0, <2>1, <2>2, <2>3 DEF ReaderTyped
<1>10. QED
  BY <1>0, <1>8, <1>9 DEF ReaderIInv

\* At the end of the source the tokens list all its words.
LEMMA EndKeeps ==
    ASSUME ReaderIInv, EndOfSource
    PROVE  ReaderIInv'
<1>0. /\ ReaderTyped /\ ReadSoFar /\ at = Len(source) /\ input' = input
      /\ input \in Inputs /\ Len(source) \in Nat
  BY SourceIs DEF ReaderIInv, ReaderTyped, EndOfSource, source
<1>1. Closed \in Seq(Seq(Chars)) /\ Lists(Closed, {j \in Starts : j <= at + 1})
  BY <1>0, ClosedLists
<1>2. {j \in Starts : j <= at + 1} = Starts
  BY <1>0, SourceIs DEF Starts
<1>3. /\ source' = source
      /\ \/ outcome' = "error" /\ tokens' = tokens
         \/ outcome' = "tokens" /\ tokens' = Closed
  BY <1>0, PrimedMeaning DEF EndOfSource, Closed
<1>4. Starts' = Starts /\ \A ts : Lists(ts, Starts)' = Lists(ts, Starts)
  BY <1>0, PrimedMeaning
<1>5. ReaderTyped'
  BY <1>0, <1>1, <1>3 DEF ReaderTyped, EndOfSource
<1>6. outcome' = "tokens" => Lists(tokens', Starts)
  BY <1>1, <1>2, <1>3
<1>7. Lists(tokens', Starts) = Lists(tokens, Starts)'
  BY <1>0, <1>4, MeaningSame DEF Lists, Spells
<1>8. QED
  BY <1>3, <1>5, <1>6, <1>7 DEF ReaderIInv

\* Running or refusing the tokens keeps the invariant.
LEMMA RunKeeps ==
    ASSUME ReaderIInv, Run
    PROVE  ReaderIInv'
<1>0. ReaderTyped /\ input' = input /\ input \in Inputs /\ Lists(tokens, Starts)
  BY DEF ReaderIInv, ReaderTyped, Run
<1>1. source' = source /\ Starts' = Starts /\ tokens' = tokens
  BY <1>0, PrimedMeaning DEF Run, reader
<1>2. ReaderTyped'
  BY <1>0, <1>1 DEF ReaderTyped, Run, reader
<1>3. Lists(tokens, Starts)'
  BY <1>0, <1>1, MeaningSame DEF Lists, Spells
<1>4. outcome' \in {"browse", "execute"} =>
          tokens # <<>> /\ (allow \/ tokens[1] \in ReadCommands)
  BY DEF Run
<1>5. outcome' # "reading" /\ allow' = allow
  BY DEF Run
<1>6. QED
  BY <1>1, <1>2, <1>3, <1>4, <1>5 DEF ReaderIInv, ReadCommands

\* The invariant stays when nothing changes.
LEMMA ReaderStutter ==
    ASSUME ReaderIInv, UNCHANGED commandVars
    PROVE  ReaderIInv'
<1>1. /\ source' = source /\ Literal' = Literal /\ In' = In /\ Starts' = Starts
      /\ \A i : Separates(i)' = Separates(i)
      /\ \A i : Word(i)' = Word(i)
  BY MeaningSame DEF commandVars
<1>2. /\ input' = input /\ allow' = allow /\ at' = at
      /\ tokens' = tokens /\ token' = token
      /\ quote' = quote /\ escaped' = escaped
      /\ started' = started /\ outcome' = outcome
  BY DEF commandVars, reader
<1>3. ReaderTyped'
  BY <1>1, <1>2 DEF ReaderIInv, ReaderTyped
<1>4. Lists(tokens, Starts)' = Lists(tokens, Starts)
  BY <1>1, <1>2 DEF Lists, Spells
<1>5. ReadSoFar' = ReadSoFar
  <2>1. \A i : Current(i, at)' = Current(i, at)
    BY <1>1, <1>2 DEF Current
  <2>2. \A i : WordTo(i, at)' = WordTo(i, at)
    BY <1>1, <1>2 DEF WordTo
  <2>3. \A i : Spells(token, WordTo(i, at))' = Spells(token, WordTo(i, at))
    BY <1>1, <1>2, <2>2 DEF Spells
  <2>4. \A i : Lists(tokens, StartsBefore(i))' = Lists(tokens, StartsBefore(i))
    BY <1>1, <1>2 DEF Lists, Spells, StartsBefore
  <2>5. QED
    BY <1>1, <1>2, <2>1, <2>3, <2>4 DEF ReadSoFar
<1>6. QED
  BY <1>2, <1>3, <1>4, <1>5 DEF ReaderIInv, ReadCommands

\* The invariant holds before anything is read.
LEMMA ReaderInitHolds == CommandInit => ReaderIInv
<1> SUFFICES ASSUME CommandInit PROVE ReaderIInv
  OBVIOUS
<1>0. /\ input \in Inputs /\ at = 0 /\ tokens = <<>>
      /\ token = <<>> /\ quote = Nil /\ escaped = FALSE
      /\ started = FALSE /\ outcome = "reading" /\ allow \in BOOLEAN
  BY DEF CommandInit, Unread
<1>1. Len(source) \in Nat
  BY <1>0, SourceIs
<1>2. ReaderTyped
  <2>1. /\ at \in 0..Len(source)
        /\ tokens \in Seq(Seq(Chars)) /\ token \in Seq(Chars)
    BY <1>0, <1>1
  <2>2. QED
    BY <1>0, <2>1 DEF ReaderTyped
<1>3. Literal[1] = FALSE /\ In[1] = Nil
  <2>1. 1 \in Ends
    BY <1>1 DEF Ends
  <2>2. Literal[1] = LiteralAt(Literal, 1) /\ In[1] = InAt(In, 1)
    BY <1>0, <2>1, LiteralIs, InIs
  <2>3. LiteralAt(Literal, 1) = FALSE /\ InAt(In, 1) = Nil
    BY DEF LiteralAt, InAt
  <2>4. QED
    BY <2>2, <2>3
<1>4. Current(1, 0)
  BY DEF Current
<1>5. WordTo(1, 0) = {} /\ StartsBefore(1) = {}
  BY <1>0, SourceIs DEF WordTo, Word, StartsBefore, Starts
<1>6. Spells(<<>>, {}) /\ Lists(<<>>, {})
  BY SpellsNothing, FS_EmptySet DEF Lists
<1>7. ReadSoFar
  <2>1. at + 1 = 1 /\ 1 \in 1..at + 1 /\ (started <=> 1 <= at)
    BY <1>0
  <2>2. /\ Current(1, at) /\ Spells(token, WordTo(1, at))
        /\ Lists(tokens, StartsBefore(1))
    BY <1>0, <1>4, <1>5, <1>6
  <2>3. QED
    BY <1>0, <1>3, <2>1, <2>2 DEF ReadSoFar
<1>8. QED
  BY <1>0, <1>2, <1>7 DEF ReaderIInv

\* Each step of the tokenizer and the plugin keeps the invariant.
LEMMA ReaderStep == ReaderIInv /\ [CommandNext]_commandVars => ReaderIInv'
<1> SUFFICES ASSUME ReaderIInv, [CommandNext]_commandVars PROVE ReaderIInv'
  OBVIOUS
<1>1. More => Parts
  BY DEF ReaderIInv, Parts, More
<1>2. CASE Escaped \/ Escape \/ Quoted \/ OpenQuote \/ Letter
  <2>1. More
    BY <1>2 DEF Escaped, Escape, Quoted, OpenQuote, Letter, Plain
  <2>2. QED
    BY <1>1, <1>2, <2>1, TakesSteps, TakesKeeps
<1>3. CASE Separate
  BY <1>1, <1>3, SeparateKeeps DEF Separate, Plain
<1>4. CASE EndOfSource
  BY <1>4, EndKeeps
<1>5. CASE Run
  BY <1>5, RunKeeps
<1>6. CASE UNCHANGED commandVars
  BY <1>6, ReaderStutter
<1>7. QED
  BY <1>2, <1>3, <1>4, <1>5, <1>6 DEF CommandNext

\* The least of a set has rank 1 in it.
LEMMA FirstHasRankOne ==
    ASSUME NEW K, K \subseteq Nat, K # {}
    PROVE  \E i \in K : (\A j \in K : i <= j) /\ Rank(K, i) = 1
<1>1. PICK i \in K : \A j \in K : i <= j
  BY Least
<1>2. \A j \in K : j <= i <=> j = i
  BY <1>1
<1>3. {j \in K : j <= i} = {i}
  BY <1>2
<1>4. QED
  BY <1>1, <1>3, FS_Singleton DEF Rank

\* The invariant implies that the tokens are the words, and that what is run
\* in read-only mode is on the allow-list.
LEMMA ReaderReads == ReaderIInv => TokensAreWords /\ ReadOnly
<1> SUFFICES ASSUME ReaderIInv PROVE TokensAreWords /\ ReadOnly
  OBVIOUS
<1>1. TokensAreWords
  BY DEF ReaderIInv, TokensAreWords, Lists
<1>2. ASSUME ~allow, outcome \in {"browse", "execute"}
      PROVE  \E i \in Starts :
                /\ \A j \in Starts : i <= j
                /\ \E w \in ReadCommands : Spells(w, Word(i))
  <2>1. /\ Lists(tokens, Starts) /\ tokens # <<>> /\ tokens[1] \in ReadCommands
        /\ tokens \in Seq(Seq(Chars)) /\ input \in Inputs
    BY <1>2 DEF ReaderIInv, ReaderTyped
  <2>2. Starts \subseteq Nat
    BY <2>1, PositionsAreFinite
  <2>3. Starts # {}
    <3>1. Len(tokens) # 0
      BY <2>1
    <3>2. QED
      BY <2>1, <3>1, FS_EmptySet DEF Lists
  <2>4. PICK i \in Starts : (\A j \in Starts : i <= j) /\ Rank(Starts, i) = 1
    BY <2>2, <2>3, FirstHasRankOne
  <2>5. Spells(tokens[1], Word(i))
    BY <2>1, <2>4 DEF Lists
  <2>6. QED
    BY <2>1, <2>4, <2>5
<1>3. QED
  BY <1>1, <1>2 DEF ReadOnly
-----------------------------------------------------------------------------
(* Commands: sequences that are flattened *)

\* Where each of seqs ends in what they are flattened to.
IsOffsets(o, seqs, flat) ==
    /\ o \in [0..Len(seqs) -> Nat]
    /\ o[0] = 0
    /\ o[Len(seqs)] = Len(flat)
    /\ \A k \in 1..Len(seqs) :
        /\ o[k] = o[k - 1] + Len(seqs[k])
        /\ o[k] <= Len(flat)
        /\ \A j \in 1..Len(seqs[k]) : flat[o[k - 1] + j] = seqs[k][j]

FlattenAt(f, seqs, i) == IF i = 1 THEN seqs[i] ELSE f[i - 1] \o seqs[i]

\* The recursive function in FlattenSeq has a value, one sequence after the
\* other.
LEMMA FlattenIs ==
    ASSUME NEW T, NEW seqs \in Seq(Seq(T)), Len(seqs) # 0
    PROVE  \E f \in [1..Len(seqs) -> Seq(T)] :
            /\ FlattenSeq(seqs) = f[Len(seqs)]
            /\ \A i \in 1..Len(seqs) : f[i] = FlattenAt(f, seqs, i)
<1> DEFINE n == Len(seqs)
           D == 1..n
           S == Seq(T)
           rank == [i \in D |-> i]
           F == [f \in [D -> S] |-> [i \in D |-> FlattenAt(f, seqs, i)]]
<1>0. n \in Nat /\ n # 0 /\ \A i \in D : seqs[i] \in S
  OBVIOUS
<1>1. F \in [[D -> S] -> [D -> S]]
  <2> SUFFICES ASSUME NEW f \in [D -> S], NEW i \in D
               PROVE  FlattenAt(f, seqs, i) \in S
    OBVIOUS
  <2>1. CASE i = 1
    BY <1>0, <2>1 DEF FlattenAt
  <2>2. CASE i # 1
    <3>1. i - 1 \in D
      BY <1>0, <2>2
    <3>2. f[i - 1] \in Seq(T) /\ seqs[i] \in Seq(T)
      BY <1>0, <3>1
    <3>3. f[i - 1] \o seqs[i] \in Seq(T)
      BY <3>2
    <3>4. QED
      BY <2>2, <3>3 DEF FlattenAt
  <2>3. QED
    BY <2>1, <2>2
<1>2. Descends(F, D, S, rank)
  <2> SUFFICES ASSUME NEW f \in [D -> S], NEW g \in [D -> S], NEW i \in D,
                      \A c \in D : rank[c] < rank[i] => f[c] = g[c]
               PROVE  F[f][i] = F[g][i]
    BY DEF Descends
  <2>1. i # 1 => i - 1 \in D /\ i - 1 < i
    BY <1>0
  <2>2. i # 1 => f[i - 1] = g[i - 1]
    BY <2>1
  <2>3. QED
    BY <2>2 DEF FlattenAt
<1>3. IsRecursion(F, D, S, rank)
  <2>1. S # {} /\ rank \in [D -> Nat]
    <3>1. <<>> \in S
      OBVIOUS
    <3>2. QED
      BY <1>0, <3>1
  <2>2. n + 1 \in Nat /\ \A d \in D : rank[d] < n + 1
    BY <1>0
  <2> HIDE DEF F, rank, D, S
  <2>3. QED
    BY <1>1, <1>2, <2>1, <2>2 DEF IsRecursion
<1>4. \E f \in [D -> S] : f = F[f]
  <2> HIDE DEF F, rank, D, S
  <2> QED BY <1>3, Recursion
<1>5. \E f : f = [i \in D |-> FlattenAt(f, seqs, i)] /\ f \in [D -> S]
  BY <1>4
<1> DEFINE G == CHOOSE f : f = [i \in D |-> FlattenAt(f, seqs, i)]
<1>6. FlattenSeq(seqs) = G[n]
  BY DEF FlattenSeq, FlattenAt
<1>7. G = [i \in D |-> FlattenAt(G, seqs, i)]
  BY <1>5
<1>8. G \in [D -> S]
  <2> DEFINE R == [i \in D |-> i]
  <2> HIDE DEF F, S
  <2>1. ASSUME NEW f \in [D -> S], f = F[f]
        PROVE  f = G
    <3> DEFINE Bad == {i \in D : f[i] # G[i]}
    <3>1. Bad = {}
      <4> SUFFICES ASSUME Bad # {} PROVE FALSE
        OBVIOUS
      <4>1. Bad \subseteq Nat
        BY <1>0
      <4>2. PICK i \in Bad : \A j \in Bad : i <= j
        <5> HIDE DEF Bad
        <5> QED BY <4>1, Least
      <4>3. i # 1 => f[i - 1] = G[i - 1]
        <5> SUFFICES ASSUME i # 1 PROVE f[i - 1] = G[i - 1]
          OBVIOUS
        <5>1. i - 1 \in D /\ ~(i <= i - 1)
          BY <1>0
        <5>2. i - 1 \notin Bad
          BY <4>2, <5>1
        <5>3. QED
          BY <5>1, <5>2
      <4>4. G[i] = FlattenAt(G, seqs, i)
        <5> HIDE DEF G
        <5> QED BY <1>7
      <4>5. f[i] = FlattenAt(f, seqs, i)
        BY <2>1 DEF F
      <4>6. FlattenAt(f, seqs, i) = FlattenAt(G, seqs, i)
        <5> HIDE DEF G
        <5> QED BY <4>3 DEF FlattenAt
      <4>7. QED
        BY <4>4, <4>5, <4>6
    <3>2. \A i \in D : f[i] = G[i]
      BY <3>1
    <3>3. G = [i \in D |-> G[i]]
      <4>1. \A i \in D : G[i] = FlattenAt(G, seqs, i)
        <5> HIDE DEF G
        <5> QED BY <1>7
      <4> HIDE DEF G
      <4>2. QED
        BY <1>7, <4>1
    <3> HIDE DEF G
    <3>4. f = [i \in D |-> f[i]]
      OBVIOUS
    <3>5. QED
      BY <3>2, <3>3, <3>4
  <2>2. PICK f \in [D -> S] : f = F[f]
    BY <1>4
  <2>3. f = G
    BY <2>1, <2>2
  <2> HIDE DEF G
  <2>4. QED
    BY <2>2, <2>3
<1> HIDE DEF G
<1>9. \A i \in D : G[i] = FlattenAt(G, seqs, i)
  BY <1>7
<1>10. QED
  BY <1>6, <1>8, <1>9

\* s is in flat after the first p elements.
IsPart(s, flat, p) ==
    /\ p + Len(s) <= Len(flat)
    /\ \A j \in 1..Len(s) : flat[p + j] = s[j]

\* What two sequences hold is in their concatenation, the first part in its
\* place.
LEMMA ConcatParts ==
    ASSUME NEW T, NEW a \in Seq(T), NEW b \in Seq(T)
    PROVE  /\ Len(a \o b) = Len(a) + Len(b)
           /\ IsPart(b, a \o b, Len(a))
           /\ \A s \in Seq(T), p \in Nat : IsPart(s, a, p) => IsPart(s, a \o b, p)
<1>0. Len(a) \in Nat /\ Len(b) \in Nat
  OBVIOUS
<1>1. /\ Len(a \o b) = Len(a) + Len(b)
      /\ \A j \in 1..Len(a) : (a \o b)[j] = a[j]
      /\ \A j \in 1..Len(b) : (a \o b)[Len(a) + j] = b[j]
  OBVIOUS
<1> DEFINE c == a \o b
<1> HIDE DEF c
<1>2. /\ Len(c) = Len(a) + Len(b)
      /\ \A j \in 1..Len(a) : c[j] = a[j]
      /\ \A j \in 1..Len(b) : c[Len(a) + j] = b[j]
  BY <1>1 DEF c
<1>3. IsPart(b, c, Len(a))
  BY <1>0, <1>2 DEF IsPart
<1>4. ASSUME NEW s \in Seq(T), NEW p \in Nat, IsPart(s, a, p)
      PROVE  IsPart(s, c, p)
  <2>1. Len(s) \in Nat /\ p + Len(s) <= Len(a)
    BY <1>4 DEF IsPart
  <2>2. \A j \in 1..Len(s) : p + j \in 1..Len(a)
    BY <1>0, <2>1
  <2>3. QED
    BY <1>0, <1>2, <1>4, <2>1, <2>2 DEF IsPart
<1>5. QED
  BY <1>2, <1>3, <1>4 DEF c

\* What sequences are flattened to holds each of them, one after the other.
LEMMA FlattenOffsets ==
    ASSUME NEW T, NEW seqs \in Seq(Seq(T))
    PROVE  /\ FlattenSeq(seqs) \in Seq(T)
           /\ \E o : IsOffsets(o, seqs, FlattenSeq(seqs))
<1> DEFINE n == Len(seqs)
<1>0. n \in Nat /\ \A i \in 1..n : seqs[i] \in Seq(T) /\ Len(seqs[i]) \in Nat
  OBVIOUS
<1>1. CASE n = 0
  <2>1. seqs = <<>>
    BY <1>1
  <2>2. FlattenSeq(seqs) = <<>>
    BY <2>1 DEF FlattenSeq
  <2>3. IsOffsets([k \in 0..0 |-> 0], <<>>, <<>>)
    BY DEF IsOffsets
  <2>4. QED
    BY <2>1, <2>2, <2>3
<1>2. CASE n # 0
  <2>1. PICK f \in [1..n -> Seq(T)] : /\ FlattenSeq(seqs) = f[n]
                                      /\ \A i \in 1..n : f[i] = FlattenAt(f, seqs, i)
    BY <1>2, FlattenIs
  <2> DEFINE o == [k \in 0..n |-> IF k = 0 THEN 0 ELSE Len(f[k])]
  <2>2. ASSUME NEW k \in 1..n
        PROVE  f[k] \in Seq(T) /\ Len(f[k]) \in Nat
    <3>1. f[k] \in Seq(T)
      OBVIOUS
    <3>2. QED
      BY <3>1
  <2>3. /\ o \in [0..n -> Nat]
        /\ o[0] = 0
        /\ \A k \in 1..n : o[k] = Len(f[k])
    BY <1>0, <2>2
  <2>4. ASSUME NEW k \in 1..n, k # 1
        PROVE  /\ k - 1 \in 1..n
               /\ f[k - 1] \in Seq(T) /\ seqs[k] \in Seq(T)
               /\ f[k] = f[k - 1] \o seqs[k]
               /\ o[k - 1] = Len(f[k - 1])
    <3>1. k - 1 \in 1..n
      BY <1>0, <2>4
    <3>2. QED
      BY <1>0, <2>1, <2>2, <2>3, <2>4, <3>1 DEF FlattenAt
  <2>5. f[1] = seqs[1] /\ 1 \in 1..n
    <3>1. 1 \in 1..n
      BY <1>0, <1>2
    <3> HIDE DEF n
    <3>2. f[1] = FlattenAt(f, seqs, 1)
      BY <2>1, <3>1
    <3>3. QED
      BY <3>1, <3>2 DEF FlattenAt
  <2> HIDE DEF o
  <2>6. ASSUME NEW k \in 1..n
        PROVE  o[k] = o[k - 1] + Len(seqs[k]) /\ o[k - 1] \in Nat
    <3>1. CASE k = 1
      BY <1>0, <2>3, <2>5, <3>1
    <3>2. CASE k # 1
      <4>1. Len(f[k - 1] \o seqs[k]) = Len(f[k - 1]) + Len(seqs[k])
        BY <2>4, <3>2, ConcatParts
      <4>2. QED
        BY <2>2, <2>3, <2>4, <3>2, <4>1
    <3>3. QED
      BY <3>1, <3>2
  <2> DEFINE Bad == {m \in 1..n : \E k \in 1..m : ~IsPart(seqs[k], f[m], o[k - 1])}
  <2>7. Bad = {}
    <3> SUFFICES ASSUME Bad # {} PROVE FALSE
      OBVIOUS
    <3>1. Bad \subseteq Nat
      BY <1>0
    <3>2. PICK m \in Bad : \A i \in Bad : m <= i
      <4> HIDE DEF Bad
      <4> QED BY <3>1, Least
    <3>3. m \in 1..n
      OBVIOUS
    <3>4. ASSUME NEW k \in 1..m
          PROVE  IsPart(seqs[k], f[m], o[k - 1])
      <4>1. CASE m = 1
        <5>1. k = 1
          BY <4>1
        <5>2. o[1 - 1] = 0 /\ Len(seqs[1]) \in Nat
          BY <1>0, <2>3, <2>5
        <5>3. IsPart(seqs[1], seqs[1], 0)
          BY <5>2 DEF IsPart
        <5>4. QED
          BY <2>5, <4>1, <5>1, <5>2, <5>3
      <4>2. CASE m # 1
        <5>1. /\ m - 1 \in 1..n /\ f[m - 1] \in Seq(T) /\ seqs[m] \in Seq(T)
              /\ f[m] = f[m - 1] \o seqs[m] /\ o[m - 1] = Len(f[m - 1])
          BY <2>4, <3>3, <4>2
        <5>2. CASE k = m
          <6>1. IsPart(seqs[m], f[m - 1] \o seqs[m], Len(f[m - 1]))
            BY <5>1, ConcatParts
          <6>2. QED
            BY <5>1, <5>2, <6>1
        <5>3. CASE k # m
          <6>1. k \in 1..m - 1 /\ k \in 1..n /\ ~(m <= m - 1)
            BY <3>3, <5>3, <1>0
          <6>2. m - 1 \notin Bad
            BY ONLY <3>2, <6>1
          <6>3. IsPart(seqs[k], f[m - 1], o[k - 1])
            BY <5>1, <6>1, <6>2
          <6>4. seqs[k] \in Seq(T) /\ o[k - 1] \in Nat
            BY <1>0, <2>6, <6>1
          <6>5. IsPart(seqs[k], f[m - 1] \o seqs[m], o[k - 1])
            BY ONLY <5>1, <6>3, <6>4, ConcatParts
          <6>6. QED
            BY ONLY <5>1, <6>5
        <5>4. QED
          BY <5>2, <5>3
      <4>3. QED
        BY <4>1, <4>2
    <3>5. QED
      BY <3>4
  <2>8. n \in 1..n /\ \A k \in 1..n : IsPart(seqs[k], f[n], o[k - 1])
    <3>1. n \in 1..n
      BY <1>0, <1>2
    <3>2. n \notin Bad
      <4> HIDE DEF Bad
      <4> QED BY <2>7
    <3>3. QED
      BY <3>1, <3>2
  <2>9. IsOffsets(o, seqs, f[n])
    BY <2>3, <2>6, <2>8 DEF IsOffsets, IsPart
  <2>10. f[n] \in Seq(T)
    BY <1>0, <1>2, <2>2
  <2>11. QED
    BY <2>1, <2>9, <2>10
<1>3. QED
  BY <1>1, <1>2
-----------------------------------------------------------------------------
(* Commands: what shlex.join writes *)

Written == Chars \cup {Space, Single, Double}
Pieces(w) == [i \in DOMAIN w |-> Piece(w[i])]
Body(w) == FlattenSeq(Pieces(w))
Offset(w) == CHOOSE b : IsOffsets(b, Pieces(w), Body(w))

\* A character is written as itself, and a single quote as five characters.
LEMMA PieceIs ==
    ASSUME NEW c \in Chars
    PROVE  /\ Piece(c) \in Seq(Written)
           /\ c # Single => Len(Piece(c)) = 1 /\ Piece(c)[1] = c
           /\ c = Single => /\ Len(Piece(c)) = 5
                            /\ Piece(c)[1] = Single
                            /\ Piece(c)[2] = Double /\ Piece(c)[3] = Single
                            /\ Piece(c)[4] = Double /\ Piece(c)[5] = Single
<1>1. Single \in Written /\ Double \in Written /\ c \in Written
  BY DEF Written
<1>2. CASE c = Single
  <2>1. Piece(c) = <<Single, Double, Single, Double, Single>>
    BY <1>2 DEF Piece
  <2>2. QED
    BY <1>1, <1>2, <2>1
<1>3. CASE c # Single
  <2>1. Piece(c) = <<c>>
    BY <1>3 DEF Piece
  <2>2. QED
    BY <1>1, <1>3, <2>1
<1>4. QED
  BY <1>2, <1>3

\* The body of a quotation holds the pieces of the word's characters.
LEMMA BodyIs ==
    ASSUME NEW w \in Seq(Chars)
    PROVE  /\ Body(w) \in Seq(Written)
           /\ Len(Pieces(w)) = Len(w)
           /\ \A i \in 1..Len(w) : Pieces(w)[i] = Piece(w[i])
           /\ IsOffsets(Offset(w), Pieces(w), Body(w))
<1>1. \A i \in DOMAIN w : Piece(w[i]) \in Seq(Written)
  BY PieceIs
<1>2. Pieces(w) \in Seq(Seq(Written)) /\ Len(Pieces(w)) = Len(w)
  BY <1>1 DEF Pieces
<1>3. Body(w) \in Seq(Written) /\ \E o : IsOffsets(o, Pieces(w), Body(w))
  BY <1>2, FlattenOffsets DEF Body
<1>4. IsOffsets(Offset(w), Pieces(w), Body(w))
  BY <1>3 DEF Offset
<1>5. \A i \in 1..Len(w) : Pieces(w)[i] = Piece(w[i])
  BY DEF Pieces
<1>6. QED
  BY <1>2, <1>3, <1>4, <1>5

\* A bare word is written as it is, and another one between single quotes.
LEMMA QuoteIs ==
    ASSUME NEW w \in Seq(Chars)
    PROVE  /\ Quote(w) \in Seq(Written)
           /\ IsBare(w) => Quote(w) = w
           /\ ~IsBare(w) =>
                /\ Len(Quote(w)) = Len(Body(w)) + 2
                /\ Quote(w)[1] = Single
                /\ Quote(w)[Len(Body(w)) + 2] = Single
                /\ \A i \in 1..Len(Body(w)) : Quote(w)[i + 1] = Body(w)[i]
<1>1. CASE IsBare(w)
  <2>1. Quote(w) = w
    BY <1>1 DEF Quote
  <2>2. w \in Seq(Written)
    BY DEF Written
  <2>3. QED
    BY <1>1, <2>1, <2>2
<1>2. CASE ~IsBare(w)
  <2> DEFINE b == Body(w)
  <2>1. b \in Seq(Written) /\ Single \in Written
    BY BodyIs DEF Written
  <2>2. Quote(w) = <<Single>> \o b \o <<Single>>
    BY <1>2 DEF Quote, Body, Pieces
  <2> HIDE DEF b
  <2>3. /\ <<Single>> \o b \in Seq(Written)
        /\ Len(<<Single>> \o b) = Len(b) + 1 /\ Len(b) \in Nat
    BY <2>1
  <2>4. /\ (<<Single>> \o b)[1] = Single
        /\ \A i \in 1..Len(b) : (<<Single>> \o b)[i + 1] = b[i]
    BY <2>1
  <2> DEFINE a == <<Single>> \o b
  <2> HIDE DEF a
  <2>5. /\ a \in Seq(Written) /\ Len(a) = Len(b) + 1
        /\ Len(b) \in Nat /\ Quote(w) = a \o <<Single>>
    BY <2>2, <2>3 DEF a
  <2>6. a[1] = Single /\ \A i \in 1..Len(b) : a[i + 1] = b[i]
    BY <2>4 DEF a
  <2>7. Quote(w) = Append(a, Single)
    BY <2>1, <2>5
  <2>8. /\ Quote(w) \in Seq(Written) /\ Len(Quote(w)) = Len(b) + 2
        /\ Quote(w)[Len(b) + 2] = Single
        /\ \A i \in 1..Len(b) + 1 : Quote(w)[i] = a[i]
    BY <2>1, <2>5, <2>7
  <2>9. 1 \in 1..Len(b) + 1 /\ \A i \in 1..Len(b) : i + 1 \in 1..Len(b) + 1
    BY <2>5
  <2>10. QED
    BY <1>2, <2>6, <2>8, <2>9 DEF b
<1>3. QED
  BY <1>1, <1>2

\* Word k of ws is quoted in src after the first s[k] characters.
IsLayout(s, ws, src) ==
    /\ Len(ws) = 0 => Len(src) = 0
    /\ Len(ws) > 0 => s[1] = 0 /\ s[Len(ws)] + Len(Quote(ws[Len(ws)])) = Len(src)
    /\ \A k \in 1..Len(ws) : s[k] \in Nat /\ IsPart(Quote(ws[k]), src, s[k])
    /\ \A k \in 1..Len(ws) - 1 :
        /\ src[s[k] + Len(Quote(ws[k])) + 1] = Space
        /\ s[k + 1] = s[k] + Len(Quote(ws[k])) + 1

\* Joined words stand one after the other, quoted, with a blank between two.
LEMMA JoinedAre ==
    ASSUME NEW ws \in Seq(Seq(Chars))
    PROVE  \E s : IsLayout(s, ws, Join(ws))
<1> DEFINE n == Len(ws)
           Q(k) == Quote(ws[k])
           ps == [k \in DOMAIN ws |-> IF k = 1 THEN Q(k) ELSE <<Space>> \o Q(k)]
           src == Join(ws)
<1>0. n \in Nat /\ \A k \in 1..n : ws[k] \in Seq(Chars)
  OBVIOUS
<1>1. ASSUME NEW k \in 1..n
      PROVE  Q(k) \in Seq(Written) /\ Len(Q(k)) \in Nat
  <2>1. Q(k) \in Seq(Written)
    BY <1>0, QuoteIs
  <2> HIDE DEF Q
  <2>2. QED
    BY <2>1
<1>2. src = FlattenSeq(ps)
  BY DEF Join
<1> HIDE DEF Q, src
<1>3. Space \in Written
  BY DEF Written
<1>4. \A k \in 1..n : ps[k] = IF k = 1 THEN Q(k) ELSE <<Space>> \o Q(k)
  OBVIOUS
<1>5. ps \in Seq(Seq(Written)) /\ Len(ps) = n
  <2>1. \A k \in 1..n : ps[k] \in Seq(Written)
    BY <1>1, <1>3, <1>4
  <2>2. DOMAIN ps = 1..n /\ ps = [k \in 1..n |-> ps[k]]
    OBVIOUS
  <2> HIDE DEF ps
  <2>3. QED
    BY <1>0, <2>1, <2>2
<1> HIDE DEF ps
<1>6. PICK o : IsOffsets(o, ps, src)
  BY <1>2, <1>5, FlattenOffsets
<1>7. src \in Seq(Written) /\ Len(src) \in Nat
  <2>1. src \in Seq(Written)
    BY <1>2, <1>5, FlattenOffsets
  <2>2. QED
    BY <2>1
<1>8. /\ o[0] = 0 /\ o[n] = Len(src)
      /\ \A k \in 1..n : /\ o[k - 1] \in Nat /\ o[k] \in Nat
                         /\ o[k] = o[k - 1] + Len(ps[k])
                         /\ o[k] <= Len(src)
                         /\ \A j \in 1..Len(ps[k]) : src[o[k - 1] + j] = ps[k][j]
  <2>1. \A k \in 1..n : k - 1 \in 0..n /\ k \in 0..n
    BY <1>0
  <2>2. QED
    BY <1>5, <1>6, <2>1 DEF IsOffsets
<1>9. n > 0 => ps[1] = Q(1)
  BY <1>0, <1>4
<1>10. ASSUME NEW k \in 2..n
       PROVE  /\ Len(ps[k]) = Len(Q(k)) + 1
              /\ ps[k][1] = Space
              /\ \A j \in 1..Len(Q(k)) : ps[k][j + 1] = Q(k)[j]
  <2>0. k \in 1..n /\ k # 1
    BY <1>0
  <2>1. ps[k] = <<Space>> \o Q(k) /\ Q(k) \in Seq(Written)
    BY <1>1, <1>4, <2>0
  <2>2. QED
    BY <1>3, <2>1
<1> DEFINE s == [k \in 1..n |-> IF k = 1 THEN 0 ELSE o[k - 1] + 1]
<1>11. ASSUME NEW k \in 1..n
       PROVE  s[k] \in Nat /\ IsPart(Q(k), src, s[k]) /\ s[k] + Len(Q(k)) = o[k]
  <2>1. CASE k = 1
    <3>1. /\ s[k] = 0 /\ ps[k] = Q(k) /\ o[k - 1] = 0 /\ Len(Q(k)) \in Nat
      BY <1>0, <1>1, <1>8, <1>9, <2>1
    <3> HIDE DEF s
    <3>2. QED
      BY <1>7, <1>8, <3>1 DEF IsPart
  <2>2. CASE k # 1
    <3>1. /\ k \in 2..n /\ s[k] = o[k - 1] + 1
          /\ Len(Q(k)) \in Nat /\ o[k - 1] \in Nat
      BY <1>0, <1>1, <1>8, <2>2
    <3> HIDE DEF s
    <3>2. o[k] = o[k - 1] + (Len(Q(k)) + 1) /\ o[k] <= Len(src)
      BY <1>8, <1>10, <3>1
    <3>3. \A j \in 1..Len(Q(k)) : src[s[k] + j] = Q(k)[j]
      <4> SUFFICES ASSUME NEW j \in 1..Len(Q(k)) PROVE src[s[k] + j] = Q(k)[j]
        OBVIOUS
      <4>0. Len(ps[k]) = Len(Q(k)) + 1 /\ ps[k][j + 1] = Q(k)[j]
        BY <1>10, <3>1
      <4>1. j + 1 \in 1..Len(ps[k]) /\ s[k] + j = o[k - 1] + (j + 1)
        <5>1. j \in Nat /\ \A p \in Nat : (p + 1) + j = p + (j + 1)
          BY <3>1
        <5>2. (o[k - 1] + 1) + j = o[k - 1] + (j + 1)
          BY ONLY <3>1, <5>1
        <5>3. j + 1 \in 1..Len(ps[k])
          BY <4>0, <3>1
        <5>4. s[k] = o[k - 1] + 1
          BY ONLY <3>1
        <5>5. QED
          BY ONLY <5>2, <5>3, <5>4
      <4>2. QED
        BY <1>8, <4>0, <4>1
    <3>4. s[k] \in Nat /\ s[k] + Len(Q(k)) = o[k] /\ s[k] + Len(Q(k)) <= Len(src)
      <4>1. s[k] = o[k - 1] + 1
        BY <3>1
      <4>2. s[k] \in Nat
        BY <3>1
      <4>3. s[k] + Len(Q(k)) = o[k]
        <5>1. \A p, l \in Nat : (p + 1) + l = p + (l + 1)
          OBVIOUS
        <5>2. (o[k - 1] + 1) + Len(Q(k)) = o[k - 1] + (Len(Q(k)) + 1)
          BY ONLY <3>1, <5>1
        <5>3. QED
          BY ONLY <3>2, <4>1, <5>2
      <4>4. QED
        BY <3>2, <4>2, <4>3
    <3>5. QED
      BY <3>3, <3>4 DEF IsPart
  <2>3. QED
    BY <2>1, <2>2
<1>12. ASSUME NEW k \in 1..n - 1
       PROVE  src[s[k] + Len(Q(k)) + 1] = Space /\ s[k + 1] = s[k] + Len(Q(k)) + 1
  <2>1. /\ k \in 1..n /\ k + 1 \in 2..n
        /\ k + 1 \in 1..n /\ (k + 1) - 1 = k /\ k + 1 # 1
    BY <1>0
  <2>2. s[k + 1] = o[k] + 1 /\ s[k] + Len(Q(k)) = o[k]
    BY <1>11, <2>1
  <2> HIDE DEF s
  <2>3. /\ Len(ps[k + 1]) = Len(Q(k + 1)) + 1
        /\ Len(Q(k + 1)) \in Nat /\ ps[k + 1][1] = Space
    BY <1>1, <1>10, <2>1
  <2>4. 1 \in 1..Len(ps[k + 1])
    BY <2>3
  <2>5. src[o[k] + 1] = Space
    BY <1>8, <2>1, <2>3, <2>4
  <2>6. QED
    BY <2>2, <2>5
<1>13. n > 0 => s[1] = 0 /\ s[n] + Len(Q(n)) = Len(src)
  <2>1. n > 0 => 1 \in 1..n /\ n \in 1..n
    BY <1>0
  <2>2. n > 0 => s[1] = 0
    BY <2>1
  <2> HIDE DEF s
  <2>3. n > 0 => s[n] + Len(Q(n)) = o[n]
    BY <1>11, <2>1
  <2>4. QED
    BY <1>8, <2>2, <2>3
<1>14. n = 0 => Len(src) = 0
  BY <1>8
<1> HIDE DEF s
<1>15. IsLayout(s, ws, src)
  BY <1>11, <1>12, <1>13, <1>14 DEF IsLayout, Q
<1>16. QED
  BY <1>15 DEF src
-----------------------------------------------------------------------------
(* Commands: reading a quotation *)

\* What a character that no backslash escapes does.
Reads ==
    /\ at' = at + 1 /\ input' = input /\ outcome' = "reading" /\ escaped' = FALSE
    /\ quote # Nil =>
        /\ started' = TRUE /\ tokens' = tokens
        /\ char = quote => quote' = Nil /\ token' = token
        /\ char # quote => quote' = quote /\ token' = Append(token, char)
    /\ quote = Nil /\ char \in Quotes =>
        started' = TRUE /\ tokens' = tokens /\ quote' = char /\ token' = token
    /\ quote = Nil /\ char = Space =>
        /\ quote' = Nil /\ started' = FALSE
        /\ started => tokens' = Append(tokens, token) /\ token' = <<>>
    /\ quote = Nil /\ char \notin Quotes \cup {Space} =>
        started' = TRUE /\ tokens' = tokens /\ quote' = Nil /\ token' = Append(token, char)

\* What the steps do as long as no backslash is read.
LEMMA PlainReads ==
    ASSUME escaped = FALSE, char # Backslash, started \in BOOLEAN,
           Escaped \/ Escape \/ Quoted \/ OpenQuote \/ Separate \/ Letter
    PROVE  Reads
<1>1. Quoted \/ OpenQuote \/ Separate \/ Letter
  BY DEF Escaped, Escape
<1>2. CASE Quoted
  BY <1>2 DEF Quoted, Plain, More, Advance, Reads
<1>3. CASE OpenQuote
  BY <1>3, CharsDiffer DEF OpenQuote, Plain, More, Advance, Reads
<1>4. CASE Separate
  BY <1>4, CharsDiffer DEF Separate, Plain, More, Advance, Reads
<1>5. CASE Letter
  BY <1>5 DEF Letter, Plain, More, Advance, Reads
<1>6. QED
  BY <1>1, <1>2, <1>3, <1>4, <1>5

\* The prefixes of a sequence, element by element.
LEMMA PrefixesGrow ==
    ASSUME NEW T, NEW w \in Seq(T)
    PROVE  /\ SubSeq(w, 1, 0) = <<>>
           /\ SubSeq(w, 1, Len(w)) = w
           /\ \A c \in 0..Len(w) - 1 :
                  Append(SubSeq(w, 1, c), w[c + 1]) = SubSeq(w, 1, c + 1)
  OBVIOUS

\* The quote the tokenizer is in after d characters of a piece.
After(d) == IF d = 0 THEN Single ELSE IF d \in {1, 4} THEN Nil ELSE Double

\* d characters of the piece of w after the first c are read, of those of
\* its quotation j.
InPiece(w, j, c, d) ==
    /\ c \in 0..Len(w) /\ d \in 0..4
    /\ j = 1 + Offset(w)[c] + d
    /\ d > 0 => c < Len(w) /\ w[c + 1] = Single
    /\ token = SubSeq(w, 1, IF d < 3 THEN c ELSE c + 1)
    /\ quote = After(d)
    /\ started = TRUE

\* The state of the tokenizer after the first j characters of w as it is quoted.
Within(w, j) ==
    IF j = 0 THEN token = <<>> /\ quote = Nil /\ started = FALSE
    ELSE IF IsBare(w) THEN token = SubSeq(w, 1, j) /\ quote = Nil /\ started = TRUE
    ELSE IF j = Len(Quote(w)) THEN token = w /\ quote = Nil /\ started = TRUE
    ELSE \E c, d \in Nat : InPiece(w, j, c, d)

\* Where the pieces of a word's characters are in its quotation.
LEMMA OffsetsAre ==
    ASSUME NEW w \in Seq(Chars), ~IsBare(w)
    PROVE  /\ Offset(w)[0] = 0 /\ Len(Quote(w)) = Offset(w)[Len(w)] + 2
           /\ \A c \in 0..Len(w) : Offset(w)[c] \in Nat
           /\ \A c \in 0..Len(w) - 1 :
                /\ Offset(w)[c + 1] = Offset(w)[c] + Len(Piece(w[c + 1]))
                /\ \A d \in 1..Len(Piece(w[c + 1])) :
                    Quote(w)[(1 + Offset(w)[c]) + d] = Piece(w[c + 1])[d]
           /\ Quote(w)[1] = Single /\ Quote(w)[Len(Quote(w))] = Single
<1> DEFINE o == Offset(w)
           b == Body(w)
<1>0. /\ Len(w) \in Nat /\ Len(Pieces(w)) = Len(w) /\ Len(b) \in Nat
      /\ \A i \in 1..Len(w) : Pieces(w)[i] = Piece(w[i])
      /\ IsOffsets(o, Pieces(w), b)
  <2>1. b \in Seq(Written)
    BY BodyIs
  <2>2. Len(b) \in Nat
    BY <2>1
  <2>3. QED
    BY <2>2, BodyIs
<1>1. /\ Len(Quote(w)) = Len(b) + 2 /\ Quote(w)[1] = Single
      /\ Quote(w)[Len(b) + 2] = Single
      /\ \A i \in 1..Len(b) : Quote(w)[i + 1] = b[i]
  BY QuoteIs
<1> HIDE DEF o, b
<1>2. /\ o \in [0..Len(w) -> Nat] /\ o[0] = 0 /\ o[Len(w)] = Len(b)
      /\ \A k \in 1..Len(w) :
            /\ o[k] = o[k - 1] + Len(Piece(w[k]))
            /\ o[k] <= Len(b)
            /\ \A j \in 1..Len(Piece(w[k])) : b[o[k - 1] + j] = Piece(w[k])[j]
  BY <1>0 DEF IsOffsets
<1>3. \A c \in 0..Len(w) : o[c] \in Nat
  BY <1>2
<1>4. ASSUME NEW c \in 0..Len(w) - 1
      PROVE  /\ o[c + 1] = o[c] + Len(Piece(w[c + 1]))
             /\ \A d \in 1..Len(Piece(w[c + 1])) :
                    Quote(w)[(1 + o[c]) + d] = Piece(w[c + 1])[d]
  <2>1. c + 1 \in 1..Len(w) /\ (c + 1) - 1 = c /\ c \in 0..Len(w)
    BY <1>0
  <2>2. /\ o[c + 1] = o[c] + Len(Piece(w[c + 1]))
        /\ o[c] \in Nat /\ o[c + 1] <= Len(b)
    BY <1>2, <2>1
  <2>3. ASSUME NEW d \in 1..Len(Piece(w[c + 1]))
        PROVE  Quote(w)[(1 + o[c]) + d] = Piece(w[c + 1])[d]
    <3>1. b[o[c] + d] = Piece(w[c + 1])[d]
      BY <1>2, <2>1
    <3>2. w[c + 1] \in Chars
      BY <2>1
    <3>3. Len(Piece(w[c + 1])) \in Nat
      <4>1. Piece(w[c + 1]) \in Seq(Written)
        BY <3>2, PieceIs
      <4> QED BY <4>1
    <3>4. o[c] + d \in 1..Len(b) /\ (o[c] + d) + 1 = (1 + o[c]) + d
      BY <1>0, <2>2, <3>3
    <3>5. QED
      BY <1>1, <3>1, <3>4
  <2>4. QED
    BY <2>2, <2>3
<1>5. QED
  BY <1>1, <1>2, <1>3, <1>4 DEF o, b

\* A step within a word, one character of its quotation further.
LEMMA WithinGoesOn ==
    ASSUME NEW w \in Seq(Chars), NEW j \in 0..Len(Quote(w)) - 1, Within(w, j),
           Reads, char = Quote(w)[j + 1]
    PROVE  Within(w, j + 1)' /\ tokens' = tokens
<1>0. Len(w) \in Nat /\ Len(Quote(w)) \in Nat /\ j + 1 # 0
  <2>1. Quote(w) \in Seq(Written)
    BY QuoteIs
  <2>2. Len(Quote(w)) \in Nat
    BY <2>1
  <2>3. QED
    BY <2>2
<1>1. CASE IsBare(w)
  <2>1. Quote(w) = w
    BY <1>1, QuoteIs
  <2>2. char = w[j + 1] /\ j + 1 \in DOMAIN w /\ j \in 0..Len(w) - 1
    BY <2>1, <1>0
  <2>3. char \notin Quotes \cup {Space}
    BY <1>1, <2>2 DEF IsBare
  <2>4. token = SubSeq(w, 1, j) /\ quote = Nil
    <3>1. CASE j = 0
      BY <3>1, PrefixesGrow DEF Within
    <3>2. CASE j # 0
      BY <1>1, <3>2 DEF Within
    <3>3. QED
      BY <3>1, <3>2
  <2>5. /\ token' = SubSeq(w, 1, j + 1) /\ quote' = Nil
        /\ started' = TRUE /\ tokens' = tokens
    <3>1. Append(SubSeq(w, 1, j), w[j + 1]) = SubSeq(w, 1, j + 1)
      BY <2>2, PrefixesGrow
    <3>2. QED
      BY <2>2, <2>3, <2>4, <3>1 DEF Reads
  <2>6. QED
    BY <1>0, <1>1, <2>5 DEF Within
<1>2. CASE ~IsBare(w)
  <2>0. /\ Offset(w)[0] = 0 /\ Len(Quote(w)) = Offset(w)[Len(w)] + 2
        /\ \A c \in 0..Len(w) : Offset(w)[c] \in Nat
        /\ Quote(w)[1] = Single /\ Quote(w)[Len(Quote(w))] = Single
    BY <1>2, OffsetsAre
  <2>1. CASE j = 0
    <3>1. char = Single /\ quote = Nil /\ token = <<>>
      BY <2>0, <2>1 DEF Within
    <3>2. /\ quote' = Single /\ token' = SubSeq(w, 1, 0)
          /\ started' = TRUE /\ tokens' = tokens
      BY <3>1, CharsDiffer, PrefixesGrow DEF Reads
    <3>3. InPiece(w, 1, 0, 0)'
      BY <1>0, <2>0, <3>2 DEF InPiece, After
    <3>4. Len(Quote(w)) # 1
      BY <1>0, <2>0
    <3>5. QED
      BY <1>2, <2>1, <3>2, <3>3, <3>4 DEF Within
  <2>2. CASE j # 0
    <3>0. j # Len(Quote(w))
      BY <1>0
    <3>1. PICK c \in Nat, d \in Nat : InPiece(w, j, c, d)
      BY <1>2, <2>2, <3>0 DEF Within
    <3>2. /\ c \in 0..Len(w) /\ d \in 0..4 /\ j = 1 + Offset(w)[c] + d
          /\ d > 0 => c < Len(w) /\ w[c + 1] = Single
          /\ token = SubSeq(w, 1, IF d < 3 THEN c ELSE c + 1)
          /\ quote = After(d) /\ Offset(w)[c] \in Nat
      BY <2>0, <3>1 DEF InPiece
    <3>3. CASE c = Len(w)
      <4>0. d = 0
        BY ONLY <1>0, <3>2, <3>3
      <4>1. d = 0 /\ j + 1 = Len(Quote(w))
        BY ONLY <2>0, <3>2, <3>3, <4>0
      <4>2. char = Single /\ quote = Single /\ token = w
        BY <2>0, <3>2, <3>3, <4>1, PrefixesGrow DEF After
      <4>3. quote' = Nil /\ token' = w /\ started' = TRUE /\ tokens' = tokens
        BY <4>2, CharsDiffer, NilIsNoQuote DEF Reads
      <4>4. QED
        BY <1>0, <1>2, <4>1, <4>3 DEF Within
    <3>4. CASE c # Len(w)
      <4>0. c \in 0..Len(w) - 1 /\ c + 1 \in 1..Len(w) /\ c + 1 \in 0..Len(w)
        BY <1>0, <3>2, <3>4
      <4> DEFINE p == Piece(w[c + 1])
      <4>1. /\ Offset(w)[c + 1] = Offset(w)[c] + Len(p)
            /\ \A e \in 1..Len(p) : Quote(w)[(1 + Offset(w)[c]) + e] = p[e]
        BY <1>2, <4>0, OffsetsAre
      <4>2. w[c + 1] \in Chars
        BY <4>0
      <4>3. /\ w[c + 1] # Single => Len(p) = 1 /\ p[1] = w[c + 1]
            /\ w[c + 1] = Single => /\ Len(p) = 5
                                    /\ p[1] = Single
                                    /\ p[2] = Double /\ p[3] = Single
                                    /\ p[4] = Double /\ p[5] = Single
        BY <4>2, PieceIs
      <4> HIDE DEF p
      <4>3b. PICK x, y : x = Offset(w)[c] /\ y = Offset(w)[c + 1]
        OBVIOUS
      <4>3c. /\ x \in Nat /\ y \in Nat /\ j = 1 + x + d
             /\ y = x + Len(p) /\ d \in 0..4
        BY <2>0, <3>2, <4>0, <4>1, <4>3b
      <4>3d. /\ w[c + 1] # Single => d = 0 /\ j + 1 = 1 + y + 0
             /\ w[c + 1] = Single /\ d = 4 => j + 1 = 1 + y + 0
             /\ d + 1 \in 1..Len(p) /\ j + 1 = (1 + x) + (d + 1)
             /\ j + 1 <= 1 + y
        <5>1. CASE w[c + 1] # Single
          <6>1. d = 0 /\ Len(p) = 1
            BY <3>2, <4>3, <4>3c, <5>1
          <6>2. QED
            BY <4>3c, <5>1, <6>1
        <5>2. CASE w[c + 1] = Single
          <6>1. Len(p) = 5
            BY <4>3, <5>2
          <6>2. QED
            BY <4>3c, <5>2, <6>1
        <5>3. QED
          BY <5>1, <5>2
      <4>4. d + 1 \in 1..Len(p) /\ j + 1 = (1 + Offset(w)[c]) + (d + 1)
        BY <4>3b, <4>3d
      <4>5. char = p[d + 1]
        BY <4>1, <4>4
      <4>6. Append(SubSeq(w, 1, c), w[c + 1]) = SubSeq(w, 1, c + 1)
        BY <4>0, PrefixesGrow
      <4>7. /\ tokens' = tokens /\ started' = TRUE
            /\ \E a, b \in Nat : InPiece(w, j + 1, a, b)'
        <5>1. CASE w[c + 1] # Single
          <6>1. /\ d = 0 /\ char = w[c + 1]
                /\ quote = Single /\ token = SubSeq(w, 1, c)
            BY <3>2, <4>3, <4>5, <5>1 DEF After
          <6>2. /\ token' = SubSeq(w, 1, c + 1) /\ quote' = Single
                /\ started' = TRUE /\ tokens' = tokens
            BY <4>6, <5>1, <6>1, CharsDiffer, NilIsNoQuote DEF Reads
          <6>3. j + 1 = 1 + Offset(w)[c + 1] + 0
            BY <4>3b, <4>3d, <5>1
          <6>4. InPiece(w, j + 1, c + 1, 0)'
            BY <4>0, <6>2, <6>3 DEF InPiece, After
          <6>5. QED
            BY <6>2, <6>4
        <5>2. CASE w[c + 1] = Single
          <6>0. /\ c < Len(w) /\ Quotes = {Single, Double}
                /\ Single # Double /\ Nil # Single /\ Nil # Double
            BY <4>0, CharsDiffer, NilIsNoQuote DEF Quotes
          <6>1. CASE d = 0
            <7>1. char = Single /\ quote = Single /\ token = SubSeq(w, 1, c)
              BY <3>2, <4>3, <4>5, <5>2, <6>1 DEF After
            <7>2. /\ token' = SubSeq(w, 1, c) /\ quote' = Nil
                  /\ started' = TRUE /\ tokens' = tokens
              BY <6>0, <7>1 DEF Reads
            <7>3. InPiece(w, j + 1, c, 1)'
              BY <3>2, <4>4, <5>2, <6>0, <6>1, <7>2 DEF InPiece, After
            <7>4. QED
              BY <7>2, <7>3
          <6>2. CASE d = 1
            <7>1. char = Double /\ quote = Nil /\ token = SubSeq(w, 1, c)
              BY <3>2, <4>3, <4>5, <5>2, <6>2 DEF After
            <7>2. /\ token' = SubSeq(w, 1, c) /\ quote' = Double
                  /\ started' = TRUE /\ tokens' = tokens
              BY <6>0, <7>1 DEF Reads
            <7>3. InPiece(w, j + 1, c, 2)'
              BY <3>2, <4>4, <5>2, <6>0, <6>2, <7>2 DEF InPiece, After
            <7>4. QED
              BY <7>2, <7>3
          <6>3. CASE d = 2
            <7>1. char = Single /\ quote = Double /\ token = SubSeq(w, 1, c)
              BY <3>2, <4>3, <4>5, <5>2, <6>3 DEF After
            <7>2. /\ token' = SubSeq(w, 1, c + 1) /\ quote' = Double
                  /\ started' = TRUE /\ tokens' = tokens
              BY <4>6, <5>2, <6>0, <7>1 DEF Reads
            <7>3. InPiece(w, j + 1, c, 3)'
              BY <3>2, <4>4, <5>2, <6>0, <6>3, <7>2 DEF InPiece, After
            <7>4. QED
              BY <7>2, <7>3
          <6>4. CASE d = 3
            <7>1. char = Double /\ quote = Double /\ token = SubSeq(w, 1, c + 1)
              BY <3>2, <4>3, <4>5, <5>2, <6>4 DEF After
            <7>2. /\ token' = SubSeq(w, 1, c + 1) /\ quote' = Nil
                  /\ started' = TRUE /\ tokens' = tokens
              BY <6>0, <7>1 DEF Reads
            <7>3. InPiece(w, j + 1, c, 4)'
              BY <3>2, <4>4, <5>2, <6>0, <6>4, <7>2 DEF InPiece, After
            <7>4. QED
              BY <7>2, <7>3
          <6>5. CASE d = 4
            <7>1. char = Single /\ quote = Nil /\ token = SubSeq(w, 1, c + 1)
              BY <3>2, <4>3, <4>5, <5>2, <6>5 DEF After
            <7>2. /\ token' = SubSeq(w, 1, c + 1) /\ quote' = Single
                  /\ started' = TRUE /\ tokens' = tokens
              BY <6>0, <7>1 DEF Reads
            <7>3. j + 1 = 1 + Offset(w)[c + 1] + 0
              BY <4>3b, <4>3d, <5>2, <6>5
            <7>4. InPiece(w, j + 1, c + 1, 0)'
              BY <4>0, <7>2, <7>3 DEF InPiece, After
            <7>5. QED
              BY <7>2, <7>4
          <6>6. d = 0 \/ d = 1 \/ d = 2 \/ d = 3 \/ d = 4
            BY <4>3c
          <6>7. QED
            BY <6>1, <6>2, <6>3, <6>4, <6>5, <6>6
        <5>3. QED
          BY <5>1, <5>2
      <4>8. j + 1 # Len(Quote(w))
        <5>1. PICK a \in Nat, b \in Nat : InPiece(w, j + 1, a, b)'
          BY <4>7
        <5>2. \A e \in 0..Len(w) : Offset(w)[e] <= Offset(w)[Len(w)]
          <6>1. /\ IsOffsets(Offset(w), Pieces(w), Body(w))
                /\ Len(Pieces(w)) = Len(w)
            BY BodyIs
          <6>2. \A e \in 1..Len(w) : Offset(w)[e] <= Offset(w)[Len(w)]
            BY <6>1 DEF IsOffsets
          <6>3. \A e \in 0..Len(w) : e = 0 \/ e \in 1..Len(w)
            BY <1>0
          <6>4. Offset(w)[0] <= Offset(w)[Len(w)]
            BY <1>0, <2>0
          <6>5. QED
            BY <6>2, <6>3, <6>4
        <5>3. y <= Offset(w)[Len(w)] /\ Offset(w)[Len(w)] \in Nat
          BY <1>0, <2>0, <4>0, <4>3b, <5>2
        <5>4. j + 1 <= 1 + Offset(w)[Len(w)]
          BY <4>3c, <4>3d, <5>3
        <5>5. QED
          BY <1>0, <2>0, <5>4
      <4>9. QED
        BY <1>0, <1>2, <4>7, <4>8 DEF Within
    <3>5. QED
      BY <3>3, <3>4
  <2>3. QED
    BY <2>1, <2>2
<1>3. QED
  BY <1>1, <1>2
-----------------------------------------------------------------------------
(* Commands: reading what a script wrote, and the theorems *)

\* The tokenizer is in word k of ws, after j characters of its quotation.
InWord(s, ws, k, j) ==
    /\ k \in 1..Len(ws) /\ j \in 0..Len(Quote(ws[k]))
    /\ at = s[k] + j
    /\ tokens = SubSeq(ws, 1, k - 1)
    /\ Within(ws[k], j)

\* As long as a source with words is read, what is read are its words so far.
WordsSoFar ==
    LET ws == input.words
    IN /\ escaped = FALSE
       /\ \E s : /\ IsLayout(s, ws, source)
                 /\ \/ Len(ws) = 0 /\ at = 0 /\ tokens = <<>>
                       /\ token = <<>> /\ quote = Nil /\ started = FALSE
                    \/ \E k, j \in Nat : InWord(s, ws, k, j)

ArgumentsInv ==
    input.words # Nil /\ Backslash \notin Characters =>
        IF outcome = "reading" THEN WordsSoFar ELSE tokens = input.words

ArgumentsIInv == ReaderIInv /\ ArgumentsInv

\* The input has words that can arrive, and is read.
ReadsWords ==
    /\ input \in Inputs /\ started \in BOOLEAN
    /\ input.words \in Seq(Seq(Chars))
    /\ Backslash \notin Characters
    /\ outcome = "reading"
    /\ WordsSoFar

\* An input with words is what shlex.join writes of them.
LEMMA WordsTyped ==
    ASSUME input \in Inputs, input.words # Nil
    PROVE  input.words \in Seq(Seq(Chars)) /\ source = Join(input.words)
  BY InputsAreWritten DEF source

\* A quotation has a length.
LEMMA QuoteLength ==
    ASSUME NEW w \in Seq(Chars)
    PROVE  Len(Quote(w)) \in Nat
<1>1. Quote(w) \in Seq(Written)
  BY QuoteIs
<1>2. QED
  BY <1>1

\* The empty word is written as two quotes.
LEMMA BareIsNotEmpty == \A w : IsBare(w) => w # <<>>
  BY DEF IsBare

\* A character of what a script wrote goes on in a word, or is the blank
\* between two.
LEMMA WordStep ==
    ASSUME ReadsWords, at < Len(source),
           Escaped \/ Escape \/ Quoted \/ OpenQuote \/ Separate \/ Letter
    PROVE  WordsSoFar' /\ outcome' = "reading" /\ input' = input
<1>a. PICK ws : ws = input.words
  OBVIOUS
<1>0. /\ ws \in Seq(Seq(Chars)) /\ escaped = FALSE
      /\ source \in Seq(Chars) /\ Len(source) \in Nat
      /\ Len(ws) \in Nat /\ \A k \in 1..Len(ws) : ws[k] \in Seq(Chars)
  BY <1>a, SourceIs DEF ReadsWords, WordsSoFar
<1>1. PICK s : /\ IsLayout(s, ws, source)
               /\ \/ Len(ws) = 0 /\ at = 0 /\ tokens = <<>>
                       /\ token = <<>> /\ quote = Nil /\ started = FALSE
                  \/ \E k, j \in Nat : InWord(s, ws, k, j)
  BY <1>a DEF ReadsWords, WordsSoFar
<1>2. Len(ws) # 0
  <2>1. Len(ws) = 0 => Len(source) = 0
    BY <1>1 DEF IsLayout
  <2>2. Len(ws) = 0 => at = 0
    BY <1>1 DEF InWord
  <2>3. QED
    BY <2>1, <2>2
<1>3. PICK k \in Nat, j \in Nat : InWord(s, ws, k, j)
  BY <1>1, <1>2
<1>4. /\ k \in 1..Len(ws) /\ j \in 0..Len(Quote(ws[k])) /\ at = s[k] + j
      /\ tokens = SubSeq(ws, 1, k - 1) /\ Within(ws[k], j)
      /\ ws[k] \in Seq(Chars) /\ Len(Quote(ws[k])) \in Nat
      /\ s[k] \in Nat /\ at \in Nat
  <2>1. k \in 1..Len(ws) /\ j \in 0..Len(Quote(ws[k])) /\ at = s[k] + j
    BY <1>3 DEF InWord
  <2>2. s[k] \in Nat /\ ws[k] \in Seq(Chars)
    BY <1>0, <1>1, <2>1 DEF IsLayout
  <2>3. QED
    BY <1>3, <2>1, <2>2, QuoteLength DEF InWord
<1>5. at + 1 \in 1..Len(source) /\ char = source[at + 1]
  <2>1. at \in Nat /\ Len(source) \in Nat
    BY <1>0, <1>4
  <2>2. at + 1 \in 1..Len(source)
    BY ONLY <2>1, at < Len(source)
  <2>3. char = source[at + 1]
    BY DEF char, source
  <2>4. QED
    BY <2>2, <2>3
<1>6. char # Backslash
  <2>1. at + 1 \in Positions
    BY <1>0, <1>5, SourceIs DEF ReadsWords
  <2>2. source[at + 1] \in Characters
    BY <2>1 DEF Characters
  <2>3. QED
    BY <1>5, <2>2 DEF ReadsWords
<1>7. Reads
  BY <1>0, <1>6, PlainReads DEF ReadsWords
<1>8. at' = at + 1 /\ input' = input /\ outcome' = "reading" /\ escaped' = FALSE
  BY <1>7 DEF Reads
<1>9. \E kk, jj \in Nat : InWord(s, ws, kk, jj)'
  <2>1. CASE j # Len(Quote(ws[k]))
    <3>1. /\ j \in 0..Len(Quote(ws[k])) - 1
          /\ j + 1 \in 1..Len(Quote(ws[k])) /\ j + 1 \in 0..Len(Quote(ws[k]))
      BY <1>4, <2>1
    <3>2. source[s[k] + (j + 1)] = Quote(ws[k])[j + 1]
      BY <1>1, <1>4, <3>1 DEF IsLayout, IsPart
    <3>3. s[k] + (j + 1) = at + 1
      BY <1>4
    <3>4. char = Quote(ws[k])[j + 1]
      BY ONLY <1>5, <3>2, <3>3
    <3>5. Within(ws[k], j + 1)' /\ tokens' = tokens
      BY <1>4, <1>7, <3>1, <3>4, WithinGoesOn
    <3>6. InWord(s, ws, k, j + 1)'
      BY <1>4, <1>8, <3>1, <3>3, <3>5 DEF InWord
    <3>7. QED
      BY <3>6
  <2>2. CASE j = Len(Quote(ws[k]))
    <3>1. k # Len(ws)
      <4>1. k = Len(ws) => s[k] + Len(Quote(ws[k])) = Len(source)
        BY <1>0, <1>1, <1>2 DEF IsLayout
      <4>2. QED
        BY <1>4, <2>2, <4>1
    <3>2. /\ k \in 1..Len(ws) - 1 /\ k + 1 \in 1..Len(ws)
          /\ k - 1 \in 0..Len(ws) - 1 /\ (k + 1) - 1 = k
      BY <1>0, <1>4, <3>1
    <3>3. /\ source[s[k] + Len(Quote(ws[k])) + 1] = Space
          /\ s[k + 1] = s[k] + Len(Quote(ws[k])) + 1
      BY <1>1, <3>2 DEF IsLayout
    <3>4. char = Space /\ at + 1 = s[k + 1]
      BY <1>4, <1>5, <2>2, <3>3
    <3>5. quote = Nil /\ token = ws[k] /\ started = TRUE
      <4>1. CASE IsBare(ws[k])
        <5>1. Quote(ws[k]) = ws[k] /\ ws[k] # <<>>
          BY <1>4, <4>1, QuoteIs, BareIsNotEmpty
        <5>2. j # 0 /\ j = Len(ws[k])
          BY <1>4, <2>2, <5>1
        <5>3. SubSeq(ws[k], 1, Len(ws[k])) = ws[k]
          BY <1>4, PrefixesGrow
        <5>4. QED
          BY <1>4, <4>1, <5>2, <5>3 DEF Within
      <4>2. CASE ~IsBare(ws[k])
        <5>1. j # 0
          <6>1. /\ Len(Quote(ws[k])) = Offset(ws[k])[Len(ws[k])] + 2
                /\ Offset(ws[k])[Len(ws[k])] \in Nat
            <7>1. Len(ws[k]) \in 0..Len(ws[k])
              BY <1>4
            <7>2. QED
              BY <1>4, <4>2, <7>1, OffsetsAre
          <6>2. QED
            BY <2>2, <6>1
        <5>2. QED
          BY <1>4, <2>2, <4>2, <5>1 DEF Within
      <4>3. QED
        BY <4>1, <4>2
    <3>6. /\ tokens' = Append(tokens, ws[k]) /\ token' = <<>>
          /\ quote' = Nil /\ started' = FALSE
      BY <1>7, <3>4, <3>5 DEF Reads
    <3>7. tokens' = SubSeq(ws, 1, (k + 1) - 1)
      <4>1. Append(SubSeq(ws, 1, k - 1), ws[(k - 1) + 1]) = SubSeq(ws, 1, (k - 1) + 1)
        BY <1>0, <3>2, PrefixesGrow
      <4>2. (k - 1) + 1 = k /\ (k + 1) - 1 = k
        BY <1>4
      <4>3. QED
        BY <1>4, <3>6, <4>1, <4>2
    <3>8. Within(ws[k + 1], 0)'
      BY <3>6 DEF Within
    <3>9. at' = s[k + 1] + 0 /\ 0 \in 0..Len(Quote(ws[k + 1]))
      <4>1. ws[k + 1] \in Seq(Chars)
        BY <1>0, <3>2
      <4>2. Len(Quote(ws[k + 1])) \in Nat
        BY <4>1, QuoteLength
      <4>3. s[k + 1] \in Nat /\ at' = s[k + 1]
        <5>1. at \in Nat
          BY <1>4
        <5>2. QED
          BY ONLY <1>8, <3>4, <5>1
      <4>4. QED
        BY ONLY <4>2, <4>3
    <3>10. InWord(s, ws, k + 1, 0)'
      BY <3>2, <3>7, <3>8, <3>9 DEF InWord
    <3>11. k + 1 \in Nat
      BY <1>4
    <3>12. QED
      BY <3>10, <3>11
  <2>3. QED
    BY <2>1, <2>2
<1>10. input.words' = ws /\ source' = source
  BY <1>a, <1>8 DEF source
<1>11. WordsSoFar'
  <2>1. IsLayout(s, input.words, source)'
    BY <1>1, <1>10 DEF IsLayout
  <2>2. PICK kk \in Nat, jj \in Nat : InWord(s, ws, kk, jj)'
    BY <1>9
  <2>3. InWord(s, input.words, kk, jj)'
    BY <1>10, <2>2 DEF InWord, Within, InPiece
  <2>4. QED
    BY <1>8, <2>1, <2>3 DEF WordsSoFar
<1>12. QED
  BY <1>8, <1>11

\* At the end of what a script wrote, the tokens are its words.
LEMMA WordsEnd ==
    ASSUME ReadsWords, EndOfSource
    PROVE  tokens' = input.words
<1> DEFINE ws == input.words
<1>0. /\ ws \in Seq(Seq(Chars)) /\ escaped = FALSE
      /\ Len(source) \in Nat /\ at = Len(source)
      /\ Len(ws) \in Nat /\ \A k \in 1..Len(ws) : ws[k] \in Seq(Chars)
  BY SourceIs DEF ReadsWords, WordsSoFar, EndOfSource, source
<1>1. PICK s : /\ IsLayout(s, ws, source)
               /\ \/ Len(ws) = 0 /\ at = 0 /\ tokens = <<>>
                       /\ token = <<>> /\ quote = Nil /\ started = FALSE
                  \/ \E k, j \in Nat : InWord(s, ws, k, j)
  BY DEF ReadsWords, WordsSoFar
<1> HIDE DEF ws
<1>2. CASE Len(ws) = 0
  <2>1. tokens = <<>> /\ quote = Nil /\ started = FALSE
    BY <1>1, <1>2 DEF InWord
  <2>2. ws = <<>>
    BY <1>0, <1>2
  <2>3. QED
    BY <1>0, <2>1, <2>2 DEF EndOfSource, ws
<1>3. CASE Len(ws) # 0
  <2>1. PICK k \in Nat, j \in Nat : InWord(s, ws, k, j)
    BY <1>1, <1>3
  <2>2. /\ k \in 1..Len(ws) /\ j \in 0..Len(Quote(ws[k])) /\ at = s[k] + j
        /\ tokens = SubSeq(ws, 1, k - 1) /\ Within(ws[k], j)
        /\ ws[k] \in Seq(Chars) /\ Len(Quote(ws[k])) \in Nat /\ s[k] \in Nat
    <3>1. k \in 1..Len(ws) /\ j \in 0..Len(Quote(ws[k])) /\ at = s[k] + j
      BY <2>1 DEF InWord
    <3>2. s[k] \in Nat /\ ws[k] \in Seq(Chars)
      BY <1>0, <1>1, <3>1 DEF IsLayout
    <3>3. QED
      BY <2>1, <3>1, <3>2, QuoteLength DEF InWord
  <2>3. k = Len(ws)
    <3>1. SUFFICES ASSUME k # Len(ws) PROVE FALSE
      OBVIOUS
    <3>2. k \in 1..Len(ws) - 1 /\ k + 1 \in 1..Len(ws)
      BY <1>0, <2>2, <3>1
    <3>3. /\ s[k + 1] = s[k] + Len(Quote(ws[k])) + 1
          /\ IsPart(Quote(ws[k + 1]), source, s[k + 1])
      BY <1>1, <3>2 DEF IsLayout
    <3>4. /\ s[k + 1] + Len(Quote(ws[k + 1])) <= Len(source)
          /\ Len(Quote(ws[k + 1])) \in Nat
      <4>1. ws[k + 1] \in Seq(Chars)
        BY <1>0, <3>2
      <4>2. QED
        BY <3>3, <4>1, QuoteLength DEF IsPart
    <3>5. QED
      BY <1>0, <2>2, <3>3, <3>4
  <2>4. j = Len(Quote(ws[k]))
    <3>1. s[k] + Len(Quote(ws[k])) = Len(source)
      BY <1>0, <1>1, <1>3, <2>3 DEF IsLayout
    <3>2. QED
      BY <1>0, <2>2, <3>1
  <2>5. quote = Nil /\ token = ws[k] /\ started = TRUE
    <3>1. CASE IsBare(ws[k])
      <4>1. Quote(ws[k]) = ws[k] /\ ws[k] # <<>>
        BY <2>2, <3>1, QuoteIs, BareIsNotEmpty
      <4>2. j # 0 /\ j = Len(ws[k])
        BY <2>2, <2>4, <4>1
      <4>3. SubSeq(ws[k], 1, Len(ws[k])) = ws[k]
        BY <2>2, PrefixesGrow
      <4>4. QED
        BY <2>2, <3>1, <4>2, <4>3 DEF Within
    <3>2. CASE ~IsBare(ws[k])
      <4>1. /\ Len(Quote(ws[k])) = Offset(ws[k])[Len(ws[k])] + 2
            /\ Offset(ws[k])[Len(ws[k])] \in Nat
        <5>1. Len(ws[k]) \in 0..Len(ws[k])
          BY <2>2
        <5>2. QED
          BY <2>2, <3>2, <5>1, OffsetsAre
      <4>2. j # 0
        BY <2>4, <4>1
      <4>3. QED
        BY <2>2, <2>4, <3>2, <4>2 DEF Within
    <3>3. QED
      BY <3>1, <3>2
  <2>6. tokens' = Append(SubSeq(ws, 1, k - 1), ws[k])
    BY <1>0, <2>2, <2>5 DEF EndOfSource
  <2>7. Append(SubSeq(ws, 1, k - 1), ws[(k - 1) + 1]) = SubSeq(ws, 1, (k - 1) + 1)
    <3>1. k - 1 \in 0..Len(ws) - 1
      BY <1>0, <2>2
    <3>2. QED
      BY <1>0, <3>1, PrefixesGrow
  <2>8. (k - 1) + 1 = Len(ws) /\ (k - 1) + 1 = k
    BY <1>0, <2>3
  <2>9. SubSeq(ws, 1, Len(ws)) = ws
    BY <1>0, PrefixesGrow
  <2>10. QED
    BY <2>6, <2>7, <2>8, <2>9 DEF ws
<1>4. QED
  BY <1>2, <1>3

\* The invariant holds before anything is read.
LEMMA ArgumentsInitHolds == CommandInit => ArgumentsIInv
<1> SUFFICES ASSUME CommandInit PROVE ArgumentsIInv
  OBVIOUS
<1>1. ReaderIInv
  BY ReaderInitHolds
<1>2. /\ input \in Inputs /\ at = 0 /\ tokens = <<>>
      /\ token = <<>> /\ quote = Nil /\ escaped = FALSE
      /\ started = FALSE /\ outcome = "reading"
  BY DEF CommandInit, Unread
<1>3. ASSUME input.words # Nil
      PROVE  WordsSoFar
  <2> DEFINE ws == input.words
  <2>1. ws \in Seq(Seq(Chars)) /\ source = Join(ws)
    BY <1>2, <1>3, WordsTyped
  <2>2. PICK s : IsLayout(s, ws, source)
    BY <2>1, JoinedAre
  <2>3. CASE Len(ws) = 0
    BY <1>2, <2>2, <2>3 DEF WordsSoFar
  <2>4. CASE Len(ws) # 0
    <3>1. Len(ws) \in Nat /\ 1 \in 1..Len(ws)
      BY <2>1, <2>4
    <3>2. ws[1] \in Seq(Chars)
      BY <2>1, <3>1
    <3>3. Len(Quote(ws[1])) \in Nat
      BY <3>2, QuoteLength
    <3>4. s[1] = 0
      BY <2>2, <3>1, <2>4 DEF IsLayout
    <3>5. SubSeq(ws, 1, 1 - 1) = <<>>
      BY <2>1, PrefixesGrow
    <3>6. Within(ws[1], 0)
      BY <1>2 DEF Within
    <3>7. InWord(s, ws, 1, 0)
      BY <1>2, <3>1, <3>3, <3>4, <3>5, <3>6 DEF InWord
    <3>8. QED
      BY <1>2, <2>2, <3>7 DEF WordsSoFar
  <2>5. QED
    BY <2>3, <2>4
<1>4. QED
  BY <1>1, <1>2, <1>3 DEF ArgumentsIInv, ArgumentsInv

\* The words so far stay when nothing changes.
LEMMA ArgumentsStutter ==
    ASSUME ArgumentsInv, UNCHANGED commandVars
    PROVE  ArgumentsInv'
<1>1. /\ input' = input /\ at' = at /\ tokens' = tokens /\ token' = token
      /\ quote' = quote /\ escaped' = escaped
      /\ started' = started /\ outcome' = outcome
      /\ source' = source /\ Characters' = Characters
  BY DEF commandVars, reader, source, Characters, Positions
<1>2. \A w, j : Within(w, j)' = Within(w, j)
  BY <1>1 DEF Within, InPiece
<1>3. \A s, ws, k, j : InWord(s, ws, k, j)' = InWord(s, ws, k, j)
  BY <1>1, <1>2 DEF InWord
<1>4. WordsSoFar => WordsSoFar'
  <2> SUFFICES ASSUME WordsSoFar PROVE WordsSoFar'
    OBVIOUS
  <2> DEFINE ws == input.words
  <2>1. PICK s : /\ IsLayout(s, ws, source)
                 /\ \/ Len(ws) = 0 /\ at = 0 /\ tokens = <<>>
                       /\ token = <<>> /\ quote = Nil /\ started = FALSE
                    \/ \E k, j \in Nat : InWord(s, ws, k, j)
    BY DEF WordsSoFar
  <2>2. IsLayout(s, ws, source)'
    BY <1>1, <2>1 DEF IsLayout
  <2>3. ASSUME NEW k \in Nat, NEW j \in Nat, InWord(s, ws, k, j)
        PROVE  InWord(s, ws, k, j)'
    BY <1>1, <1>2, <2>3 DEF InWord
  <2>4. QED
    BY <1>1, <2>1, <2>2, <2>3 DEF WordsSoFar
<1>5. QED
  BY <1>1, <1>4 DEF ArgumentsInv

\* Each step keeps the invariant.
LEMMA ArgumentsStep == ArgumentsIInv /\ [CommandNext]_commandVars => ArgumentsIInv'
<1> SUFFICES ASSUME ArgumentsIInv, [CommandNext]_commandVars PROVE ArgumentsIInv'
  OBVIOUS
<1>1. ReaderIInv'
  BY ReaderStep DEF ArgumentsIInv
<1>2. ArgumentsInv'
  <2>1. CASE UNCHANGED commandVars
    BY <2>1, ArgumentsStutter DEF ArgumentsIInv
  <2>2. CASE CommandNext
    <3>0. input' = input
      BY <2>2 DEF CommandNext, Escaped, Escape, Quoted, OpenQuote, Separate,
           Letter, Plain,
                  Advance, EndOfSource, Run
    <3>1. Characters' = Characters /\ source' = source
      BY <3>0 DEF Characters, Positions, source
    <3>2. SUFFICES ASSUME input.words # Nil, Backslash \notin Characters
                   PROVE  IF outcome' = "reading" THEN WordsSoFar' ELSE tokens' = input.words
      BY <3>0, <3>1 DEF ArgumentsInv
    <3>3. outcome = "reading" => ReadsWords
      BY <3>2, WordsTyped DEF ArgumentsIInv, ArgumentsInv, ReaderIInv,
           ReaderTyped, ReadsWords
    <3>4. CASE Escaped \/ Escape \/ Quoted \/ OpenQuote \/ Separate \/ Letter
      <4>1. outcome = "reading" /\ at < Len(source)
        BY <3>4 DEF Escaped, Escape, Quoted, OpenQuote, Separate, Letter,
             Plain, More, source
      <4>2. QED
        BY <3>3, <3>4, <4>1, WordStep
    <3>5. CASE EndOfSource
      BY <3>3, <3>5, WordsEnd DEF EndOfSource
    <3>6. CASE Run
      BY <3>2, <3>6 DEF Run, reader, ArgumentsIInv, ArgumentsInv
    <3>7. QED
      BY <2>2, <3>4, <3>5, <3>6 DEF CommandNext
  <2>3. QED
    BY <2>1, <2>2
<1>3. QED
  BY <1>1, <1>2 DEF ArgumentsIInv

\* The invariant implies the properties of commands.
LEMMA ArgumentsIInvReads == ArgumentsIInv => CommandIsRead /\ ReadOnly
<1> SUFFICES ASSUME ArgumentsIInv PROVE CommandIsRead /\ ReadOnly
  OBVIOUS
<1>1. TokensAreWords /\ ReadOnly
  BY ReaderReads DEF ArgumentsIInv
<1>2. ArgumentsArrive
  BY DEF ArgumentsIInv, ArgumentsInv, ArgumentsArrive
<1>3. QED
  BY <1>1, <1>2 DEF CommandIsRead

\* For any source: the tokens of tokenizeRedis are the words of the source,
\* less the quotes and backslashes that are syntax, and the arguments that a
\* Python script passes to execute arrive as they are if they hold no
\* backslash.
THEOREM CommandsAreRead == CommandSpec => []CommandIsRead
<1>1. QED
  BY ArgumentsInitHolds, ArgumentsStep, ArgumentsIInvReads, PTL DEF CommandSpec

\* For any source: without writes allowed, runRedisWithClient runs nothing
\* whose first word, however it is quoted or escaped, is not on the allow-
\* list of validateRedis.
THEOREM ReadOnlyIsKept == CommandSpec => []ReadOnly
<1>1. QED
  BY ArgumentsInitHolds, ArgumentsStep, ArgumentsIInvReads, PTL DEF CommandSpec
=============================================================================
