-------------------------- MODULE RedisBrowse_proofs --------------------------
(***************************************************************************)
(* Proofs about BROWSE for any keyspace, number of nodes and buckets,      *)
(* limit and sequence of changes by other clients: a key is listed once,   *)
(* and one that stays is not missed.                                       *)
(***************************************************************************)
EXTENDS RedisBrowse, FiniteSetTheorems, SequenceTheorems, TLAPS

USE DEF dbVars, scanVars, replyVars, vars

-----------------------------------------------------------------------------
(* The inductive invariant *)

SteadyStay == \A k \in steady : Exists(k)

\* What the cursors have passed is in the list.
Passed(k) == cursor[home[k]] = -1 \/ Bucket[k] < cursor[home[k]]
PassedIsFound ==
    ~limited => \A k \in steady : Passed(k) => k \in Range(scanned)

\* The scan ends with every node, or at the limit.
ScanIsWhole ==
    pc \in {"inspect", "done"} /\ ~limited => \A n \in Nodes : cursor[n] = -1

\* The answer waits for the replies of every displayed key, and none of them
\* says that a steady key has vanished.
RepliesComplete ==
    /\ pc \in {"start", "scan"} => types = <<>> /\ ttls = <<>>
    /\ DOMAIN types \subseteq Displayed
    /\ pc = "done" => DOMAIN ttls = Displayed
    /\ \A i \in DOMAIN ttls : scanned[i] \in steady => Kept(i)

BrowseIInv ==
    /\ TypeOK /\ ListedOnce
    /\ SteadyStay /\ PassedIsFound /\ ScanIsWhole /\ RepliesComplete

-----------------------------------------------------------------------------
(* Lists without repetitions *)

\* A sequence of SetToSeqs(S) has each element of S once, and nothing else.
LEMMA SeqOfSet ==
  ASSUME NEW S, IsFiniteSet(S), NEW f \in SetToSeqs(S)
  PROVE  f \in Seq(S) /\ IsInjective(f) /\ Range(f) = S
<1> DEFINE n == Cardinality(S)
<1>1. n \in Nat /\ Cardinality(1..n) = n
  BY FS_CardinalityType, FS_Interval
<1>2. f \in [1..n -> S] /\ IsInjective(f)
  BY DEF SetToSeqs, IsInjective
<1>3. f \in Injection(1..n, S)
  BY <1>2 DEF Injection
<1>4. f \in Surjection(1..n, S)
  <2> HIDE DEF n
  <2>1. Cardinality(1..n) = Cardinality(S)
    BY <1>1 DEF n
  <2>2. QED
    BY <2>1, <1>3, FS_Injection
<1>5. Range(f) = S
  BY <1>2, <1>4 DEF Surjection, Range
<1>6. QED
  BY <1>1, <1>2, <1>5

\* Two lists without repetitions and without a common key make one.
LEMMA ConcatKeeps ==
  ASSUME NEW s \in Seq(Keys), NEW t \in Seq(Keys),
         IsInjective(s), IsInjective(t), Range(s) \cap Range(t) = {}
  PROVE  /\ s \o t \in Seq(Keys) /\ IsInjective(s \o t)
         /\ Range(s \o t) = Range(s) \cup Range(t)
         /\ Len(s \o t) = Len(s) + Len(t)
<1> DEFINE u == s \o t
<1>1. /\ u \in Seq(Keys) /\ Len(u) = Len(s) + Len(t)
      /\ \A i \in 1..Len(u) : u[i] = IF i <= Len(s) THEN s[i] ELSE t[i - Len(s)]
  BY ConcatProperties
<1>2. DOMAIN s = 1..Len(s) /\ DOMAIN t = 1..Len(t) /\ DOMAIN u = 1..Len(u)
  BY <1>1
<1>3. Len(s) \in Nat /\ Len(t) \in Nat
  OBVIOUS
<1> HIDE DEF u
<1>4. IsInjective(u)
  <2> SUFFICES ASSUME NEW i \in 1..Len(u), NEW j \in 1..Len(u), u[i] = u[j]
               PROVE  i = j
    BY <1>2 DEF IsInjective
  <2>1. CASE i <= Len(s) /\ j <= Len(s)
    BY <2>1, <1>1, <1>2, <1>3 DEF IsInjective
  <2>2. CASE i > Len(s) /\ j > Len(s)
    <3>1. i - Len(s) \in DOMAIN t /\ j - Len(s) \in DOMAIN t
      BY <2>2, <1>1, <1>2, <1>3
    <3>2. t[i - Len(s)] = t[j - Len(s)]
      BY <2>2, <1>1, <1>3
    <3>3. i - Len(s) = j - Len(s)
      BY ONLY <3>1, <3>2, IsInjective(t) DEF IsInjective
    <3>4. QED
      BY <3>3, <1>3
  <2>3. CASE i <= Len(s) /\ j > Len(s)
    <3>1. u[i] \in Range(s)
      <4>1. i \in DOMAIN s /\ u[i] = s[i]
        BY <2>3, <1>1, <1>2, <1>3
      <4>2. QED
        BY <4>1 DEF Range
    <3>2. u[j] \in Range(t)
      <4>1. j - Len(s) \in DOMAIN t /\ u[j] = t[j - Len(s)]
        BY <2>3, <1>1, <1>2, <1>3
      <4>2. QED
        BY <4>1 DEF Range
    <3>3. QED
      BY <3>1, <3>2
  <2>4. CASE i > Len(s) /\ j <= Len(s)
    <3>1. u[j] \in Range(s)
      <4>1. j \in DOMAIN s /\ u[j] = s[j]
        BY <2>4, <1>1, <1>2, <1>3
      <4>2. QED
        BY <4>1 DEF Range
    <3>2. u[i] \in Range(t)
      <4>1. i - Len(s) \in DOMAIN t /\ u[i] = t[i - Len(s)]
        BY <2>4, <1>1, <1>2, <1>3
      <4>2. QED
        BY <4>1 DEF Range
    <3>3. QED
      BY <3>1, <3>2
  <2>5. QED
    BY <2>1, <2>2, <2>3, <2>4, <1>1, <1>3
<1>5. Range(u) \subseteq Range(s) \cup Range(t)
  <2> SUFFICES ASSUME NEW i \in 1..Len(u)
               PROVE  u[i] \in Range(s) \cup Range(t)
    BY <1>2 DEF Range
  <2>1. CASE i <= Len(s)
    <3>1. i \in DOMAIN s /\ u[i] = s[i]
      BY <2>1, <1>1, <1>2, <1>3
    <3>2. QED
      BY <3>1 DEF Range
  <2>2. CASE i > Len(s)
    <3>1. i - Len(s) \in DOMAIN t /\ u[i] = t[i - Len(s)]
      BY <2>2, <1>1, <1>2, <1>3
    <3>2. QED
      BY <3>1 DEF Range
  <2>3. QED
    BY <2>1, <2>2, <1>1, <1>3
<1>6. Range(s) \subseteq Range(u)
  <2> SUFFICES ASSUME NEW i \in 1..Len(s)
               PROVE  s[i] \in Range(u)
    BY <1>2 DEF Range
  <2>1. i \in DOMAIN u /\ u[i] = s[i]
    BY <1>1, <1>2, <1>3
  <2>2. QED
    BY <2>1 DEF Range
<1>7. Range(t) \subseteq Range(u)
  <2> SUFFICES ASSUME NEW i \in 1..Len(t)
               PROVE  t[i] \in Range(u)
    BY <1>2 DEF Range
  <2>1. i + Len(s) \in DOMAIN u /\ u[i + Len(s)] = t[i]
    BY <1>1, <1>2, <1>3
  <2>2. QED
    BY <2>1 DEF Range
<1>8. QED
  BY <1>1, <1>4, <1>5, <1>6, <1>7 DEF u

\* Cut keeps a list free of repetitions and within Limit.
LEMMA CutKeeps ==
  ASSUME NEW s \in Seq(Keys), IsInjective(s)
  PROVE  /\ Cut(s) \in Seq(Keys) /\ IsInjective(Cut(s)) /\ Len(Cut(s)) <= Limit
         /\ Len(Cut(s)) = Limit <=> Len(s) >= Limit
         /\ Len(s) < Limit => Cut(s) = s
<1>1. Limit \in Nat \ {0} /\ Len(s) \in Nat
  BY BrowseConstants
<1>2. CASE Len(s) >= Limit
  <2> DEFINE c == SubSeq(s, 1, Limit)
  <2>1. c \in Seq(Keys) /\ Len(c) = Limit /\ \A i \in 1..Limit : c[i] = s[i]
    BY <1>1, <1>2, SubSeqProperties
  <2>2. IsInjective(c)
    <3> HIDE DEF c
    <3>1. DOMAIN c = 1..Limit /\ 1..Limit \subseteq DOMAIN s
      BY <1>1, <1>2, <2>1
    <3>2. QED
      BY <2>1, <3>1 DEF IsInjective
  <2>3. QED
    BY <1>1, <1>2, <2>1, <2>2 DEF Cut
<1>3. CASE Len(s) < Limit
  BY <1>1, <1>3 DEF Cut
<1>4. QED
  BY <1>1, <1>2, <1>3

-----------------------------------------------------------------------------
(* Initial states and steps *)

USE DEF SteadyStay, PassedIsFound, ScanIsWhole, RepliesComplete

\* A browse begins with an empty list, every cursor at 0.
LEMMA BrowseInit == Init => BrowseIInv
<1> SUFFICES ASSUME Init
             PROVE  BrowseIInv
  OBVIOUS
<1>1. DOMAIN scanned = {} /\ Displayed = {} /\ DOMAIN types = {} /\ DOMAIN ttls = {}
  BY DEF Init, Displayed
<1>2. TypeOK
  <2>1. cursor \in [Nodes -> -1..(Buckets - 1)]
    BY BrowseConstants DEF Init
  <2>2. changes \in 0..MaxChanges /\ scanned \in Seq(Keys)
    BY BrowseConstants DEF Init
  <2>3. QED
    BY <1>1, <2>1, <2>2 DEF Init, TypeOK
<1>3. ListedOnce
  BY <1>1, BrowseConstants DEF Init, ListedOnce, IsInjective
<1>4. SteadyStay
  BY DEF Init
<1>5. PassedIsFound
  <2>1. \A k \in steady : cursor[home[k]] = 0 /\ Bucket[k] \in Nat
    BY BrowseConstants DEF Init
  <2>2. QED
    BY <2>1 DEF Passed
<1>6. QED
  BY <1>1, <1>2, <1>3, <1>4, <1>5 DEF BrowseIInv, Init

\* Steps that leave the list as it is.
\* Where the list stays, so do its groups and what is displayed.
LEMMA SameList ==
  ASSUME scanned' = scanned
  PROVE  Displayed' = Displayed /\ (ListedOnce /\ limited' = limited => ListedOnce')
  BY DEF Displayed, Group, ListedOnce

\* Other clients write, delete and move keys: a steady key stays, and where
\* it was found it stays listed.
LEMMA OthersStep ==
  ASSUME BrowseIInv, Others
  PROVE  BrowseIInv'
<1> USE DEF BrowseIInv
<1>1. PICK k \in Keys : \/ \E value \in Values : Write(k, value)
                        \/ Delete(k)
                        \/ \E n \in Nodes : Reshard(k, n)
  BY DEF Others
<1>2. PICK value \in Values \cup {Gone}, n \in Nodes :
          /\ Change(k, value, n)
          /\ \/ value \in Values /\ n = home[k] /\ steady' = steady
             \/ steady' = steady \ {k}
  <2>1. home[k] \in Nodes /\ db[k] \in Values \cup {Gone}
    BY DEF TypeOK
  <2>2. QED
    BY <1>1, <2>1 DEF Write, Delete, Reshard
<1>3. /\ UNCHANGED <<pc, nodes, at, cursor, scanned, limited, types, ttls, missing>>
      /\ db' = [db EXCEPT ![k] = value] /\ home' = [home EXCEPT ![k] = n]
      /\ changes' = changes + 1 /\ changes < MaxChanges
  BY <1>2 DEF Change
<1>4. Displayed' = Displayed /\ ListedOnce'
  BY <1>3, SameList
<1>5. TypeOK'
  BY <1>2, <1>3, <1>4, BrowseConstants DEF TypeOK
<1>6. \A j \in steady' : /\ j \in steady /\ home'[j] = home[j]
                         /\ db'[j] = db[j] \/ db'[j] \in Values
  BY <1>2, <1>3 DEF TypeOK
<1>7. SteadyStay'
  BY <1>6, NoValueIsGone DEF Exists
<1>8. PassedIsFound'
  BY <1>3, <1>6 DEF Passed
<1>9. ScanIsWhole' /\ RepliesComplete'
  BY <1>3, <1>4, <1>6 DEF Kept
<1>10. QED
  BY <1>4, <1>5, <1>7, <1>8, <1>9

\* The nodes are put in an order.
LEMMA ListStep ==
  ASSUME BrowseIInv, NEW order \in SetToSeqs(Nodes), ListNodes(order)
  PROVE  BrowseIInv'
<1> USE DEF BrowseIInv
<1>1. /\ UNCHANGED <<db, home, changes, steady, at, cursor, scanned, limited,
                     types, ttls, missing>>
      /\ pc = "start" /\ pc' = "scan"
  BY DEF ListNodes
<1>2. Displayed' = Displayed /\ ListedOnce'
  BY <1>1, SameList
<1>3. QED
  BY <1>1, <1>2 DEF TypeOK, Exists, Passed, Kept

\* A failed browse keeps what it has.
LEMMA FailStep ==
  ASSUME BrowseIInv, Fail
  PROVE  BrowseIInv'
<1> USE DEF BrowseIInv
<1>1. /\ UNCHANGED <<db, home, changes, steady, at, cursor, scanned, limited,
                     types, ttls, missing>>
      /\ pc' = "failed"
  BY DEF Fail
<1>2. Displayed' = Displayed /\ ListedOnce'
  BY <1>1, SameList
<1>3. QED
  BY <1>1, <1>2 DEF TypeOK, Exists, Passed, Kept

\* A reply to TYPE is noted for a displayed key.
LEMMA TypeStep ==
  ASSUME BrowseIInv, NEW i \in Displayed, LookUpType(i)
  PROVE  BrowseIInv'
<1> USE DEF BrowseIInv
<1> DEFINE reply == IF Exists(scanned[i]) THEN db[scanned[i]].type ELSE "none"
<1>1. /\ UNCHANGED <<db, home, changes, steady, pc, nodes, at, cursor, scanned,
                     limited, ttls, missing>>
      /\ pc = "inspect" /\ types' = Answered(types, i, reply)
  BY DEF LookUpType
<1>2. Displayed' = Displayed /\ ListedOnce'
  BY <1>1, SameList
<1>3. /\ DOMAIN types' = DOMAIN types \cup {i}
      /\ \A j \in DOMAIN types' :
             (types'[j] = types[j] /\ j \in DOMAIN types) \/ types'[j] = reply
  BY <1>1 DEF Answered
<1>4. reply \in Types \cup {"none"}
  <2>1. scanned[i] \in Keys
    BY DEF TypeOK, Displayed
  <2>2. Exists(scanned[i]) => db[scanned[i]] \in Values
    BY <2>1 DEF TypeOK, Exists
  <2>3. QED
    BY <2>2 DEF Values
<1>5. TypeOK'
  BY <1>1, <1>2, <1>3, <1>4 DEF TypeOK
<1>6. RepliesComplete'
  BY <1>1, <1>2, <1>3 DEF Kept
<1>7. QED
  BY <1>1, <1>2, <1>5, <1>6 DEF Exists, Passed

\* A reply to TTL is noted; that of a key which exists is not -2.
LEMMA TTLStep ==
  ASSUME BrowseIInv, NEW i \in Displayed, LookUpTTL(i)
  PROVE  BrowseIInv'
<1> USE DEF BrowseIInv
<1> DEFINE reply == Seconds(Reply(scanned[i]))
<1>1. /\ UNCHANGED <<db, home, changes, steady, nodes, at, cursor, scanned,
                     limited, types>>
      /\ pc = "inspect" /\ ttls' = Answered(ttls, i, reply)
      /\ missing' \in {missing, missing \cup {i}}
      /\ DOMAIN types = Displayed
      /\ pc' = IF DOMAIN ttls' = Displayed THEN "done" ELSE pc
  BY DEF LookUpTTL
<1>2. Displayed' = Displayed /\ ListedOnce'
  BY <1>1, SameList
<1>3. /\ DOMAIN ttls' = DOMAIN ttls \cup {i}
      /\ \A j \in DOMAIN ttls' :
             (ttls'[j] = ttls[j] /\ j \in DOMAIN ttls) \/ ttls'[j] = reply
  BY <1>1 DEF Answered
<1>4. reply \in Expiries \cup {0}
  <2>1. scanned[i] \in Keys
    BY DEF TypeOK, Displayed
  <2>2. Exists(scanned[i]) => db[scanned[i]] \in Values
    BY <2>1 DEF TypeOK, Exists
  <2>3. Reply(scanned[i]) \in Expiries \cup {-2}
    BY <2>2 DEF Values, Reply
  <2>4. QED
    BY <2>3, BrowseConstants DEF Seconds
<1>5. TypeOK'
  BY <1>1, <1>2, <1>3, <1>4 DEF TypeOK
<1>6. RepliesComplete'
  <2>1. reply # -2
    BY <1>4, BrowseConstants
  <2>2. QED
    BY <1>1, <1>2, <1>3, <2>1 DEF Kept
<1>7. QED
  BY <1>1, <1>2, <1>5, <1>6 DEF Exists, Passed

-----------------------------------------------------------------------------
(* Reading a page *)

\* A cursor goes to the next bucket, and from the last one to 0.
LEMMA NextCursorIs ==
  ASSUME TypeOK, NEW n \in Nodes
  PROVE  NextCursor(n) = IF cursor[n] + 1 = Buckets THEN 0 ELSE cursor[n] + 1
<1>1. /\ Buckets \in Nat \ {0} /\ cursor[n] + 1 \in 0..Buckets
  BY BrowseConstants DEF TypeOK
<1>2. CASE cursor[n] + 1 = Buckets
  BY <1>1, <1>2 DEF NextCursor
<1>3. CASE cursor[n] + 1 < Buckets
  BY <1>1, <1>3 DEF NextCursor
<1>4. QED
  BY <1>1, <1>2, <1>3

\* The list with the unseen keys of a page.
\* The list with the unseen keys of a page has all keys of both, once.
LEMMA PageIsFound ==
  ASSUME BrowseIInv, NEW n, NEW page \in Pages(n),
         NEW order \in SetToSeqs(Unseen(page))
  PROVE  /\ scanned \o order \in Seq(Keys) /\ IsInjective(scanned \o order)
         /\ Range(scanned \o order) = Range(scanned) \cup page
         /\ Len(scanned) <= Len(scanned \o order)
<1>1. page \subseteq Keys /\ IsFiniteSet(page) /\ IsFiniteSet(Unseen(page))
  <2>1. page \subseteq Keys
    BY DEF Pages
  <2>2. QED
    BY <2>1, BrowseConstants, FS_Subset DEF Unseen
<1>2. order \in Seq(Unseen(page)) /\ IsInjective(order) /\ Range(order) = Unseen(page)
  BY <1>1, SeqOfSet
<1>3. order \in Seq(Keys) /\ Range(scanned) \cap Range(order) = {}
  BY <1>1, <1>2 DEF Unseen
<1>4. scanned \in Seq(Keys) /\ IsInjective(scanned)
  BY DEF BrowseIInv, TypeOK, ListedOnce
<1>5. QED
  BY <1>2, <1>3, <1>4, ConcatKeeps DEF Unseen

\* A page adds what it has of the cursor's bucket before the cursor passes
\* it.
LEMMA ScanStep ==
  ASSUME BrowseIInv, NEW page \in Pages(nodes[at]),
         NEW order \in SetToSeqs(Unseen(page)), ScanPage(page, order)
  PROVE  BrowseIInv'
<1> USE DEF BrowseIInv
<1> DEFINE n     == nodes[at]
           next  == NextCursor(n)
           rest  == [cursor EXCEPT ![n] =
                         IF Exhausted(next, n, page) THEN -1 ELSE next]
           found == scanned \o order
           full  == Len(found) >= Limit
           over  == full \/ \A m \in Nodes : rest[m] = -1
<1>1. /\ UNCHANGED <<db, home, changes, steady, nodes, types, ttls, missing>>
      /\ scanned' = Cut(found)
      /\ limited' = full
      /\ cursor' = IF full THEN cursor ELSE rest
      /\ pc' = IF ~over THEN "scan" ELSE IF scanned' = <<>> THEN "done" ELSE "inspect"
      /\ pc = "scan"
  BY DEF ScanPage
<1>2. /\ found \in Seq(Keys) /\ IsInjective(found)
      /\ Range(found) = Range(scanned) \cup page
      /\ Len(scanned) <= Len(found)
  BY PageIsFound
<1>3. Len(found) \in Nat /\ Limit \in Nat \ {0} /\ Len(scanned) \in Nat
  BY <1>2, BrowseConstants DEF TypeOK
<1> HIDE DEF found
<1>4. /\ scanned' \in Seq(Keys) /\ IsInjective(scanned') /\ Len(scanned') <= Limit
      /\ Len(scanned') = Limit <=> full
      /\ ~full => scanned' = found
  BY <1>1, <1>2, <1>3, CutKeeps
<1>5. ListedOnce'
  BY <1>1, <1>4 DEF ListedOnce
<1>6. types = <<>> /\ ttls = <<>> /\ DOMAIN types = {} /\ DOMAIN ttls = {}
  BY <1>1
<1>7. RepliesComplete'
  <2>1. pc' = "done" => Displayed' = {}
    <3>1. pc' = "done" => scanned' = <<>>
      BY <1>1
    <3>2. QED
      BY <3>1 DEF Displayed
  <2>2. QED
    BY <1>1, <1>6, <2>1
<1>8. rest \in [Nodes -> -1..(Buckets - 1)]
  <2>1. CASE n \in Nodes
    <3>1. next \in -1..(Buckets - 1)
      <4>1. cursor[n] \in -1..(Buckets - 1) /\ Buckets \in Nat \ {0}
        BY <2>1, BrowseConstants DEF TypeOK
      <4>2. next = IF cursor[n] + 1 = Buckets THEN 0 ELSE cursor[n] + 1
        BY <2>1, NextCursorIs
      <4> HIDE DEF next
      <4>3. QED
        BY <4>1, <4>2
    <3>2. -1 \in -1..(Buckets - 1)
      BY BrowseConstants
    <3>3. QED
      BY <3>1, <3>2 DEF TypeOK
  <2>2. CASE n \notin Nodes
    BY <2>2 DEF TypeOK
  <2>3. QED
    BY <2>1, <2>2
<1>9. TypeOK'
  BY <1>1, <1>4, <1>6, <1>8 DEF TypeOK
<1>10. SteadyStay'
  BY <1>1 DEF Exists
<1>11. ScanIsWhole'
  BY <1>1
<1>12. PassedIsFound'
  <2> SUFFICES ASSUME ~full, NEW k \in steady, Passed(k)'
               PROVE  k \in Range(found)
    BY <1>1, <1>4
  <2>1. ~limited
    BY <1>2, <1>3 DEF ListedOnce
  <2>2. /\ k \in Keys /\ home[k] \in Nodes /\ Exists(k)
        /\ cursor[home[k]] \in -1..(Buckets - 1)
        /\ Bucket[k] \in 0..(Buckets - 1) /\ Buckets \in Nat \ {0}
    BY BrowseConstants DEF TypeOK
  <2>3. CASE Passed(k)
    BY <1>2, <2>1, <2>3
  <2>4. CASE ~Passed(k)
    <3>1. home[k] = n
      BY <1>1, <2>2, <2>4 DEF Passed, TypeOK
    <3>2. rest[n] = -1 \/ Bucket[k] < rest[n]
      BY <1>1, <3>1 DEF Passed
    <3>3. rest[n] = IF Exhausted(next, n, page) THEN -1 ELSE next
      BY <2>2, <3>1 DEF TypeOK
    <3>4. next = IF cursor[n] + 1 = Buckets THEN 0 ELSE cursor[n] + 1
      BY <2>2, <3>1, NextCursorIs
    <3>5. cursor[n] # -1 /\ cursor[n] <= Bucket[k]
      BY <2>2, <2>4, <3>1 DEF Passed
    <3>6. Bucket[k] = cursor[n]
      BY <2>2, <3>1, <3>2, <3>3, <3>4, <3>5 DEF Exhausted
    <3>7. k \in page
      BY <2>2, <3>1, <3>6 DEF Pages
    <3>8. QED
      BY <1>2, <3>7
  <2>5. QED
    BY <2>3, <2>4
<1>13. QED
  BY <1>5, <1>7, <1>9, <1>10, <1>11, <1>12

\* Every step preserves the invariant.
LEMMA BrowseStep ==
  ASSUME BrowseIInv, [Next]_vars
  PROVE  BrowseIInv'
<1>1. CASE Others
  BY <1>1, OthersStep
<1>2. ASSUME NEW order \in SetToSeqs(Nodes), ListNodes(order)
      PROVE  BrowseIInv'
  BY <1>2, ListStep
<1>3. ASSUME NEW page \in Pages(nodes[at]), NEW order \in SetToSeqs(Unseen(page)),
             ScanPage(page, order)
      PROVE  BrowseIInv'
  BY <1>3, ScanStep
<1>4. ASSUME NEW i \in Displayed, LookUpType(i) \/ LookUpTTL(i)
      PROVE  BrowseIInv'
  BY <1>4, TypeStep, TTLStep
<1>5. CASE Fail
  BY <1>5, FailStep
<1>6. CASE UNCHANGED vars
  BY <1>6 DEF BrowseIInv, TypeOK, ListedOnce, Exists, Passed, Kept, Displayed,
       Group
<1>7. QED
  BY <1>1, <1>2, <1>3, <1>4, <1>5, <1>6 DEF Next, Browse

-----------------------------------------------------------------------------
(* The theorems *)

\* The invariant holds in every state of a browse.
THEOREM BrowseInvariance == Spec => []BrowseIInv
BY BrowseInit, BrowseStep, PTL DEF Spec

\* The variables of a browse keep their types.
LEMMA BrowseTypes == Spec => []TypeOK
<1>1. BrowseIInv => TypeOK
  BY DEF BrowseIInv
<1>2. QED
  BY <1>1, BrowseInvariance, PTL

\* The replies of the pipelines are those of displayed keys, a TTL is read only of
\* a key whose type is known, and an answer has both of all of them.
RepliesFitDisplayed ==
    /\ DOMAIN types \subseteq Displayed
    /\ DOMAIN ttls \subseteq DOMAIN types
    /\ pc = "done" => DOMAIN types = Displayed /\ DOMAIN ttls = Displayed

\* browseGroups, which counts the displayed keys once to ask and once to read the
\* replies, neither skips one nor asks for one beyond the cap of its group.
THEOREM AnswerFitsDisplayed == Spec => []RepliesFitDisplayed
<1>1. BrowseIInv => RepliesFitDisplayed
  <2> SUFFICES ASSUME TypeOK, RepliesComplete
               PROVE  RepliesFitDisplayed
    BY DEF BrowseIInv
  <2>1. DOMAIN types \subseteq Displayed /\ DOMAIN ttls \subseteq DOMAIN types
    BY DEF TypeOK, RepliesComplete
  <2>2. pc = "done" => DOMAIN ttls = Displayed
    BY DEF RepliesComplete
  <2> HIDE DEF RepliesComplete
  <2>3. QED
    BY <2>1, <2>2 DEF RepliesFitDisplayed
<1>2. QED
  BY <1>1, BrowseInvariance, PTL

\* However often SCAN repeats a key, on a page, on another one or on another
\* node, the list has it once; it has Limit keys exactly if it says so.
THEOREM KeysAreListedOnce == Spec => []ListedOnce
<1>1. BrowseIInv => ListedOnce
  BY DEF BrowseIInv
<1>2. QED
  BY <1>1, BrowseInvariance, PTL

\* A key that exists on its node all along is not missed: it has a row, unless
\* the list was cut at Limit or its group has more keys than rows.
THEOREM SteadyKeysAreShown == Spec => []SteadyKeysShown
<1>1. BrowseIInv => SteadyKeysShown
  <2> SUFFICES ASSUME BrowseIInv, pc = "done", ~limited, NEW k \in steady
               PROVE  \/ \E row \in Rows : row.name = k
                      \/ /\ Cardinality(Group(Prefix[k])) > GroupCap
                         /\ k \in Range(scanned)
    BY DEF SteadyKeysShown
  <2> USE DEF BrowseIInv
  <2>1. Passed(k)
    BY DEF Passed, TypeOK
  <2>2. PICK i \in DOMAIN scanned : scanned[i] = k
    BY <2>1 DEF Range
  <2>3. CASE i \in Displayed
    <3> DEFINE row == [name |-> scanned[i], type |-> types[i],
                       ttl |-> IF ttls[i] >= 0 THEN ttls[i] ELSE 0]
    <3>1. i \in DOMAIN ttls /\ Kept(i)
      BY <2>2, <2>3
    <3>2. row \in Rows /\ row.name = k
      BY <2>2, <3>1 DEF Rows
    <3>3. QED
      BY <3>2
  <2>4. CASE i \notin Displayed
    <3> DEFINE G == Group(Prefix[k])
    <3>1. IsFiniteSet(G)
      <4>1. IsFiniteSet(1..Len(scanned)) /\ DOMAIN scanned = 1..Len(scanned)
        BY FS_Interval DEF TypeOK
      <4>2. QED
        BY <4>1, FS_Subset DEF Group
    <3>2. ~(Cardinality(G \cap 1..i) <= GroupCap)
      BY <2>2, <2>4 DEF Displayed
    <3> HIDE DEF G
    <3>3. /\ Cardinality(G \cap 1..i) <= Cardinality(G)
          /\ Cardinality(G) \in Nat /\ Cardinality(G \cap 1..i) \in Nat
      BY <3>1, FS_Intersection, FS_CardinalityType
    <3>4. Cardinality(G) > GroupCap
      BY <3>2, <3>3, BrowseConstants
    <3>5. QED
      BY <2>1, <3>4 DEF G
  <2>5. QED
    BY <2>3, <2>4
<1>2. QED
  BY <1>1, BrowseInvariance, PTL
=============================================================================
