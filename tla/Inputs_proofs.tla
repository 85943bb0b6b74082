---------------------------- MODULE Inputs_proofs ----------------------------
(***************************************************************************)
(* Proofs about what the program is given: that the key of a connection    *)
(* tells exactly the connections that are written alike, so that every     *)
(* request is served the client it asks for and no session loses or misses *)
(* a connection of its own (ConnectionKeys); and that a configuration is   *)
(* loaded exactly if it keeps the rules, and looked up as it was written   *)
(* (PresetConfig).  For any requests, files and texts.                     *)
(***************************************************************************)
EXTENDS ConnectionKeys, PresetConfig, FiniteSetTheorems, SequenceTheorems, TLAPS

-----------------------------------------------------------------------------
(* Seeds with the same label *)

Fiber(r, l) == {i \in DOMAIN r.seeds : Addresses(r)[i] = l}

SameSeeds(q, r) == \A l : Cardinality(Fiber(q, l)) = Cardinality(Fiber(r, l))

\* The seeds that have a label are finitely many.
LEMMA FiberFinite ==
    ASSUME NEW r \in Requests, NEW l
    PROVE  IsFiniteSet(Fiber(r, l))
<1>1. Fiber(r, l) \in SUBSET DOMAIN r.seeds
  BY DEF Fiber
<1>2. QED
  BY <1>1, SeedsAreFinite, FS_Subset

\* The sorted and joined labels tell how often each label occurs.
LEMMA LabelsCount ==
    ASSUME NEW q \in Requests, NEW r \in Requests
    PROVE  ConnectionKey(q).labels = ConnectionKey(r).labels <=> SameSeeds(q, r)
<1> DEFINE Ls(t) == {Addresses(t)[i] : i \in DOMAIN Addresses(t)}
           Key(t) == {<<l, Cardinality(Fiber(t, l))>> : l \in Ls(t)}
<1>1. ASSUME NEW t \in Requests
      PROVE  /\ ConnectionKey(t).labels = Key(t)
             /\ \A l : l \in Ls(t) <=> Cardinality(Fiber(t, l)) # 0
  <2>1. DOMAIN Addresses(t) = DOMAIN t.seeds
    BY DEF Addresses
  <2>2. ConnectionKey(t).labels = Key(t)
    BY <2>1 DEF ConnectionKey, Fiber
  <2>3. ASSUME NEW l
        PROVE  l \in Ls(t) <=> Fiber(t, l) # {}
    BY <2>1 DEF Fiber
  <2>4. \A l : Fiber(t, l) # {} <=> Cardinality(Fiber(t, l)) # 0
    BY FiberFinite, FS_EmptySet
  <2>5. QED
    BY <2>2, <2>3, <2>4
<1>2. ASSUME Key(q) = Key(r)
      PROVE  SameSeeds(q, r)
  <2> SUFFICES ASSUME NEW l
               PROVE  Cardinality(Fiber(q, l)) = Cardinality(Fiber(r, l))
    BY DEF SameSeeds
  <2>1. CASE l \in Ls(q)
    <3>1. <<l, Cardinality(Fiber(q, l))>> \in Key(r)
      BY <1>2, <2>1
    <3>2. PICK m \in Ls(r) :
              <<l, Cardinality(Fiber(q, l))>> = <<m, Cardinality(Fiber(r, m))>>
      BY <3>1
    <3>3. QED
      BY <3>2
  <2>2. CASE l \notin Ls(q)
    <3>1. ASSUME l \in Ls(r)
          PROVE  FALSE
      <4>1. <<l, Cardinality(Fiber(r, l))>> \in Key(q)
        BY <1>2, <3>1
      <4>2. PICK m \in Ls(q) :
                <<l, Cardinality(Fiber(r, l))>> = <<m, Cardinality(Fiber(q, m))>>
        BY <4>1
      <4>3. QED
        BY <2>2, <4>2
    <3>2. QED
      BY <1>1, <2>2, <3>1
  <2>3. QED
    BY <2>1, <2>2
<1>3. ASSUME SameSeeds(q, r)
      PROVE  Key(q) = Key(r)
  <2>1. Ls(q) = Ls(r)
    <3> HIDE DEF Ls
    <3>1. \A l : l \in Ls(q) <=> l \in Ls(r)
      BY <1>1, <1>3 DEF SameSeeds
    <3>2. QED
      BY <3>1
  <2>2. QED
    BY <2>1, <1>3 DEF SameSeeds
<1>4. QED
  BY <1>1, <1>2, <1>3

Matches(q, r, match) ==
    /\ match \in [DOMAIN q.seeds -> DOMAIN r.seeds]
    /\ \A i \in DOMAIN q.seeds : SameSeed(q, i, r, match[i])
    /\ \A j \in DOMAIN r.seeds :
           Cardinality({i \in DOMAIN q.seeds : match[i] = j}) = 1

\* Seeds are the same if their labels are.
LEMMA SeedIsLabel ==
    ASSUME NEW q, NEW r, NEW i \in DOMAIN q.seeds, NEW j \in DOMAIN r.seeds
    PROVE  SameSeed(q, i, r, j) <=> Addresses(q)[i] = Addresses(r)[j]
BY DEF SameSeed, Addresses

\* Seeds can be matched one to one exactly if each label occurs as often.
LEMMA MatchCounts ==
    ASSUME NEW q \in Requests, NEW r \in Requests
    PROVE  SameSeeds(q, r) <=> \E match : Matches(q, r, match)
<1>1. ASSUME SameSeeds(q, r)
      PROVE  \E match : Matches(q, r, match)
  <2> DEFINE F(l) == CHOOSE f : f \in Bijection(Fiber(q, l), Fiber(r, l))
             m == [i \in DOMAIN q.seeds |-> F(Addresses(q)[i])[i]]
  <2>1. ASSUME NEW l
        PROVE  F(l) \in Bijection(Fiber(q, l), Fiber(r, l))
    <3>1. ExistsBijection(Fiber(q, l), Fiber(r, l))
      BY <1>1, FiberFinite, FS_SameCardinalityBij DEF SameSeeds
    <3>2. QED
      BY <3>1 DEF ExistsBijection
  <2> HIDE DEF F
  <2>2. ASSUME NEW i \in DOMAIN q.seeds
        PROVE  /\ m[i] = F(Addresses(q)[i])[i]
               /\ m[i] \in Fiber(r, Addresses(q)[i])
    <3>1. i \in Fiber(q, Addresses(q)[i])
      BY DEF Fiber
    <3>2. F(Addresses(q)[i]) \in [Fiber(q, Addresses(q)[i]) -> Fiber(r, Addresses(q)[i])]
      BY <2>1 DEF Bijection, Injection
    <3>3. QED
      BY <3>1, <3>2
  <2>3. m \in [DOMAIN q.seeds -> DOMAIN r.seeds]
    BY <2>2 DEF Fiber
  <2>4. \A i \in DOMAIN q.seeds : Addresses(q)[i] = Addresses(r)[m[i]]
    BY <2>2 DEF Fiber
  <2> HIDE DEF m
  <2>5. ASSUME NEW j \in DOMAIN r.seeds
        PROVE  Cardinality({i \in DOMAIN q.seeds : m[i] = j}) = 1
    <3> DEFINE l == Addresses(r)[j]
    <3>1. j \in Fiber(r, l)
      BY DEF Fiber
    <3>2. PICK x \in Fiber(q, l) : F(l)[x] = j
      BY <2>1, <3>1 DEF Bijection, Surjection
    <3>3. x \in DOMAIN q.seeds /\ Addresses(q)[x] = l
      BY DEF Fiber
    <3>4. m[x] = j
      BY <2>2, <3>2, <3>3
    <3>5. ASSUME NEW i \in DOMAIN q.seeds, m[i] = j
          PROVE  i = x
      <4>1. Addresses(q)[i] = l
        BY <2>4, <3>5
      <4>2. i \in Fiber(q, l) /\ F(l)[i] = j
        BY <2>2, <3>5, <4>1 DEF Fiber
      <4>3. IsInjective(F(l)) /\ DOMAIN F(l) = Fiber(q, l)
        BY <2>1 DEF Bijection, Injection
      <4>4. QED
        BY <3>2, <4>2, <4>3 DEF IsInjective
    <3>6. {i \in DOMAIN q.seeds : m[i] = j} = {x}
      BY <3>3, <3>4, <3>5
    <3>7. QED
      BY <3>6, FS_Singleton
  <2>6. \A i \in DOMAIN q.seeds : SameSeed(q, i, r, m[i])
    <3>1. ASSUME NEW i \in DOMAIN q.seeds
          PROVE  SameSeed(q, i, r, m[i])
      <4>1. m[i] \in DOMAIN r.seeds
        BY <2>3
      <4>2. QED
        BY <2>4, <4>1, SeedIsLabel
    <3>2. QED
      BY <3>1
  <2>7. Matches(q, r, m)
    BY <2>3, <2>5, <2>6 DEF Matches
  <2>8. QED
    BY <2>7
<1>2. ASSUME NEW m, Matches(q, r, m)
      PROVE  SameSeeds(q, r)
  <2> SUFFICES ASSUME NEW l
               PROVE  Cardinality(Fiber(q, l)) = Cardinality(Fiber(r, l))
    BY DEF SameSeeds
  <2> DEFINE f == [i \in Fiber(q, l) |-> m[i]]
  <2>1. /\ m \in [DOMAIN q.seeds -> DOMAIN r.seeds]
        /\ \A i \in DOMAIN q.seeds : Addresses(q)[i] = Addresses(r)[m[i]]
    <3>1. m \in [DOMAIN q.seeds -> DOMAIN r.seeds]
      BY <1>2 DEF Matches
    <3>2. ASSUME NEW i \in DOMAIN q.seeds
          PROVE  Addresses(q)[i] = Addresses(r)[m[i]]
      <4> HIDE DEF f
      <4>1. m[i] \in DOMAIN r.seeds
        BY <3>1
      <4>2. SameSeed(q, i, r, m[i])
        BY <1>2 DEF Matches
      <4>3. QED
        BY <4>1, <4>2 DEF SameSeed, Addresses
    <3>3. QED
      BY <3>1, <3>2
  <2>2. ASSUME NEW j \in DOMAIN r.seeds
        PROVE  \E x : {i \in DOMAIN q.seeds : m[i] = j} = {x}
    <3>1. {i \in DOMAIN q.seeds : m[i] = j} \in SUBSET DOMAIN q.seeds
      OBVIOUS
    <3>2. IsFiniteSet({i \in DOMAIN q.seeds : m[i] = j})
      BY <3>1, SeedsAreFinite, FS_Subset
    <3>3. Cardinality({i \in DOMAIN q.seeds : m[i] = j}) = 1
      BY <1>2 DEF Matches
    <3>4. QED
      BY <3>2, <3>3, FS_Singleton
  <2>3. f \in [Fiber(q, l) -> Fiber(r, l)]
    BY <2>1 DEF Fiber
  <2>4. ASSUME NEW i \in Fiber(q, l), NEW k \in Fiber(q, l), f[i] = f[k]
        PROVE  i = k
    <3>1. /\ i \in DOMAIN q.seeds /\ k \in DOMAIN q.seeds
          /\ m[i] = m[k] /\ m[i] \in DOMAIN r.seeds
      BY <2>1, <2>4 DEF Fiber
    <3>2. PICK x : {z \in DOMAIN q.seeds : m[z] = m[i]} = {x}
      BY <2>2, <3>1
    <3>3. QED
      BY <3>1, <3>2
  <2>5. ASSUME NEW j \in Fiber(r, l)
        PROVE  \E i \in Fiber(q, l) : f[i] = j
    <3>1. j \in DOMAIN r.seeds /\ Addresses(r)[j] = l
      BY DEF Fiber
    <3>2. PICK x : {i \in DOMAIN q.seeds : m[i] = j} = {x}
      BY <2>2, <3>1
    <3>3. x \in DOMAIN q.seeds /\ m[x] = j
      BY <3>2
    <3>4. x \in Fiber(q, l)
      BY <2>1, <3>1, <3>3 DEF Fiber
    <3>5. QED
      BY <3>3, <3>4
  <2>6. f \in Bijection(Fiber(q, l), Fiber(r, l))
    BY <2>3, <2>4, <2>5 DEF Bijection, Injection, IsInjective, Surjection
  <2>7. ExistsBijection(Fiber(q, l), Fiber(r, l))
    BY <2>6 DEF ExistsBijection
  <2>8. QED
    BY <2>7, FiberFinite, FS_Bijection
<1>3. QED
  BY <1>1, <1>2

-----------------------------------------------------------------------------
(* What a key tells *)

\* Two texts mean the same exactly if the key has the same for both.
LEMMA TextIsDefaulted ==
    ASSUME NEW s, NEW t, NEW default
    PROVE  SameText(s, t, default) <=> Default(s, default) = Default(t, default)
<1>1. \A x, y : Cardinality({x, y}) = 1 <=> x = y
  <2> SUFFICES ASSUME NEW x, NEW y
               PROVE  Cardinality({x, y}) = 1 <=> x = y
    OBVIOUS
  <2>1. ASSUME Cardinality({x, y}) = 1
        PROVE  x = y
    <3>1. IsFiniteSet({x, y})
      <4>1. IsFiniteSet({x}) /\ {x, y} = {x} \cup {y}
        BY FS_Singleton
      <4>2. QED
        BY <4>1, FS_AddElement
    <3>2. PICK z : {x, y} = {z}
      BY <2>1, <3>1, FS_Singleton
    <3>3. QED
      BY <3>2
  <2>2. ASSUME x = y
        PROVE  Cardinality({x, y}) = 1
    <3>1. {x, y} = {x}
      BY <2>2
    <3>2. QED
      BY <3>1, FS_Singleton
  <2>3. QED
    BY <2>1, <2>2
<1>2. SameText(s, t, default) <=>
          Fold[s] = Fold[t] \/ {Fold[s], Fold[t]} = {"", default}
  BY <1>1 DEF SameText
<1>3. QED
  BY <1>2 DEF Default

\* connectionKey gives two requests the same key exactly if they write the same
\* connection, in whatever order, case and completeness.
THEOREM KeysTellConnections ==
    ASSUME NEW q \in Requests, NEW r \in Requests
    PROVE  ConnectionKey(q) = ConnectionKey(r) <=> Alike(q, r)
<1>1. ConnectionKey(q) = ConnectionKey(r) <=>
          /\ ConnectionKey(q).tool = ConnectionKey(r).tool
          /\ ConnectionKey(q).labels = ConnectionKey(r).labels
          /\ ConnectionKey(q).mode = ConnectionKey(r).mode
          /\ ConnectionKey(q).db = ConnectionKey(r).db
  BY DEF ConnectionKey
<1>2. ConnectionKey(q).labels = ConnectionKey(r).labels <=>
          \E match : Matches(q, r, match)
  BY LabelsCount, MatchCounts
<1>3. ConnectionKey(q).tool = q.tool /\ ConnectionKey(r).tool = r.tool
  BY DEF ConnectionKey
<1>4. ASSUME q.tool = r.tool
      PROVE  (/\ ConnectionKey(q).mode = ConnectionKey(r).mode
              /\ ConnectionKey(q).db = ConnectionKey(r).db) <=>
             (q.tool = "redis" => /\ SameText(q.mode, r.mode, "single")
                                  /\ SameText(q.db, r.db, "0"))
  BY <1>4, TextIsDefaulted DEF ConnectionKey
<1>5. (\E match : Matches(q, r, match)) <=>
          \E match \in [DOMAIN q.seeds -> DOMAIN r.seeds] :
             /\ \A i \in DOMAIN q.seeds : SameSeed(q, i, r, match[i])
             /\ \A j \in DOMAIN r.seeds :
                    Cardinality({i \in DOMAIN q.seeds : match[i] = j}) = 1
  BY DEF Matches
<1>6. QED
  BY <1>1, <1>2, <1>3, <1>4, <1>5 DEF Alike

\* Seeds that can be matched are several on both sides.
LEMMA SeveralMatch ==
    ASSUME NEW q \in Requests, NEW r \in Requests, SameSeeds(q, r), Several(q)
    PROVE  Several(r)
<1>1. PICK m : Matches(q, r, m)
  BY MatchCounts
<1>2. PICK i \in DOMAIN q.seeds, j \in DOMAIN q.seeds : i # j
  BY DEF Several
<1>3. m[i] \in DOMAIN r.seeds /\ m[j] \in DOMAIN r.seeds
  BY <1>1 DEF Matches
<1>4. m[i] # m[j]
  <2> SUFFICES ASSUME m[i] = m[j]
               PROVE  FALSE
    OBVIOUS
  <2> DEFINE S == {z \in DOMAIN q.seeds : m[z] = m[i]}
  <2>1. IsFiniteSet(S)
    BY SeedsAreFinite, FS_Subset
  <2>2. Cardinality(S) = 1
    BY <1>1, <1>3 DEF Matches
  <2>3. i \in S /\ j \in S
    OBVIOUS
  <2> HIDE DEF S
  <2>4. PICK x : S = {x}
    BY <2>1, <2>2, FS_Singleton
  <2>5. QED
    BY <1>2, <2>3, <2>4
<1>5. QED
  BY <1>3, <1>4 DEF Several

\* A client that was made for a request with the same key is the client the
\* plugin would make.
LEMMA KeyTellsClient ==
    ASSUME NEW q \in Requests, NEW r \in Requests, ParseSeeds(q), ParseSeeds(r),
           ConnectionKey(q) = ConnectionKey(r)
    PROVE  ClientOf(q) = ClientOf(r)
<1> DEFINE Servers(t) == {Addresses(t)[i] : i \in DOMAIN t.seeds}
<1>1. q.tool = r.tool
  BY DEF ConnectionKey
<1>2. ConnectionKey(q).labels = ConnectionKey(r).labels
  OBVIOUS
<1>3. Servers(q) = Servers(r)
  <2>1. SameSeeds(q, r)
    BY <1>2, LabelsCount
  <2>2. ASSUME NEW t \in Requests, NEW l
        PROVE  l \in Servers(t) <=> Cardinality(Fiber(t, l)) # 0
    <3>1. l \in Servers(t) <=> Fiber(t, l) # {}
      BY DEF Fiber
    <3>2. QED
      BY <3>1, FiberFinite, FS_EmptySet
  <2> HIDE DEF Servers
  <2>3. \A l : l \in Servers(q) <=> l \in Servers(r)
    BY <2>1, <2>2 DEF SameSeeds
  <2>4. QED
    BY <2>3
<1>4. CASE q.tool # "redis"
  BY <1>1, <1>3, <1>4 DEF ClientOf
<1>5. CASE q.tool = "redis"
  <2>1. /\ Default(q.mode, "single") = Default(r.mode, "single")
        /\ Default(q.db, "0") = Default(r.db, "0")
    BY <1>1, <1>5 DEF ConnectionKey
  <2>2. Fold[q.mode] = "cluster" <=> Fold[r.mode] = "cluster"
    BY <2>1 DEF Default
  <2>3. RedisDB(q) = RedisDB(r)
    BY <2>1, NumberOfZero DEF Default, RedisDB
  <2>4. SameSeeds(q, r) /\ SameSeeds(r, q)
    BY <1>2, LabelsCount
  <2>5. Several(q) <=> Several(r)
    BY <2>4, SeveralMatch
  <2>6. QED
    BY <1>1, <1>3, <1>5, <2>2, <2>3, <2>5 DEF ClientOf
<1>6. QED
  BY <1>4, <1>5

-----------------------------------------------------------------------------
(* The inductive invariant *)

\* Each client was made for a request that has its key.
EntriesMatch ==
    \A k \in DOMAIN pool :
        /\ pool[k] = [client |-> ClientOf(pool[k].request),
                      leases |-> pool[k].leases, request |-> pool[k].request]
        /\ pool[k].request \in Requests
        /\ ParseSeeds(pool[k].request)
        /\ ConnectionKey(pool[k].request) = k

KeysIInv == EntriesMatch /\ ServedAsAsked

\* A new client goes under the key of the request it was made for.
LEMMA PutEntry ==
    ASSUME EntriesMatch, NEW k, NEW r \in Requests, NEW leases,
           ParseSeeds(r), ConnectionKey(r) = k,
           Put(k, [client |-> ClientOf(r), leases |-> leases, request |-> r])
    PROVE  EntriesMatch'
BY DEF EntriesMatch, Put

\* A lease that comes or goes leaves the client its key.
LEMMA PutLeases ==
    ASSUME EntriesMatch, NEW k \in DOMAIN pool, NEW leases,
           Put(k, [pool[k] EXCEPT !.leases = leases])
    PROVE  EntriesMatch'
<1>1. [pool[k] EXCEPT !.leases = leases]
          = [client |-> ClientOf(pool[k].request), leases |-> leases,
             request |-> pool[k].request]
  BY DEF EntriesMatch
<1>2. QED
  BY <1>1, PutEntry DEF EntriesMatch

\* What is left in the pool keeps its key.
LEMMA DropEntry ==
    ASSUME EntriesMatch, NEW k, Drop(k)
    PROVE  EntriesMatch'
BY DEF EntriesMatch, Drop

\* The pooled client is the one the plugin would make for this request,
\* whoever connected it.
LEMMA PooledServes ==
    ASSUME EntriesMatch, NEW r \in Requests, ParseSeeds(r),
           ConnectionKey(r) \in DOMAIN pool
    PROVE  pool[ConnectionKey(r)].client = ClientOf(r)
<1>1. pool[ConnectionKey(r)].client = ClientOf(pool[ConnectionKey(r)].request)
  BY DEF EntriesMatch
<1>2. QED
  BY <1>1, KeyTellsClient DEF EntriesMatch

\* connectionPool.get serves what is asked for, and pools new clients under
\* their key.
LEMMA GetKeeps ==
    ASSUME EntriesMatch, NEW op, NEW r \in Requests, Get(op, r)
    PROVE  KeysIInv'
<1> DEFINE k == ConnectionKey(r)
<1>1. ParseSeeds(r)
  BY DEF Get
<1>2. CASE /\ k \in DOMAIN pool
           /\ Put(k, [pool[k] EXCEPT !.leases = @ \cup {RequestLease(r)}])
           /\ Answer(op, r, "served", pool[k].client)
  <2>1. EntriesMatch'
    BY <1>2, PutLeases
  <2>2. ServedAsAsked'
    BY <1>1, <1>2, PooledServes DEF ServedAsAsked, Answer
  <2>3. QED
    BY <2>1, <2>2 DEF KeysIInv
<1>3. CASE /\ Put(k, [client |-> ClientOf(r), leases |-> {RequestLease(r)},
                      request |-> r])
           /\ Answer(op, r, "served", ClientOf(r))
  <2>1. EntriesMatch'
    BY <1>1, <1>3, PutEntry
  <2>2. ServedAsAsked'
    BY <1>3 DEF ServedAsAsked, Answer
  <2>3. QED
    BY <2>1, <2>2 DEF KeysIInv
<1>4. CASE Answer(op, r, "failed", None) /\ UNCHANGED pool
  BY <1>4 DEF KeysIInv, EntriesMatch, ServedAsAsked, Answer
<1>5. QED
  BY <1>2, <1>3, <1>4 DEF Get

\* A refused request changes nothing.
LEMMA RefuseKeeps ==
    ASSUME EntriesMatch, NEW op, NEW r, Refuse(op, r)
    PROVE  KeysIInv'
BY DEF KeysIInv, EntriesMatch, ServedAsAsked, Refuse, Answer

\* Every step keeps the inductive invariant.
LEMMA KeysStep == KeysIInv /\ [KeysNext]_keysVars => KeysIInv'
<1> SUFFICES ASSUME KeysIInv, [KeysNext]_keysVars
             PROVE  KeysIInv'
  OBVIOUS
<1>0. EntriesMatch /\ ServedAsAsked
  BY DEF KeysIInv
<1>1. ASSUME NEW r \in Requests, Connect(r)
      PROVE  KeysIInv'
  BY <1>0, <1>1, GetKeeps, RefuseKeeps DEF Connect
<1>2. ASSUME NEW r \in Requests, AcquireExisting(r)
      PROVE  KeysIInv'
  <2>1. EntriesMatch'
    BY <1>0, <1>2 DEF AcquireExisting, EntriesMatch
  <2>2. ServedAsAsked'
    BY <1>0, <1>2, PooledServes DEF AcquireExisting, Answer, ServedAsAsked
  <2>3. QED
    BY <2>1, <2>2 DEF KeysIInv
<1>3. ASSUME NEW r \in Requests, AcquireConnection(r)
      PROVE  KeysIInv'
  BY <1>0, <1>2, <1>3, GetKeeps, RefuseKeeps DEF AcquireConnection
<1>4. ASSUME NEW r \in Requests, Disconnect(r)
      PROVE  KeysIInv'
  <2>1. CASE Refuse("disconnect", r)
    BY <1>0, <2>1, RefuseKeeps
  <2>2. CASE Release(r) /\ Answer("disconnect", r, "disconnected", None)
    <3> DEFINE k == ConnectionKey(r)
               left == pool[k].leases \ {RequestLease(r)}
    <3>1. EntriesMatch'
      <4>1. CASE UNCHANGED pool
        BY <1>0, <4>1 DEF EntriesMatch
      <4>2. CASE Drop(k)
        BY <1>0, <4>2, DropEntry
      <4>3. CASE k \in DOMAIN pool /\ Put(k, [pool[k] EXCEPT !.leases = left])
        BY <1>0, <4>3, PutLeases
      <4>4. QED
        BY <2>2, <4>1, <4>2, <4>3 DEF Release
    <3>2. ServedAsAsked'
      BY <2>2 DEF Answer, ServedAsAsked
    <3>3. QED
      BY <3>1, <3>2 DEF KeysIInv
  <2>3. QED
    BY <1>4, <2>1, <2>2 DEF Disconnect
<1>5. ASSUME NEW k \in DOMAIN pool, Evict(k)
      PROVE  KeysIInv'
  BY <1>0, <1>5, DropEntry DEF Evict, KeysIInv, ServedAsAsked
<1>6. CASE UNCHANGED keysVars
  BY <1>0, <1>6 DEF keysVars, KeysIInv, EntriesMatch, ServedAsAsked
<1>7. QED
  BY <1>1, <1>3, <1>4, <1>5, <1>6 DEF KeysNext

\* The inductive invariant holds in every state.
LEMMA KeysInvariance == KeysSpec => []KeysIInv
<1>1. KeysInit => KeysIInv
  BY DEF KeysInit, KeysIInv, EntriesMatch, ServedAsAsked
<1>2. QED
  BY <1>1, KeysStep, PTL DEF KeysSpec

-----------------------------------------------------------------------------
(* The theorems *)

\* A request is served a client for its own servers, mode and database, also
\* if somebody else connected it in another spelling (connectionKey, get).
THEOREM PooledClientIsRight == KeysSpec => []ServedAsAsked
<1>1. KeysIInv => ServedAsAsked
  BY DEF KeysIInv
<1>2. QED
  BY <1>1, KeysInvariance, PTL

\* A lease ends by eviction or by a disconnect under the same lease for the
\* same connection, and by nothing else (disconnect, requestLease).
THEOREM LeasesEndOnRequest == KeysSpec => LeasesAreKept
<1> DEFINE Kept == \A k \in DOMAIN pool : \A l \in pool[k].leases :
                     \/ k \in DOMAIN pool' /\ l \in pool'[k].leases
                     \/ answer' = None
                     \/ /\ answer'.op = "disconnect"
                        /\ RequestLease(answer'.request) = l
                        /\ Alike(answer'.request, pool[k].request)
<1>1. KeysIInv /\ [KeysNext]_keysVars => [Kept]_keysVars
  <2> SUFFICES ASSUME EntriesMatch, KeysNext
               PROVE  Kept
    BY DEF KeysIInv
  <2>1. ASSUME UNCHANGED pool
        PROVE  Kept
    BY <2>1
  <2>2. ASSUME NEW op, NEW r \in Requests, Get(op, r)
        PROVE  Kept
    <3>1. CASE UNCHANGED pool
      BY <2>1, <3>1
    <3>2. CASE /\ ConnectionKey(r) \in DOMAIN pool
               /\ Put(ConnectionKey(r), [pool[ConnectionKey(r)] EXCEPT !.leases =
                                           @ \cup {RequestLease(r)}])
      BY <3>2 DEF Put, EntriesMatch
    <3>3. CASE /\ ConnectionKey(r) \notin DOMAIN pool
               /\ Put(ConnectionKey(r), [client |-> ClientOf(r),
                                         leases |-> {RequestLease(r)}, request |-> r])
      BY <3>3 DEF Put
    <3>4. QED
      BY <2>2, <3>1, <3>2, <3>3 DEF Get
  <2>3. ASSUME NEW r \in Requests, Connect(r) \/ AcquireConnection(r)
        PROVE  Kept
    BY <2>1, <2>2, <2>3 DEF Connect, AcquireConnection, Refuse, AcquireExisting
  <2>4. ASSUME NEW r \in Requests, Disconnect(r)
        PROVE  Kept
    <3>1. CASE UNCHANGED pool
      BY <2>1, <3>1
    <3>2. CASE /\ ConnectionKey(r) \in DOMAIN pool
               /\ Release(r)
               /\ Answer("disconnect", r, "disconnected", None)
      <4> DEFINE k == ConnectionKey(r)
      <4>1. ASSUME NEW j \in DOMAIN pool, j # k
            PROVE  j \in DOMAIN pool' /\ pool'[j] = pool[j]
        BY <3>2, <4>1 DEF Release, Drop, Put
      <4>2. ASSUME NEW l \in pool[k].leases, l # RequestLease(r)
            PROVE  k \in DOMAIN pool' /\ l \in pool'[k].leases
        BY <3>2, <4>2 DEF Release, Put, EntriesMatch
      <4>3. Alike(r, pool[k].request)
        BY <3>2, KeysTellConnections DEF EntriesMatch
      <4>4. answer'.op = "disconnect" /\ answer'.request = r
        BY <3>2 DEF Answer
      <4>5. QED
        BY <4>1, <4>2, <4>3, <4>4
    <3>3. QED
      BY <2>4, <3>1, <3>2 DEF Disconnect, Refuse, Release
  <2>5. ASSUME NEW k \in DOMAIN pool, Evict(k)
        PROVE  Kept
    BY <2>5 DEF Evict
  <2>6. QED
    BY <2>3, <2>4, <2>5 DEF KeysNext
<1>2. QED
  BY <1>1, KeysInvariance, PTL DEF KeysSpec, LeasesAreKept

\* A query on a preset is served exactly if its session holds the connection,
\* however either request writes it (acquireConnection).
THEOREM ConnectedIsFound == KeysSpec => ConnectedMeansFound
<1> DEFINE Found == /\ answer' # None /\ answer' # answer
                    /\ answer'.op = "query" /\ answer'.request.id \in PresetIDs
                    /\ ParseSeeds(answer'.request)
                    => ( answer'.status = "served"
                         <=> \E k \in DOMAIN pool :
                                 /\ Alike(answer'.request, pool[k].request)
                                 /\ RequestLease(answer'.request) \in pool[k].leases )
<1>1. KeysIInv /\ [KeysNext]_keysVars => [Found]_keysVars
  <2> SUFFICES ASSUME EntriesMatch, KeysNext
               PROVE  Found
    BY DEF KeysIInv
  <2>1. ASSUME NEW op, NEW r \in Requests, Refuse(op, r)
        PROVE  Found
    BY <2>1 DEF Refuse, Answer
  <2>2. ASSUME NEW op, NEW r \in Requests, Get(op, r),
               op = "query" => r.id \notin PresetIDs
        PROVE  Found
    BY <2>2 DEF Get, Answer
  <2>3. ASSUME NEW r \in Requests, AcquireExisting(r)
        PROVE  Found
    <3> DEFINE k == ConnectionKey(r)
    <3>1. answer'.request = r /\ (answer'.status = "served" <=>
              k \in DOMAIN pool /\ RequestLease(r) \in pool[k].leases)
      BY <2>3 DEF AcquireExisting, Answer
    <3>2. \A j \in DOMAIN pool : Alike(r, pool[j].request) <=> j = k
      BY KeysTellConnections DEF EntriesMatch
    <3>3. QED
      BY <3>1, <3>2
  <2>4. ASSUME NEW r \in Requests, Disconnect(r)
        PROVE  Found
    BY <2>1, <2>4 DEF Disconnect, Answer
  <2>5. ASSUME NEW r \in Requests, Connect(r) \/ AcquireConnection(r)
        PROVE  Found
    BY <2>1, <2>2, <2>3, <2>5 DEF Connect, AcquireConnection
  <2>6. ASSUME NEW k \in DOMAIN pool, Evict(k)
        PROVE  Found
    BY <2>6 DEF Evict
  <2>7. QED
    BY <2>4, <2>5, <2>6 DEF KeysNext
<1>2. QED
  BY <1>1, KeysInvariance, PTL DEF KeysSpec, ConnectedMeansFound

-----------------------------------------------------------------------------
USE DEF configVars, seen

-----------------------------------------------------------------------------
(* PresetConfig: the inductive invariant *)

\* A profile's connections; how many profiles are begun, and how many connections
\* of the last one are checked; the connections that are checked so far.
Conns(p) == file.profiles[p].connections
Begun == Len(file.profiles) - Len(todo)
Here == Len(Conns(Begun)) - Len(profile.rest)
Checked == {w \in Written : \/ w[1] < Begun
                            \/ w[1] = Begun /\ (profile = Unset \/ w[2] <= Here)}

\* What is left to check is what the file has behind what is checked.
Position ==
    /\ todo \in Seq(WrittenProfiles) /\ Len(todo) <= Len(file.profiles)
    /\ \A i \in 1..Len(todo) : todo[i] = file.profiles[Begun + i]
    /\ profile # Unset =>
           /\ Begun >= 1
           /\ profile \in [id : Text, rest : Seq(WrittenConnections)]
           /\ Here >= 0
           /\ \A i \in 1..Len(profile.rest) : profile.rest[i] = Conns(Begun)[Here + i]
    /\ startup = "ide" => Begun = 0 /\ profile = Unset
    /\ startup = "loaded" => todo = <<>> /\ profile = Unset

\* The code's three maps hold the IDs and names of what is checked.
SeenSoFar ==
    /\ profileIDs = {Trim[file.profiles[p].id] : p \in 1..Begun}
    /\ connectionIDs = {Trim[WrittenAt(w).id] : w \in Checked}
    /\ connectionNames = {Trim[WrittenAt(w).name] : w \in Checked}

\* What is checked keeps the rules, and no two of it clash.
SoundSoFar ==
    /\ \A p \in 1..Begun : ProfileRule(file.profiles[p])
    /\ \A p, q \in 1..Begun :
           Trim[file.profiles[p].id] = Trim[file.profiles[q].id] => p = q
    /\ \A w \in Checked : ConnectionRule(WrittenAt(w))
    /\ \A v, w \in Checked : Clash(WrittenAt(v), WrittenAt(w)) => v = w

\* What is checked is loaded, normalised, and nothing else is.
LoadedSoFar ==
    /\ IsFiniteSet(Checked) /\ Cardinality(Checked) = Len(loaded)
    /\ loaded \in Seq(WrittenConnections)
    /\ \A i \in 1..Len(loaded) : \E w \in Checked : loaded[i] = Normalized(WrittenAt(w))
    /\ \A w \in Checked : \E i \in 1..Len(loaded) : loaded[i] = Normalized(WrittenAt(w))
    /\ \A i, j \in 1..Len(loaded) :
           loaded[i].id = loaded[j].id \/ loaded[i].name = loaded[j].name => i = j

\* validatePythonIDEConfig refuses the file.
IDEFault == file.ide.enabled /\ ~(IsFree(file.ide.path) /\ file.ide.credentials)

ConfigIInv ==
    /\ file \in Files
    /\ startup \in {"opening", "ide", "reading", "loaded", "refused"}
    /\ startup \in {"ide", "reading"} => file.state = "json"
    /\ path # Unset => IsFree(path) /\ path \in Seq(STRING)
    /\ startup = "opening" => Unopened
    /\ startup = "refused" => /\ loaded = <<>>
                              /\ file.state = "json" => ~Sound \/ IDEFault
    /\ startup = "loaded" /\ file.state # "json" => loaded = <<>>
    /\ startup \in {"ide", "reading", "loaded"} /\ file.state = "json" =>
           Position /\ SeenSoFar /\ SoundSoFar /\ LoadedSoFar

-----------------------------------------------------------------------------
(* The rules, piece by piece *)

\* Where the connections of the file are.
LEMMA WrittenIs ==
  /\ \A p, c : <<p, c>> \in Written <=> p \in DOMAIN file.profiles /\ c \in DOMAIN Conns(p)
  /\ \A w \in Written : w = <<w[1], w[2]>> /\ w[1] \in DOMAIN file.profiles
                        /\ w[2] \in DOMAIN Conns(w[1])
  /\ \A p, c : WrittenAt(<<p, c>>) = Conns(p)[c]
BY DEF Written, WrittenAt, Conns

\* What validatePresetConfig keeps of a connection, and that its tests of the
\* trimmed fields are the rules the operator was given.
LEMMA NormalizedIs ==
  ASSUME NEW c \in WrittenConnections
  PROVE  /\ Normalized(c) \in WrittenConnections
         /\ Normalized(c).id = Trim[c.id] /\ Normalized(c).name = Trim[c.name]
         /\ Acceptable(Normalized(c)) <=> /\ ConnectionRule(c)
                                          /\ Trim[c.id] \notin connectionIDs
                                          /\ Trim[c.name] \notin connectionNames
<1> DEFINE e == Environment(c.environment)
<1>1. /\ c.id \in Text /\ c.name \in Text /\ c.tool \in Text /\ c.mode \in Text
      /\ c.environment \in Text /\ c.hosts \in Seq(Int \cup {Unset}) \cup {Unset}
      /\ c.port \in Int \cup {Unset}
  BY DEF WrittenConnections
<1>2. e \in Text /\ (e \in {"prod", "stage"}
                     <=> Lower[Trim[c.environment]] \in {"", "prod", "stage"})
  BY <1>1, TextsAreNormalised DEF Environment
<1> HIDE DEF e
<1>3. Normalized(c) \in WrittenConnections
  BY <1>1, <1>2, TextsAreNormalised DEF Normalized, WrittenConnections, e
<1>4. Acceptable(Normalized(c)) <=> /\ ConnectionRule(c)
                                    /\ Trim[c.id] \notin connectionIDs
                                    /\ Trim[c.name] \notin connectionNames
  <2>1. "" \notin Prefixed /\ "" \notin Tools
    BY TextsAreNormalised
  <2>2. PICK k : k = Normalized(c)
    OBVIOUS
  <2>3. /\ k.id = Trim[c.id] /\ k.name = Trim[c.name] /\ k.tool = Trim[c.tool]
        /\ k.mode = Trim[c.mode] /\ k.environment = e /\ k.hosts = c.hosts /\ k.port = c.port
    BY <2>2 DEF Normalized, e
  <2>4. Acceptable(k) => ConnectionRule(c)
    BY <1>2, <2>3 DEF Acceptable, ConnectionRule
  <2>5. Acceptable(k) => /\ Trim[c.id] \notin connectionIDs
                         /\ Trim[c.name] \notin connectionNames
    BY <2>3 DEF Acceptable
  <2>6. ASSUME ConnectionRule(c), Trim[c.id] \notin connectionIDs,
               Trim[c.name] \notin connectionNames
        PROVE  Acceptable(k)
    BY <1>2, <2>1, <2>3, <2>6 DEF Acceptable, ConnectionRule
  <2>7. QED
    BY <2>2, <2>4, <2>5, <2>6
<1>5. QED
  BY <1>3, <1>4 DEF Normalized

\* What a file that is JSON holds.
LEMMA FileTyped ==
  ASSUME file \in Files, file.state = "json"
  PROVE  /\ file.profiles \in Seq(WrittenProfiles) /\ file.ide \in IDEs
         /\ \A p \in DOMAIN file.profiles :
                file.profiles[p] \in WrittenProfiles /\ Conns(p) \in Seq(WrittenConnections)
         /\ \A w \in Written : WrittenAt(w) \in WrittenConnections
<1>1. file.profiles \in Seq(WrittenProfiles) /\ file.ide \in IDEs
  BY FilesAreTyped
<1>2. \A p \in DOMAIN file.profiles :
          file.profiles[p] \in WrittenProfiles /\ Conns(p) \in Seq(WrittenConnections)
  <2>1. \A p \in DOMAIN file.profiles : file.profiles[p] \in WrittenProfiles
    BY <1>1
  <2>2. QED
    BY <2>1 DEF WrittenProfiles, Conns
<1>3. ASSUME NEW w \in Written
      PROVE  WrittenAt(w) \in WrittenConnections
  <2>1. w[1] \in DOMAIN file.profiles /\ w[2] \in DOMAIN Conns(w[1])
    BY WrittenIs
  <2>2. Conns(w[1]) \in Seq(WrittenConnections)
    BY <1>2, <2>1
  <2>3. Conns(w[1])[w[2]] \in WrittenConnections
    BY <2>1, <2>2
  <2>4. QED
    BY <2>3 DEF WrittenAt, Conns
<1>4. QED
  BY <1>1, <1>2, <1>3

-----------------------------------------------------------------------------
(* Steps *)

\* What is said of the file alone stays while the file does.
LEMMA FileStays ==
  ASSUME file' = file
  PROVE  /\ Written' = Written /\ Sound' = Sound /\ IDEFault' = IDEFault
         /\ \A w : WrittenAt(w)' = WrittenAt(w)
         /\ \A p : Conns(p)' = Conns(p)
BY DEF Written, WrittenAt, Conns, Sound, IDEFault

\* Before the file is opened the invariant holds.
LEMMA ConfigInitHolds == ConfigInit => ConfigIInv
BY DEF ConfigInit, Unopened, ConfigIInv

\* A file that is not sound, or whose IDE is not, may be refused.
LEMMA RefuseStep ==
  ASSUME ConfigIInv, RefuseFile, file.state = "json" => ~Sound \/ IDEFault
  PROVE  ConfigIInv'
<1>1. /\ file' = file /\ path' = path /\ startup' = "refused" /\ loaded' = <<>>
  BY DEF RefuseFile
<1>2. Sound' = Sound /\ IDEFault' = IDEFault
  BY <1>1, FileStays
<1>3. QED
  BY <1>1, <1>2 DEF ConfigIInv, IsFree

\* Opening the file keeps the invariant (loadPresetConfig).
LEMMA OpenStep ==
  ASSUME ConfigIInv, OpenFile
  PROVE  ConfigIInv'
<1>1. /\ file \in Files /\ startup = "opening" /\ Unopened
  BY DEF ConfigIInv, OpenFile
<1>2. CASE file.state = "unreadable" /\ RefuseFile
  BY <1>2, RefuseStep
<1>3. CASE /\ file.state \in {"missing", "empty"} /\ startup' = "loaded"
           /\ UNCHANGED <<file, todo, profile, seen, loaded, path>>
  BY <1>1, <1>3 DEF ConfigIInv, Unopened, IsFree
<1>4. CASE /\ file.state = "json" /\ startup' = "ide" /\ todo' = file.profiles
           /\ UNCHANGED <<file, profile, seen, loaded, path>>
  <2>1. /\ file.profiles \in Seq(WrittenProfiles) /\ Len(file.profiles) \in Nat
    BY <1>1, <1>4, FileTyped
  <2>2. Begun' = 0
    BY <1>4, <2>1 DEF Begun
  <2>3. \A w \in Written : w[1] >= 1
    <3>1. DOMAIN file.profiles = 1..Len(file.profiles)
      BY <2>1
    <3>2. QED
      BY <2>1, <3>1, WrittenIs
  <2>4. Checked' = {}
    <3>1. \A w \in Written : w[1] \in Nat
      <4>1. DOMAIN file.profiles = 1..Len(file.profiles)
        BY <2>1
      <4>2. QED
        BY <2>1, <4>1, WrittenIs
    <3>2. \A w \in Written : ~(w[1] < Begun') /\ w[1] # Begun'
      BY <2>2, <2>3, <3>1
    <3>3. Written' = Written
      BY <1>4, FileStays
    <3>4. QED
      BY <3>2, <3>3 DEF Checked
  <2>5. Position'
    <3>1. \A i \in 1..Len(todo') : todo'[i] = file.profiles[Begun' + i]
      BY <1>4, <2>1, <2>2
    <3>2. QED
      BY <1>1, <1>4, <2>1, <2>2, <3>1 DEF Position, Unopened
  <2>6. SeenSoFar'
    BY <1>1, <1>4, <2>2, <2>4 DEF SeenSoFar, Unopened
  <2>7. SoundSoFar'
    BY <2>2, <2>4 DEF SoundSoFar
  <2>8. LoadedSoFar'
    <3>1. loaded' = <<>>
      BY <1>1, <1>4 DEF Unopened
    <3>2. QED
      BY <2>4, <3>1, FS_EmptySet DEF LoadedSoFar
  <2>9. QED
    BY <1>1, <1>4, <2>5, <2>6, <2>7, <2>8 DEF ConfigIInv, Unopened
<1>5. QED
  BY <1>2, <1>3, <1>4 DEF OpenFile

\* Steps that leave the walk where it is.
LEMMA SameWalk ==
  ASSUME UNCHANGED <<file, todo, profile, seen, loaded>>
  PROVE  /\ Begun' = Begun /\ Checked' = Checked
         /\ SeenSoFar' = SeenSoFar /\ SoundSoFar' = SoundSoFar
         /\ LoadedSoFar' = LoadedSoFar
<1>1. Begun' = Begun
  BY DEF Begun
<1>2. Written' = Written /\ (\A w : WrittenAt(w)' = WrittenAt(w))
  BY FileStays
<1>3. Here' = Here
  BY <1>1 DEF Here, Conns
<1>4. Checked' = Checked
  BY <1>1, <1>2, <1>3 DEF Checked
<1>5. SeenSoFar' = SeenSoFar /\ SoundSoFar' = SoundSoFar
  BY <1>1, <1>2, <1>4 DEF SeenSoFar, SoundSoFar
<1>6. LoadedSoFar' = LoadedSoFar
  BY <1>2, <1>4 DEF LoadedSoFar
<1>7. QED
  BY <1>1, <1>4, <1>5, <1>6

\* Checking the IDE keeps the invariant (validatePythonIDEConfig).
LEMMA IDEStep ==
  ASSUME ConfigIInv, CheckIDE
  PROVE  ConfigIInv'
<1>1. /\ file \in Files /\ file.state = "json" /\ startup = "ide" /\ file.ide \in IDEs
  BY FileTyped DEF ConfigIInv, CheckIDE
<1>2. CASE file.ide.enabled /\ ~(IsFree(file.ide.path) /\ file.ide.credentials) /\ RefuseFile
  BY <1>2, RefuseStep DEF IDEFault
<1>3. CASE /\ file.ide.enabled => IsFree(file.ide.path) /\ file.ide.credentials
           /\ path' = IF file.ide.enabled THEN file.ide.path ELSE Unset
           /\ startup' = "reading"
           /\ UNCHANGED <<file, todo, profile, seen, loaded>>
  <2>1. Position'
    BY <1>1, <1>3, SameWalk DEF ConfigIInv, Position, Here, Conns
  <2>2. path' # Unset => IsFree(path') /\ path' \in Seq(STRING)
    BY <1>1, <1>3 DEF IDEs
  <2>3. QED
    BY <1>1, <1>3, <2>1, <2>2, SameWalk DEF ConfigIInv, IsFree
<1>4. QED
  BY <1>1, <1>2, <1>3 DEF CheckIDE

\* Where the walk is while the file is read.
LEMMA Reading ==
  ASSUME ConfigIInv, startup \in {"ide", "reading"}
  PROVE  /\ file \in Files /\ file.state = "json"
         /\ Position /\ SeenSoFar /\ SoundSoFar /\ LoadedSoFar
         /\ DOMAIN file.profiles = 1..Len(file.profiles)
         /\ Len(file.profiles) \in Nat /\ Len(todo) \in Nat
         /\ Begun \in 0..Len(file.profiles)
         /\ \A p \in DOMAIN file.profiles : /\ DOMAIN Conns(p) = 1..Len(Conns(p))
                                            /\ Len(Conns(p)) \in Nat
<1>1. /\ file \in Files /\ file.state = "json"
      /\ Position /\ SeenSoFar /\ SoundSoFar /\ LoadedSoFar
  BY DEF ConfigIInv
<1>2. file.profiles \in Seq(WrittenProfiles) /\ todo \in Seq(WrittenProfiles)
  BY <1>1, FileTyped DEF Position
<1>3. Begun \in 0..Len(file.profiles)
  BY <1>1, <1>2 DEF Begun, Position
<1>4. \A p \in DOMAIN file.profiles : Conns(p) \in Seq(WrittenConnections)
  BY <1>1, FileTyped
<1>5. QED
  BY <1>1, <1>2, <1>3, <1>4

\* Checking a profile keeps the invariant: it is refused for a rule, or for
\* an ID that an earlier profile has.
LEMMA ProfileStep ==
  ASSUME ConfigIInv, CheckProfile
  PROVE  ConfigIInv'
<1> DEFINE next == Head(todo)
           p == Begun + 1
<1>1. /\ startup = "reading" /\ profile = Unset /\ todo # <<>>
  BY DEF CheckProfile
<1>2. /\ Position /\ SeenSoFar /\ SoundSoFar /\ LoadedSoFar
      /\ DOMAIN file.profiles = 1..Len(file.profiles)
      /\ Len(file.profiles) \in Nat /\ Begun \in 0..Len(file.profiles)
      /\ file \in Files /\ file.state = "json"
  BY <1>1, Reading
<1>3. /\ todo \in Seq(WrittenProfiles) /\ Len(todo) \in Nat \ {0}
      /\ p \in 1..Len(file.profiles)
      /\ next = todo[1] /\ next = file.profiles[p]
  <2>1. todo \in Seq(WrittenProfiles) /\ Len(todo) \in Nat \ {0} /\ next = todo[1]
    BY <1>1, <1>2 DEF Position
  <2>2. p \in 1..Len(file.profiles)
    BY <1>2, <2>1 DEF Begun, Position
  <2>3. QED
    BY <1>2, <2>1, <2>2 DEF Position
<1>4. CASE /\ "" \in {Trim[next.id], Trim[next.label]} \/ Trim[next.id] \in {"saved"} \cup profileIDs
           /\ RefuseFile
  <2>1. CASE ~ProfileRule(file.profiles[p])
    BY <1>2, <1>3, <1>4, <2>1, RefuseStep DEF Sound
  <2>2. CASE ProfileRule(file.profiles[p])
    <3>1. Trim[next.id] \in profileIDs
      BY <1>3, <1>4, <2>2 DEF ProfileRule
    <3>2. PICK q \in 1..Begun : Trim[file.profiles[q].id] = Trim[next.id]
      BY <1>2, <3>1 DEF SeenSoFar
    <3>3. q \in DOMAIN file.profiles /\ p \in DOMAIN file.profiles /\ q # p
      BY <1>2, <1>3
    <3>4. ~Sound
      BY <1>3, <3>2, <3>3 DEF Sound
    <3>5. QED
      BY <1>4, <3>4, RefuseStep
  <2>3. QED
    BY <2>1, <2>2
<1>5. CASE /\ "" \notin {Trim[next.id], Trim[next.label]}
           /\ Trim[next.id] # "saved" /\ Trim[next.id] \notin profileIDs
           /\ profileIDs' = profileIDs \cup {Trim[next.id]}
           /\ profile' = [id |-> Trim[next.id], rest |-> next.connections]
           /\ todo' = Tail(todo)
           /\ UNCHANGED <<file, connectionIDs, connectionNames, loaded, path, startup>>
  <2>1. /\ todo' \in Seq(WrittenProfiles) /\ Len(todo') = Len(todo) - 1
        /\ \A i \in 1..Len(todo') : todo'[i] = todo[i + 1]
    BY <1>1, <1>3, <1>5, HeadTailProperties
  <2>2. Begun' = p
    <3>1. Begun' = Len(file.profiles) - (Len(todo) - 1)
      BY <1>5, <2>1 DEF Begun
    <3>2. QED
      BY <1>2, <1>3, <3>1 DEF Begun
  <2>3. /\ Written' = Written /\ (\A w : WrittenAt(w)' = WrittenAt(w))
        /\ next.connections = Conns(p)
    BY <1>3, <1>5, FileStays DEF Conns
  <2>4. /\ Conns(p) \in Seq(WrittenConnections) /\ next \in WrittenProfiles
        /\ Len(Conns(p)) \in Nat
    BY <1>2, <1>3, FileTyped
  <2>5. /\ profile' \in [id : Text, rest : Seq(WrittenConnections)]
        /\ profile'.rest = Conns(p)
    <3>1. next.id \in Text
      BY <2>4 DEF WrittenProfiles
    <3>2. QED
      BY <1>5, <2>3, <2>4, <3>1, TextsAreNormalised
  <2>6. profile' # Unset
    BY <2>5, UnsetIsNone
  <2>7. Here' = 0
    <3>1. Here' = Len(Conns(Begun)') - Len(profile'.rest)
      BY DEF Here
    <3>2. Conns(Begun)' = Conns(p)
      BY <1>5, <2>2 DEF Conns
    <3>3. QED
      BY <2>4, <2>5, <3>1, <3>2
  <2>8. Checked' = Checked
    <3>1. ASSUME NEW w \in Written
          PROVE  w[1] \in Nat /\ w[2] \in Nat /\ w[2] >= 1
      <4>1. w[1] \in DOMAIN file.profiles /\ w[2] \in DOMAIN Conns(w[1])
        BY WrittenIs
      <4>2. QED
        BY <1>1, <1>2, <4>1, Reading
    <3>2. Checked = {w \in Written : w[1] < Begun \/ w[1] = Begun}
      BY <1>1 DEF Checked
    <3>3. Checked' = {w \in Written : w[1] < p \/ (w[1] = p /\ w[2] <= 0)}
      BY <2>2, <2>3, <2>6, <2>7 DEF Checked
    <3>4. QED
      BY <1>2, <3>1, <3>2, <3>3
  <2>9. 1..p = 1..Begun \cup {p}
    BY <1>2
  <2>10. Position'
    <3>1. Len(todo') <= Len(file.profiles)
      BY <1>2, <1>3, <2>1 DEF Position
    <3>2. \A i \in 1..Len(todo') : todo'[i] = file.profiles[Begun' + i]
      <4> SUFFICES ASSUME NEW i \in 1..Len(todo')
                   PROVE  todo'[i] = file.profiles[p + i]
        BY <2>2
      <4>1. i + 1 \in 1..Len(todo) /\ todo'[i] = todo[i + 1]
        BY <1>3, <2>1
      <4>2. todo[i + 1] = file.profiles[Begun + (i + 1)]
        BY <1>2, <4>1 DEF Position
      <4>3. QED
        BY <1>2, <4>1, <4>2
    <3>3. \A i \in 1..Len(profile'.rest) : profile'.rest[i] = Conns(p)[0 + i]
      BY <2>4, <2>5
    <3>4. Begun' >= 1
      BY <1>2, <2>2
    <3>5. Conns(Begun)' = Conns(p)
      BY <1>5, <2>2 DEF Conns
    <3>6. \A i \in 1..Len(profile'.rest) : profile'.rest[i] = Conns(Begun)'[Here' + i]
      BY <2>7, <3>3, <3>5
    <3>7. Here' >= 0
      BY <2>7
    <3>8. /\ startup' = "reading" /\ file' = file
          /\ todo' \in Seq(WrittenProfiles)
          /\ profile' \in [id : Text, rest : Seq(WrittenConnections)]
      BY <1>1, <1>5, <2>1, <2>5
    <3>9. QED
      BY <3>1, <3>2, <3>4, <3>6, <3>7, <3>8 DEF Position
  <2>11. SeenSoFar'
    <3>1. profileIDs' = {Trim[file.profiles[i].id] : i \in 1..p}
      BY <1>2, <1>3, <1>5, <2>9 DEF SeenSoFar
    <3>2. QED
      <4>1. /\ connectionIDs = {Trim[WrittenAt(w).id] : w \in Checked}
            /\ connectionNames = {Trim[WrittenAt(w).name] : w \in Checked}
        BY ONLY <1>2 DEF SeenSoFar
      <4>2. /\ connectionIDs' = {Trim[WrittenAt(w)'.id] : w \in Checked'}
            /\ connectionNames' = {Trim[WrittenAt(w)'.name] : w \in Checked'}
        BY ONLY <1>5, <2>3, <2>8, <4>1
      <4>3. QED
        BY <1>5, <2>2, <3>1, <4>2 DEF SeenSoFar
  <2>12. SoundSoFar'
    <3>1. ProfileRule(file.profiles[p])
      BY <1>3, <1>5 DEF ProfileRule
    <3>2. \A q \in 1..Begun : Trim[file.profiles[q].id] # Trim[file.profiles[p].id]
      BY <1>2, <1>3, <1>5 DEF SeenSoFar
    <3>3. \A i \in 1..p : ProfileRule(file.profiles[i])
      BY <1>2, <2>9, <3>1 DEF SoundSoFar
    <3>4. \A i, j \in 1..p : Trim[file.profiles[i].id] = Trim[file.profiles[j].id] => i = j
      BY <1>2, <2>9, <3>2 DEF SoundSoFar
    <3>5. QED
      BY <1>2, <1>5, <2>2, <2>3, <2>8, <3>3, <3>4 DEF SoundSoFar
  <2>13. LoadedSoFar'
    BY <1>2, <1>5, <2>3, <2>8 DEF LoadedSoFar
  <2>14. QED
    BY <1>1, <1>2, <1>5, <2>10, <2>11, <2>12, <2>13 DEF ConfigIInv, IsFree
<1>6. QED
  BY <1>4, <1>5 DEF CheckProfile

\* The connection that is checked next, and the list with it.
LEMMA ConnectionNext ==
  ASSUME ConfigIInv, startup = "reading", profile # Unset, profile.rest # <<>>,
         NEW w, w = <<Begun, Here + 1>>
  PROVE  /\ w \in Written /\ w \notin Checked
         /\ WrittenAt(w) = Head(profile.rest) /\ WrittenAt(w) \in WrittenConnections
         /\ profile \in [id : Text, rest : Seq(WrittenConnections)]
         /\ Len(profile.rest) \in Nat \ {0} /\ Here \in Nat
         /\ Begun \in DOMAIN file.profiles /\ Begun \in Nat
<1>1. /\ file \in Files /\ file.state = "json" /\ Position /\ Begun \in 0..Len(file.profiles)
      /\ DOMAIN file.profiles = 1..Len(file.profiles) /\ Len(file.profiles) \in Nat
  BY Reading
<1>2. /\ Begun >= 1 /\ Here >= 0 /\ profile \in [id : Text, rest : Seq(WrittenConnections)]
      /\ \A i \in 1..Len(profile.rest) : profile.rest[i] = Conns(Begun)[Here + i]
  BY <1>1 DEF Position
<1>3. Begun \in DOMAIN file.profiles /\ Begun \in Nat
  BY <1>1, <1>2
<1>4. profile.rest \in Seq(WrittenConnections) /\ Len(profile.rest) \in Nat \ {0}
      /\ Head(profile.rest) = profile.rest[1]
  BY <1>2
<1>5. DOMAIN Conns(Begun) = 1..Len(Conns(Begun)) /\ Len(Conns(Begun)) \in Nat
  BY <1>3, Reading
<1>6. Here \in Nat /\ Here + 1 \in 1..Len(Conns(Begun))
  BY <1>2, <1>4, <1>5 DEF Here
<1>7. w \in Written
  BY <1>3, <1>5, <1>6, WrittenIs
<1>8. w \notin Checked
  BY <1>3, <1>6 DEF Checked
<1>9. WrittenAt(w) = Head(profile.rest)
  <2>1. profile.rest[1] = Conns(Begun)[Here + 1]
    BY <1>2, <1>4
  <2>2. QED
    BY <1>4, <2>1, WrittenIs
<1>10. WrittenAt(w) \in WrittenConnections
  BY <1>1, <1>7, FileTyped
<1>11. QED
  BY <1>2, <1>3, <1>4, <1>6, <1>7, <1>8, <1>9, <1>10

\* One more connection in the list.
LEMMA LoadedGrows ==
  ASSUME LoadedSoFar, SeenSoFar, NEW w, w \notin Checked,
         WrittenAt(w) \in WrittenConnections, Acceptable(Normalized(WrittenAt(w))),
         Checked' = Checked \cup {w}, \A v : WrittenAt(v)' = WrittenAt(v),
         loaded' = Append(loaded, Normalized(WrittenAt(w)))
  PROVE  LoadedSoFar'
<1>1. PICK c : c = Normalized(WrittenAt(w))
  OBVIOUS
<1>2. c \in WrittenConnections /\ c.id \notin connectionIDs /\ c.name \notin connectionNames
  <2>1. /\ c.id = Trim[WrittenAt(w).id] /\ c.name = Trim[WrittenAt(w).name]
        /\ c \in WrittenConnections
    BY <1>1, NormalizedIs
  <2>2. QED
    BY <1>1, <2>1, NormalizedIs
<1>3. loaded \in Seq(WrittenConnections) /\ Len(loaded) \in Nat
  BY DEF LoadedSoFar
<1>4. /\ loaded' \in Seq(WrittenConnections) /\ Len(loaded') = Len(loaded) + 1
      /\ \A i \in 1..Len(loaded) : loaded'[i] = loaded[i]
      /\ loaded'[Len(loaded) + 1] = c
  BY <1>1, <1>2, <1>3, AppendProperties
<1>5. 1..Len(loaded') = 1..Len(loaded) \cup {Len(loaded) + 1}
  BY <1>3, <1>4
<1>6. IsFiniteSet(Checked') /\ Cardinality(Checked') = Len(loaded')
  BY <1>3, <1>4, FS_AddElement DEF LoadedSoFar
<1>7. ASSUME NEW i \in 1..Len(loaded')
      PROVE  \E v \in Checked' : loaded'[i] = Normalized(WrittenAt(v))
  <2>1. CASE i \in 1..Len(loaded)
    BY <1>4, <2>1 DEF LoadedSoFar
  <2>2. CASE i = Len(loaded) + 1
    BY <1>1, <1>4, <2>2
  <2>3. QED
    BY <1>5, <2>1, <2>2
<1>8. ASSUME NEW v \in Checked'
      PROVE  \E i \in 1..Len(loaded') : loaded'[i] = Normalized(WrittenAt(v))
  <2>1. CASE v \in Checked
    <3>1. PICK i \in 1..Len(loaded) : loaded[i] = Normalized(WrittenAt(v))
      BY <2>1 DEF LoadedSoFar
    <3>2. QED
      BY <1>4, <1>5, <3>1
  <2>2. CASE v = w
    BY <1>1, <1>4, <1>5, <2>2
  <2>3. QED
    BY <2>1, <2>2
<1>9. \A i \in 1..Len(loaded) : loaded[i].id # c.id /\ loaded[i].name # c.name
  <2> SUFFICES ASSUME NEW i \in 1..Len(loaded)
               PROVE  loaded[i].id # c.id /\ loaded[i].name # c.name
    OBVIOUS
  <2>1. PICK v \in Checked : loaded[i] = Normalized(WrittenAt(v))
    BY DEF LoadedSoFar
  <2>2. Normalized(WrittenAt(v)).id = Trim[WrittenAt(v).id]
        /\ Normalized(WrittenAt(v)).name = Trim[WrittenAt(v).name]
    BY DEF Normalized
  <2>3. loaded[i].id \in connectionIDs /\ loaded[i].name \in connectionNames
    BY <2>1, <2>2 DEF SeenSoFar
  <2>4. QED
    BY <1>2, <2>3
<1>10. ASSUME NEW i \in 1..Len(loaded'), NEW j \in 1..Len(loaded'),
              loaded'[i].id = loaded'[j].id \/ loaded'[i].name = loaded'[j].name
       PROVE  i = j
  <2>1. CASE i \in 1..Len(loaded) /\ j \in 1..Len(loaded)
    BY <1>4, <1>10, <2>1 DEF LoadedSoFar
  <2>2. CASE i \in 1..Len(loaded) /\ j = Len(loaded) + 1
    BY <1>4, <1>9, <1>10, <2>2
  <2>3. CASE i = Len(loaded) + 1 /\ j \in 1..Len(loaded)
    BY <1>4, <1>9, <1>10, <2>3
  <2>4. QED
    BY <1>5, <2>1, <2>2, <2>3
<1>11. \A v : Normalized(WrittenAt(v))' = Normalized(WrittenAt(v))
  BY DEF Normalized, Environment
<1>12. QED
  <2>1. \A i \in 1..Len(loaded') : \E v \in Checked' : loaded'[i] = Normalized(WrittenAt(v))'
    BY <1>7, <1>11
  <2>2. \A v \in Checked' : \E i \in 1..Len(loaded') : loaded'[i] = Normalized(WrittenAt(v))'
    BY <1>8, <1>11
  <2>3. QED
    BY ONLY <1>4, <1>6, <1>10, <2>1, <2>2 DEF LoadedSoFar

\* Checking a connection keeps the invariant: it is refused for a rule, or
\* for an ID or a name that an earlier connection has, in whatever profile.
LEMMA ConnectionStep ==
  ASSUME ConfigIInv, CheckConnection
  PROVE  ConfigIInv'
<1>1. /\ startup = "reading" /\ profile # Unset /\ profile.rest # <<>>
  BY DEF CheckConnection
<1>2. /\ Position /\ SeenSoFar /\ SoundSoFar /\ LoadedSoFar
      /\ file \in Files /\ file.state = "json"
      /\ Len(file.profiles) \in Nat /\ Begun \in 0..Len(file.profiles)
  BY <1>1, Reading
<1>3. PICK w : w = <<Begun, Here + 1>>
  OBVIOUS
<1>4. PICK h : h = WrittenAt(w)
  OBVIOUS
<1>5. /\ w \in Written /\ w \notin Checked /\ h = Head(profile.rest)
      /\ h \in WrittenConnections
      /\ profile \in [id : Text, rest : Seq(WrittenConnections)]
      /\ Len(profile.rest) \in Nat \ {0} /\ Here \in Nat
      /\ Begun \in DOMAIN file.profiles /\ Begun \in Nat
  BY <1>1, <1>3, <1>4, ConnectionNext
<1>6. CASE ~Acceptable(Normalized(h)) /\ RefuseFile
  <2>1. ~Sound
    <3>1. \/ ~ConnectionRule(h)
          \/ Trim[h.id] \in connectionIDs \/ Trim[h.name] \in connectionNames
      BY <1>5, <1>6, NormalizedIs
    <3>2. CASE ~ConnectionRule(h)
      BY <1>4, <1>5, <3>2 DEF Sound
    <3>3. CASE Trim[h.id] \in connectionIDs \/ Trim[h.name] \in connectionNames
      <4>1. PICK v \in Checked : Trim[WrittenAt(v).id] = Trim[h.id]
                                 \/ Trim[WrittenAt(v).name] = Trim[h.name]
        BY <1>2, <3>3 DEF SeenSoFar
      <4>2. v \in Written /\ v # w /\ Clash(WrittenAt(v), WrittenAt(w))
        BY <1>4, <1>5, <4>1 DEF Checked, Clash
      <4>3. ASSUME Sound
            PROVE  \A x, y \in Written : Clash(WrittenAt(x), WrittenAt(y)) => x = y
        BY <4>3 DEF Sound
      <4>4. QED
        BY <1>5, <4>2, <4>3
    <3>4. QED
      BY <3>1, <3>2, <3>3
  <2>2. QED
    BY <1>6, <2>1, RefuseStep
<1>7. CASE /\ Acceptable(Normalized(h))
           /\ connectionIDs' = connectionIDs \cup {Normalized(h).id}
           /\ connectionNames' = connectionNames \cup {Normalized(h).name}
           /\ loaded' = Append(loaded, Normalized(h))
           /\ profile' = [profile EXCEPT !.rest = Tail(@)]
           /\ UNCHANGED <<file, todo, profileIDs, path, startup>>
  <2>1. /\ profile' \in [id : Text, rest : Seq(WrittenConnections)]
        /\ profile'.rest = Tail(profile.rest)
        /\ Len(profile'.rest) = Len(profile.rest) - 1
        /\ \A i \in 1..Len(profile'.rest) : profile'.rest[i] = profile.rest[i + 1]
    <3>1. profile.rest \in Seq(WrittenConnections)
      BY <1>5
    <3>2. /\ Tail(profile.rest) \in Seq(WrittenConnections)
          /\ Len(Tail(profile.rest)) = Len(profile.rest) - 1
          /\ \A i \in 1..Len(Tail(profile.rest)) : Tail(profile.rest)[i] = profile.rest[i + 1]
      BY <1>1, <3>1, HeadTailProperties
    <3>3. QED
      BY <1>5, <1>7, <3>2
  <2>2. profile' # Unset
    BY <2>1, UnsetIsNone
  <2>3. /\ Begun' = Begun /\ Written' = Written
        /\ \A v : WrittenAt(v)' = WrittenAt(v)
    BY <1>7, FileStays DEF Begun
  <2>4. Conns(Begun)' = Conns(Begun)
    BY <1>7, <2>3 DEF Conns
  <2>5. Here' = Here + 1
    <3>1. Len(Conns(Begun)) \in Nat
      BY <1>1, <1>5, Reading
    <3>2. QED
      BY <1>5, <2>1, <2>4, <3>1 DEF Here
  <2>6. Checked' = Checked \cup {w}
    <3>1. ASSUME NEW v \in Written
          PROVE  v = <<v[1], v[2]>> /\ v[1] \in Nat /\ v[2] \in Nat
      <4>1. v[1] \in DOMAIN file.profiles /\ v[2] \in DOMAIN Conns(v[1])
        BY WrittenIs
      <4>2. QED
        BY <1>1, <4>1, Reading, WrittenIs
    <3>2. Checked = {v \in Written : v[1] < Begun \/ (v[1] = Begun /\ v[2] <= Here)}
      BY <1>1 DEF Checked
    <3>3. Checked' = {v \in Written : v[1] < Begun \/ (v[1] = Begun /\ v[2] <= Here + 1)}
      BY <2>2, <2>3, <2>5 DEF Checked
    <3>4. ASSUME NEW v \in Written
          PROVE  v[1] = Begun /\ v[2] = Here + 1 <=> v = w
      BY <1>3, <3>1
    <3>5. QED
      BY <1>5, <3>1, <3>2, <3>3, <3>4
  <2>7. Position'
    <3>1. \A i \in 1..Len(profile'.rest) : profile'.rest[i] = Conns(Begun)'[Here' + i]
      <4> SUFFICES ASSUME NEW i \in 1..Len(profile'.rest)
                   PROVE  profile'.rest[i] = Conns(Begun)[(Here + 1) + i]
        BY <2>4, <2>5
      <4>1. i + 1 \in 1..Len(profile.rest) /\ profile'.rest[i] = profile.rest[i + 1]
        BY <1>5, <2>1
      <4>2. profile.rest[i + 1] = Conns(Begun)[Here + (i + 1)]
        BY <1>1, <1>2, <4>1 DEF Position
      <4>3. Here + (i + 1) = (Here + 1) + i
        BY <1>5
      <4>4. QED
        BY <4>1, <4>2, <4>3
    <3>2. Here' >= 0 /\ Begun' >= 1
      BY <1>1, <1>2, <1>5, <2>3, <2>5 DEF Position
    <3>3. startup' = "reading" /\ file' = file /\ todo' = todo
      BY <1>1, <1>7
    <3>4. QED
      BY <1>2, <2>1, <2>3, <3>1, <3>2, <3>3 DEF Position
  <2>8. Normalized(h).id = Trim[h.id] /\ Normalized(h).name = Trim[h.name]
    BY DEF Normalized
  <2>9. SeenSoFar'
    <3>1. connectionIDs' = {Trim[WrittenAt(v).id] : v \in Checked \cup {w}}
      BY <1>2, <1>4, <1>7, <2>8 DEF SeenSoFar
    <3>2. connectionNames' = {Trim[WrittenAt(v).name] : v \in Checked \cup {w}}
      BY <1>2, <1>4, <1>7, <2>8 DEF SeenSoFar
    <3>3. profileIDs' = {Trim[file.profiles[p].id] : p \in 1..Begun}
      BY <1>2, <1>7 DEF SeenSoFar
    <3>4. QED
      BY <1>7, <2>3, <2>6, <3>1, <3>2, <3>3 DEF SeenSoFar
  <2>10. SoundSoFar'
    <3>1. ConnectionRule(h) /\ Trim[h.id] \notin connectionIDs /\ Trim[h.name] \notin connectionNames
      BY <1>5, <1>7, NormalizedIs
    <3>2. \A v \in Checked : ~Clash(WrittenAt(v), h) /\ ~Clash(h, WrittenAt(v))
      BY <1>2, <3>1 DEF SeenSoFar, Clash
    <3>3. \A v \in Checked \cup {w} : ConnectionRule(WrittenAt(v))
      BY <1>2, <1>4, <3>1 DEF SoundSoFar
    <3>4. \A u, v \in Checked \cup {w} : Clash(WrittenAt(u), WrittenAt(v)) => u = v
      BY <1>2, <1>4, <3>2 DEF SoundSoFar
    <3>5. QED
      BY <1>2, <1>7, <2>3, <2>6, <3>3, <3>4 DEF SoundSoFar
  <2>11. LoadedSoFar'
    BY <1>2, <1>4, <1>5, <1>7, <2>3, <2>6, LoadedGrows
  <2>12. QED
    BY <1>1, <1>2, <1>7, <2>7, <2>9, <2>10, <2>11 DEF ConfigIInv, IsFree
<1>8. QED
  BY <1>5, <1>6, <1>7 DEF CheckConnection

\* A profile whose connections are checked leaves none of them out.
LEMMA DoneStep ==
  ASSUME ConfigIInv, ProfileDone
  PROVE  ConfigIInv'
<1>1. /\ startup = "reading" /\ profile # Unset /\ profile.rest = <<>> /\ profile' = Unset
      /\ UNCHANGED <<file, todo, seen, loaded, path, startup>>
  BY DEF ProfileDone
<1>2. /\ Position /\ SeenSoFar /\ SoundSoFar /\ LoadedSoFar
      /\ file \in Files /\ file.state = "json"
      /\ Len(file.profiles) \in Nat /\ Begun \in 0..Len(file.profiles)
  BY <1>1, Reading
<1>3. /\ Begun' = Begun /\ Written' = Written /\ Sound' = Sound
      /\ \A w : WrittenAt(w)' = WrittenAt(w)
  BY <1>1, FileStays DEF Begun
<1>4. Checked' = Checked
  <2>1. Begun \in DOMAIN file.profiles /\ Len(Conns(Begun)) \in Nat
        /\ DOMAIN Conns(Begun) = 1..Len(Conns(Begun))
    BY <1>1, <1>2, Reading DEF Position
  <2>2. Here = Len(Conns(Begun))
    <3>1. Len(profile.rest) = 0
      BY <1>1
    <3>2. QED
      BY <2>1, <3>1 DEF Here
  <2>3. ASSUME NEW w \in Written, w[1] = Begun
        PROVE  w[2] <= Here
    <3>1. w[2] \in DOMAIN Conns(Begun)
      BY <2>3, WrittenIs
    <3>2. QED
      BY <2>1, <2>2, <3>1
  <2>4. Checked = {w \in Written : w[1] < Begun \/ w[1] = Begun}
    BY <1>1, <2>3 DEF Checked
  <2>5. Checked' = {w \in Written : w[1] < Begun \/ w[1] = Begun}
    BY <1>1, <1>3 DEF Checked
  <2>6. QED
    BY <2>4, <2>5
<1>5. Position'
  BY <1>1, <1>2, <1>3 DEF Position
<1>6. SeenSoFar' /\ SoundSoFar'
  BY <1>1, <1>2, <1>3, <1>4 DEF SeenSoFar, SoundSoFar
<1>7. LoadedSoFar'
  <2>1. \A w : Normalized(WrittenAt(w))' = Normalized(WrittenAt(w))
    BY <1>3 DEF Normalized, Environment
  <2>2. LoadedSoFar /\ loaded' = loaded
    BY <1>1, <1>2
  <2>3. QED
    BY ONLY <1>4, <2>1, <2>2 DEF LoadedSoFar
<1>8. QED
  BY <1>1, <1>2, <1>5, <1>6, <1>7 DEF ConfigIInv, IsFree

\* A file whose profiles are checked may be served.
LEMMA LoadedStep ==
  ASSUME ConfigIInv, Loaded
  PROVE  ConfigIInv'
<1>1. /\ startup = "reading" /\ profile = Unset /\ todo = <<>> /\ startup' = "loaded"
      /\ UNCHANGED <<file, todo, profile, seen, loaded, path>>
  BY DEF Loaded
<1>2. Position /\ SeenSoFar /\ SoundSoFar /\ LoadedSoFar /\ file \in Files /\ file.state = "json"
  BY <1>1, Reading
<1>3. Position'
  BY <1>1, <1>2, SameWalk DEF Position
<1>4. QED
  BY <1>1, <1>2, <1>3, SameWalk DEF ConfigIInv, IsFree

\* A step of something else keeps the invariant.
LEMMA StutterStep ==
  ASSUME ConfigIInv, UNCHANGED configVars
  PROVE  ConfigIInv'
<1>1. Position' = Position
  BY SameWalk DEF Position, Here, Conns
<1>2. QED
  BY <1>1, SameWalk, FileStays DEF ConfigIInv, IsFree, Unopened

\* The inductive invariant holds in every state.
LEMMA ConfigInvariance == ConfigSpec => []ConfigIInv
<1>1. ConfigInit => ConfigIInv
  BY ConfigInitHolds
<1>2. ConfigIInv /\ [ConfigNext]_configVars => ConfigIInv'
  <2> SUFFICES ASSUME ConfigIInv, [ConfigNext]_configVars
               PROVE  ConfigIInv'
    OBVIOUS
  <2>1. CASE OpenFile
    BY <2>1, OpenStep
  <2>2. CASE CheckIDE
    BY <2>2, IDEStep
  <2>3. CASE CheckProfile
    BY <2>3, ProfileStep
  <2>4. CASE CheckConnection
    BY <2>4, ConnectionStep
  <2>5. CASE ProfileDone
    BY <2>5, DoneStep
  <2>6. CASE Loaded
    BY <2>6, LoadedStep
  <2>7. CASE UNCHANGED configVars
    BY <2>7, StutterStep
  <2>8. QED
    BY <2>1, <2>2, <2>3, <2>4, <2>5, <2>6, <2>7 DEF ConfigNext
<1>3. QED
  BY <1>1, <1>2, PTL DEF ConfigSpec

-----------------------------------------------------------------------------
(* A running server *)

\* A running server has checked every connection of its file.
LEMMA AllIsChecked ==
  ASSUME ConfigIInv, Running, file.state = "json"
  PROVE  /\ Checked = Written /\ SoundSoFar /\ LoadedSoFar
         /\ Begun = Len(file.profiles) /\ DOMAIN file.profiles = 1..Len(file.profiles)
         /\ file \in Files
<1>1. /\ Position /\ SoundSoFar /\ LoadedSoFar /\ file \in Files
      /\ todo = <<>> /\ profile = Unset
  BY DEF ConfigIInv, Running, Position
<1>2. file.profiles \in Seq(WrittenProfiles)
  BY <1>1, FileTyped
<1>3. /\ Begun = Len(file.profiles) /\ DOMAIN file.profiles = 1..Len(file.profiles)
      /\ Len(file.profiles) \in Nat
  <2>1. Len(todo) = 0
    BY <1>1
  <2>2. QED
    BY <1>2, <2>1 DEF Begun
<1>4. \A w \in Written : w[1] < Begun \/ w[1] = Begun
  BY <1>3, WrittenIs
<1>5. Checked = Written
  BY <1>1, <1>4 DEF Checked
<1>6. QED
  BY <1>1, <1>3, <1>5

\* Orby starts exactly with the files that keep the rules, for files of any
\* size and wherever in them two profiles or connections clash
\* (validatePresetConfig).
THEOREM LoadedIsSound == ConfigSpec => []LoadedIffSound
<1>1. ConfigIInv => LoadedIffSound
  <2> SUFFICES ASSUME ConfigIInv, file.state = "json"
               PROVE  /\ startup = "refused" => ~Sound \/ IDEFault
                      /\ Running => Sound /\ Len(loaded) = Cardinality(Written)
    BY DEF LoadedIffSound, IDEFault
  <2>1. startup = "refused" => ~Sound \/ IDEFault
    BY DEF ConfigIInv
  <2>2. ASSUME Running
        PROVE  Sound /\ Len(loaded) = Cardinality(Written)
    <3>1. /\ Checked = Written /\ SoundSoFar /\ LoadedSoFar
          /\ DOMAIN file.profiles = 1..Begun
      BY <2>2, AllIsChecked
    <3>2. Sound
      BY <3>1 DEF SoundSoFar, Sound
    <3>3. QED
      BY <3>1, <3>2 DEF LoadedSoFar
  <2>3. QED
    BY <2>1, <2>2
<1>2. QED
  BY <1>1, ConfigInvariance, PTL

\* First of one position is what is there.
LEMMA FirstOfOne ==
  ASSUME NEW i \in Int
  PROVE  First({i}) = loaded[i]
<1>1. (CHOOSE k \in {i} : \A j \in {i} : k <= j) = i
  <2>1. \A k \in {i} : k = i
    OBVIOUS
  <2>2. \E k \in {i} : \A j \in {i} : k <= j
    OBVIOUS
  <2>3. QED
    BY <2>1, <2>2
<1>2. QED
  BY <1>1 DEF First

\* The paths of the IDE are no other page's (pythonIDEPath, handleRoot).
LEMMA RoutesStayFree == ConfigIInv => RoutesStay
<1> SUFFICES ASSUME ConfigIInv, path # Unset
             PROVE  {path, Append(path, "login"), Append(path, "logout")}
                        \cap (Routes \cup {<<>>, <<"static", "app.js">>}) = {}
  BY DEF RoutesStay, IDERoutes
<1>1. IsFree(path) /\ path \in Seq(STRING)
  BY DEF ConfigIInv
<1>2. Len(path) \in Nat \ {0} /\ path # <<>>
  BY <1>1 DEF IsFree
<1>3. path \notin Routes \cup {<<>>, <<"static", "app.js">>}
  <2>1. Len(<<"static", "app.js">>) = 2 /\ <<"static", "app.js">>[1] = "static"
    OBVIOUS
  <2>2. QED
    BY <1>1, <2>1 DEF IsFree
<1>4. ASSUME NEW name, name # "app.js",
             NEW a, a = Append(path, name)
      PROVE  a \notin Routes \cup {<<>>, <<"static", "app.js">>}
  <2>1. Len(a) = Len(path) + 1 /\ a[Len(path) + 1] = name
    <3>1. path \in Seq(STRING \cup {name})
      BY <1>1
    <3>2. QED
      BY <1>4, <3>1, AppendProperties
  <2>2. Len(a) # 1 /\ Len(a) # 0
    BY <1>2, <2>1
  <2>3. a \notin Routes
    BY <2>2, RoutesAreFlat
  <2>4. a # <<>>
    BY <2>2
  <2>5. ASSUME a = <<"static", "app.js">>
        PROVE  FALSE
    <3>1. Len(path) + 1 = 2
      BY <1>2, <2>1, <2>5
    <3>2. a[2] = name
      BY <2>1, <3>1
    <3>3. QED
      BY <1>4, <2>5, <3>2
  <2>6. QED
    BY <2>3, <2>4, <2>5
<1>5. \A r \in {Append(path, "login"), Append(path, "logout")} :
          r \notin Routes \cup {<<>>, <<"static", "app.js">>}
  BY <1>4
<1>6. QED
  BY <1>3, <1>5

\* A script's look-ups find the connection they name (pythonPreset,
\* pythonClient).
LEMMA ScriptsFind == ConfigIInv => ScriptsFindPresets
<1> SUFFICES ASSUME ConfigIInv, Running,
                    \A i, j \in DOMAIN loaded : loaded[i].name = loaded[j].id => i = j,
                    NEW i \in DOMAIN loaded, NEW x \in {loaded[i].id, loaded[i].name}
             PROVE  /\ PythonClient(x) = loaded[i]
                    /\ PythonPreset(x) = loaded[i]
                    /\ PythonPreset(PythonClient(x).id) = loaded[i]
  BY DEF ScriptsFindPresets
<1>1. file.state = "json"
  BY DEF ConfigIInv, Running
<1>2. LoadedSoFar /\ Checked = Written /\ file \in Files
  BY <1>1, AllIsChecked
<1>3. DOMAIN loaded = 1..Len(loaded) /\ Len(loaded) \in Nat /\ i \in Int
  BY <1>2 DEF LoadedSoFar
<1>4. \A j, k \in DOMAIN loaded :
          loaded[j].id = loaded[k].id \/ loaded[j].name = loaded[k].name => j = k
  BY <1>2, <1>3 DEF LoadedSoFar
<1>5. ASSUME NEW y \in {loaded[i].id, loaded[i].name}
      PROVE  {j \in DOMAIN loaded : y \in {loaded[j].id, loaded[j].name}} = {i}
  BY <1>4
<1>6. ASSUME NEW y \in {loaded[i].id, loaded[i].name}
      PROVE  Trim[y] = y
  <2>1. PICK w \in Written : loaded[i] = Normalized(WrittenAt(w))
    BY <1>2, <1>3 DEF LoadedSoFar
  <2>2. WrittenAt(w) \in WrittenConnections
    BY <1>1, <1>2, FileTyped
  <2>3. /\ loaded[i].id = Trim[WrittenAt(w).id] /\ loaded[i].name = Trim[WrittenAt(w).name]
        /\ WrittenAt(w).id \in Text /\ WrittenAt(w).name \in Text
    BY <2>1, <2>2, NormalizedIs DEF WrittenConnections
  <2>4. /\ Trim[loaded[i].id] = loaded[i].id
        /\ Trim[loaded[i].name] = loaded[i].name
    BY ONLY <2>3, TextsAreNormalised
  <2>5. QED
    BY <2>4
<1>7. First({i}) = loaded[i]
  BY <1>3, FirstOfOne
<1>8. ASSUME NEW y \in {loaded[i].id, loaded[i].name}
      PROVE  PythonPreset(y) = loaded[i] /\ PythonClient(y) = loaded[i]
  BY <1>5, <1>6, <1>7 DEF PythonPreset, PythonClient
<1>9. QED
  BY <1>8

\* Writing is allowed where the file says stage, and nowhere else
\* (resolveEnvironment).
LEMMA WritesDeclared == ConfigIInv => WritesAsDeclared
<1> SUFFICES ASSUME ConfigIInv, Running, file.state = "json",
                    NEW id \in Prefixed, NEW form \in DOMAIN Trim
             PROVE  ResolveEnvironment(id, form) = "stage" <=>
                        \E w \in Written : /\ Trim[WrittenAt(w).id] = id
                                           /\ Lower[Trim[WrittenAt(w).environment]] = "stage"
  BY DEF WritesAsDeclared
<1>1. LoadedSoFar /\ SoundSoFar /\ Checked = Written /\ file \in Files
  BY AllIsChecked
<1>2. DOMAIN loaded = 1..Len(loaded) /\ Len(loaded) \in Nat
  BY <1>1 DEF LoadedSoFar
<1>3. ASSUME NEW w \in Written
      PROVE  /\ Normalized(WrittenAt(w)).id = Trim[WrittenAt(w).id]
             /\ Normalized(WrittenAt(w)).environment = "stage"
                    <=> Lower[Trim[WrittenAt(w).environment]] = "stage"
  BY DEF Normalized, Environment
<1>4. CASE \E i \in DOMAIN loaded : loaded[i].id = id
  <2>1. PICK i \in DOMAIN loaded : loaded[i].id = id
    BY <1>4
  <2>2. {j \in DOMAIN loaded : loaded[j].id = id} = {i}
    BY <1>1, <1>2, <2>1 DEF LoadedSoFar
  <2>3. ConnectionByID(id) = loaded[i]
    <3>1. i \in Int
      BY <1>2, <2>1
    <3>2. QED
      BY <2>2, <3>1, FirstOfOne DEF ConnectionByID
  <2>4. loaded[i] # Unset
    <3>1. loaded[i] \in WrittenConnections
      BY <1>1, <1>2, <2>1 DEF LoadedSoFar
    <3>2. QED
      BY <3>1, UnsetIsNone
  <2>5. ResolveEnvironment(id, form) = loaded[i].environment
    BY <2>3, <2>4 DEF ResolveEnvironment
  <2>6. PICK v \in Written : loaded[i] = Normalized(WrittenAt(v))
    BY <1>1, <1>2, <2>1 DEF LoadedSoFar
  <2>7. ASSUME NEW w \in Written, Trim[WrittenAt(w).id] = id
        PROVE  w = v
    BY <1>1, <1>3, <2>1, <2>6, <2>7 DEF SoundSoFar, Clash
  <2>8. QED
    BY <1>3, <2>1, <2>5, <2>6, <2>7
<1>5. CASE ~\E i \in DOMAIN loaded : loaded[i].id = id
  <2>1. ConnectionByID(id) = Unset
    BY <1>5 DEF ConnectionByID, First
  <2>2. ResolveEnvironment(id, form) = "prod"
    BY <2>1 DEF ResolveEnvironment
  <2>3. ASSUME NEW w \in Written
        PROVE  Trim[WrittenAt(w).id] # id
    <3>1. PICK i \in 1..Len(loaded) : loaded[i] = Normalized(WrittenAt(w))
      BY <1>1 DEF LoadedSoFar
    <3>2. QED
      BY <1>2, <1>3, <1>5, <3>1
  <2>4. QED
    BY <2>2, <2>3
<1>6. QED
  BY <1>4, <1>5

\* Browsers by ID, scripts by ID or name and requests by path find what the
\* file says, for any file.
THEOREM LookUpsFindWhatIsWritten == ConfigSpec => []LookUpsAgree
<1>1. ConfigIInv => LookUpsAgree
  BY RoutesStayFree, ScriptsFind, WritesDeclared DEF LookUpsAgree
<1>2. QED
  BY <1>1, ConfigInvariance, PTL
=============================================================================
