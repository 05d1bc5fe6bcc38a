--------------------------- MODULE PrefixCacheProofs ---------------------------
(***************************************************************************)
(* What holds of PrefixCache for any nodes, keys, rows, flushers and       *)
(* ingest runs: it is a ring and a table, with all that holds of these,    *)
(* and its cache is coherent with its table.                               *)
(***************************************************************************)
EXTENDS PrefixCache, RingAndTableProofs, NormalizationProofs

\* The cache never moves the ring once it serves, and does not touch the table.
LEMMA IsRingAndTable ==
    ASSUME [Next]_vars
    PROVE  [RingNext]_ringVars /\ [TableNext]_tableVars
<1>1. CASE UNCHANGED vars
  BY <1>1 DEF vars
<1>2. CASE Build
  BY <1>2 DEF Build
<1>3. ASSUME NEW w \in Writer, BeginWrite(w) \/ WriteStep(w) \/ CommitWrite(w)
      PROVE  UNCHANGED ringVars /\ TableNext
  <2>1. UNCHANGED ringVars
    BY <1>3 DEF BeginWrite, WriteStep, CommitWrite
  <2>2. CASE BeginWrite(w)
    BY <2>2, CacheAssumption DEF BeginWrite, TableNext
  <2>3. CASE WriteStep(w) \/ CommitWrite(w)
    BY <2>3 DEF WriteStep, CommitWrite, TableNext
  <2> QED
    BY <1>3, <2>1, <2>2, <2>3
<1>4. CASE \/ Start
           \/ \E r \in Reader : Store(r) \/ StoreFails(r) \/ \E raw \in Raw : Read(r, raw)
           \/ \E n \in Node, k \in Key : Expire(n, k)
           \/ \E f \in Flusher : Die(f) \/ \E n \in Node : DeleteFrom(f, n)
  BY <1>4 DEF Start, Read, Store, StoreFails, Expire, Die, DeleteFrom
<1> QED
  BY <1>1, <1>2, <1>3, <1>4 DEF Next

\* Every behaviour is one of the ring and one of the table.
THEOREM ImplementsRingAndTable == Spec => RingSpec /\ TableSpec
<1>1. Init => RingInit /\ TableInit
  BY DEF Init
<1> QED
  BY <1>1, IsRingAndTable, PTL DEF Spec, RingSpec, TableSpec

\* The ring of a serving cache is the ring of its nodes, and keys stay where they are.
THEOREM CacheRing ==
    Spec => [](RingTypeOK /\ RingDependsOnNodes /\ NoReplicaIsLost /\ KeysStayPut)
BY ImplementsRingAndTable, RingTypeCorrect, SameNodesSameRing, AllReplicas,
   OthersKeepTheirKeys, PTL

\* The table under flushers that also delete keys counts right and never deadlocks.
THEOREM CacheTable == Spec => UpsertsAreAtomic /\ [](TableTypeOK /\ FlushersNeverDeadlock)
BY ImplementsRingAndTable, ImplementsAtomicUpserts, TableTypeCorrect, NoDeadlock, PTL

-----------------------------------------------------------------------------
Documents == UNION {[S -> Nat \ {0}] : S \in SUBSET Query}

CacheTyped ==
    /\ serving \in BOOLEAN
    /\ store \in [Node -> [Key -> Documents \cup {NoDocument}]]
    /\ reading \in [Reader -> [key : Key, doc : Documents] \cup {NoDocument}]
    /\ dirty \in [Flusher -> SUBSET Key]
    /\ overtaken \subseteq Reader
    /\ stale \subseteq Key

\* Requests are served on the ring of all nodes.
ServesOnRing == serving => IsBuilt /\ nodes = Node

\* A document is only where readers look for it.
OnItsOwner ==
    \A n \in Node, k \in Key : store[n][k] # NoDocument => serving /\ n = Owner(k)

\* A flusher with a transaction is done with the deletes of the one before.
DeletesBeforeWrites == \A f \in Flusher : Running(f) => dirty[f] = {}

\* A reader that no commit has overtaken holds what the database would answer now.
ReadersCurrent ==
    \A r \in Reader : IsReading(r) =>
        /\ serving
        /\ r \in overtaken \/ reading[r].doc = Fetch(reading[r].key)

\* Strengthening of CachedIsCurrent.
CacheInv ==
    CacheTyped /\ ServesOnRing /\ OnItsOwner /\ DeletesBeforeWrites /\ ReadersCurrent

\* On a complete ring every key has an owner among the nodes.
LEMMA OwnerIsNode ==
    ASSUME RingInv, IsBuilt, nodes = Node, NEW k \in Key
    PROVE  Owner(k) \in Node
<1> DEFINE D == DOMAIN positions
           from == {p \in D : hash.key[k] <= p}
<1>1. D \in SUBSET Nat /\ \A p \in D : positions[p] \in Node
  BY DEF RingInv, RingTypeOK
<1>2. D # {}
  <2>1. PICK n \in Node : TRUE
    BY CacheAssumption
  <2>2. Cardinality({p \in D : positions[p] = n}) = Cardinality(Done(n))
    BY DEF RingInv, NoneLostSoFar
  <2>3. Done(n) = 1..VirtualNodes
    BY NoNodes DEF IsBuilt, Done
  <2>4. Cardinality(1..VirtualNodes) = VirtualNodes /\ VirtualNodes # 0
    BY FS_Interval, RingAssumption
  <2>5. CASE D = {}
    <3>1. {p \in D : positions[p] = n} = {}
      BY <2>5
    <3> QED
      BY <2>2, <2>3, <2>4, <3>1, FS_EmptySet
  <2> QED
    BY <2>5
<1>3. from # {} => Min(from) \in D
  BY <1>1, MinIsLeast
<1>4. Min(D) \in D
  BY <1>1, <1>2, MinIsLeast
<1>5. Owner(k) = positions[IF from # {} THEN Min(from) ELSE Min(D)]
  BY DEF Owner, OwnerOn
<1> QED
  BY <1>1, <1>3, <1>4, <1>5

\* What the database answers is a document.
LEMMA FetchIsDocument ==
    ASSUME TableTypeOK, NEW k \in Key
    PROVE  Fetch(k) \in Documents
<1> DEFINE S == {q \in Matching[k] : count[q] > 0}
<1>1. S \in SUBSET Query
  BY DEF Matching
<1>2. Fetch(k) \in [S -> Nat \ {0}]
  BY <1>1 DEF Fetch, TableTypeOK
<1> QED
  BY <1>1, <1>2 DEF Documents

\* An empty cache that does not serve yet.
LEMMA InitCache == Init => CacheInv
<1> SUFFICES ASSUME Init PROVE CacheInv
  OBVIOUS
<1>1. serving \in BOOLEAN /\ ~serving
  BY Zenon DEF Init
<1>2. \A f \in Flusher : ~Running(f)
  BY NoRows DEF Init, TableInit, Running, Writer
<1> QED
  BY <1>1, <1>2 DEF Init, CacheInv, CacheTyped, ServesOnRing, OnItsOwner, DeletesBeforeWrites,
                    ReadersCurrent, IsReading

\* Keys keep their owners while the ring stays.
LEMMA OwnersStay ==
    ASSUME UNCHANGED ringVars
    PROVE  /\ IsBuilt' = IsBuilt /\ nodes' = nodes
           /\ \A k \in Key : Owner(k)' = Owner(k)
BY DEF ringVars, IsBuilt, Owner, OwnerOn

\* The answer for a prefix changes only with a row that the prefix matches.
LEMMA FetchStays ==
    ASSUME NEW k \in Key, \A q \in Matching[k] : count'[q] = count[q]
    PROVE  Fetch(k)' = Fetch(k)
<1>1. Matching' = Matching
  BY DEF Matching
<1>2. {q \in Matching[k] : count'[q] > 0} = {q \in Matching[k] : count[q] > 0}
  OBVIOUS
<1> QED
  BY <1>1, <1>2 DEF Fetch

\* What a SET does to the documents and to the keys that may be old.
LEMMA StoreEffect ==
    ASSUME RingInv, CacheInv, NEW r \in Reader, Store(r)
    PROVE  \E k \in Key, d \in Documents :
              /\ Owner(k) \in Node
              /\ store' = [store EXCEPT ![Owner(k)] = [store[Owner(k)] EXCEPT ![k] = d]]
              /\ \/ stale' = stale \cup {k}
                 \/ stale' = stale \ {k} /\ d = Fetch(k)
<1>1. PICK k, d : k = reading[r].key /\ d = reading[r].doc
  OBVIOUS
<1>2. k \in Key /\ d \in Documents
  <2>1. reading[r] \in [key : Key, doc : Documents]
    BY DEF Store, IsReading, CacheInv, CacheTyped
  <2> QED
    BY <1>1, <2>1
<1>3. serving /\ (r \in overtaken \/ d = Fetch(k))
  BY <1>1 DEF Store, CacheInv, ReadersCurrent
<1>4. Owner(k) \in Node
  BY <1>2, <1>3, OwnerIsNode DEF CacheInv, ServesOnRing
<1>5. /\ store' = [store EXCEPT ![Owner(k)] = [store[Owner(k)] EXCEPT ![k] = d]]
      /\ stale' = IF r \in overtaken THEN stale \cup {k} ELSE stale \ {k}
  BY <1>1 DEF Store
<1> QED
  BY <1>2, <1>3, <1>4, <1>5

\* An entry expires on the owner of its key, since it is nowhere else.
LEMMA ExpireEffect ==
    ASSUME CacheInv, NEW n \in Node, NEW k \in Key, Expire(n, k)
    PROVE  /\ store' = [store EXCEPT ![n] = [store[n] EXCEPT ![k] = NoDocument]]
           /\ n = Owner(k)
BY DEF Expire, CacheInv, OnItsOwner

\* A reader is overtaken by every commit that changes what it has fetched.
LEMMA StepKeepsReaders ==
    ASSUME TableInv, CacheInv, [Next]_vars
    PROVE  ReadersCurrent'
<1> SUFFICES ASSUME NEW r \in Reader, IsReading(r)'
             PROVE  /\ serving'
                    /\ \/ r \in overtaken'
                       \/ reading'[r].doc = Fetch(reading[r].key)'
  BY DEF ReadersCurrent
\* A step that leaves the reader and the rows of its key alone.
<1>1. ASSUME serving => serving', reading'[r] = reading[r],
             r \in overtaken => r \in overtaken',
             r \in overtaken' \/ \A q \in Matching[reading[r].key] : count'[q] = count[q]
      PROVE  /\ serving'
             /\ \/ r \in overtaken'
                \/ reading'[r].doc = Fetch(reading[r].key)'
  <2>1. IsReading(r)
    BY <1>1 DEF IsReading
  <2>2. serving /\ (r \in overtaken \/ reading[r].doc = Fetch(reading[r].key))
    BY <2>1 DEF CacheInv, ReadersCurrent
  <2>3. PICK k : k = reading[r].key
    OBVIOUS
  <2>4. k \in Key /\ reading'[r].key = k
    BY <1>1, <2>1, <2>3 DEF IsReading, CacheInv, CacheTyped
  <2>5. r \in overtaken' \/ Fetch(k)' = Fetch(k)
    BY <1>1, <2>3, <2>4, FetchStays
  <2> QED
    BY <1>1, <2>2, <2>3, <2>4, <2>5
<1>2. CASE Build \/ Start
  <2>1. ~serving /\ reading' = reading
    BY <1>2, Zenon DEF Build, Start, cacheVars
  <2>2. ~IsReading(r)
    BY <2>1 DEF CacheInv, ReadersCurrent
  <2> QED
    BY <2>1, <2>2 DEF IsReading
<1>3. ASSUME NEW s \in Reader, NEW raw \in Raw, Read(s, raw)
      PROVE  /\ serving'
             /\ \/ r \in overtaken'
                \/ reading'[r].doc = Fetch(reading[r].key)'
  <2>1. /\ serving /\ UNCHANGED <<serving, overtaken, count>>
        /\ reading' = [reading EXCEPT ![s] = [key |-> KeyOf[raw], doc |-> Fetch(KeyOf[raw])]]
    BY <1>3 DEF Read, tableVars
  <2>2. CASE r = s
    <3>1. PICK k : k = KeyOf[raw]
      OBVIOUS
    <3>2. k \in Key
      BY <1>3, <3>1, KeyAssumption DEF Read
    <3>3. reading'[r].doc = Fetch(k) /\ reading'[r].key = k
      BY <2>1, <2>2, <3>1 DEF CacheInv, CacheTyped
    <3>4. Fetch(k)' = Fetch(k)
      BY <2>1, <3>2, FetchStays
    <3> QED
      BY <2>1, <3>3, <3>4
  <2>3. CASE r # s
    BY <1>1, <2>1, <2>3 DEF CacheInv, CacheTyped
  <2> QED
    BY <2>2, <2>3
<1>4. ASSUME NEW s \in Reader, Store(s) \/ StoreFails(s)
      PROVE  /\ serving'
             /\ \/ r \in overtaken'
                \/ reading'[r].doc = Fetch(reading[r].key)'
  <2>1. /\ UNCHANGED <<serving, count>> /\ overtaken' = overtaken \ {s}
        /\ reading' = [reading EXCEPT ![s] = NoDocument]
    BY <1>4 DEF Store, StoreFails, Finish, tableVars
  <2>2. r # s
    BY <2>1 DEF IsReading, CacheInv, CacheTyped
  <2> QED
    BY <1>1, <2>1, <2>2 DEF CacheInv, CacheTyped
<1>5. ASSUME NEW w \in Writer, CommitWrite(w)
      PROVE  /\ serving'
             /\ \/ r \in overtaken'
                \/ reading'[r].doc = Fetch(reading[r].key)'
  <2>1. /\ UNCHANGED <<serving, reading>> /\ overtaken' = overtaken \cup Overtakes(w)
        /\ \A q \in Query \ RowsOf(batch[w]) : count'[q] = count[q]
    BY <1>5 DEF CommitWrite, Commit, TableInv, TableTypeOK
  <2>2. IsReading(r)
    BY <2>1 DEF IsReading
  <2>3. PICK k : k = reading[r].key
    OBVIOUS
  <2>4. k \in Key
    BY <2>2, <2>3 DEF IsReading, CacheInv, CacheTyped
  <2>5. \A q \in Matching[k] : q \in Query
    BY <2>4 DEF Matching
  <2>6. r \in Overtakes(w) \/ \A q \in Matching[k] : q \notin RowsOf(batch[w])
    BY <2>2, <2>3 DEF Overtakes
  <2> QED
    BY <1>1, <2>1, <2>3, <2>5, <2>6
<1>6. CASE \/ \E n \in Node, k \in Key : Expire(n, k)
           \/ \E w \in Writer : BeginWrite(w) \/ WriteStep(w)
           \/ \E f \in Flusher : Die(f) \/ \E n \in Node : DeleteFrom(f, n)
           \/ UNCHANGED vars
  <2>1. UNCHANGED <<serving, reading, overtaken, count>>
    BY <1>6 DEF Expire, BeginWrite, Begin, WriteStep, LockRow, Rollback, Die, DeleteFrom,
                vars, tableVars, cacheVars
  <2> QED
    BY <1>1, <2>1
<1> QED
  BY <1>2, <1>3, <1>4, <1>5, <1>6 DEF Next

\* Every step of readers, writers, deletes and deaths keeps CacheInv.
LEMMA StepKeepsCache ==
    ASSUME RingInv, TableInv, TableInv', CacheInv, [Next]_vars
    PROVE  CacheInv'
<1>0. ReadersCurrent'
  BY StepKeepsReaders
<1> USE DEF CacheInv, CacheTyped
<1>1. CASE Build
  <2>1. ~serving /\ UNCHANGED <<serving, store, reading, dirty, overtaken, stale, batch>>
    BY <1>1 DEF Build, tableVars, cacheVars
  <2>2. ServesOnRing' /\ OnItsOwner' /\ DeletesBeforeWrites'
    BY <2>1 DEF ServesOnRing, OnItsOwner, DeletesBeforeWrites, Running
  <2> QED
    BY <1>0, <2>1, <2>2
<1>2. CASE Start
  <2>1. /\ ~serving /\ serving' = TRUE /\ IsBuilt /\ nodes = Node /\ UNCHANGED ringVars
        /\ UNCHANGED <<store, reading, dirty, overtaken, stale, batch>>
    BY <1>2, Zenon DEF Start, tableVars
  <2>2. serving' \in BOOLEAN
    BY <2>1, Zenon
  <2>3. ServesOnRing' /\ OnItsOwner' /\ DeletesBeforeWrites'
    BY <2>1, OwnersStay DEF ServesOnRing, OnItsOwner, DeletesBeforeWrites, Running
  <2> QED
    BY <1>0, <2>1, <2>2, <2>3
<1>3. ASSUME NEW r \in Reader, Store(r) PROVE CacheInv'
  <2>1. PICK k \in Key, d \in Documents :
           /\ Owner(k) \in Node
           /\ store' = [store EXCEPT ![Owner(k)] = [store[Owner(k)] EXCEPT ![k] = d]]
           /\ \/ stale' = stale \cup {k}
              \/ stale' = stale \ {k} /\ d = Fetch(k)
    BY <1>3, StoreEffect
  <2>2. /\ serving /\ UNCHANGED <<serving, dirty, ringVars, batch>>
        /\ reading' = [reading EXCEPT ![r] = NoDocument] /\ overtaken' = overtaken \ {r}
    BY <1>3 DEF Store, Finish, ReadersCurrent, tableVars
  <2>3. store' \in [Node -> [Key -> Documents \cup {NoDocument}]]
    BY <2>1
  <2>4. \A n \in Node, j \in Key : store'[n][j] # store[n][j] => n = Owner(k) /\ j = k
    BY <2>1
  <2>5. OnItsOwner'
    BY <2>2, <2>4, OwnersStay DEF OnItsOwner
  <2>6. stale' \subseteq Key
    BY <2>1
  <2>7. /\ reading' \in [Reader -> [key : Key, doc : Documents] \cup {NoDocument}]
        /\ overtaken' \subseteq Reader
    BY <2>2
  <2> QED
    BY <1>0, <2>2, <2>3, <2>5, <2>6, <2>7, OwnersStay
       DEF ServesOnRing, DeletesBeforeWrites, Running
<1>4. ASSUME NEW r \in Reader, NEW raw \in Raw, Read(r, raw) PROVE CacheInv'
  <2>1. /\ UNCHANGED <<serving, store, dirty, overtaken, stale, ringVars, batch>>
        /\ reading' = [reading EXCEPT ![r] = [key |-> KeyOf[raw], doc |-> Fetch(KeyOf[raw])]]
    BY <1>4 DEF Read, tableVars
  <2>2. KeyOf[raw] \in Key
    BY <1>4, KeyAssumption DEF Read
  <2>3. Fetch(KeyOf[raw]) \in Documents
    BY <2>2, FetchIsDocument DEF TableInv
  <2>4. reading' \in [Reader -> [key : Key, doc : Documents] \cup {NoDocument}]
    BY <2>1, <2>2, <2>3
  <2> QED
    BY <1>0, <2>1, <2>4, OwnersStay DEF ServesOnRing, OnItsOwner, DeletesBeforeWrites, Running
<1>5. ASSUME NEW r \in Reader, StoreFails(r) PROVE CacheInv'
  <2>1. /\ UNCHANGED <<serving, store, dirty, stale, ringVars, batch>>
        /\ reading' = [reading EXCEPT ![r] = NoDocument] /\ overtaken' = overtaken \ {r}
    BY <1>5 DEF StoreFails, Finish, tableVars
  <2>2. /\ reading' \in [Reader -> [key : Key, doc : Documents] \cup {NoDocument}]
        /\ overtaken' \subseteq Reader
    BY <2>1
  <2> QED
    BY <1>0, <2>1, <2>2, OwnersStay DEF ServesOnRing, OnItsOwner, DeletesBeforeWrites, Running
<1>6. ASSUME NEW n \in Node, NEW k \in Key, Expire(n, k) PROVE CacheInv'
  <2>1. /\ store' = [store EXCEPT ![n] = [store[n] EXCEPT ![k] = NoDocument]]
        /\ stale' = stale \ {k}
        /\ UNCHANGED <<serving, reading, dirty, overtaken, ringVars, batch>>
    BY <1>6, ExpireEffect DEF Expire, tableVars
  <2>2. store' \in [Node -> [Key -> Documents \cup {NoDocument}]]
    BY <2>1
  <2>3. \A m \in Node, j \in Key : store'[m][j] \in {store[m][j], NoDocument}
    BY <2>1
  <2>4. OnItsOwner'
    BY <2>1, <2>3, OwnersStay DEF OnItsOwner
  <2> QED
    BY <1>0, <2>1, <2>2, <2>4, OwnersStay DEF ServesOnRing, DeletesBeforeWrites, Running
<1>7. ASSUME NEW w \in Writer, BeginWrite(w) PROVE CacheInv'
  <2>1. /\ UNCHANGED <<ringVars, serving, store, reading, dirty, overtaken, stale>>
        /\ w \in Flusher => dirty[w] = {}
    BY <1>7 DEF BeginWrite, cacheVars
  <2>2. \A v \in Writer \ {w} : batch'[v] = batch[v]
    BY <1>7 DEF BeginWrite, Begin, TableInv, TableTypeOK
  <2>3. DeletesBeforeWrites'
    BY <2>1, <2>2 DEF DeletesBeforeWrites, Running, Writer
  <2> QED
    BY <1>0, <2>1, <2>3, OwnersStay DEF ServesOnRing, OnItsOwner
<1>8. ASSUME NEW w \in Writer, WriteStep(w) PROVE CacheInv'
  <2>1. UNCHANGED <<ringVars, serving, store, reading, dirty, overtaken, stale>>
    BY <1>8 DEF WriteStep, cacheVars
  <2>2. \A v \in Writer : Running(v)' => Running(v)
    <3>1. CASE LockRow(w)
      BY <3>1 DEF LockRow, Running
    <3>2. CASE Rollback(w)
      BY <3>2, EndReleases, NoRows DEF Rollback, Running
    <3> QED
      BY <1>8, <3>1, <3>2 DEF WriteStep
  <2>3. DeletesBeforeWrites'
    BY <2>1, <2>2 DEF DeletesBeforeWrites, Writer
  <2> QED
    BY <1>0, <2>1, <2>3, OwnersStay DEF ServesOnRing, OnItsOwner
<1>9. ASSUME NEW w \in Writer, CommitWrite(w) PROVE CacheInv'
  <2> DEFINE keys == UNION {KeysOfRow[q] : q \in RowsOf(batch[w])}
  <2>1. /\ UNCHANGED <<ringVars, serving, store, reading>> /\ End(w)
        /\ overtaken' \subseteq Reader
    BY <1>9 DEF CommitWrite, Commit, Overtakes
  <2>2. keys \subseteq Key
    BY DEF KeysOfRow, RowsOf
  <2>3. /\ dirty' \in [Flusher -> SUBSET Key] /\ stale' \subseteq Key
        /\ \A f \in Flusher \ {w} : dirty'[f] = dirty[f]
    BY <1>9, <2>2 DEF CommitWrite, Cached
  <2>4. ~Running(w)' /\ \A v \in Writer \ {w} : Running(v)' = Running(v)
    BY <2>1, EndReleases, NoRows DEF Running
  <2>5. DeletesBeforeWrites'
    BY <2>3, <2>4 DEF DeletesBeforeWrites, Writer
  <2> QED
    BY <1>0, <2>1, <2>3, <2>5, OwnersStay DEF ServesOnRing, OnItsOwner
<1>10. ASSUME NEW f \in Flusher, NEW n \in Node, DeleteFrom(f, n) PROVE CacheInv'
  <2>1. PICK gone \in SUBSET {k \in dirty[f] : Owner(k) = n} :
           /\ store' = [store EXCEPT ![n] = [k \in Key |-> IF k \in gone THEN NoDocument ELSE @[k]]]
           /\ stale' = (stale \ gone) \cup Cached({k \in dirty[f] : Owner(k) = n} \ gone)
    BY <1>10 DEF DeleteFrom
  <2>2. /\ dirty' = [dirty EXCEPT ![f] = @ \ {k \in dirty[f] : Owner(k) = n}]
        /\ UNCHANGED <<serving, reading, overtaken, ringVars, batch>>
    BY <1>10 DEF DeleteFrom, tableVars
  <2>3. store' \in [Node -> [Key -> Documents \cup {NoDocument}]]
    BY <2>1
  <2>4. \A m \in Node, j \in Key : store'[m][j] \in {store[m][j], NoDocument}
    BY <2>1
  <2>5. /\ dirty' \in [Flusher -> SUBSET Key] /\ stale' \subseteq Key
        /\ \A g \in Flusher : dirty'[g] \subseteq dirty[g]
    BY <2>1, <2>2 DEF Cached
  <2>6. OnItsOwner'
    BY <2>2, <2>4, OwnersStay DEF OnItsOwner
  <2>7. DeletesBeforeWrites'
    BY <2>2, <2>5 DEF DeletesBeforeWrites, Running
  <2> QED
    BY <1>0, <2>2, <2>3, <2>5, <2>6, <2>7, OwnersStay DEF ServesOnRing
<1>11. ASSUME NEW f \in Flusher, Die(f) PROVE CacheInv'
  <2>1. /\ stale' = stale \cup Cached(dirty[f]) /\ dirty' = [dirty EXCEPT ![f] = {}]
        /\ UNCHANGED <<serving, store, reading, overtaken, ringVars, batch>>
    BY <1>11 DEF Die, tableVars
  <2>2. /\ dirty' \in [Flusher -> SUBSET Key] /\ stale' \subseteq Key
        /\ \A g \in Flusher : dirty'[g] \subseteq dirty[g]
    BY <2>1 DEF Cached
  <2> QED
    BY <1>0, <2>1, <2>2, OwnersStay
       DEF ServesOnRing, OnItsOwner, DeletesBeforeWrites, Running
<1>12. CASE UNCHANGED vars
  <2>1. UNCHANGED <<ringVars, serving, store, reading, dirty, overtaken, stale, batch>>
    BY <1>12 DEF vars, tableVars, cacheVars
  <2> QED
    BY <1>0, <2>1, OwnersStay DEF ServesOnRing, OnItsOwner, DeletesBeforeWrites, Running
<1> QED
  BY <1>1, <1>2, <1>3, <1>4, <1>5, <1>6, <1>7, <1>8, <1>9, <1>10, <1>11, <1>12 DEF Next

-----------------------------------------------------------------------------
\* A key's prefix and a row are texts over one alphabet.
LEMMA KeyAndRow ==
    ASSUME NEW k \in Key, NEW q \in Query
    PROVE  \E S : Special \subseteq S /\ PrefixOfKey(k) \in Seq(S) /\ q \in Seq(S)
<1>1. PICK p : p = PrefixOfKey(k)
  OBVIOUS
<1>2. IsText(p) /\ IsText(q)
  BY <1>1, KeyAssumption, CacheAssumption
<1>3. PICK S : S = Special \cup {p[i] : i \in 1..Len(p)} \cup {q[i] : i \in 1..Len(q)}
  OBVIOUS
<1>4. p \in Seq(S)
  BY <1>2, <1>3 DEF IsText
<1>5. q \in Seq(S)
  BY <1>2, <1>3 DEF IsText
<1> QED
  BY <1>1, <1>3, <1>4, <1>5

\* The rows that the query for a prefix selects are those that start with it.
LEMMA MatchingIsExact ==
    ASSUME NEW k \in Key, NEW q \in Query
    PROVE  q \in Matching[k] <=> IsPrefix(PrefixOfKey(k), q)
<1>1. PICK S : Special \subseteq S /\ PrefixOfKey(k) \in Seq(S) /\ q \in Seq(S)
  BY KeyAndRow
<1>2. StartsWith(q, PrefixOfKey(k)) <=> IsPrefix(PrefixOfKey(k), q)
  BY <1>1, StartsWithIsPrefix
<1>3. q \in Matching[k] <=> StartsWith(q, PrefixOfKey(k))
  BY DEF Matching
<1> QED
  BY <1>2, <1>3

\* A prefix finds the rows that start with it, character by character, and no others,
\* whatever characters it contains: the three replacements of escape_like together leave
\* LIKE nothing to interpret but the wildcard behind the prefix.
THEOREM PrefixAnswersExact == Spec => []AnswersMatchPrefix
<1>1. AnswersMatchPrefix
  <2> SUFFICES ASSUME NEW k \in Key
               PROVE  DOMAIN Fetch(k)
                         = {q \in Query : count[q] > 0 /\ IsPrefix(PrefixOfKey(k), q)}
    BY DEF AnswersMatchPrefix
  <2>1. DOMAIN Fetch(k) = {q \in Matching[k] : count[q] > 0}
    BY DEF Fetch
  <2>2. \A q \in Matching[k] : q \in Query
    BY DEF Matching
  <2>3. \A q \in Query : q \in Matching[k] <=> IsPrefix(PrefixOfKey(k), q)
    BY MatchingIsExact
  <2> QED
    BY <2>1, <2>2, <2>3
<1> QED
  BY <1>1, PTL

\* What a search recorded is found by the same text typed again, as the tests of
\* normalize_text ask (test_normalization.py:31), when the tables of characters have four
\* properties that make normalising idempotent.  Python's tables lack LowerJoinsNone: the
\* lower-case form of J joins a caron that J does not.
THEOREM RowsReachableIfStable ==
    ASSUME CompositesStay, LowerJoinsNone, LowerStays, BlankStays
    PROVE  Spec => []RowsAreReachable
<1>1. ASSUME NEW raw \in Raw, IsValid(raw, MaxPrefixLength),
             QueryOf(raw) \in Query, count[QueryOf(raw)] > 0
      PROVE  QueryOf(raw) \in DOMAIN Fetch(KeyOf[raw])
  <2>1. PICK q, k : q = QueryOf(raw) /\ k = KeyOf[raw]
    OBVIOUS
  <2>2. k \in Key
    <3>1. raw \in Accepted
      BY <1>1 DEF Accepted
    <3> QED
      BY <2>1, <3>1, KeyAssumption
  <2>3. PrefixOfKey(k) = q
    <3>1. PrefixOf(raw) = q
      BY <2>1, CacheAssumption, NormalizeIsStable DEF PrefixOf, QueryOf
    <3>2. k = suggestion_cache_key(PrefixOf(raw))
      BY <2>1 DEF KeyOf
    <3> QED
      BY <3>1, <3>2 DEF PrefixOfKey, suggestion_cache_key
  <2>4. IsPrefix(q, q)
    <3>1. Len(q) \in Nat
      BY <1>1, <2>1, CacheAssumption DEF IsText
    <3> QED
      BY <3>1 DEF IsPrefix
  <2>5. q \in Matching[k]
    BY <1>1, <2>1, <2>2, <2>3, <2>4, MatchingIsExact
  <2>6. DOMAIN Fetch(k) = {p \in Matching[k] : count[p] > 0}
    BY DEF Fetch
  <2> QED
    BY <1>1, <2>1, <2>5, <2>6
<1>2. RowsAreReachable
  BY <1>1 DEF RowsAreReachable
<1> QED
  BY <1>2, PTL

\* A flush deletes the keys of all prefixes that find what it wrote.
LEMMA KeysCover ==
    ASSUME NEW k \in Key, NEW q \in Matching[k]
    PROVE  k \in KeysOfRow[q]
<1> DEFINE p == PrefixOfKey(k)
           least == Min({Len(q), MaxPrefixLength})
<1>1. q \in Query /\ IsPrefix(p, q)
  BY MatchingIsExact DEF Matching
<1>2. /\ IsText(p) /\ Len(p) \in 1..MaxPrefixLength /\ k = suggestion_cache_key(p)
      /\ IsText(q) /\ Len(q) \in Nat /\ MaxPrefixLength \in Nat
  BY <1>1, KeyAssumption, CacheAssumption, LengthAssumption DEF IsText
<1>3. Len(p) <= Len(q) /\ SubSeq(p, 1, Len(p)) = SubSeq(q, 1, Len(p))
  BY <1>1 DEF IsPrefix
<1>4. SubSeq(p, 1, Len(p)) = p
  <2>1. p \in Seq({p[i] : i \in 1..Len(p)})
    BY <1>2 DEF IsText
  <2> HIDE DEF p
  <2> QED
    BY <2>1
<1>5. Len(p) \in 1..least
  <2>1. least \in {Len(q), MaxPrefixLength}
    BY <1>2, MinIsLeast
  <2> QED
    BY <1>2, <1>3, <2>1
<1>6. k \in InvalidatedKeys({q})
  BY <1>2, <1>3, <1>4, <1>5 DEF InvalidatedKeys
<1> QED
  BY <1>1, <1>6 DEF KeysOfRow

\* The keys to be deleted now, and those that were not.
Owed == stale \cup UNION {dirty[f] : f \in Flusher}

\* Every step that makes a document old puts its key among those to be deleted.
LEMMA StepKeepsCurrent ==
    ASSUME RingInv, TableInv, CacheInv, CachedIsCurrent, [Next]_vars
    PROVE  CachedIsCurrent'
<1> SUFFICES ASSUME serving', NEW k \in Key
             PROVE  store'[Owner(k)'][k] \in {NoDocument, Fetch(k)'} \/ k \in Owed'
  BY DEF CachedIsCurrent, Owed
<1>0. serving => store[Owner(k)][k] \in {NoDocument, Fetch(k)} \/ k \in Owed
  BY DEF CachedIsCurrent, Owed
<1>1. CASE Build
  BY <1>1 DEF Build, cacheVars
<1>2. CASE Start
  <2>1. ~serving /\ store' = store /\ UNCHANGED ringVars
    BY <1>2, Zenon DEF Start
  <2>2. Owner(k)' = Owner(k) /\ ServesOnRing'
    BY <1>2, <2>1, OwnersStay DEF Start, ServesOnRing
  <2>3. store'[Owner(k)'] = store[Owner(k)]
    BY <2>1, <2>2
  <2>4. Owner(k) \in Node
    BY <1>2, OwnerIsNode DEF Start
  <2> QED
    BY <2>1, <2>3, <2>4 DEF CacheInv, OnItsOwner
\* Otherwise the ring stays, and the cache serves before and after the step.
<1>3. ASSUME UNCHANGED <<serving, ringVars>>, \A q \in Matching[k] : count'[q] = count[q],
             \/ store'[Owner(k)][k] \in {store[Owner(k)][k], NoDocument, Fetch(k)}
             \/ k \in Owed',
             k \in Owed => k \in Owed' \/ store'[Owner(k)][k] \in {NoDocument, Fetch(k)}
      PROVE  store'[Owner(k)'][k] \in {NoDocument, Fetch(k)'} \/ k \in Owed'
  <2>1. Owner(k)' = Owner(k) /\ Fetch(k)' = Fetch(k) /\ serving
    BY <1>3, OwnersStay, FetchStays
  <2> QED
    BY <1>0, <1>3, <2>1
<1>4. ASSUME serving PROVE Owner(k) \in Node
  BY <1>4, OwnerIsNode DEF CacheInv, ServesOnRing
<1>5. ASSUME NEW r \in Reader, Store(r)
      PROVE  store'[Owner(k)'][k] \in {NoDocument, Fetch(k)'} \/ k \in Owed'
  <2>1. PICK j \in Key, d \in Documents :
           /\ Owner(j) \in Node
           /\ store' = [store EXCEPT ![Owner(j)] = [store[Owner(j)] EXCEPT ![j] = d]]
           /\ \/ stale' = stale \cup {j}
              \/ stale' = stale \ {j} /\ d = Fetch(j)
    BY <1>5, StoreEffect
  <2>2. UNCHANGED <<serving, dirty, ringVars, count>> /\ serving
    BY <1>5 DEF Store, tableVars
  <2>3. Owner(k) \in Node
    BY <1>4, <2>2
  <2>4. CASE k # j
    <3>1. store'[Owner(k)][k] = store[Owner(k)][k]
      BY <2>1, <2>3, <2>4 DEF CacheInv, CacheTyped
    <3>2. k \in Owed => k \in Owed'
      BY <2>1, <2>2, <2>4 DEF Owed
    <3> QED
      BY <1>3, <2>2, <3>1, <3>2
  <2>5. CASE k = j
    <3>1. store'[Owner(k)][k] = d
      BY <2>1, <2>3, <2>5 DEF CacheInv, CacheTyped
    <3>2. k \in Owed' \/ d = Fetch(k)
      BY <2>1, <2>5 DEF Owed
    <3> QED
      BY <1>3, <2>2, <3>1, <3>2
  <2> QED
    BY <2>4, <2>5
<1>6. ASSUME NEW r \in Reader, StoreFails(r) \/ \E raw \in Raw : Read(r, raw)
       PROVE  store'[Owner(k)'][k] \in {NoDocument, Fetch(k)'} \/ k \in Owed'
  <2>1. UNCHANGED <<serving, store, dirty, stale, ringVars, count>>
    BY <1>6 DEF StoreFails, Read, tableVars
  <2> QED
    BY <1>3, <2>1 DEF Owed
<1>7. ASSUME NEW n \in Node, NEW j \in Key, Expire(n, j)
      PROVE  store'[Owner(k)'][k] \in {NoDocument, Fetch(k)'} \/ k \in Owed'
  <2>1. /\ store' = [store EXCEPT ![n] = [store[n] EXCEPT ![j] = NoDocument]] /\ n = Owner(j)
        /\ stale' = stale \ {j} /\ UNCHANGED <<serving, dirty, ringVars, count>>
    BY <1>7, ExpireEffect DEF Expire, tableVars
  <2>2. Owner(k) \in Node
    BY <1>4, <2>1
  <2>3. store'[Owner(k)][k] \in {store[Owner(k)][k], NoDocument}
    BY <2>1, <2>2 DEF CacheInv, CacheTyped
  <2>4. k = j => store'[Owner(k)][k] = NoDocument
    BY <2>1, <2>2 DEF CacheInv, CacheTyped
  <2> QED
    BY <1>3, <2>1, <2>3, <2>4 DEF Owed
<1>8. ASSUME NEW w \in Writer, BeginWrite(w) \/ WriteStep(w)
      PROVE  store'[Owner(k)'][k] \in {NoDocument, Fetch(k)'} \/ k \in Owed'
  <2>1. UNCHANGED <<serving, store, dirty, stale, ringVars>>
    BY <1>8 DEF BeginWrite, WriteStep, cacheVars
  <2>2. count' = count
    BY <1>8 DEF BeginWrite, Begin, WriteStep, LockRow, Rollback
  <2> QED
    BY <1>3, <2>1, <2>2 DEF Owed
<1>9. ASSUME NEW w \in Writer, CommitWrite(w)
      PROVE  store'[Owner(k)'][k] \in {NoDocument, Fetch(k)'} \/ k \in Owed'
  <2> DEFINE keys == UNION {KeysOfRow[q] : q \in RowsOf(batch[w])}
  <2>1. /\ UNCHANGED <<serving, store, ringVars>> /\ Running(w)
        /\ \A q \in Query \ RowsOf(batch[w]) : count'[q] = count[q]
    BY <1>9 DEF CommitWrite, Commit, TableInv, TableTypeOK
  <2>2. /\ w \in Flusher => dirty' = [dirty EXCEPT ![w] = keys] /\ stale' = stale
        /\ w \notin Flusher => stale' = stale \cup Cached(keys) /\ dirty' = dirty
    BY <1>9 DEF CommitWrite
  <2>3. k \in Owed => k \in Owed'
    <3>1. w \in Flusher => dirty[w] = {}
      BY <2>1 DEF CacheInv, DeletesBeforeWrites
    <3>2. \A f \in Flusher : dirty[f] \subseteq dirty'[f]
      BY <2>2, <3>1 DEF CacheInv, CacheTyped
    <3>3. stale \subseteq stale'
      BY <2>2
    <3> QED
      BY <3>2, <3>3 DEF Owed
  <2>4. CASE k \in keys /\ w \in Flusher
    BY <2>2, <2>4 DEF Owed, CacheInv, CacheTyped
  <2>5. CASE k \in keys /\ w \notin Flusher
    <3>1. Owner(k)' = Owner(k) /\ Owner(k) \in Node
      BY <1>4, <2>1, OwnersStay
    <3>2. store[Owner(k)][k] # NoDocument => k \in stale'
      BY <2>2, <2>5, <3>1 DEF Cached
    <3> QED
      BY <2>1, <3>1, <3>2 DEF Owed
  <2>6. CASE k \notin keys
    <3>1. \A q \in Matching[k] : q \in Query \ RowsOf(batch[w])
      BY <2>6, KeysCover DEF Matching
    <3> QED
      BY <1>3, <2>1, <2>3, <3>1
  <2> QED
    BY <2>4, <2>5, <2>6
<1>10. ASSUME NEW f \in Flusher, NEW n \in Node, DeleteFrom(f, n)
      PROVE  store'[Owner(k)'][k] \in {NoDocument, Fetch(k)'} \/ k \in Owed'
  <2> DEFINE keys == {j \in dirty[f] : Owner(j) = n}
  <2>1. PICK gone \in SUBSET keys :
           /\ store' = [store EXCEPT ![n] = [j \in Key |-> IF j \in gone THEN NoDocument ELSE @[j]]]
           /\ stale' = (stale \ gone) \cup Cached(keys \ gone)
    BY <1>10 DEF DeleteFrom
  <2>2. /\ dirty' = [dirty EXCEPT ![f] = @ \ keys]
        /\ UNCHANGED <<serving, ringVars, count>> /\ serving
    BY <1>10 DEF DeleteFrom, tableVars
  <2>3. Owner(k) \in Node
    BY <1>4, <2>2
  <2>4. /\ store'[Owner(k)][k] \in {store[Owner(k)][k], NoDocument}
        /\ k \in gone => store'[Owner(k)][k] = NoDocument
    BY <2>1, <2>3 DEF CacheInv, CacheTyped
  <2>5. k \in keys \ gone /\ store[Owner(k)][k] # NoDocument => k \in stale'
    BY <2>1, <2>3 DEF Cached
  <2>6. k \notin keys /\ k \in Owed => k \in Owed'
    BY <2>1, <2>2 DEF Owed, CacheInv, CacheTyped
  <2>7. k \in Owed => k \in Owed' \/ store'[Owner(k)][k] = NoDocument
    BY <2>4, <2>5, <2>6 DEF Owed
  <2> QED
    BY <1>3, <2>2, <2>4, <2>7
<1>11. ASSUME NEW f \in Flusher, Die(f)
       PROVE  store'[Owner(k)'][k] \in {NoDocument, Fetch(k)'} \/ k \in Owed'
  <2>1. /\ stale' = stale \cup Cached(dirty[f]) /\ dirty' = [dirty EXCEPT ![f] = {}]
        /\ UNCHANGED <<serving, store, ringVars, count>> /\ serving
    BY <1>11 DEF Die, tableVars
  <2>2. k \in dirty[f] /\ store[Owner(k)][k] # NoDocument => k \in stale'
    BY <1>4, <2>1 DEF Cached
  <2>3. k \in Owed => k \in Owed' \/ store'[Owner(k)][k] = NoDocument
    BY <2>1, <2>2 DEF Owed, CacheInv, CacheTyped
  <2> QED
    BY <1>3, <2>1, <2>3
<1>12. CASE UNCHANGED vars
  BY <1>3, <1>12 DEF vars, tableVars, cacheVars, Owed
<1> QED
  BY <1>1, <1>2, <1>5, <1>6, <1>7, <1>8, <1>9, <1>10, <1>11, <1>12 DEF Next

-----------------------------------------------------------------------------
\* The inductive invariant of the whole path: ring, table, where documents are, and what
\* readers hold.
THEOREM CacheInvariance == Spec => [](RingInv /\ TableInv /\ CacheInv)
<1>1. Init => CacheInv
  BY InitCache
<1>2. RingInv /\ TableInv /\ TableInv' /\ CacheInv /\ [Next]_vars => CacheInv'
  BY StepKeepsCache
<1>3. RingSpec => []RingInv
  BY RingInvariance
<1>4. TableSpec => []TableInv
  BY TableInvariance
<1> QED
  BY <1>1, <1>2, <1>3, <1>4, ImplementsRingAndTable, PTL DEF Spec

\* Every variable has its type; what is stored under a key is a document.
THEOREM CacheTypeCorrect == Spec => []TypeOK
<1>1. RingInv /\ TableInv /\ CacheInv => TypeOK
  BY DEF RingInv, TableInv, CacheInv, CacheTyped, Documents, TypeOK, IsReading
<1> QED
  BY <1>1, CacheInvariance, PTL

\* A document that readers find is current, or its delete is due or was prevented, or its
\* reader was overtaken by a commit between fetch and SET: whatever the nodes, the hash, the
\* rows, the characters of prefixes, the number of requests under way and the overlap of
\* flushes, fetches, SETs and failures.
THEOREM CacheCoherence == Spec => []CachedIsCurrent
<1>1. Init => CachedIsCurrent
  <2>1. Init => ~serving
    BY Zenon DEF Init
  <2> QED
    BY <2>1 DEF CachedIsCurrent
<1>2. RingInv /\ TableInv /\ CacheInv /\ CachedIsCurrent /\ [Next]_vars => CachedIsCurrent'
  BY StepKeepsCurrent
<1> QED
  BY <1>1, <1>2, CacheInvariance, PTL DEF Spec

=============================================================================
