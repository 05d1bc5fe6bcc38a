-------------------------- MODULE RingAndTableProofs --------------------------
(***************************************************************************)
(* What holds of the two parts of PrefixCache that have a state of their   *)
(* own: of HashRing, for any nodes, keys and hash functions and any number *)
(* of virtual nodes; and of QueryTable, for any rows, any order of the     *)
(* rows and any number of flushers and ingest runs.                        *)
(***************************************************************************)
EXTENDS HashRing, QueryTable, FiniteSetTheorems, TLAPS

(* HashRing.                                                               *)

\* A set of natural numbers has a least element, and Min is it.
LEMMA MinIsLeast ==
    ASSUME NEW T \in SUBSET Nat, T # {}
    PROVE  Min(T) \in T /\ \A y \in T : Min(T) <= y
<1> DEFINE Below(x) == 0..(x - 1)
           Sets == {Below(x) : x \in T}
<1>1. IsWellFoundedOn(StrictSubsetOrdering(Nat), FiniteSubsetsOf(Nat))
  BY FS_StrictSubsetOrderingWellFounded
<1>2. Sets \subseteq FiniteSubsetsOf(Nat) /\ Sets # {}
  <2>1. \A x \in T : Below(x) \in SUBSET Nat /\ IsFiniteSet(Below(x))
    <3> TAKE x \in T
    <3>1. x - 1 \in Int /\ 0 \in Int
      OBVIOUS
    <3> QED
      BY <3>1, FS_Interval
  <2> QED
    BY <2>1 DEF FiniteSubsetsOf
<1>3. PICK A \in Sets : \A B \in Sets : <<B, A>> \notin StrictSubsetOrdering(Nat)
  BY <1>1, <1>2, WFMin
<1>4. PICK x \in T : A = Below(x)
  OBVIOUS
<1>5. ASSUME NEW y \in T, y < x PROVE FALSE
  <2>1. Below(y) \subseteq Below(x) /\ y \in Below(x) /\ y \notin Below(y)
    BY <1>5
  <2>2. <<Below(y), Below(x)>> \in StrictSubsetOrdering(Nat)
    BY <2>1 DEF StrictSubsetOrdering
  <2> QED
    BY <1>3, <1>4, <2>2
<1>6. \A y \in T : x <= y
  BY <1>5
<1> QED
  BY <1>6 DEF Min

\* A set of natural numbers has only one least element.
LEMMA LeastIsMin ==
    ASSUME NEW T \in SUBSET Nat, NEW x \in T, \A y \in T : x <= y
    PROVE  Min(T) = x
<1>1. T # {}
  OBVIOUS
<1>2. Min(T) \in T /\ Min(T) <= x
  BY <1>1, MinIsLeast
<1>3. x <= Min(T) /\ Min(T) \in Nat /\ x \in Nat
  BY <1>2
<1> QED
  BY <1>2, <1>3

\* add_node finds a free position, and takes its own if that is free.
LEMMA FirstFreeIsFree ==
    ASSUME RingTypeOK, NEW h \in Nat
    PROVE  /\ FirstFree(h) \in Nat \ DOMAIN positions
           /\ h \notin DOMAIN positions => FirstFree(h) = h
<1> DEFINE D == DOMAIN positions
           Free == {g \in h..(h + Cardinality(D)) : g \notin D}
<1>1. IsFiniteSet(D) /\ D \subseteq Nat /\ Cardinality(D) \in Nat
  BY FS_CardinalityType DEF RingTypeOK
<1>2. Free \in SUBSET Nat
  BY <1>1
<1>3. Free # {}
  <2>1. Cardinality(h..(h + Cardinality(D))) = Cardinality(D) + 1
    BY <1>1, FS_Interval
  <2>2. ASSUME Free = {} PROVE FALSE
    <3>1. h..(h + Cardinality(D)) \in SUBSET D
      BY <2>2
    <3> QED
      BY <1>1, <2>1, <3>1, FS_Subset
  <2> QED
    BY <2>2
<1>4. FirstFree(h) = Min(Free)
  BY DEF FirstFree
<1>5. ASSUME h \notin D PROVE Min(Free) = h
  <2>1. h \in Free /\ \A g \in Free : h <= g
    BY <1>1, <1>5
  <2> QED
    BY <1>2, <2>1, LeastIsMin
<1> QED
  BY <1>2, <1>3, <1>4, <1>5, MinIsLeast

\* The first node of a sequence without repetitions is not among the others.
LEMMA NodesAfterFirst ==
    ASSUME NEW S, NEW s \in Seq(S), s # << >>,
           \A i, j \in DOMAIN s : s[i] = s[j] => i = j
    PROVE  /\ Tail(s) \in Seq(S) /\ Head(s) \in ToSet(s)
           /\ ToSet(Tail(s)) = ToSet(s) \ {Head(s)}
           /\ \A i, j \in DOMAIN Tail(s) : Tail(s)[i] = Tail(s)[j] => i = j
<1>1. /\ Len(s) \in Nat \ {0} /\ DOMAIN s = 1..Len(s) /\ Head(s) = s[1]
      /\ Tail(s) \in Seq(S) /\ DOMAIN Tail(s) = 1..(Len(s) - 1)
      /\ \A i \in 1..(Len(s) - 1) : Tail(s)[i] = s[i + 1]
  OBVIOUS
<1>2. \A i \in DOMAIN Tail(s) : i + 1 \in DOMAIN s /\ i + 1 # 1
  BY <1>1
<1>3. \A i \in DOMAIN s : i # 1 => i - 1 \in DOMAIN Tail(s) /\ Tail(s)[i - 1] = s[i]
  <2> TAKE i \in DOMAIN s
  <2> HAVE i # 1
  <2>1. i - 1 \in 1..(Len(s) - 1) /\ (i - 1) + 1 = i
    BY <1>1
  <2> QED
    BY <1>1, <2>1
<1>4. \A x \in ToSet(Tail(s)) : x \in ToSet(s) /\ x # Head(s)
  <2> TAKE x \in ToSet(Tail(s))
  <2>1. PICK i \in DOMAIN Tail(s) : x = Tail(s)[i]
    BY DEF ToSet
  <2>2. x = s[i + 1] /\ i + 1 \in DOMAIN s /\ i + 1 # 1 /\ 1 \in DOMAIN s
    BY <1>1, <1>2, <2>1
  <2> QED
    BY <1>1, <2>2 DEF ToSet
<1>5. \A x \in ToSet(s) : x # Head(s) => x \in ToSet(Tail(s))
  <2> TAKE x \in ToSet(s)
  <2> HAVE x # Head(s)
  <2>1. PICK i \in DOMAIN s : x = s[i] /\ i # 1
    BY <1>1 DEF ToSet
  <2> QED
    BY <1>3, <2>1 DEF ToSet
<1>6. \A i, j \in DOMAIN Tail(s) : Tail(s)[i] = Tail(s)[j] => i = j
  BY <1>1, <1>2
<1>7. 1 \in DOMAIN s /\ Head(s) = s[1]
  BY <1>1
<1>8. Head(s) \in ToSet(s)
  BY <1>7 DEF ToSet
<1> HIDE <1>2, <1>3, <1>7
<1> QED
  BY <1>1, <1>4, <1>5, <1>6, <1>8

\* An order of a set of nodes has all of them, each once.
LEMMA NodesInOrder ==
    ASSUME NEW S \in SUBSET Node, NEW s \in SetToSeqs(S)
    PROVE  /\ s \in Seq(S) /\ ToSet(s) = S
           /\ \A i, j \in DOMAIN s : s[i] = s[j] => i = j
<1>1. IsFiniteSet(S) /\ Cardinality(S) \in Nat
  BY FS_Subset, FS_CardinalityType, RingAssumption
<1>2. s \in [1..Cardinality(S) -> S] /\ \A i, j \in DOMAIN s : s[i] = s[j] => i = j
  BY DEF SetToSeqs
<1>3. s \in Injection(1..Cardinality(S), S)
  BY <1>2 DEF Injection, IsInjective
<1>4. Cardinality(1..Cardinality(S)) = Cardinality(S)
  BY <1>1, FS_Interval
<1>5. s \in Surjection(1..Cardinality(S), S)
  BY <1>1, <1>3, <1>4, FS_Injection
<1> QED
  BY <1>1, <1>2, <1>5 DEF Surjection, ToSet

\* The empty sequence, as a ring, a list of nodes and a function.
LEMMA NoNodes ==
    /\ DOMAIN << >> = {} /\ ToSet(<< >>) = {} /\ IsFiniteSet({})
    /\ \A S : << >> \in [{} -> S] /\ << >> \in Seq(S)
BY FS_EmptySet DEF ToSet

-----------------------------------------------------------------------------
\* The replicas of a node that are on the ring.
Done(n) ==
    {i \in 1..VirtualNodes : n \in ToSet(adding) => n = Head(adding) /\ i <= reached}

Placed == {r \in nodes \X (1..VirtualNodes) : r[2] \in Done(r[1])}

\* A node to be added is added once.
EachOnce == \A i, j \in DOMAIN adding : adding[i] = adding[j] => i = j

\* Strengthening of NoReplicaIsLost for a ring under construction.
NoneLostSoFar ==
    \A n \in nodes :
        Cardinality({p \in DOMAIN positions : positions[p] = n}) = Cardinality(Done(n))

\* Strengthening of RingDependsOnNodes for a ring under construction.
AtOwnPlace ==
    NoCollisions =>
        /\ DOMAIN positions = {hash.replica[r] : r \in Placed}
        /\ \A r \in Placed : positions[hash.replica[r]] = r[1]

RingInv == RingTypeOK /\ EachOnce /\ NoneLostSoFar /\ AtOwnPlace

\* An empty ring has lost nothing.
LEMMA RingInitially == RingInit => RingInv
BY NoNodes, RingAssumption
   DEF RingInit, RingInv, RingTypeOK, EachOnce, NoneLostSoFar, AtOwnPlace, Placed, IsBuilt

\* A replica of a node on the ring has a hash value.
LEMMA ReplicaHashes ==
    ASSUME RingTypeOK, NEW r \in nodes \X (1..VirtualNodes)
    PROVE  hash.replica[r] \in Nat /\ r \in Replica
<1>1. r \in Replica
  BY DEF RingTypeOK, Replica
<1>2. hash \in [replica : [Replica -> Nat], key : [Key -> Nat]]
  BY RingAssumption DEF RingTypeOK
<1> QED
  BY <1>1, <1>2

\* A node that comes has all its replicas still to be placed.
LEMMA AddNodeKeeps ==
    ASSUME RingInv, NEW n \in Node, AddNode(n)
    PROVE  RingInv'
<1>1. /\ adding = << >> /\ n \notin nodes /\ nodes' = nodes \cup {n} /\ adding' = <<n>>
      /\ hash' = hash /\ positions' = positions /\ reached' = reached /\ reached = 0
  BY DEF AddNode, RingInv, RingTypeOK, IsBuilt
<1>2. ToSet(adding) = {} /\ ToSet(adding') = {n} /\ Head(adding') = n
  BY <1>1, NoNodes DEF ToSet
<1>3. adding' \in Seq(nodes') /\ \A i, j \in DOMAIN adding' : adding'[i] = adding'[j] => i = j
  BY <1>1
<1>4. RingTypeOK' /\ EachOnce'
  <2>1. positions' \in [DOMAIN positions' -> nodes']
    BY <1>1 DEF RingInv, RingTypeOK
  <2>2. IsBuilt' => reached' = 0
    BY <1>1 DEF IsBuilt
  <2> QED
    BY <1>1, <1>3, <2>1, <2>2 DEF RingInv, RingTypeOK, EachOnce
<1>5. Done(n)' = {} /\ \A m \in nodes : Done(m)' = Done(m) /\ m # n
  BY <1>1, <1>2 DEF Done
<1>6. \A p \in DOMAIN positions : positions[p] \in nodes
  BY DEF RingInv, RingTypeOK
<1>7. NoneLostSoFar'
  <2> SUFFICES ASSUME NEW m \in nodes'
               PROVE  Cardinality({p \in DOMAIN positions : positions[p] = m})
                        = Cardinality(Done(m)')
    BY <1>1 DEF NoneLostSoFar
  <2>1. CASE m = n
    <3>1. {p \in DOMAIN positions : positions[p] = m} = {}
      BY <1>1, <1>6, <2>1
    <3> QED
      BY <1>5, <2>1, <3>1
  <2>2. CASE m # n
    BY <1>1, <1>5, <2>2 DEF RingInv, NoneLostSoFar
  <2> QED
    BY <2>1, <2>2
<1>8. Placed' = Placed
  BY <1>1, <1>5 DEF Placed
<1>9. AtOwnPlace'
  BY <1>1, <1>8 DEF RingInv, AtOwnPlace, NoCollisions
<1> QED
  BY <1>4, <1>7, <1>9 DEF RingInv

\* A removal starts over with the remaining nodes.
LEMMA RemoveNodeKeeps ==
    ASSUME RingInv, NEW n \in Node, RemoveNode(n)
    PROVE  RingInv'
<1>1. /\ nodes' = nodes \ {n} /\ positions' = << >> /\ hash' = hash /\ reached' = 0
      /\ adding' \in SetToSeqs(nodes') /\ nodes' \in SUBSET Node
  BY DEF RemoveNode, RingInv, RingTypeOK, IsBuilt
<1>2. adding' \in Seq(nodes') /\ ToSet(adding') = nodes' /\ EachOnce'
  BY <1>1, NodesInOrder DEF EachOnce
<1>3. RingTypeOK'
  BY <1>1, <1>2, NoNodes, RingAssumption DEF RingInv, RingTypeOK
<1>4. \A m \in nodes' : Done(m)' = {}
  BY <1>1, <1>2 DEF Done
<1>5. NoneLostSoFar'
  BY <1>1, <1>4, NoNodes DEF NoneLostSoFar
<1>6. Placed' = {}
  BY <1>4 DEF Placed
<1>7. AtOwnPlace'
  BY <1>1, <1>6, NoNodes DEF AtOwnPlace
<1> QED
  BY <1>2, <1>3, <1>5, <1>7 DEF RingInv

\* One turn of the loop: one more replica of the first node is placed, nothing else.
LEMMA PlaceAdvances ==
    ASSUME RingInv, Place, NEW n, n = Head(adding)
    PROVE  /\ n \in nodes /\ reached + 1 \in 1..VirtualNodes
           /\ adding' \in Seq(nodes) /\ EachOnce' /\ reached' \in 0..(VirtualNodes - 1)
           /\ IsBuilt' => reached' = 0
           /\ Done(n) = 1..reached /\ Done(n)' = 1..(reached + 1)
           /\ \A m \in Node \ {n} : Done(m)' = Done(m)
<1>1. /\ adding # << >> /\ adding \in Seq(nodes) /\ reached \in 0..(VirtualNodes - 1)
      /\ VirtualNodes \in Nat \ {0}
      /\ \A i, j \in DOMAIN adding : adding[i] = adding[j] => i = j
  BY RingAssumption DEF Place, RingInv, RingTypeOK, IsBuilt, EachOnce
<1>2. /\ Tail(adding) \in Seq(nodes) /\ n \in ToSet(adding) /\ n \in nodes
      /\ ToSet(Tail(adding)) = ToSet(adding) \ {n}
      /\ \A i, j \in DOMAIN Tail(adding) : Tail(adding)[i] = Tail(adding)[j] => i = j
  BY <1>1, NodesAfterFirst
<1>3. Done(n) = 1..reached
  BY <1>1, <1>2 DEF Done
<1>4. CASE reached + 1 < VirtualNodes
  <2>1. reached' = reached + 1 /\ adding' = adding
    BY <1>4 DEF Place
  <2>2. Done(n)' = 1..(reached + 1) /\ \A m \in Node \ {n} : Done(m)' = Done(m)
    BY <1>1, <1>2, <1>4, <2>1 DEF Done
  <2> QED
    BY <1>1, <1>2, <1>3, <1>4, <2>1, <2>2 DEF EachOnce, IsBuilt
<1>5. CASE ~(reached + 1 < VirtualNodes)
  <2>1. reached' = 0 /\ adding' = Tail(adding) /\ reached + 1 = VirtualNodes
    BY <1>1, <1>5 DEF Place
  <2>2. ToSet(adding') = ToSet(adding) \ {n} /\ EachOnce'
    BY <1>2, <2>1 DEF EachOnce
  <2>3. Done(n)' = 1..(reached + 1)
    BY <2>1, <2>2 DEF Done
  <2>4. \A m \in Node \ {n} : Done(m)' = Done(m)
    BY <1>1, <2>1, <2>2 DEF Done
  <2> QED
    BY <1>1, <1>2, <1>3, <2>1, <2>2, <2>3, <2>4
<1> QED
  BY <1>4, <1>5

\* A replica takes a free position, so it drives out no other.
LEMMA PlaceKeeps ==
    ASSUME RingInv, Place
    PROVE  RingInv'
<1>1. PICK n : n = Head(adding)
  OBVIOUS
<1>2. /\ n \in nodes /\ reached + 1 \in 1..VirtualNodes
      /\ adding' \in Seq(nodes) /\ EachOnce' /\ reached' \in 0..(VirtualNodes - 1)
      /\ IsBuilt' => reached' = 0
      /\ Done(n) = 1..reached /\ Done(n)' = 1..(reached + 1)
      /\ \A m \in Node \ {n} : Done(m)' = Done(m)
  BY <1>1, PlaceAdvances
<1>3. PICK own : own = hash.replica[<<n, reached + 1>>]
  OBVIOUS
<1>4. own \in Nat /\ <<n, reached + 1>> \in nodes \X (1..VirtualNodes)
  BY <1>2, <1>3, ReplicaHashes DEF RingInv
<1>5. PICK h : h = FirstFree(own)
  OBVIOUS
<1>6. h \in Nat \ DOMAIN positions /\ (own \notin DOMAIN positions => h = own)
  BY <1>4, <1>5, FirstFreeIsFree DEF RingInv
<1>7. /\ DOMAIN positions' = DOMAIN positions \cup {h}
      /\ positions'[h] = n /\ \A p \in DOMAIN positions : positions'[p] = positions[p]
      /\ positions' = [p \in DOMAIN positions \cup {h} |->
                          IF p = h THEN n ELSE positions[p]]
      /\ hash' = hash /\ nodes' = nodes
  BY <1>1, <1>3, <1>5, <1>6 DEF Place
<1>8. RingTypeOK'
  <2>1. IsFiniteSet(DOMAIN positions') /\ DOMAIN positions' \subseteq Nat
    BY <1>6, <1>7, FS_AddElement DEF RingInv, RingTypeOK
  <2>2. positions' \in [DOMAIN positions' -> nodes']
    BY <1>2, <1>7 DEF RingInv, RingTypeOK
  <2> QED
    BY <1>2, <1>7, <2>1, <2>2 DEF RingInv, RingTypeOK
<1>9. NoneLostSoFar'
  <2> SUFFICES ASSUME NEW m \in nodes
               PROVE  Cardinality({p \in DOMAIN positions' : positions'[p] = m})
                        = Cardinality(Done(m)')
    BY <1>7 DEF NoneLostSoFar
  <2> DEFINE Of == {p \in DOMAIN positions : positions[p] = m}
  <2>1. Cardinality(Of) = Cardinality(Done(m)) /\ IsFiniteSet(Of) /\ h \notin Of
    BY <1>6, FS_Subset DEF RingInv, NoneLostSoFar, RingTypeOK
  <2>2. CASE m = n
    <3>1. {p \in DOMAIN positions' : positions'[p] = m} = Of \cup {h}
      BY <1>7, <2>2
    <3>2. Cardinality(Of \cup {h}) = Cardinality(Of) + 1
      BY <2>1, FS_AddElement
    <3>3. reached \in Nat /\ reached + 1 \in Nat
      BY <1>2 DEF RingInv, RingTypeOK
    <3>4. Cardinality(1..reached) = reached /\ Cardinality(1..(reached + 1)) = reached + 1
      BY <3>3, FS_Interval
    <3> QED
      BY <1>2, <2>1, <2>2, <3>1, <3>2, <3>4
  <2>3. CASE m # n
    <3>1. {p \in DOMAIN positions' : positions'[p] = m} = Of
      BY <1>6, <1>7, <2>3
    <3>2. Done(m)' = Done(m)
      BY <1>2, <2>3 DEF RingInv, RingTypeOK
    <3> QED
      BY <2>1, <3>1, <3>2
  <2> QED
    BY <2>2, <2>3
<1>10. Placed' = Placed \cup {<<n, reached + 1>>} /\ <<n, reached + 1>> \notin Placed
  <2>1. nodes \subseteq Node /\ reached \in Nat /\ reached + 1 > reached
    BY <1>2 DEF RingInv, RingTypeOK
  <2>2. ASSUME NEW r \in nodes \X (1..VirtualNodes), r # <<n, reached + 1>>
        PROVE  r \in Placed' <=> r \in Placed
    <3>1. PICK m \in nodes, i \in 1..VirtualNodes : r = <<m, i>>
      OBVIOUS
    <3>2. CASE m = n
      <4>1. i # reached + 1
        BY <2>2, <3>1, <3>2
      <4>2. i \in Done(n)' <=> i \in Done(n)
        BY <1>2, <2>1, <4>1
      <4> QED
        BY <1>7, <3>1, <3>2, <4>2 DEF Placed
    <3>3. CASE m # n
      BY <1>2, <1>7, <2>1, <3>1, <3>3 DEF Placed
    <3> QED
      BY <3>2, <3>3
  <2>3. <<n, reached + 1>> \in Placed' /\ <<n, reached + 1>> \notin Placed
    BY <1>2, <1>4, <1>7, <2>1 DEF Placed
  <2> QED
    BY <1>7, <2>2, <2>3 DEF Placed
<1>11. AtOwnPlace'
  <2> SUFFICES ASSUME NoCollisions
               PROVE  /\ DOMAIN positions' = {hash.replica[r] : r \in Placed'}
                      /\ \A r \in Placed' : positions'[hash.replica[r]] = r[1]
    BY <1>7 DEF AtOwnPlace, NoCollisions
  <2>1. /\ DOMAIN positions = {hash.replica[r] : r \in Placed}
        /\ \A r \in Placed : positions[hash.replica[r]] = r[1]
    BY DEF RingInv, AtOwnPlace
  <2>2. \A r \in Placed : hash.replica[r] # own
    <3> TAKE r \in Placed
    <3>1. r \in Replica /\ <<n, reached + 1>> \in Replica
      BY <1>4, ReplicaHashes DEF Placed, RingInv
    <3> QED
      BY <1>3, <1>10, <3>1 DEF NoCollisions
  <2>3. h = own
    BY <1>6, <2>1, <2>2
  <2>4. DOMAIN positions' = {hash.replica[r] : r \in Placed'}
    BY <1>3, <1>7, <1>10, <2>1, <2>3
  <2>5. \A r \in Placed : hash.replica[r] \in DOMAIN positions
    BY <2>1
  <2>6. \A r \in Placed : positions'[hash.replica[r]] = r[1]
    BY <1>7, <2>1, <2>5
  <2>7. \A r \in {<<n, reached + 1>>} : positions'[hash.replica[r]] = r[1]
    BY <1>3, <1>7, <2>3
  <2> QED
    BY <1>10, <2>4, <2>6, <2>7
<1> QED
  BY <1>2, <1>8, <1>9, <1>11 DEF RingInv

\* Every step keeps the invariant of the ring.
LEMMA RingStep ==
    ASSUME RingInv, [RingNext]_ringVars
    PROVE  RingInv'
<1>1. CASE UNCHANGED ringVars
  BY <1>1 DEF ringVars, RingInv, RingTypeOK, IsBuilt, EachOnce, NoneLostSoFar, AtOwnPlace,
       NoCollisions, Placed, Done
<1>2. CASE RingNext
  BY <1>2, AddNodeKeeps, RemoveNodeKeeps, PlaceKeeps DEF RingNext
<1> QED
  BY <1>1, <1>2

\* The inductive invariant: it counts what is on the ring while nodes are being added.
THEOREM RingInvariance == RingSpec => []RingInv
BY RingInitially, RingStep, PTL DEF RingSpec

\* The ring keeps its types: every position has a node of the ring.
THEOREM RingTypeCorrect == RingSpec => []RingTypeOK
BY RingInvariance, PTL DEF RingInv

\* add_node gives every node all its replicas, whatever collides with what.
THEOREM AllReplicas == RingSpec => []NoReplicaIsLost
<1>1. RingInv => NoReplicaIsLost
  <2> SUFFICES ASSUME RingInv, IsBuilt, NEW n \in nodes
               PROVE  Cardinality({p \in DOMAIN positions : positions[p] = n}) = VirtualNodes
    BY DEF NoReplicaIsLost
  <2>1. Done(n) = 1..VirtualNodes
    BY NoNodes DEF IsBuilt, Done
  <2>2. Cardinality(1..VirtualNodes) = VirtualNodes
    BY FS_Interval, RingAssumption
  <2> QED
    BY <2>1, <2>2 DEF RingInv, NoneLostSoFar
<1> QED
  BY <1>1, RingInvariance, PTL

-----------------------------------------------------------------------------
\* The ring of the nodes S has each replica of them at its own hash value.
LEMMA RingOfHasAll ==
    ASSUME RingTypeOK, NoCollisions, NEW S \in SUBSET nodes
    PROVE  /\ DOMAIN RingOf(S) = {hash.replica[r] : r \in S \X (1..VirtualNodes)}
           /\ DOMAIN RingOf(S) \in SUBSET Nat
           /\ \A r \in S \X (1..VirtualNodes) : RingOf(S)[hash.replica[r]] = r[1]
<1> DEFINE Own == S \X (1..VirtualNodes)
<1>1. \A r \in Own : hash.replica[r] \in Nat /\ r \in Replica
  BY ReplicaHashes
<1>2. DOMAIN RingOf(S) = {hash.replica[r] : r \in Own}
  BY DEF RingOf
<1>3. ASSUME NEW r \in Own PROVE RingOf(S)[hash.replica[r]] = r[1]
  <2> DEFINE s == CHOOSE s \in Own : hash.replica[s] = hash.replica[r]
  <2>1. s \in Own /\ hash.replica[s] = hash.replica[r]
    OBVIOUS
  <2>2. s = r
    BY <1>1, <2>1 DEF NoCollisions
  <2>3. RingOf(S)[hash.replica[r]] = s[1]
    BY <1>2 DEF RingOf
  <2> QED
    BY <2>2, <2>3
<1> QED
  BY <1>1, <1>2, <1>3

\* Without collisions a built ring is the one its nodes make, in whatever order they came.
LEMMA RingIsRingOfNodes ==
    ASSUME RingInv, IsBuilt, NoCollisions
    PROVE  positions = RingOf(nodes)
<1>1. Placed = nodes \X (1..VirtualNodes)
  BY NoNodes DEF Placed, Done, IsBuilt
<1>2. /\ DOMAIN positions = {hash.replica[r] : r \in Placed}
      /\ \A r \in Placed : positions[hash.replica[r]] = r[1]
  BY DEF RingInv, AtOwnPlace
<1>3. /\ DOMAIN RingOf(nodes) = {hash.replica[r] : r \in Placed}
      /\ \A r \in Placed : RingOf(nodes)[hash.replica[r]] = r[1]
  BY <1>1, RingOfHasAll DEF RingInv
<1>4. \A p \in DOMAIN positions : positions[p] = RingOf(nodes)[p]
  BY <1>2, <1>3
<1>5. positions = [p \in DOMAIN positions |-> positions[p]]
  BY DEF RingInv, RingTypeOK
<1>6. RingOf(nodes) = [p \in DOMAIN RingOf(nodes) |-> RingOf(nodes)[p]]
  BY DEF RingOf
<1> QED
  BY <1>2, <1>3, <1>4, <1>5, <1>6

\* Without collisions the ring depends on its nodes only, for every history of additions
\* and removals.
THEOREM SameNodesSameRing == RingSpec => []RingDependsOnNodes
<1>1. RingInv => RingDependsOnNodes
  BY RingIsRingOfNodes DEF RingDependsOnNodes
<1> QED
  BY <1>1, RingInvariance, PTL

\* Without collisions a node takes and leaves behind only its own keys.
THEOREM OthersKeepTheirKeys == RingSpec => []KeysStayPut
<1>1. RingInv => KeysStayPut
  <2> SUFFICES ASSUME RingInv, IsBuilt, NoCollisions, NEW n \in nodes, NEW k \in Key,
                      Owner(k) # n
               PROVE  OwnerOn(RingOf(nodes \ {n}), k) = Owner(k)
    BY DEF KeysStayPut
  <2> DEFINE R == RingOf(nodes)
             W == RingOf(nodes \ {n})
             FromR == {p \in DOMAIN R : hash.key[k] <= p}
             FromW == {p \in DOMAIN W : hash.key[k] <= p}
  <2>1. positions = R
    BY RingIsRingOfNodes
  <2>2. /\ DOMAIN R = {hash.replica[r] : r \in nodes \X (1..VirtualNodes)}
        /\ DOMAIN R \in SUBSET Nat
        /\ \A r \in nodes \X (1..VirtualNodes) : R[hash.replica[r]] = r[1]
    BY RingOfHasAll DEF RingInv
  <2>3. /\ DOMAIN W = {hash.replica[r] : r \in (nodes \ {n}) \X (1..VirtualNodes)}
        /\ DOMAIN W \in SUBSET Nat
        /\ \A r \in (nodes \ {n}) \X (1..VirtualNodes) : W[hash.replica[r]] = r[1]
    BY RingOfHasAll DEF RingInv
  <2>4. \A p \in DOMAIN W : p \in DOMAIN R /\ W[p] = R[p]
    <3> TAKE p \in DOMAIN W
    <3>1. PICK r \in (nodes \ {n}) \X (1..VirtualNodes) : p = hash.replica[r]
      BY <2>3
    <3>2. r \in nodes \X (1..VirtualNodes)
      BY <3>1
    <3> QED
      BY <2>2, <2>3, <3>1, <3>2
  <2>5. \A p \in DOMAIN R : R[p] # n => p \in DOMAIN W
    <3> TAKE p \in DOMAIN R
    <3> HAVE R[p] # n
    <3>1. PICK r \in nodes \X (1..VirtualNodes) : p = hash.replica[r]
      BY <2>2
    <3>2. r \in (nodes \ {n}) \X (1..VirtualNodes)
      BY <2>2, <3>1
    <3> QED
      BY <2>3, <3>1, <3>2
  <2> SUFFICES OwnerOn(W, k) = Owner(k)
    OBVIOUS
  <2> HIDE DEF R, W
  <2>6. FromR \in SUBSET Nat /\ FromW \in SUBSET FromR
    BY <2>2, <2>3, <2>4
  <2>7. Owner(k) = R[IF FromR # {} THEN Min(FromR) ELSE Min(DOMAIN R)]
    BY <2>1 DEF Owner, OwnerOn
  <2>8. OwnerOn(W, k) = W[IF FromW # {} THEN Min(FromW) ELSE Min(DOMAIN W)]
    BY DEF OwnerOn
  <2>9. CASE FromR # {}
    <3>1. Min(FromR) \in FromR /\ \A p \in FromR : Min(FromR) <= p
      BY <2>6, <2>9, MinIsLeast
    <3>2. Min(FromR) \in FromW
      BY <2>5, <2>7, <2>9, <3>1
    <3>3. Min(FromW) = Min(FromR) /\ FromW # {}
      BY <2>6, <3>1, <3>2, LeastIsMin
    <3> QED
      BY <2>4, <2>7, <2>8, <2>9, <3>2, <3>3
  <2>10. CASE FromR = {}
    <3>1. DOMAIN R # {}
      <4>1. <<n, 1>> \in nodes \X (1..VirtualNodes)
        BY RingAssumption
      <4> QED
        BY <2>2, <4>1, ZenonT(30)
    <3>2. Min(DOMAIN R) \in DOMAIN R /\ \A p \in DOMAIN R : Min(DOMAIN R) <= p
      BY <2>2, <3>1, MinIsLeast
    <3>3. Min(DOMAIN R) \in DOMAIN W
      BY <2>5, <2>7, <2>10, <3>2
    <3>4. Min(DOMAIN W) = Min(DOMAIN R)
      BY <2>3, <2>4, <3>2, <3>3, LeastIsMin
    <3>5. FromW = {}
      BY <2>6, <2>10
    <3> QED
      BY <2>4, <2>7, <2>8, <2>10, <3>3, <3>4, <3>5
  <2> QED
    BY <2>9, <2>10
<1> QED
  BY <1>1, RingInvariance, PTL

-----------------------------------------------------------------------------
(* QueryTable.                                                             *)

\* The first row of a sequence without repetitions is not among the others.
LEMMA RowsAfterFirst ==
    ASSUME NEW S, NEW s \in Seq(S), s # << >>,
           \A i, j \in DOMAIN s : s[i] = s[j] => i = j
    PROVE  /\ Tail(s) \in Seq(S) /\ Head(s) \in ToSet(s)
           /\ ToSet(Tail(s)) = ToSet(s) \ {Head(s)}
           /\ \A i, j \in DOMAIN Tail(s) : Tail(s)[i] = Tail(s)[j] => i = j
           /\ DOMAIN Tail(s) = 1..(Len(s) - 1)
           /\ \A i \in DOMAIN Tail(s) : i + 1 \in DOMAIN s /\ Tail(s)[i] = s[i + 1]
<1>1. /\ Len(s) \in Nat \ {0} /\ DOMAIN s = 1..Len(s) /\ Head(s) = s[1]
      /\ Tail(s) \in Seq(S) /\ DOMAIN Tail(s) = 1..(Len(s) - 1)
      /\ \A i \in 1..(Len(s) - 1) : Tail(s)[i] = s[i + 1]
  OBVIOUS
<1>2. \A i \in DOMAIN s : i # 1 => i - 1 \in DOMAIN Tail(s) /\ Tail(s)[i - 1] = s[i]
  <2> TAKE i \in DOMAIN s
  <2> HAVE i # 1
  <2>1. i - 1 \in 1..(Len(s) - 1) /\ (i - 1) + 1 = i
    BY <1>1
  <2> QED
    BY <1>1, <2>1
<1>3. \A i \in DOMAIN Tail(s) : i + 1 \in DOMAIN s /\ i + 1 # 1
  BY <1>1
<1>4. ToSet(Tail(s)) = ToSet(s) \ {Head(s)}
  <2>1. ASSUME NEW x \in ToSet(Tail(s)) PROVE x \in ToSet(s) /\ x # Head(s)
    <3>1. PICK i \in DOMAIN Tail(s) : x = Tail(s)[i]
      BY DEF ToSet
    <3>2. x = s[i + 1] /\ i + 1 \in DOMAIN s /\ i + 1 # 1 /\ 1 \in DOMAIN s
      BY <1>1, <1>3, <3>1
    <3> QED
      BY <1>1, <3>2 DEF ToSet
  <2>2. ASSUME NEW x \in ToSet(s), x # Head(s) PROVE x \in ToSet(Tail(s))
    <3>1. PICK i \in DOMAIN s : x = s[i] /\ i # 1
      BY <1>1, <2>2 DEF ToSet
    <3> QED
      BY <1>2, <3>1 DEF ToSet
  <2> QED
    BY <2>1, <2>2
<1>5. \A i, j \in DOMAIN Tail(s) : Tail(s)[i] = Tail(s)[j] => i = j
  BY <1>1, <1>3
<1>6. 1 \in DOMAIN s /\ Head(s) = s[1]
  BY <1>1
<1>7. Head(s) \in ToSet(s)
  BY <1>6 DEF ToSet
<1>8. \A i \in DOMAIN Tail(s) : i + 1 \in DOMAIN s /\ Tail(s)[i] = s[i + 1]
  BY <1>1, <1>3
<1> HIDE <1>2, <1>3, <1>6
<1> QED
  BY <1>1, <1>4, <1>5, <1>7, <1>8

\* A writer without a batch has no rows.
LEMMA NoRows ==
    /\ NoCounts \in [Query -> Nat] /\ RowsOf(NoCounts) = {}
    /\ << >> \in Seq(Query) /\ ToSet(<< >>) = {} /\ DOMAIN << >> = {}
BY DEF NoCounts, RowsOf, ToSet

\* An order of a set of rows has all of them, each once.
LEMMA RowsInOrder ==
    ASSUME NEW S \in SUBSET Query, NEW s \in SetToSeqs(S)
    PROVE  /\ s \in Seq(Query) /\ ToSet(s) = S
           /\ \A i, j \in DOMAIN s : s[i] = s[j] => i = j
<1>1. IsFiniteSet(S) /\ Cardinality(S) \in Nat
  BY FS_Subset, FS_CardinalityType, TableAssumption
<1>2. s \in [1..Cardinality(S) -> S] /\ \A i, j \in DOMAIN s : s[i] = s[j] => i = j
  BY DEF SetToSeqs
<1>3. s \in Injection(1..Cardinality(S), S)
  BY <1>2 DEF Injection, IsInjective
<1>4. Cardinality(1..Cardinality(S)) = Cardinality(S)
  BY <1>1, FS_Interval
<1>5. s \in Surjection(1..Cardinality(S), S)
  BY <1>1, <1>3, <1>4, FS_Injection
<1> QED
  BY <1>1, <1>2, <1>5 DEF Surjection, ToSet

-----------------------------------------------------------------------------
\* Why a commit adds its batch: a row is held by one transaction, and nobody changes
\* it between the lock and the end of the transaction.
Exclusive == \A v, w \in Writer : v # w => Held(v) \cap Held(w) = {}

WroteOnTop ==
    \A w \in Writer : \A q \in Held(w) : new[w][q] = count[q] + batch[w][q]

\* The rows a writer has still to lock are rows of its batch, each once.
RowsLeft ==
    \A w \in Writer :
        /\ ToSet(rows[w]) \subseteq RowsOf(batch[w])
        /\ \A i, j \in DOMAIN rows[w] : rows[w][i] = rows[w][j] => i = j

\* Strengthening of FlushersNeverDeadlock: a flusher holds only rows before those it
\* has still to lock.
HoldsBefore ==
    \A f \in Flusher :
        /\ InRowOrder(rows[f])
        /\ \A q \in Held(f), r \in ToSet(rows[f]) : Rank[q] < Rank[r]

TableInv == TableTypeOK /\ RowsLeft /\ Exclusive /\ WroteOnTop /\ HoldsBefore

\* An empty table is locked by nobody.
LEMMA TableInitially == TableInit => TableInv
<1> SUFFICES ASSUME TableInit PROVE TableInv
  OBVIOUS
<1>1. \A w \in Writer : batch[w] = NoCounts /\ rows[w] = << >> /\ Held(w) = {}
  BY NoRows DEF TableInit, Held
<1>2. TableTypeOK
  BY NoRows DEF TableInit, TableTypeOK
<1>3. RowsLeft /\ Exclusive /\ WroteOnTop
  BY <1>1, NoRows DEF RowsLeft, Exclusive, WroteOnTop
<1>4. HoldsBefore
  BY <1>1, NoRows DEF HoldsBefore, InRowOrder, Writer
<1> QED
  BY <1>2, <1>3, <1>4 DEF TableInv

\* The transaction of w ends: w holds nothing, the others what they did.
LEMMA EndReleases ==
    ASSUME TableInv, NEW w \in Writer, End(w)
    PROVE  /\ batch' \in [Writer -> [Query -> Nat]] /\ rows' \in [Writer -> Seq(Query)]
           /\ new' \in [Writer -> [Query -> Nat]]
           /\ batch'[w] = NoCounts /\ rows'[w] = << >>
           /\ Held(w)' = {} /\ ToSet(rows'[w]) = {}
           /\ \A v \in Writer \ {w} :
                 /\ batch'[v] = batch[v] /\ rows'[v] = rows[v] /\ new'[v] = new[v]
                 /\ Held(v)' = Held(v)
<1>1. NoCounts \in [Query -> Nat]
  BY DEF NoCounts
<1>2. /\ batch' \in [Writer -> [Query -> Nat]] /\ rows' \in [Writer -> Seq(Query)]
      /\ new' \in [Writer -> [Query -> Nat]]
      /\ batch'[w] = NoCounts /\ rows'[w] = << >>
      /\ \A v \in Writer \ {w} :
            batch'[v] = batch[v] /\ rows'[v] = rows[v] /\ new'[v] = new[v]
  BY <1>1 DEF TableInv, TableTypeOK, End
<1>3. Held(w)' = {} /\ ToSet(rows'[w]) = {}
  BY <1>2, NoRows DEF Held
<1>4. \A v \in Writer \ {w} : Held(v)' = Held(v)
  BY <1>2 DEF Held
<1> QED
  BY <1>2, <1>3, <1>4

\* What the ways to end a transaction have in common.
LEMMA EndKeeps ==
    ASSUME TableInv, NEW w \in Writer, End(w)
    PROVE  RowsLeft' /\ Exclusive' /\ HoldsBefore'
<1>1. RowsLeft'
  BY EndReleases, NoRows DEF TableInv, RowsLeft
<1>2. Exclusive'
  BY EndReleases DEF TableInv, Exclusive
<1>3. HoldsBefore'
  BY EndReleases, NoRows DEF TableInv, HoldsBefore, InRowOrder, Writer
<1> QED
  BY <1>1, <1>2, <1>3

\* A statement begins with all its rows to be locked, in its order, and none held.
LEMMA BeginKeeps ==
    ASSUME TableInv, NEW w \in Writer, NEW delta \in [Query -> Nat], Begin(w, delta)
    PROVE  TableInv'
<1> DEFINE S == RowsOf(delta)
<1>1. PICK s \in LockOrders(w, S) : rows' = [rows EXCEPT ![w] = s]
  BY DEF Begin
<1>2. s \in SetToSeqs(S) /\ (w \in Flusher => InRowOrder(s))
  BY DEF LockOrders
<1>3. s \in Seq(Query) /\ ToSet(s) = S /\ \A i, j \in DOMAIN s : s[i] = s[j] => i = j
  <2>1. S \in SUBSET Query
    BY DEF RowsOf
  <2> QED
    BY <1>2, <2>1, RowsInOrder
<1>4. /\ batch' \in [Writer -> [Query -> Nat]] /\ rows' \in [Writer -> Seq(Query)]
      /\ batch'[w] = delta /\ rows'[w] = s
      /\ \A v \in Writer \ {w} : batch'[v] = batch[v] /\ rows'[v] = rows[v]
      /\ count' = count /\ new' = new
  BY <1>1, <1>3 DEF Begin, TableInv, TableTypeOK
<1>5. Held(w)' = {} /\ \A v \in Writer \ {w} : Held(v)' = Held(v)
  BY <1>3, <1>4 DEF Held
<1>6. RowsLeft'
  BY <1>3, <1>4, ZenonT(30) DEF TableInv, RowsLeft
<1>7. Exclusive' /\ WroteOnTop'
  BY <1>4, <1>5 DEF TableInv, Exclusive, WroteOnTop
<1>8. HoldsBefore'
  BY <1>2, <1>4, <1>5 DEF TableInv, HoldsBefore, InRowOrder, Writer
<1> QED
  BY <1>4, <1>6, <1>7, <1>8 DEF TableInv, TableTypeOK

\* A row that is locked was free, and what is written is computed under the lock.
LEMMA LockKeeps ==
    ASSUME TableInv, NEW w \in Writer, LockRow(w)
    PROVE  TableInv'
<1> DEFINE s == rows[w]
           q == Head(rows[w])
<1>1. /\ s \in Seq(Query) /\ s # << >> /\ \A i, j \in DOMAIN s : s[i] = s[j] => i = j
      /\ \A v \in Writer : q \notin Held(v)
      /\ new' = [new EXCEPT ![w][q] = count[q] + batch[w][q]]
      /\ rows' = [rows EXCEPT ![w] = Tail(s)]
      /\ count' = count /\ batch' = batch
  BY DEF LockRow, TableInv, TableTypeOK, RowsLeft
<1>2. /\ Tail(s) \in Seq(Query) /\ q \in ToSet(s) /\ ToSet(Tail(s)) = ToSet(s) \ {q}
      /\ \A i, j \in DOMAIN Tail(s) : Tail(s)[i] = Tail(s)[j] => i = j
      /\ DOMAIN Tail(s) = 1..(Len(s) - 1)
      /\ \A i \in DOMAIN Tail(s) : i + 1 \in DOMAIN s /\ Tail(s)[i] = s[i + 1]
  BY <1>1, RowsAfterFirst
<1>3. q \in Query /\ q \in RowsOf(batch[w])
  BY <1>2 DEF TableInv, RowsLeft, RowsOf
<1>4. /\ rows' \in [Writer -> Seq(Query)] /\ rows'[w] = Tail(s)
      /\ \A v \in Writer \ {w} : rows'[v] = rows[v] /\ new'[v] = new[v]
      /\ new' \in [Writer -> [Query -> Nat]]
      /\ new'[w][q] = count[q] + batch[w][q]
      /\ \A r \in Query \ {q} : new'[w][r] = new[w][r]
  <2>1. count[q] + batch[w][q] \in Nat /\ new[w] \in [Query -> Nat]
    BY <1>3 DEF TableInv, TableTypeOK
  <2>2. new' = [new EXCEPT ![w] = [new[w] EXCEPT ![q] = count[q] + batch[w][q]]]
    BY <1>1
  <2> QED
    BY <1>1, <1>2, <1>3, <2>1, <2>2, SMTT(30) DEF TableInv, TableTypeOK
<1>5. Held(w)' = Held(w) \cup {q} /\ \A v \in Writer \ {w} : Held(v)' = Held(v)
  BY <1>1, <1>2, <1>3, <1>4 DEF Held
<1>6. RowsLeft'
  BY <1>1, <1>2, <1>4 DEF TableInv, RowsLeft
<1>7. Exclusive'
  BY <1>1, <1>5 DEF TableInv, Exclusive
<1>8. WroteOnTop'
  <2>1. \A v \in Writer : Held(v) \subseteq Query
    BY DEF Held, RowsOf
  <2> QED
    BY <1>1, <1>4, <1>5, <2>1 DEF TableInv, WroteOnTop
<1>9. HoldsBefore'
  <2> SUFFICES ASSUME NEW f \in Flusher
               PROVE  /\ InRowOrder(rows'[f])
                      /\ \A a \in Held(f)', b \in ToSet(rows'[f]) : Rank[a] < Rank[b]
    BY DEF HoldsBefore, InRowOrder
  <2>1. CASE f # w
    BY <1>4, <1>5, <2>1 DEF TableInv, HoldsBefore, Writer
  <2>2. CASE f = w
    <3>1. InRowOrder(s) /\ \A a \in Held(w), b \in ToSet(s) : Rank[a] < Rank[b]
      BY <2>2 DEF TableInv, HoldsBefore
    <3>2. Len(s) \in Nat \ {0} /\ DOMAIN s = 1..Len(s) /\ q = s[1]
      BY <1>1
    <3>3. \A i \in DOMAIN Tail(s) : i \in Nat /\ 1 < i + 1 /\ 1 \in DOMAIN s
      BY <1>2, <3>2
    <3>4. InRowOrder(Tail(s))
      <4> SUFFICES ASSUME NEW i \in DOMAIN Tail(s), NEW j \in DOMAIN Tail(s), i < j
                   PROVE  Rank[Tail(s)[i]] < Rank[Tail(s)[j]]
        BY DEF InRowOrder
      <4>1. i + 1 \in DOMAIN s /\ j + 1 \in DOMAIN s /\ i + 1 < j + 1
        BY <1>2, <3>3
      <4> QED
        BY <1>2, <3>1, <4>1 DEF InRowOrder
    <3>5. \A b \in ToSet(Tail(s)) : Rank[q] < Rank[b]
      <4> TAKE b \in ToSet(Tail(s))
      <4>1. PICK i \in DOMAIN Tail(s) : b = Tail(s)[i]
        BY DEF ToSet
      <4> QED
        BY <1>2, <3>1, <3>2, <3>3, <4>1 DEF InRowOrder
    <3> QED
      BY <1>2, <1>4, <1>5, <2>2, <3>1, <3>4, <3>5
  <2> QED
    BY <2>1, <2>2
<1> QED
  BY <1>1, <1>4, <1>6, <1>7, <1>8, <1>9 DEF TableInv, TableTypeOK

\* A commit puts the batch of its transaction on top of the committed counts.
LEMMA CommitAddsBatch ==
    ASSUME TableInv, NEW w \in Writer, Commit(w)
    PROVE  count' = [q \in Query |-> count[q] + batch[w][q]]
<1>1. Held(w) = RowsOf(batch[w])
  BY DEF Commit, Held, ToSet
<1>2. \A q \in Query : count'[q] = count[q] + batch[w][q]
  <2> TAKE q \in Query
  <2>1. batch[w][q] \in Nat /\ count[q] \in Nat
    BY DEF TableInv, TableTypeOK
  <2>2. CASE q \in RowsOf(batch[w])
    BY <1>1, <2>2 DEF Commit, TableInv, WroteOnTop
  <2>3. CASE q \notin RowsOf(batch[w])
    BY <2>1, <2>3 DEF Commit, RowsOf
  <2> QED
    BY <2>2, <2>3
<1>3. count' = [q \in Query |-> count'[q]]
  BY DEF Commit
<1> QED
  BY <1>2, <1>3

\* A commit changes only rows it holds, so what others wrote stays on top of their counts.
LEMMA CommitKeeps ==
    ASSUME TableInv, NEW w \in Writer, Commit(w)
    PROVE  TableInv'
<1>1. End(w) /\ rows[w] = << >>
  BY DEF Commit
<1>2. Held(w) = RowsOf(batch[w])
  BY <1>1 DEF Held, ToSet
<1>3. count' \in [Query -> Nat]
  BY CommitAddsBatch DEF TableInv, TableTypeOK
<1>4. WroteOnTop'
  <2> SUFFICES ASSUME NEW v \in Writer, NEW q \in Held(v)'
               PROVE  new'[v][q] = count'[q] + batch'[v][q]
    BY DEF WroteOnTop
  <2>0. v # w /\ q \in Held(v)
    BY <1>1, EndReleases
  <2>1. q \notin RowsOf(batch[w]) /\ q \in Query
    BY <1>2, <2>0 DEF TableInv, Exclusive, Held, RowsOf
  <2>2. count'[q] = count[q]
    BY <2>1 DEF Commit
  <2> QED
    BY <1>1, <2>0, <2>2, EndReleases DEF TableInv, WroteOnTop
<1> QED
  BY <1>1, <1>3, <1>4, EndReleases, EndKeeps DEF TableInv, TableTypeOK

\* A rollback lets go of its rows and changes no count.
LEMMA RollbackKeeps ==
    ASSUME TableInv, NEW w \in Writer, Rollback(w)
    PROVE  TableInv'
<1>1. End(w) /\ count' = count
  BY DEF Rollback
<1>2. WroteOnTop'
  BY <1>1, EndReleases DEF TableInv, WroteOnTop
<1> QED
  BY <1>1, <1>2, EndReleases, EndKeeps DEF TableInv, TableTypeOK

\* Every step keeps the invariant of the table.
LEMMA TableStep ==
    ASSUME TableInv, [TableNext]_tableVars
    PROVE  TableInv'
<1>1. CASE UNCHANGED tableVars
  BY <1>1 DEF tableVars, TableInv, TableTypeOK, RowsLeft, Exclusive, WroteOnTop, HoldsBefore,
       Held
<1>2. CASE TableNext
  BY <1>2, BeginKeeps, LockKeeps, CommitKeeps, RollbackKeeps DEF TableNext
<1> QED
  BY <1>1, <1>2

\* The inductive invariant of the table: who holds which rows, and what he has written.
THEOREM TableInvariance == TableSpec => []TableInv
BY TableInitially, TableStep, PTL DEF TableSpec

\* Types, for any writers and rows.
THEOREM TableTypeCorrect == TableSpec => []TableTypeOK
BY TableInvariance, PTL DEF TableInv

\* A transaction that runs has a batch.
LEMMA RunsWithBatch ==
    ASSUME TableInv, NEW w \in Writer, Running(w)
    PROVE  batch[w] # NoCounts
BY DEF Running, RowsOf, NoCounts

\* A writer without a transaction has none.
LEMMA RestsWithout ==
    ASSUME TableInv, NEW w \in Writer, ~Running(w)
    PROVE  batch[w] = NoCounts
<1>1. batch[w] \in [Query -> Nat] /\ \A q \in Query : ~(batch[w][q] > 0)
  BY DEF TableInv, TableTypeOK, Running, RowsOf
<1>2. \A q \in Query : batch[w][q] = 0
  BY <1>1
<1> QED
  BY <1>1, <1>2 DEF NoCounts

\* Taking a lock changes neither a committed count nor what a transaction is to add; the
\* other steps are those of a table without locks.
LEMMA UpsertStep ==
    ASSUME TableInv, [TableNext]_tableVars
    PROVE  [Atomic!UpsertNext]_<<count, batch>>
<1>1. ASSUME NEW w \in Writer, NEW delta \in [Query -> Nat], Begin(w, delta)
      PROVE  Atomic!Begins(w)
  <2>1. batch[w] = NoCounts /\ batch \in [Writer -> [Query -> Nat]]
    BY <1>1, RestsWithout DEF Begin, TableInv, TableTypeOK
  <2>2. batch' = [batch EXCEPT ![w] = delta] /\ batch'[w] = delta /\ count' = count
    BY <1>1, <2>1 DEF Begin
  <2> QED
    BY <2>1, <2>2 DEF Atomic!Begins, Atomic!NoCounts, NoCounts
<1>2. ASSUME NEW w \in Writer, LockRow(w) PROVE UNCHANGED <<count, batch>>
  BY <1>2 DEF LockRow
<1>3. ASSUME NEW w \in Writer, Commit(w) PROVE Atomic!Commits(w)
  BY <1>3, RunsWithBatch, CommitAddsBatch
     DEF Commit, End, Atomic!Commits, Atomic!Ends, Atomic!NoCounts, NoCounts
<1>4. ASSUME NEW w \in Writer, Rollback(w) PROVE Atomic!Aborts(w)
  BY <1>4, RunsWithBatch
     DEF Rollback, End, Atomic!Aborts, Atomic!Ends, Atomic!NoCounts, NoCounts
<1> QED
  BY <1>1, <1>2, <1>3, <1>4 DEF TableNext, tableVars, Atomic!UpsertNext

\* Statements that lock their rows one by one, in any order, with any number of writers and
\* rows, rollbacks included, add their batches as if each did so in one instant.
THEOREM ImplementsAtomicUpserts == TableSpec => UpsertsAreAtomic
<1>1. TableInit => Atomic!UpsertInit
  BY DEF TableInit, Atomic!UpsertInit, Atomic!NoCounts, NoCounts
<1>2. TableInv /\ [TableNext]_tableVars => [Atomic!UpsertNext]_<<count, batch>>
  BY UpsertStep
<1> QED
  BY <1>1, <1>2, TableInvariance, PTL DEF TableSpec, UpsertsAreAtomic, Atomic!UpsertSpec

-----------------------------------------------------------------------------
\* A set of rows has a last one.
LEMMA LastRow ==
    ASSUME NEW T \in SUBSET Query, T # {}
    PROVE  \E q \in T : \A r \in T : Rank[r] <= Rank[q]
<1> DEFINE After(q) == {r \in Query : Rank[q] < Rank[r]}
           Sets == {After(q) : q \in T}
<1>1. IsWellFoundedOn(StrictSubsetOrdering(Query), FiniteSubsetsOf(Query))
  BY FS_StrictSubsetOrderingWellFounded
<1>2. Sets \subseteq FiniteSubsetsOf(Query) /\ Sets # {}
  <2>1. \A q \in T : After(q) \in SUBSET Query /\ IsFiniteSet(After(q))
    BY TableAssumption, FS_Subset
  <2> QED
    BY <2>1 DEF FiniteSubsetsOf
<1>3. PICK A \in Sets : \A B \in Sets : <<B, A>> \notin StrictSubsetOrdering(Query)
  BY <1>1, <1>2, WFMin
<1>4. PICK q \in T : A = After(q)
  OBVIOUS
<1>5. ASSUME NEW r \in T, Rank[q] < Rank[r] PROVE FALSE
  <2>1. After(r) \subseteq After(q) /\ r \in After(q) /\ r \notin After(r)
    BY <1>5, TableAssumption
  <2>2. <<After(r), After(q)>> \in StrictSubsetOrdering(Query)
    BY <2>1 DEF StrictSubsetOrdering
  <2> QED
    BY <1>3, <1>4, <2>2
<1>6. \A r \in T : Rank[r] \in Nat /\ Rank[q] \in Nat
  BY TableAssumption
<1> QED
  BY <1>5, <1>6

\* Flushers never wait for each other in a circle, however many there are: among those
\* that wait for another, the one that waits for the last row waits for none of them.
THEOREM NoDeadlock == TableSpec => []FlushersNeverDeadlock
<1>1. TableInv => FlushersNeverDeadlock
  <2> SUFFICES ASSUME TableInv, NEW S \in (SUBSET Flusher) \ {{}},
                      \A w \in S : \E v \in S : WaitsFor(w, v)
               PROVE  FALSE
    BY DEF FlushersNeverDeadlock
  <2> DEFINE Wanted(w) == Head(rows[w])
             T == {Wanted(w) : w \in S}
  <2>1. S \subseteq Writer
    BY DEF Writer
  <2>2. \A w \in S : Wanted(w) \in ToSet(rows[w]) /\ Wanted(w) \in Query
    <3> TAKE w \in S
    <3>1. w \in Writer /\ rows[w] # << >>
      BY <2>1 DEF WaitsFor
    <3>2. rows[w] \in Seq(Query) /\ \A i, j \in DOMAIN rows[w] : rows[w][i] = rows[w][j] => i = j
      BY <3>1 DEF TableInv, TableTypeOK, RowsLeft
    <3>3. Head(rows[w]) \in ToSet(rows[w]) /\ Head(rows[w]) \in Query
      BY <3>1, <3>2, RowsAfterFirst
    <3> QED
      BY <3>3
  <2>3. T \in SUBSET Query /\ T # {}
    <3>1. PICK w : w \in S
      OBVIOUS
    <3>2. Wanted(w) \in T
      BY <3>1
    <3>3. \A x \in T : x \in Query
      BY <2>2
    <3> QED
      BY <3>2, <3>3
  <2>4. PICK w \in S : \A v \in S : Rank[Wanted(v)] <= Rank[Wanted(w)]
    BY <2>3, LastRow
  <2>5. PICK v \in S : Wanted(w) \in Held(v)
    BY DEF WaitsFor
  <2>6. Rank[Wanted(w)] < Rank[Wanted(v)]
    BY <2>2, <2>5 DEF TableInv, HoldsBefore
  <2> QED
    BY <2>2, <2>4, <2>6, TableAssumption
<1> QED
  BY <1>1, TableInvariance, PTL

=============================================================================
