------------------------------- MODULE HashRing -------------------------------
(***************************************************************************)
(* ConsistentHashRing: which node owns which cache key.                    *)
(*                                                                         *)
(* A node is placed replica by replica, as add_node does it, so that what  *)
(* one replica finds depends on those before it.  The hash function is     *)
(* fixed but arbitrary: one of Hash, with or without collisions.           *)
(***************************************************************************)
EXTENDS Naturals, SequencesExt

CONSTANTS
    Node,            \* the physical nodes that may be on the ring
    Key,             \* the cache keys
    VirtualNodes,    \* virtual_nodes: replicas of a node
    Hash             \* the hash functions: [replica : ..., key : ...]

Replica == Node \X (1..VirtualNodes)

ASSUME RingAssumption ==
    /\ IsFiniteSet(Node)
    /\ VirtualNodes \in Nat \ {0}
    /\ Hash \subseteq [replica : [Replica -> Nat], key : [Key -> Nat]]

VARIABLES
    hash,        \* _hash
    nodes,       \* self.nodes, with those being added
    positions,   \* self.positions: the node at a hash value; self.ring is its domain
    adding,      \* the nodes add_node is called for, in order; it is at the first
    reached      \* how many replicas of that node are placed

ringVars == <<hash, nodes, positions, adding, reached>>

RingInit ==
    /\ hash \in Hash
    /\ nodes = {}
    /\ positions = << >>
    /\ adding = << >>
    /\ reached = 0

-----------------------------------------------------------------------------
IsBuilt == adding = << >>

AddNode(n) ==
    /\ IsBuilt
    /\ n \notin nodes
    /\ nodes' = nodes \cup {n}
    /\ adding' = <<n>>
    /\ UNCHANGED <<hash, positions, reached>>

\* Faulty: no look at self.positions, the replica that was there is lost.
FirstFreeOverwrites(h) == h

\* while h in self.positions: h += 1
FirstFree(h) ==
    Min({g \in h..(h + Cardinality(DOMAIN positions)) : g \notin DOMAIN positions})

\* One turn of the loop of add_node.
Place ==
    /\ ~IsBuilt
    /\ LET n == Head(adding)
           h == FirstFree(hash.replica[<<n, reached + 1>>])
       IN positions' = [g \in DOMAIN positions \cup {h} |-> IF g = h THEN n ELSE positions[g]]
    /\ IF reached + 1 < VirtualNodes
       THEN reached' = reached + 1 /\ UNCHANGED adding
       ELSE reached' = 0 /\ adding' = Tail(adding)
    /\ UNCHANGED <<hash, nodes>>

\* Faulty: the nodes that remain are placed again on the ring as it is.
RemoveNodeKeepsPositions(n) ==
    /\ IsBuilt
    /\ n \in nodes
    /\ nodes' = nodes \ {n}
    /\ positions' = [g \in {p \in DOMAIN positions : positions[p] # n} |-> positions[g]]
    /\ adding' \in SetToSeqs(nodes \ {n})
    /\ UNCHANGED <<hash, reached>>

\* Faulty: the node's replicas stay on the ring.
RemoveNodeFromSetOnly(n) ==
    /\ IsBuilt
    /\ n \in nodes
    /\ nodes' = nodes \ {n}
    /\ UNCHANGED <<hash, positions, adding, reached>>

\* The ring is built anew from the nodes that remain, in the order of a Python set.
RemoveNode(n) ==
    /\ IsBuilt
    /\ n \in nodes
    /\ nodes' = nodes \ {n}
    /\ positions' = << >>
    /\ adding' \in SetToSeqs(nodes \ {n})
    /\ UNCHANGED <<hash, reached>>

\* Faulty: the position is the hash modulo their number.
OwnerModulo(ring, k) ==
    LET Before(p) == Cardinality({q \in DOMAIN ring : q < p})
    IN ring[CHOOSE p \in DOMAIN ring : Before(p) = hash.key[k] % Cardinality(DOMAIN ring)]

\* bisect_left and the wrap-around: the owner of a key on a ring that is not empty.
OwnerOn(ring, k) ==
    LET from == {p \in DOMAIN ring : hash.key[k] <= p}
    IN ring[IF from # {} THEN Min(from) ELSE Min(DOMAIN ring)]

\* get_node, _get_node_client
Owner(k) == OwnerOn(positions, k)

RingNext ==
    \/ \E n \in Node : AddNode(n) \/ RemoveNode(n)
    \/ Place

RingSpec == RingInit /\ [][RingNext]_ringVars

-----------------------------------------------------------------------------
(* Properties.                                                             *)

RingTypeOK ==
    /\ hash \in Hash
    /\ nodes \subseteq Node
    /\ IsFiniteSet(DOMAIN positions)
    /\ DOMAIN positions \subseteq Nat
    /\ positions \in [DOMAIN positions -> nodes]
    /\ adding \in Seq(nodes)
    /\ reached \in 0..(VirtualNodes - 1)
    /\ IsBuilt => reached = 0

NoCollisions ==
    \A r, s \in Replica : hash.replica[r] = hash.replica[s] => r = s

\* The ring that has each replica of the nodes S at its own hash value.
RingOf(S) ==
    [h \in {hash.replica[r] : r \in S \X (1..VirtualNodes)} |->
        (CHOOSE r \in S \X (1..VirtualNodes) : hash.replica[r] = h)[1]]

\* Without collisions the ring is a function of its nodes: no history of additions and
\* removals, and no order in which a removal rebuilds it, makes two processes disagree
\* about the owner of a key (test_hash_ring.py:26, 58).
RingDependsOnNodes == IsBuilt /\ NoCollisions => positions = RingOf(nodes)

\* Also with collisions every node keeps all its replicas: none is replaced by one that
\* came later (consistent_hash_ring.py:35-37).
NoReplicaIsLost ==
    IsBuilt => \A n \in nodes :
        Cardinality({p \in DOMAIN positions : positions[p] = n}) = VirtualNodes

\* A removal moves only the keys of the node removed, and an addition only takes keys
\* for the node added, whatever wraps around (test_hash_ring.py:51, 58).
KeysStayPut ==
    IsBuilt /\ NoCollisions =>
        \A n \in nodes :
            LET without == RingOf(nodes \ {n})
            IN \A k \in Key : Owner(k) # n => OwnerOn(without, k) = Owner(k)

=============================================================================
