------------------------------ MODULE PrefixCache ------------------------------
(***************************************************************************)
(* The whole read and write path over all keys and nodes: DistributedCache *)
(* routes keys over the ring, readers store the documents of their         *)
(* prefixes, and flushers, after each commit, delete the keys of every     *)
(* prefix of what they wrote, node by node.                                *)
(*                                                                         *)
(* A reader fetches in one step and stores in another, and commits and     *)
(* deletes may fall between them.  Who of several readers of one key goes  *)
(* to the database is the matter of SuggestionService, and whether a node  *)
(* answers that of CacheNode.  Ranking and the limit are left out: a       *)
(* document is what the query finds.                                       *)
(***************************************************************************)
EXTENDS Normalization, HashRing, QueryTable

CONSTANTS
    Raw,          \* what clients type or search for
    Delta,        \* what a flush or an ingest may add
    Reader,       \* bound: requests between their fetch and their SET at a time
    NoDocument    \* no entry, or one that has expired; no request

\* REDIS_NODES names a node; without one nothing is cached.
ASSUME CacheAssumption ==
    /\ Delta \subseteq [Query -> Nat]
    /\ Node # {}
    /\ \A q \in Query \cup Raw : IsText(q)

VARIABLES
    serving,    \* DistributedCache has been built
    store,      \* store[n][k]: the document under key k on node n
    reading,    \* reading[r]: the key reader r was asked for and the document it fetched
    dirty,      \* dirty[f]: the keys flusher f has still to delete
    overtaken,  \* history: readers whose rows a commit changed after their fetch
    stale       \* history: keys with an entry whose delete was not done, or that an
                \* overtaken reader stored

cacheVars == <<serving, store, reading, dirty, overtaken, stale>>
vars == <<ringVars, tableVars, cacheVars>>

Init ==
    /\ RingInit
    /\ TableInit
    /\ serving = FALSE
    /\ store = [n \in Node |-> [k \in Key |-> NoDocument]]
    /\ reading = [r \in Reader |-> NoDocument]
    /\ dirty = [f \in Flusher |-> {}]
    /\ overtaken = {}
    /\ stale = {}

-----------------------------------------------------------------------------
(* The ring is built before the first request and stays; tests also take   *)
(* nodes off it.                                                           *)

Build ==
    /\ ~serving
    /\ RingNext
    /\ UNCHANGED <<tableVars, cacheVars>>

\* All nodes of REDIS_NODES are on the ring.
Start ==
    /\ ~serving
    /\ IsBuilt
    /\ nodes = Node
    /\ serving' = TRUE
    /\ UNCHANGED <<ringVars, tableVars, store, reading, dirty, overtaken, stale>>

-----------------------------------------------------------------------------
(* A read.                                                                 *)

PrefixOfKey(k) == k[2]

\* The rows that the pattern for the key's prefix matches.
Matching == [k \in Key |-> {q \in Query : StartsWith(q, PrefixOfKey(k))}]

\* fetch_suggestions
Fetch(k) == [q \in {q \in Matching[k] : count[q] > 0} |-> count[q]]

\* The key a client's text is looked up under.
KeyOf == [raw \in Raw |-> suggestion_cache_key(PrefixOf(raw))]

\* The inputs GET /suggest accepts.
Accepted == {raw \in Raw : IsValid(raw, MaxPrefixLength)}

\* Keys are those of prefixes; all that are asked for are looked at.
ASSUME KeyAssumption ==
    /\ {KeyOf[raw] : raw \in Accepted} \subseteq Key
    /\ \A k \in Key :
          LET prefix == PrefixOfKey(k)
          IN /\ IsText(prefix) /\ Len(prefix) \in 1..MaxPrefixLength
             /\ k = suggestion_cache_key(prefix)

IsReading(r) == reading[r] # NoDocument

\* The GET has missed, or failed, at some time before: the query is done.  (A request that
\* hits, or whose query fails, changes nothing.)
Read(r, raw) ==
    /\ serving
    /\ raw \in Accepted
    /\ ~IsReading(r)
    /\ reading' = [reading EXCEPT ![r] = [key |-> KeyOf[raw], doc |-> Fetch(KeyOf[raw])]]
    /\ UNCHANGED <<serving, store, dirty, overtaken, stale, ringVars, tableVars>>

\* The reader is done with its request.
Finish(r) ==
    /\ reading' = [reading EXCEPT ![r] = NoDocument]
    /\ overtaken' = overtaken \ {r}

\* The SET: the document is stored on the owner of its key, over whatever is there and
\* whatever was committed or deleted since the fetch.  One that times out may be applied as
\* late as this.
Store(r) ==
    /\ IsReading(r)
    /\ LET k == reading[r].key
       IN /\ store' = [store EXCEPT ![Owner(k)][k] = reading[r].doc]
          /\ stale' = IF r \in overtaken THEN stale \cup {k} ELSE stale \ {k}
    /\ Finish(r)
    /\ UNCHANGED <<serving, dirty, ringVars, tableVars>>

\* The breaker of the node refuses the SET, or it fails.
StoreFails(r) ==
    /\ IsReading(r)
    /\ Finish(r)
    /\ UNCHANGED <<serving, store, dirty, stale, ringVars, tableVars>>

\* cache_ttl_seconds after the SET.
Expire(n, k) ==
    /\ store[n][k] # NoDocument
    /\ store' = [store EXCEPT ![n][k] = NoDocument]
    /\ stale' = stale \ {k}
    /\ UNCHANGED <<serving, reading, dirty, overtaken, ringVars, tableVars>>

-----------------------------------------------------------------------------
(* A flush and its deletes.                                                *)

\* The worker is done with a flush before it starts the next.
BeginWrite(w) ==
    /\ serving
    /\ w \in Flusher => dirty[w] = {}
    /\ \E delta \in Delta : Begin(w, delta)
    /\ UNCHANGED <<ringVars, cacheVars>>

\* The keys to delete for a row.
KeysOfRow == [q \in Query |-> InvalidatedKeys({q}) \cap Key]

\* Keys that hold a document.
Cached(keys) == {k \in keys : \E n \in Node : store[n][k] # NoDocument}

\* Readers that have fetched what a commit by w changes.
Overtakes(w) ==
    {r \in Reader : IsReading(r) /\ Matching[reading[r].key] \cap RowsOf(batch[w]) # {}}

\* The flusher turns to the cache; ingest.py does not know of it.
CommitWrite(w) ==
    /\ Commit(w)
    /\ LET keys == UNION {KeysOfRow[q] : q \in RowsOf(batch[w])}
       IN IF w \in Flusher
          THEN dirty' = [dirty EXCEPT ![w] = keys] /\ UNCHANGED stale
          ELSE stale' = stale \cup Cached(keys) /\ UNCHANGED dirty
    /\ overtaken' = overtaken \cup Overtakes(w)
    /\ UNCHANGED <<ringVars, serving, store, reading>>

WriteStep(w) ==
    /\ LockRow(w) \/ Rollback(w)
    /\ UNCHANGED <<ringVars, cacheVars>>

\* delete_many for one of the nodes: all its keys; or, when the breaker refuses or a chunk
\* fails, those of the chunks before it.
DeleteFrom(f, n) ==
    LET keys == {k \in dirty[f] : Owner(k) = n}
    IN /\ keys # {}
       /\ \E gone \in SUBSET keys :
             /\ store' = [store EXCEPT ![n] =
                             [k \in Key |-> IF k \in gone THEN NoDocument ELSE @[k]]]
             /\ stale' = (stale \ gone) \cup Cached(keys \ gone)
       /\ dirty' = [dirty EXCEPT ![f] = @ \ keys]
       /\ UNCHANGED <<serving, reading, overtaken, ringVars, tableVars>>

\* The process ends between the commit and the deletes.
Die(f) ==
    /\ dirty[f] # {}
    /\ stale' = stale \cup Cached(dirty[f])
    /\ dirty' = [dirty EXCEPT ![f] = {}]
    /\ UNCHANGED <<serving, store, reading, overtaken, ringVars, tableVars>>

-----------------------------------------------------------------------------
Next ==
    \/ Build \/ Start
    \/ \E r \in Reader : Store(r) \/ StoreFails(r) \/ \E raw \in Raw : Read(r, raw)
    \/ \E n \in Node, k \in Key : Expire(n, k)
    \/ \E w \in Writer : BeginWrite(w) \/ WriteStep(w) \/ CommitWrite(w)
    \/ \E f \in Flusher : Die(f) \/ \E n \in Node : DeleteFrom(f, n)

Spec == Init /\ [][Next]_vars

-----------------------------------------------------------------------------
(* Properties.                                                             *)

TypeOK ==
    /\ RingTypeOK
    /\ TableTypeOK
    /\ serving \in BOOLEAN
    /\ \A n \in Node, k \in Key :
          store[n][k] # NoDocument =>
              /\ DOMAIN store[n][k] \subseteq Query
              /\ \A q \in DOMAIN store[n][k] : store[n][k][q] \in Nat \ {0}
    /\ \A r \in Reader : IsReading(r) => reading[r].key \in Key
    /\ dirty \in [Flusher -> SUBSET Key]
    /\ overtaken \subseteq Reader
    /\ stale \subseteq Key

\* A document on the node that readers ask is what the database would answer now, with three
\* exceptions: its delete is still to come; its delete could not be done; or a reader fetched
\* it before a commit that changed its rows and stored it afterwards (ARCHITECTURE.md:98).
\* Reads, deletes and the ring agree on the text of a key, on its node and on which keys a
\* commit touches, whoever commits (normalization.py:3-5, batch_worker.py:162-167).
CachedIsCurrent ==
    serving =>
        \A k \in Key :
            \/ store[Owner(k)][k] \in {NoDocument, Fetch(k)}
            \/ k \in stale \cup UNION {dirty[f] : f \in Flusher}

\* The rows a prefix finds are those that start with it, character by character, whatever
\* the prefix contains (query_repository.py:11-13).
AnswersMatchPrefix ==
    \A k \in Key :
        DOMAIN Fetch(k) = {q \in Query : count[q] > 0 /\ IsPrefix(PrefixOfKey(k), q)}

-----------------------------------------------------------------------------
(* What the tests of normalize_text say and the code does not keep.        *)

\* "A row written under normalize(s) must be found by a read of the same raw input."
RowsAreReachable ==
    \A raw \in Raw :
        IsValid(raw, MaxQueryLength) /\ IsValid(raw, MaxPrefixLength)
            /\ QueryOf(raw) \in Query /\ count[QueryOf(raw)] > 0
        => QueryOf(raw) \in DOMAIN Fetch(KeyOf[raw])

=============================================================================
