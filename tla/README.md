# TypeAheadX: a verification project

TypeAheadX is an autocomplete service: `GET /suggest` answers a prefix from a
Redis cache or from PostgreSQL, `POST /search` counts a search in memory, and a
batch worker writes the counts to PostgreSQL and deletes the cached prefixes
they change. This directory holds TLA+ models of the parts that run
concurrently and fail independently, the TLC configurations that check them on
small instances, and proofs for every value of the constants.

Source paths are relative to `src/backend/app/` unless they start with `src/`.

## The system: inventory

| component | state | operations | correct when |
|---|---|---|---|
| write buffer (`write_buffer/buffer.py`) | counts per query, bounded number of queries | `increment`, `flush`, `merge` | never above the bound, no count lost or duplicated |
| batch worker (`write_buffer/batch_worker.py`) | loop thread, stop event, a flush's snapshot and its split into written, dropped and pending rows | `start`, `_run_loop`, `stop`, `flush`, `_write`, `_invalidate_cache` | every event settles once; bad rows do not take good ones along; a shutdown leaves nothing behind but a flush that outlasts its 30 s |
| write metrics (`write_buffer/metrics.py`) | counters | `record_*`, `get_snapshot` | they account for every event |
| `POST /search` (`api/search.py`) | none | validate, increment, count | accepted exactly if counted |
| process lifecycle (`main.py`) | start, stop, exit | lifespan, warm-up, error handlers | final flush before exit |
| query repository and table (`repositories/query_repository.py`) | rows with counts | one-statement upsert, prefix fetch, `ping` | a batch is one transaction; no lost updates, no deadlock between flushers |
| circuit breaker (`utils/breaker.py`) | open-until, probing | `allow`, `record_success`, `record_failure`, `cancel_probe` | one probe in a half-open window, never stuck |
| Redis node, distributed cache (`cache/redis_node.py`, `cache/distributed_cache.py`) | a breaker and a client per node | `get`, `set`, `delete`, `delete_many`, `get_ttl`, `get_debug_info` | a dead node costs one thread; a live one is used |
| database guard (`database/guard.py`) | breaker, slots, worker threads, queue | `call` | deadline for every caller, at most `max_concurrency` calls, recovery |
| suggestion service (`services/suggestion_service.py`) | table of flights, times of recent ones | `suggest_json`, `_load`, `_single_flight` | one query per burst, no follower left behind, bounded staleness |
| hash ring (`cache/consistent_hash_ring.py`) | sorted positions | `add_node`, `remove_node`, `get_node` | the ring depends on the node set only, no replica is lost, keys of other nodes stay |
| normalization (`services/normalization.py`) | none | `normalize_text`, `validate_text`, `escape_like` | read path, write path and keys agree |
| in-memory cache, cache metrics (`cache/memory_cache.py`, `cache/metrics.py`) | a dict; counters | get, set, delete; record, read | - |
| ASGI middlewares (`main.py`) | per request: rejected, started | body limit, timing | exactly one response |
| suggestion box (`src/frontend/src/hooks`, `components`, `lib`) | text, debounced text, submitted text, result, highlight, requests on their way | type, clear, focus, arrows, Enter, Escape, click, debounce, fetch, abort | rows belong to the text shown; Enter takes the marked row; the spinner ends |
| ingest (`src/backend/ingest.py`) | a transaction | one upsert of a whole file | adds up beside running flushers |
| migration, benchmarks, data preparation | - | one-shot tools | - |

How they interact. Request threads call the suggestion service, which calls the
distributed cache (one breaker per node) and, through the guard (one breaker
for the database), the repository. `POST /search` touches only the buffer and the
metrics. The batch worker takes the buffer's contents, writes them *without* the
guard, puts back what an outage kept from the database, and deletes cache keys.
The distributed cache asks the ring for the node of each key; reads and writes
share one normalisation, and the keys a flush deletes have to be the keys the reads
use. Several API processes, and the ingest script, write to the same rows. The
suggestion box in the browser talks to the API only through the two requests.
Shared state: the buffer (its lock), breakers (their locks), slots and queue of
the guard, the table of flights (its lock), the rows, the cache.

What is hard: two flushers on one buffer during shutdown; a batch that fails
half way; the unknown outcome of a commit; results that reach a breaker long
after the call was let in; callers that time out while their call runs on;
requests that become leaders just after a flight ended; a document stored after
the delete that should have removed it; several processes upserting the same rows;
replies, timers and keys in any order in the browser. `PROJECT.json` lists each of these under
`hazards` with its line and the properties about it.

## Modules

| module | models | composed with |
|---|---|---|
| `SearchLedger` | abstract: what the write path promises for accepted searches | refined by `BatchWorker` |
| `BatchWorker` | buffer, batch worker, event metrics, `POST /search`, start, stop, crash, the database's answers | instantiates `SearchLedger` |
| `BatchWorkerProofs` | theorems about `BatchWorker` | extends it |
| `CircuitBreaker` | the breaker as operators on a record | extended by the two below |
| `CacheNode` | callers of one Redis node behind its breaker | extends `CircuitBreaker` |
| `CacheNodeProofs` | theorems about `CacheNode` | extends it |
| `DatabaseGuard` | callers, slots, workers, queue, deadline, breaker | extends `CircuitBreaker` |
| `DatabaseGuardProofs` | theorems about `DatabaseGuard` | extends it |
| `SuggestionService` | requests for one key, flights, cache entry, flushers | - |
| `SuggestionServiceProofs` | theorems about `SuggestionService` | extends it |
| `Normalization` | normalisation, validation, keys, LIKE patterns, as operators | extended by `PrefixCache` |
| `HashRing` | the ring, placed replica by replica | extended by `PrefixCache` |
| `AtomicUpserts` | abstract: what the table promises its writers | refined by `QueryTable` |
| `QueryTable` | the rows under the transactions of several writers | instantiates `AtomicUpserts`, extended by `PrefixCache` |
| `PrefixCache` | the read and write path over all keys, nodes and rows | composes the three above |
| `NormalizationProofs` | theorems about the operators of `Normalization` | extends it |
| `RingAndTableProofs` | theorems about the ring and the table | extends both |
| `PrefixCacheProofs` | theorems about `PrefixCache`, which is a ring and a table | extends it and the two before |
| `SuggestionBox` | the autocomplete box of the page | - |
| `SuggestionBoxProofs` | theorems about `SuggestionBox` | extends it |
| `MC*` | values of the constants for TLC | extend the module they are named after |

Operators whose comment begins with *Faulty* are variants of the action below
them with a plausible mistake in it. No specification uses them; each exists to
show that a property notices the mistake (`mutants` in `PROJECT.json`).

### BatchWorker

A flusher (`loop`, `final`) runs `flush()` in steps another thread or the database
can see: `Swap` (`WriteBuffer.flush` under its lock); for each batch
`BatchCommits`, `BatchFails` or `CommitReplyLost`, then the `ping` in `PingFails`,
`Bisect` or `DropRow`; `Requeue` (`merge` and its metrics); `SettleRows` (metrics
of what was written and dropped). The recursion of `_write` is a set `todo` of
batches taken in sort order, which is the order the recursion visits them in.
Queries are numbers because bisection sorts them. `BatchFails` does not say
whether the data or an outage was the reason: the code finds out by pinging, and
the database may have changed in between.

`Search` merges `increment` with `record_search`: a flush between the two would
only make the metrics run ahead until the handler's next step. `merge` iterates
a dict, whose order decides which rows find room; `Restorable` allows every
choice. The process can be killed at any step (`Crash`); a commit on its way then
may or may not take effect (`landed`). `Joined` may end the wait for the loop at any
moment: `join(timeout=30)` goes by the clock, and a flush can take longer on a healthy
database too (row locks of an ingest run, a long bisection). When the process then exits,
`abandoned` (history) notes the queries whose rows that flush still held. Counters since the
process began are reset by its death, the ledger variables (`accepted`, `committed`, `dropped`,
`shed`, `lost`) are not: they are history, not program state.

### CircuitBreaker and CacheNode

`_open_until` is compared with a clock; the model keeps the three cases the code
tells apart: closed, a window running, a window elapsed. A record `[window,
probing]` is the breaker, and each method maps it to the next. `CacheNode` has
the common shape of all cache operations (allow, I/O, one report) and the second
I/O of `get_debug_info`, whose failure is reported without an `allow`. `probe[c]`
and `late[c]` are history: who was let in as the probe, and who was already under
way when a window elapsed.

### DatabaseGuard

The place of each caller in `call`, the number of free slots, the queue and the
workers. A call carries its owner; `Disown` is what a timeout does to the future
(nobody looks at it any more) and such a call stays in the queue or on its worker
as an orphan that keeps its slot. `_ensure_workers` looks at the list without the
lock, so callers pass as soon as the first worker is in it (`StartFirst`,
`StartNext`, `Enqueue`). A hung database answers nothing; callers that have waited
for it may time out from then on, also in a race with an answer that arrives
after all. A result and an SQL error are one outcome: both show the database
alive.

### SuggestionService

One cache key. A document is the version of the rows it was fetched at, 0 is
none. `flight` is the leader in the table; `Pop` and `Signal` are separate because
the lock is released between them, so that a new leader may take over before the
followers of the old one wake. `Store` may succeed, be skipped, or be given up
and still be applied later (`limbo`). Flushers commit, then delete or fail to.
`raced`, `skipped`, `loads` and `quiet` are history for the properties.

### Normalization, HashRing, QueryTable and PrefixCache

`Normalization` translates `normalize_text`, `validate_text`, `suggestion_cache_key`,
`escape_like` and `_invalidate_cache` on sequences of characters. What Python's
tables say of a character (lower case, composition, blanks, control) is a constant.
Composing and collapsing blanks are recursive functions that take the text in one
character at a time (`Compose`, `TakeChar`), as the library routines do. LIKE is
PostgreSQL's, stated as what it means: there is a way to cut the pattern into escaped
characters, plain characters and wildcards under which it covers the text. Lower case is
character by character: the one capital whose lower case is two characters (I with a dot)
and the final sigma, which depends on its place in a word, are not in the model.

`HashRing` places one replica per step, since what a replica finds depends on those
before it; `RemoveNode` empties the ring and adds the remaining nodes in any order,
as `list(self.nodes)` of a set may give them. The hash is one of the functions in
`Hash`, some with collisions.

`QueryTable` runs the upserts as PostgreSQL does: a statement locks its rows one by
one, computes each value from the row it finds under the lock, and keeps its locks to
the end of the transaction. `LockOrders` is the `ORDER BY` of the flushers' statement,
which that of `ingest.py` lacks. `Rollback` is every way a transaction ends without a
commit, PostgreSQL's choice of a deadlock victim included. `historical_count` stands
for both counts. `AtomicUpserts` is what all this amounts to: a commit adds the whole
batch of its transaction in one instant. `BatchWorker`, whose database commits a batch in
one step, relies on it.

`PrefixCache` puts them together. The ring is built (`Build`: nodes come and go, as in
the tests), then the cache serves on the ring of all nodes. A reader fetches what the
LIKE pattern finds (`Read`) and later stores it on the owner of the key (`Store`), or fails
to (`StoreFails`); commits and deletes may fall between the two. `CommitWrite` leaves the flusher with the
keys of all prefixes of its rows to delete (`dirty`), which `DeleteFrom` does node by
node, wholly, in part (a chunk of `delete_many` fails) or not at all (the breaker
refuses), and which `Die` drops. `stale` is history: keys whose entry should have been
deleted and was not, or whose document was fetched before a commit that changed it and
stored afterwards. `overtaken` is history too: the readers between fetch and SET whose rows
a commit has changed. It looks at the rows, not at the keys the flusher deletes, so a flusher
that deletes too few keys is not excused. Which requests of one key go to the database is
left to `SuggestionService`: here any request may, also while a document is stored, as after a
failed GET.

### SuggestionBox

JavaScript runs an event to its end, and React renders and runs the effects before the
next one, so each event is one action: a key, a click, the debounce timer, a reply.
What the components derive during render (`isCurrent`, `isLoading`, the list shown, the
highlighted row) are operators. Lists are compared by identity in the code; `List`
keeps what that comparison can see. A request knows whether its effect is still mounted
and whether `ApiClient` has aborted it. `skipped`, `marked` and `posts` are history.

## Runs

Every cfg gives the bounds. `CHECK_DEADLOCK FALSE` appears only for `BatchWorker`,
where the process may end for good.

| run | instance | states | shows |
|---|---|---|---|
| `BatchWorker_safety` | 3 queries, the middle one bad, room for 2, 3 searches, 1 outage, 2 lives | 417 k | `TypeOK`, `EventsConserved`, `BufferBounded`, `EachRowHasOneFate`, `HealthyDatabaseLosesNothing`, `MetricsAccountForEveryEvent`, and `KeepsLedger` (refinement of `SearchLedger`) |
| `BatchWorker_liveness` | 3 queries, the first and the last bad, room for 3, one life, commit replies may be lost, fairness | 61 k | `EventsEventuallySettle`, `StopCompletes`, `BisectionIsolatesBadRows` |
| `BatchWorker_ack_lost` | 2 queries | violation | `CommittedAtMostOnce` fails |
| `BatchWorker_good_row` | 2 queries, none bad | violation | `FailedWriteKeepsGoodEvents` fails |
| `CacheNode` | 3 callers, fairness | 7.6 k | `TypeOK`, `ProbeHasOwner`, `HalfOpenAdmitsOne`, `BreakerFollowsNode` |
| `DatabaseGuard` | 3 callers, 2 slots, fairness | 121 k | `TypeOK`, `SlotsConserved`, `ProbeHasOwner`, `EveryCallReturns`, `RecoversWithDatabase`, `LoadKeepsBreakerClosed` |
| `SuggestionService` | 3 requests (symmetric), 2 flushers, 2 commits | 1.6 M | `FlightHasItsLeader`, `FollowersAreHeard`, `BurstCostsOneQuery`, `OldOnlyByRace` |
| `PrefixCache` | 3 nodes with 2 replicas, 2 hashes, 2 rows, 3 keys of which 2 are read, 1 reader between fetch and SET, 2 flushers (symmetric), 1 ingest run | 59 k | `TypeOK`, `RingDependsOnNodes`, `NoReplicaIsLost`, `KeysStayPut`, `FlushersNeverDeadlock`, `CachedIsCurrent`, `AnswersMatchPrefix`, and `UpsertsAreAtomic` (refinement of `AtomicUpserts`) |
| `PrefixCache_unreachable` | one row, J with a caron | violation | `RowsAreReachable` fails |
| `SuggestionBox` | 4 texts, one of them blank, fairness | 44 k | `TypeOK`, `RowsBelongToText`, `OneSearchPerOpening`, `OnlyCurrentAnswers`, `EnterTakesMarkedRow`, `FetchesAreAnswered` |
| `SuggestionBox_stuck` | the same | violation | `FetchForEverything` fails |
| `SuggestionService_liveness` | 2 requests, 1 flusher, 1 commit, fairness | 48 k | `EventuallyFresh`, `EveryRequestReturns` |

Why the bounds are enough. Three queries are the smallest batch whose bisection
splits unevenly and twice, with the bad row between good ones in one run and a good row
between bad ones in the other; room for two makes `Search` refuse and merge shed rows
(to the metrics a lost reply is a failed write like any other, so they are checked there); three searches let one row hold two events, so that
rows and events differ; two lives give a restart. One outage may be of any kind
and at any step. Three callers on a breaker are a probe, an older call and a
newcomer; with two slots in the guard one caller finds them taken. Two commits and
two flushers let a document be overtaken twice and a delete belong to another
commit than the one that made the document old. `MaxRequests`, `MaxRefused`,
`MaxOutages`, `MaxLives` and `MaxVersion` bound the workload only and appear in
no guard that stands for code; `MaxUnique`, `SizeThreshold` and `MaxConcurrency`
are settings of the program.

In `PrefixCache` three nodes of two replicas are the least with which a removal leaves a
ring of several nodes; one hash has no collisions and its points include one that wraps
around, in the other replicas of all nodes fall together. The rows are `ip` and `i%p`, the
prefixes `i`, `ip` and `i%`, of which readers ask for `i` and `i%`, typed with capitals and
blanks: each pattern must find some
rows and not others, and the longest prefix (2) is shorter than one row and as long as
the other. `MaxCount` 1 stops new transactions once a row has a count, while those
that have begun go on: each row can be written by several writers at once.
One reader between fetch and SET is enough for a commit, its deletes and an expiry to fall
between the two; several readers of one key are in `SuggestionService`, and the theorem is
for any number. `ServesWithoutCollisions` (a CONSTRAINT) lets the ring with collisions be built and
changed but not serve, which would only repeat the same states with another owner.
Two texts of which one is offered for the other, an empty one and a blank are enough
for a late reply of another text, a skipped fetch and a return to the same text.

Fairness. Threads are scheduled, clocks advance. The batch worker assumes that
every outage ends: the code retries for ever and can do nothing else, and a hung
write has no deadline. That `join` returns is the clock's doing (`Joined`). The cache node assumes that I/O ends (socket timeouts,
retries are off) and that requests keep arriving, since only a request can probe.
The guard assumes deadlines fire and requests keep arriving, and *not* that a hung
database comes back; `RecoversWithDatabase` is about one that does. The
suggestion service assumes that a query ends with a result or an error (the guard
sees to it) and that documents expire; it does not assume that followers time out.
The
suggestion box assumes that timers fire and that every request ends one way or the other.
Nobody has to search, type, stop, crash or fail.

### What the violations show

* `BatchWorker_ack_lost`: `_write` takes every exception for "not committed". If
  the commit took effect and only its reply was lost, the batch is written again
  (`batch_worker.py:139-144`), against the docstring's "no double counting" (line
  25). `EventsConserved` says what still holds: never fewer events than accepted.
* `BatchWorker_good_row`: a one-row batch fails in an outage that is over when
  the ping is sent; the row is dropped as unpersistable (lines 142-148), against
  "a failed DB write never discards events" (line 22). With no outage, good events
  are never dropped, and the only ones lost without a crash are those in a flush that the
  shutdown does not wait for any longer (`HealthyDatabaseLosesNothing`).
* `SuggestionBox_stuck`: select a suggestion (its fetch is skipped), change the text and
  type the same text again within 250 ms. The debounced text never changes, so the effect
  does not run, while `submittedQuery` is null again: the spinner stays and nothing is
  fetched until another text comes, against "null means fetch for everything"
  (`useSuggestions.ts:23-24`). `FetchesAreAnswered` says what still holds.
* `PrefixCache_unreachable`: `normalize_text` composes and then lowers, and a lowered
  text may compose again (J and a combining caron). `POST /search` normalises once,
  `GET /suggest` twice, so the row is not found, against `test_normalization.py:16, 29`.

Two sentences of the breaker's docstring are stronger than what `CacheNode` checks:
"opens it for `open_seconds`" (a success reported by a call let in before the failure
closes the window early, `breaker.py:34-42`) and "exactly ONE caller" (an older call's
failure clears the probe mark of a probe under way, and the next window admits another,
`breaker.py:50-54`). `HalfOpenAdmitsOne` therefore counts only calls that are not `late`.

## Proofs

All theorems hold for every value of the constants that satisfies the named
assumptions of the modules: finite sets of queries and natural numbers as bounds.

`BatchWorkerProofs`. `EachRowHasOneFate` is not inductive alone. `JobInv` adds the types,
which sets of a flusher can hold rows in which phase (`Shape`), and that a flusher is idle
before its time and after a death; `TakeBatch` says that taking a batch out, or replacing
it by its halves, moves exactly its rows. `TypeCorrect` and `OneFatePerRow` follow;
`BufferIsBounded` is inductive with the types. `Conservation` adds the balance of each
query: a step that changes one of the terms of `Known` changes another by the same amount,
which for a flush needs that a row is in only one place. `CountersBalance` is the same
argument for the counters of `/write/metrics`, and holds with lost replies too: a batch
whose reply was lost is still counted as waiting. `ImplementsLedger` shows that the initial
states map to those of `SearchLedger` and that every step is one of its actions or leaves
its variables alone, under the assumption that commit replies arrive: with lost replies a
count grows that nobody was waiting for, which the ledger forbids.

`BisectionIsExact` and `HealthyRunLosesNothing` speak of a database that never failed and
rest on `HealthyInv`. It remembers why a flush is where it is: a batch is at a ping only
because it holds a bad row, so no row is ever pending, written rows are good and rejected
ones bad (`Sorted`, with the batch in turn unique by `CurrentIsUnique`); and once the final
flush has taken the buffer it stays empty, wherever the loop is (`CleanShutdown`), so that
an exit finds nothing in memory but what the loop holds (`ExitCutsOffTheLoop`).

`CacheNodeProofs`. `ProbeHasOwner` needs that a probing breaker's window has
elapsed (in `TypeOK`) and that a probe is still in its operation;
`HalfOpenAdmitsOne` that in an elapsed window every call that is not `late` is
the probe, and that the breaker is marked as probing while there is one.

`DatabaseGuardProofs`. `SlotsConserved` needs that a call in the queue or on a worker
that has an owner is that of a caller who waits for it, and his only one
(`CallsAreAwaited`): only then does a timeout turn exactly one caller's slot into an
orphan's, and an answer free exactly one. `ProbeHasOwner` is inductive with the types.
`SaturationNeverTrips` follows a database that has only answered: nobody is stalled and
every call that is over was answered (`OnlyAnswers`). `AdmittedCallsGetWorkers` counts:
calls in the queue and busy workers are no more than the slots in use, slots and workers
are equally many, so a queued call has a worker that is idle or being started
(`WaitingIsHeld`, `WorkersAreStarted`).

`SuggestionServiceProofs`. The place of a request says whose flight it is in
(`PlacesFit`), and a leader that has been taken off the table still signals; in an
undisturbed burst at most one request is between its miss and the store, and whoever leads
after that finds the document (`OneQuery`). `OldOnlyByRace` is inductive with the types.

`SuggestionBoxProofs`. The invariant says that a mounted request is for the debounced text
(`MountedForDebounced`), that a stored result holds the rows of its text
(`ResultOfItsText`), that the highlight of the list on the screen is the row the last
arrow went to (`HighlightIsMarked`), and that an open box has posted nothing
(`OpenHasNotPosted`). The two action properties follow from it. `AnswerComes` says that while
the answer to a text that was asked for is missing, its request is mounted and not aborted:
each request aborts the one before it, and only a newer text makes a newer request.

`NormalizationProofs` proves what the operators on texts compute, for texts of any length
over any characters. The library's induction theorems cannot be used (see below), so
`NatSetInduction` states induction for a set of naturals and rests on a least element; loops
are then described by the sequence of their intermediate texts (`NfcLoop`, `BlanksLoop`,
`FoldExists`).

* `StartsWithIsPrefix`: a text is LIKE the escaped prefix and a wildcard exactly if it starts
  with the prefix. The escaped pattern spells the prefix, one escape or plain character for
  each of its characters, after each of the three passes of `escape_like`; a pattern that
  spells a text can be cut in only one way.
* `NormalizeIsStable`: normalising twice is normalising once, under four properties of the
  tables of characters: no composed character joins the one before it (`CompositesStay`),
  lower-case forms join only where the characters join (`LowerJoinsNone`), lower case is
  final (`LowerStays`), and the space is an inert blank (`BlankStays`). The invariant is that
  the text so far is `Apart`, then `Tidy`. Python's tables of pairs and of lower case break
  `LowerJoinsNone` (for 36 pairs), and only that: `PrefixCache_unreachable` has one of them.

`RingAndTableProofs`, the ring. While it is built it holds, for each node, as many positions as
replicas were placed so far (`NoneLostSoFar`), nodes to be added occur once (`EachOnce`),
and without collisions each replica is at its own hash value (`AtOwnPlace`). So a built
ring is `RingOf(nodes)`, and `KeysStayPut` is a fact about minima of sets of positions.

The table. No two transactions hold a row (`Exclusive`), what a transaction has
written is the committed count plus its own (`WroteOnTop`), and a flusher's rows still to
be locked come after those it holds (`RowsLeft`, `HoldsBefore`). `ImplementsAtomicUpserts`
follows: a lock is a stutter of `AtomicUpserts`, a commit adds its batch because every row of
it is held and was written on top of a count nobody could change since. For
`FlushersNeverDeadlock`, the one of a set of flushers that waits for the last row waits for
nobody in it. Ingest runs are not part of that claim: their order is arbitrary.

`PrefixCacheProofs`. Every step of `PrefixCache` is one of the ring or leaves it alone, and
likewise for the table (`ImplementsRingAndTable`), so their theorems hold of the whole
path (`CacheRing`, `CacheTable`). `CachedIsCurrent` needs `CacheInv`: documents are only on
the owner of their key, the ring of a serving cache is complete, a flusher is done
with its deletes before it writes again, and a reader that is not overtaken holds what the
database would answer now (`ReadersCurrent`). The heart is `KeysCover`: the keys a flush
deletes include every key whose document it changes, because LIKE finds only rows that
start with the prefix (`StartsWithIsPrefix`, which also gives `PrefixAnswersExact`).
`RowsReachableIfStable` is the positive half of the finding of `PrefixCache_unreachable`: with
tables that have the four properties above, what a search recorded is found by the same text.

Every invariant, action property and refinement of a passing run is a theorem, and so are
two facts no run states: `AdmittedCallsGetWorkers` and `AnswerComes`, the safety cores of
`EveryCallReturns` and `FetchesAreAnswered`. `NoDoubleCounting` is the other side of
`BatchWorker_ack_lost`: the lost reply is the only way to count a search twice.

Only model-checked: liveness (`EventsEventuallySettle`, `StopCompletes`, `BreakerFollowsNode`,
`EveryCallReturns`, `RecoversWithDatabase`, `FetchesAreAnswered`, `EventuallyFresh`,
`EveryRequestReturns`). The temporal backend decides propositional steps but proves nothing
about ENABLED, which fairness needs. Induction theorems that take an operator cannot be
instantiated by the installed provers.

## Plan

Done in this order: write path and its ledger with proofs; breaker and cache node with
proofs; guard; suggestion service; suggestion box; normalisation, ring and table and their
composition; proofs of all of these, then of the texts they work on and of the table as
atomic upserts. Left: an abstract breaker that `CacheNode` and `DatabaseGuard` both implement;
a suggestion service that implements a cache with a stated staleness; what the prover does not
reach (liveness) and the parts named below.

## Not modelled

Ranking, limit and decay (`_FETCH_SQL`, `_UPSERT_SQL`, `trending_calculator.py`) are
real-valued arithmetic; the trending calculator is used by tests only. The in-memory cache
is a development provider, a dict of one process whose only race ends in a miss. Cache
metrics and `api/cache.py` count and show; nothing decides by them. The body limit of
`main.py` wraps one request and shares no state. The warm-up reads 26 prefixes at start
through a service of its own, at most one extra query per letter. A failure to start a
thread inside the guard is listed as a hazard: the limit on threads belongs to the
environment. Settings, session set-up, schemas, the timer, static pages, migration,
benchmarks and data preparation hold no state a property could be about or run once by hand.
