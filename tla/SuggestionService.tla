--------------------------- MODULE SuggestionService ---------------------------
(***************************************************************************)
(* GET /suggest for one cache key: the cache-aside read with its table of  *)
(* flights, against the flushers that commit counts and then delete the    *)
(* key, and a cache that expires entries and may be unreachable.           *)
(*                                                                         *)
(* The data is the number of commits that touched the key's suggestions: a *)
(* document is the version it was fetched at, 0 stands for none.  A        *)
(* malformed document is a miss like any other and is not modelled; the    *)
(* bypass for another limit neither reads nor writes anything here.        *)
(***************************************************************************)
EXTENDS Naturals

CONSTANTS
    Request,      \* request threads of one process
    Flusher,      \* batch workers of all processes
    Nobody,       \* no leader
    MaxVersion    \* bound: versions of the key's suggestions

ASSUME ServiceAssumption ==
    /\ Nobody \notin Request
    /\ MaxVersion \in Nat \ {0}

VARIABLES
    version,     \* the committed state of the rows behind the key
    deleting,    \* the flushers that have committed and not yet deleted the key
    entry,       \* the cached document
    raced,       \* the cached document was out of date when it was stored
    limbo,       \* the document of a SET whose caller gave up: it may still be applied
    skipped,     \* some flusher could not delete the key
    flight,      \* _flights[key]: the leader, or Nobody
    recent,      \* _recent[key] is less than 1 s old
    at,          \* at[r]: where request r is
    leader,      \* leader[r]: whose flight r is in, Nobody for a load of its own
    got,         \* got[r]: what r has fetched
    body,        \* body[r]: the body of the flight r leads; for a woken follower, of its flight
    loads,       \* database queries while quiet
    quiet        \* nothing but requests has happened, all answered in time

dataVars == <<version, deleting, skipped>>
cacheVars == <<entry, raced, limbo>>
flightVars == <<flight, recent>>
requestVars == <<at, leader, got, body>>
vars == <<dataVars, cacheVars, flightVars, requestVars, loads, quiet>>

\* missed: before the table's lock; lead, fetch, store: in _load or on the way to
\* it; landed: in the finally; popped: event.set() is due; wait, woken: a follower.
Place == {"idle", "missed", "lead", "fetch", "store", "landed", "popped", "wait", "woken"}

Init ==
    /\ version = 1
    /\ deleting = {}
    /\ entry = 0
    /\ raced = FALSE
    /\ limbo = 0
    /\ skipped = FALSE
    /\ flight = Nobody
    /\ recent = FALSE
    /\ at = [r \in Request |-> "idle"]
    /\ leader = [r \in Request |-> Nobody]
    /\ got = [r \in Request |-> 0]
    /\ body = [r \in Request |-> 0]
    /\ loads = 0
    /\ quiet = TRUE

-----------------------------------------------------------------------------
(* A request.                                                              *)

\* The handler returns or raises.
Return(r) ==
    /\ at' = [at EXCEPT ![r] = "idle"]
    /\ leader' = [leader EXCEPT ![r] = Nobody]
    /\ got' = [got EXCEPT ![r] = 0]
    /\ body' = [body EXCEPT ![r] = 0]

\* get_raw finds no document, or cannot ask for it.  A hit changes nothing.
Miss(r) ==
    /\ at[r] = "idle"
    /\ quiet' = (quiet /\ entry = 0)
    /\ at' = [at EXCEPT ![r] = "missed"]
    /\ UNCHANGED <<dataVars, cacheVars, flightVars, leader, got, body, loads>>

\* Under the lock: lead a new flight, or follow the one under way.
Join(r) ==
    /\ at[r] = "missed"
    /\ IF flight = Nobody
       THEN /\ at' = [at EXCEPT ![r] = "lead"]
            /\ leader' = [leader EXCEPT ![r] = r]
            /\ flight' = r
       ELSE /\ at' = [at EXCEPT ![r] = "wait"]
            /\ leader' = [leader EXCEPT ![r] = flight]
            /\ UNCHANGED flight
    /\ UNCHANGED <<dataVars, cacheVars, recent, got, body, loads, quiet>>

\* Faulty: the leader does not look into the cache again.
RecheckNever(r) ==
    /\ at[r] = "lead"
    /\ at' = [at EXCEPT ![r] = "fetch"]
    /\ UNCHANGED <<dataVars, cacheVars, flightVars, leader, got, body, loads, quiet>>

\* A leader soon after another flight asks the cache again, which may not answer.
Recheck(r) ==
    /\ at[r] = "lead"
    /\ \/ /\ recent /\ entry # 0
          /\ body' = [body EXCEPT ![r] = entry]
          /\ at' = [at EXCEPT ![r] = "landed"]
          /\ UNCHANGED quiet
       \/ /\ at' = [at EXCEPT ![r] = "fetch"]
          /\ quiet' = (quiet /\ ~(recent /\ entry # 0))
          /\ UNCHANGED body
    /\ UNCHANGED <<dataVars, cacheVars, flightVars, leader, got, loads>>

Fetch(r) ==
    /\ at[r] = "fetch"
    /\ got' = [got EXCEPT ![r] = version]
    /\ loads' = IF quiet THEN loads + 1 ELSE loads
    /\ at' = [at EXCEPT ![r] = "store"]
    /\ UNCHANGED <<dataVars, cacheVars, flightVars, leader, body, quiet>>

\* Faulty: the leader's flight stays in the table when its query fails.
FetchFailsLeavesFlight(r) ==
    /\ at[r] = "fetch"
    /\ quiet' = FALSE
    /\ Return(r)
    /\ UNCHANGED <<dataVars, cacheVars, flightVars, loads>>

\* The query raises (DatabaseUnavailable or an SQL error): a leader goes through its
\* finally without a body, anybody else answers 503.
FetchFails(r) ==
    /\ at[r] = "fetch"
    /\ quiet' = FALSE
    /\ IF leader[r] = r
       THEN /\ at' = [at EXCEPT ![r] = "landed"]
            /\ UNCHANGED <<leader, got, body>>
       ELSE Return(r)
    /\ UNCHANGED <<dataVars, cacheVars, flightVars, loads>>

\* set_raw: done, not done (skipped or failed), or given up and still on its way.
Store(r) ==
    /\ at[r] = "store"
    /\ \/ /\ entry' = got[r]
          /\ raced' = (got[r] # version)
          /\ UNCHANGED <<limbo, quiet>>
       \/ /\ limbo' \in {0, got[r]}
          /\ limbo = 0
          /\ quiet' = FALSE
          /\ UNCHANGED <<entry, raced>>
    /\ IF leader[r] = r
       THEN /\ body' = [body EXCEPT ![r] = got[r]]
            /\ at' = [at EXCEPT ![r] = "landed"]
            /\ UNCHANGED <<leader, got>>
       ELSE Return(r)
    /\ UNCHANGED <<dataVars, flightVars, loads>>

\* The finally, under the lock ...
Pop(r) ==
    /\ at[r] = "landed"
    /\ flight' = Nobody
    /\ recent' = TRUE
    /\ at' = [at EXCEPT ![r] = "popped"]
    /\ UNCHANGED <<dataVars, cacheVars, leader, got, body, loads, quiet>>

Followers(r) == {f \in Request \ {r} : at[f] = "wait" /\ leader[f] = r}

\* Faulty: event.set() is forgotten.
SignalForgotten(r) ==
    /\ at[r] = "popped"
    /\ Return(r)
    /\ UNCHANGED <<dataVars, cacheVars, flightVars, loads, quiet>>

\* ... and after it: whoever waits for this flight wakes up.
Signal(r) ==
    /\ at[r] = "popped"
    /\ at' = [f \in Request |-> IF f = r THEN "idle"
                                ELSE IF f \in Followers(r) THEN "woken" ELSE at[f]]
    /\ leader' = [f \in Request |-> IF f \in Followers(r) \cup {r} THEN Nobody ELSE leader[f]]
    /\ body' = [f \in Request |-> IF f = r THEN 0
                                  ELSE IF f \in Followers(r) THEN body[r] ELSE body[f]]
    /\ got' = [got EXCEPT ![r] = 0]
    /\ UNCHANGED <<dataVars, cacheVars, flightVars, loads, quiet>>

\* Faulty: a follower whose leader failed waits for a body that never comes.
WakeWithBodyOnly(r) ==
    /\ at[r] = "woken"
    /\ body[r] # 0
    /\ Return(r)
    /\ UNCHANGED <<dataVars, cacheVars, flightVars, loads, quiet>>

\* A follower takes the body of its flight; without one it loads for itself.
Wake(r) ==
    /\ at[r] = "woken"
    /\ IF body[r] # 0
       THEN Return(r)
       ELSE /\ at' = [at EXCEPT ![r] = "fetch"]
            /\ UNCHANGED <<leader, got, body>>
    /\ UNCHANGED <<dataVars, cacheVars, flightVars, loads, quiet>>

\* _flight_timeout: the same with what the flight has so far.
WaitTimesOut(r) ==
    /\ at[r] = "wait"
    /\ quiet' = FALSE
    /\ at' = [at EXCEPT ![r] = "woken"]
    /\ body' = [body EXCEPT ![r] = body[leader[r]]]
    /\ leader' = [leader EXCEPT ![r] = Nobody]
    /\ UNCHANGED <<dataVars, cacheVars, flightVars, got, loads>>

-----------------------------------------------------------------------------
(* The flushers.                                                           *)

\* A flush commits a query that the key's suggestions may contain.
Commit(f) ==
    /\ f \notin deleting
    /\ version < MaxVersion
    /\ version' = version + 1
    /\ deleting' = deleting \cup {f}
    /\ quiet' = FALSE
    /\ UNCHANGED <<skipped, cacheVars, flightVars, requestVars, loads>>

\* Faulty: the flusher builds another key than the readers do.
DeleteOtherKey(f) ==
    /\ f \in deleting
    /\ deleting' = deleting \ {f}
    /\ UNCHANGED <<version, skipped, cacheVars, flightVars, requestVars, loads, quiet>>

\* _invalidate_cache deletes the key after the commit.
Delete(f) ==
    /\ f \in deleting
    /\ deleting' = deleting \ {f}
    /\ entry' = 0
    /\ raced' = FALSE
    /\ UNCHANGED <<version, skipped, limbo, flightVars, requestVars, loads, quiet>>

\* The node is skipped or fails, or the process dies between commit and delete.
DeleteSkipped(f) ==
    /\ f \in deleting
    /\ deleting' = deleting \ {f}
    /\ skipped' = TRUE
    /\ UNCHANGED <<version, cacheVars, flightVars, requestVars, loads, quiet>>

-----------------------------------------------------------------------------
(* The cache and the clock.                                                *)

\* Faulty: documents are stored without a lifetime.
ExpireNever == FALSE

\* cache_ttl_seconds after the SET.
Expire ==
    /\ entry # 0
    /\ entry' = 0
    /\ raced' = FALSE
    /\ quiet' = FALSE
    /\ UNCHANGED <<dataVars, limbo, flightVars, requestVars, loads>>

LimboLands ==
    /\ limbo # 0
    /\ limbo' = 0
    /\ \/ entry' = limbo /\ raced' = (limbo # version)
       \/ UNCHANGED <<entry, raced>>
    /\ UNCHANGED <<dataVars, flightVars, requestVars, loads, quiet>>

\* A second passes since the last flight, or the table of times is cleared.
RecentFades ==
    /\ recent
    /\ recent' = FALSE
    /\ quiet' = FALSE
    /\ UNCHANGED <<dataVars, cacheVars, flight, requestVars, loads>>

-----------------------------------------------------------------------------
RequestStep(r) ==
    \/ Join(r) \/ Recheck(r) \/ Fetch(r) \/ FetchFails(r) \/ Store(r)
    \/ Pop(r) \/ Signal(r) \/ Wake(r)

Next ==
    \/ \E r \in Request : Miss(r) \/ RequestStep(r) \/ WaitTimesOut(r)
    \/ \E f \in Flusher : Commit(f) \/ Delete(f) \/ DeleteSkipped(f)
    \/ Expire
    \/ LimboLands
    \/ RecentFades

Spec == Init /\ [][Next]_vars

\* Threads are scheduled, queries and cache calls end (the guard and the socket
\* timeouts see to that), documents expire.  No follower has to time out.
Fairness ==
    /\ \A r \in Request : WF_vars(RequestStep(r))
    /\ \A f \in Flusher : WF_vars(Delete(f) \/ DeleteSkipped(f))
    /\ WF_vars(Expire)
    /\ WF_vars(LimboLands)

FairSpec == Spec /\ Fairness

-----------------------------------------------------------------------------
(* Properties.                                                             *)

Version == 0..MaxVersion

TypeOK ==
    /\ version \in Version \ {0}
    /\ deleting \subseteq Flusher
    /\ entry \in Version
    /\ raced \in BOOLEAN
    /\ limbo \in Version
    /\ skipped \in BOOLEAN
    /\ flight \in Request \cup {Nobody}
    /\ recent \in BOOLEAN
    /\ at \in [Request -> Place]
    /\ leader \in [Request -> Request \cup {Nobody}]
    /\ got \in [Request -> Version]
    /\ body \in [Request -> Version]
    /\ loads \in Nat
    /\ quiet \in BOOLEAN

Leads(r) == leader[r] = r /\ at[r] \in {"lead", "fetch", "store", "landed"}

\* The table holds exactly the flight somebody leads: never two leaders, and no
\* flight without a leader, whatever way the leader's query ends
\* (suggestion_service.py:81-85, 99-104).
FlightHasItsLeader ==
    \A r \in Request : Leads(r) <=> flight = r

\* A follower waits for a flight that is under way or about to wake it: it cannot
\* miss the signal, nor wait for a later flight of the same thread.
FollowersAreHeard ==
    \A r \in Request :
        at[r] = "wait" => Leads(leader[r]) \/ at[leader[r]] = "popped"

\* While nothing is committed, expires, fails or takes too long, all requests
\* together cost one database query, also those that missed before the document
\* was stored and took the lead after the flight was gone
\* (suggestion_service.py:40, 88-93).
BurstCostsOneQuery == quiet => loads <= 1

\* Once the key was deleted after each commit, the cache holds old data only when
\* the document was out of date on its way in: fetched before a commit and stored
\* after it.  A document that was current when stored never outlives its commit.
OldOnlyByRace ==
    entry # 0 /\ entry # version /\ deleting = {} /\ ~skipped => raced

\* Whatever races, skips and late SETs there were, after the last commit the cache
\* ends up with current data or none (cache-design.md: staleness ends with the TTL).
EventuallyFresh == <>[](entry \in {0, version})

\* Every request is answered although its leader fails, the followers included.
EveryRequestReturns == \A r \in Request : at[r] # "idle" ~> at[r] = "idle"

=============================================================================
