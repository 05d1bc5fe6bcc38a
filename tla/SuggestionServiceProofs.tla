------------------------ MODULE SuggestionServiceProofs ------------------------
(***************************************************************************)
(* What holds of SuggestionService for any number of requests, flushers    *)
(* and commits.                                                            *)
(***************************************************************************)
EXTENDS SuggestionService, TLAPS

\* Where a request is says whose flight it is in.
PlacesFit ==
    \A r \in Request :
        /\ at[r] = "wait" => leader[r] \in Request
        /\ at[r] \in {"lead", "landed", "popped"} => leader[r] = r
        /\ at[r] \in {"idle", "missed", "woken"} => leader[r] = Nobody
        /\ at[r] \in {"fetch", "store"} => leader[r] \in {r, Nobody}
        /\ at[r] = "store" => got[r] # 0

FlagsTyped ==
    raced \in BOOLEAN /\ skipped \in BOOLEAN /\ recent \in BOOLEAN /\ quiet \in BOOLEAN

Typed == TypeOK /\ PlacesFit

\* Before the first request nobody leads and nothing is cached.
LEMMA InitTyped == Init => Typed
<1> SUFFICES ASSUME Init PROVE Typed
  OBVIOUS
<1>1. FlagsTyped
  BY Zenon DEF Init, FlagsTyped
<1>2. PlacesFit
  BY DEF Init, PlacesFit
<1> QED
  BY <1>1, <1>2, ServiceAssumption DEF Init, FlagsTyped, Typed, TypeOK, Version, Place

\* Every step keeps the types of the history variables.
LEMMA StepKeepsFlags ==
    ASSUME FlagsTyped, [Next]_vars
    PROVE  FlagsTyped'
<1> USE DEF FlagsTyped, dataVars, cacheVars, flightVars, requestVars
<1>1. ASSUME NEW r \in Request, Miss(r) \/ WaitTimesOut(r) PROVE FlagsTyped'
  BY <1>1, Zenon DEF Miss, WaitTimesOut
<1>2. ASSUME NEW r \in Request, Join(r) \/ Fetch(r) \/ Pop(r) \/ Signal(r) \/ Wake(r)
      PROVE  FlagsTyped'
  BY <1>2, Zenon DEF Join, Fetch, Pop, Signal, Wake
<1>3. ASSUME NEW r \in Request, Recheck(r) \/ FetchFails(r) PROVE FlagsTyped'
  BY <1>3, Zenon DEF Recheck, FetchFails
<1>4. ASSUME NEW r \in Request, Store(r) PROVE FlagsTyped'
  BY <1>4, Zenon DEF Store
<1>5. ASSUME NEW f \in Flusher, Commit(f) \/ Delete(f) \/ DeleteSkipped(f) PROVE FlagsTyped'
  BY <1>5, Zenon DEF Commit, Delete, DeleteSkipped
<1>6. CASE Expire \/ RecentFades
  BY <1>6, Zenon DEF Expire, RecentFades
<1>7. CASE LimboLands
  BY <1>7, Zenon DEF LimboLands
<1>8. CASE UNCHANGED vars
  BY <1>8, Zenon DEF vars
<1> QED
  BY <1>1, <1>2, <1>3, <1>4, <1>5, <1>6, <1>7, <1>8 DEF Next, RequestStep

\* Every step keeps the types, and leaders and followers where their place says.
LEMMA StepTyped ==
    ASSUME Typed, [Next]_vars
    PROVE  Typed'
<1>0. FlagsTyped'
  BY StepKeepsFlags DEF Typed, TypeOK, FlagsTyped
<1> USE <1>0, ServiceAssumption
    DEF Typed, TypeOK, PlacesFit, Version, FlagsTyped, dataVars, cacheVars, flightVars,
        requestVars
<1>1. ASSUME NEW r \in Request, Miss(r) PROVE Typed'
  BY <1>1 DEF Miss, Place
<1>2. ASSUME NEW r \in Request, Join(r) PROVE Typed'
  BY <1>2 DEF Join, Place
<1>3. ASSUME NEW r \in Request, Recheck(r) PROVE Typed'
  BY <1>3 DEF Recheck, Place
<1>4. ASSUME NEW r \in Request, Fetch(r) PROVE Typed'
  BY <1>4 DEF Fetch, Place
<1>5. ASSUME NEW r \in Request, FetchFails(r) PROVE Typed'
  BY <1>5 DEF FetchFails, Return, Place
<1>6. ASSUME NEW r \in Request, Store(r) PROVE Typed'
  BY <1>6 DEF Store, Return, Place
<1>7. ASSUME NEW r \in Request, Pop(r) PROVE Typed'
  BY <1>7 DEF Pop, Place
<1>8. ASSUME NEW r \in Request, Signal(r) PROVE Typed'
  BY <1>8 DEF Signal, Followers, Place
<1>9. ASSUME NEW r \in Request, Wake(r) PROVE Typed'
  BY <1>9 DEF Wake, Return, Place
<1>10. ASSUME NEW r \in Request, WaitTimesOut(r) PROVE Typed'
  BY <1>10 DEF WaitTimesOut, Place
<1>11. ASSUME NEW f \in Flusher, Commit(f) PROVE Typed'
  BY <1>11 DEF Commit
<1>12. ASSUME NEW f \in Flusher, Delete(f) \/ DeleteSkipped(f) PROVE Typed'
  BY <1>12 DEF Delete, DeleteSkipped
<1>13. CASE Expire \/ LimboLands \/ RecentFades
  BY <1>13 DEF Expire, LimboLands, RecentFades
<1>14. CASE UNCHANGED vars
  BY <1>14 DEF vars
<1> QED
  BY <1>1, <1>2, <1>3, <1>4, <1>5, <1>6, <1>7, <1>8, <1>9, <1>10, <1>11, <1>12, <1>13,
     <1>14 DEF Next, RequestStep

-----------------------------------------------------------------------------
Flights == FlightHasItsLeader /\ FollowersAreHeard

\* Every step keeps the table of flights in agreement with the leaders at work.
LEMMA StepKeepsFlights ==
    ASSUME Typed, Typed', Flights, [Next]_vars
    PROVE  Flights'
<1> USE ServiceAssumption
    DEF Typed, TypeOK, PlacesFit, Flights, FlightHasItsLeader, FollowersAreHeard, Leads,
        dataVars, cacheVars, flightVars, requestVars
<1>1. ASSUME NEW r \in Request, Miss(r) PROVE Flights'
  BY <1>1 DEF Miss
<1>2. ASSUME NEW r \in Request, Join(r) PROVE Flights'
  BY <1>2 DEF Join
<1>3. ASSUME NEW r \in Request, Recheck(r) PROVE Flights'
  BY <1>3 DEF Recheck
<1>4. ASSUME NEW r \in Request, Fetch(r) PROVE Flights'
  BY <1>4 DEF Fetch
<1>5. ASSUME NEW r \in Request, FetchFails(r) PROVE Flights'
  BY <1>5 DEF FetchFails, Return
<1>6. ASSUME NEW r \in Request, Store(r) PROVE Flights'
  BY <1>6 DEF Store, Return
<1>7. ASSUME NEW r \in Request, Pop(r) PROVE Flights'
  BY <1>7 DEF Pop
<1>8. ASSUME NEW r \in Request, Signal(r) PROVE Flights'
  BY <1>8 DEF Signal, Followers
<1>9. ASSUME NEW r \in Request, Wake(r) PROVE Flights'
  BY <1>9 DEF Wake, Return
<1>10. ASSUME NEW r \in Request, WaitTimesOut(r) PROVE Flights'
  BY <1>10 DEF WaitTimesOut
<1>11. CASE UNCHANGED <<flight, requestVars>>
  BY <1>11
<1> QED
  BY <1>1, <1>2, <1>3, <1>4, <1>5, <1>6, <1>7, <1>8, <1>9, <1>10, <1>11
     DEF Next, RequestStep, Commit, Delete, DeleteSkipped, Expire, LimboLands, RecentFades, vars

-----------------------------------------------------------------------------
\* Strengthening of BurstCostsOneQuery: while nothing but requests happens there is no
\* document before the one query, and after it nobody is on the way to a second.
Quietly ==
    /\ deleting = {} /\ limbo = 0
    /\ \A r \in Request :
          /\ at[r] \in {"fetch", "store"} => leader[r] = r
          /\ at[r] \in {"landed", "popped", "woken"} => body[r] # 0
    /\ \/ /\ loads = 0 /\ entry = 0
          /\ \A r \in Request : at[r] \notin {"store", "landed", "popped", "woken"}
       \/ /\ loads = 1 /\ entry = 0
          /\ \E r \in Request : at[r] = "store"
       \/ /\ loads = 1 /\ entry # 0
          /\ \A r \in Request : at[r] \notin {"fetch", "store"}
          /\ recent \/ \E r \in Request : at[r] = "landed"

OneQuery == quiet => Quietly

\* Every step of an undisturbed burst keeps at most one request between miss and store.
LEMMA StepKeepsOneQuery ==
    ASSUME Typed, Typed', FlightHasItsLeader, OneQuery, [Next]_vars
    PROVE  OneQuery'
<1> SUFFICES ASSUME quiet' PROVE Quietly'
  BY DEF OneQuery
<1> USE ServiceAssumption
    DEF Typed, TypeOK, PlacesFit, OneQuery, Quietly, FlightHasItsLeader, Leads, Version,
        dataVars, cacheVars, flightVars, requestVars
<1>1. ASSUME NEW r \in Request, Miss(r) PROVE Quietly'
  BY <1>1 DEF Miss
<1>2. ASSUME NEW r \in Request, Join(r) PROVE Quietly'
  BY <1>2 DEF Join
<1>3. ASSUME NEW r \in Request, Recheck(r) PROVE Quietly'
  <2>1. \/ /\ entry # 0 /\ quiet
           /\ body' = [body EXCEPT ![r] = entry] /\ at' = [at EXCEPT ![r] = "landed"]
        \/ /\ quiet /\ ~(recent /\ entry # 0)
           /\ body' = body /\ at' = [at EXCEPT ![r] = "fetch"]
    BY <1>3, Zenon DEF Recheck
  <2>2. /\ at[r] = "lead" /\ leader[r] = r
        /\ UNCHANGED <<entry, limbo, deleting, recent, leader, loads>>
    BY <1>3 DEF Recheck
  <2>3. CASE at' = [at EXCEPT ![r] = "landed"]
    BY <2>1, <2>2, <2>3
  <2>4. CASE at' = [at EXCEPT ![r] = "fetch"]
    BY <2>1, <2>2, <2>4
  <2> QED
    BY <2>1, <2>3, <2>4
<1>4. ASSUME NEW r \in Request, Fetch(r) PROVE Quietly'
  BY <1>4 DEF Fetch
<1>5. ASSUME NEW r \in Request, FetchFails(r) PROVE Quietly'
  BY <1>5 DEF FetchFails
<1>6. ASSUME NEW r \in Request, Store(r) PROVE Quietly'
  <2>1. entry' = got[r] /\ UNCHANGED <<limbo, quiet>>
    BY <1>6, Zenon DEF Store
  <2>2. at[r] = "store" /\ leader[r] = r /\ got[r] # 0
    BY <1>6, <2>1 DEF Store
  <2>3. /\ body' = [body EXCEPT ![r] = got[r]] /\ at' = [at EXCEPT ![r] = "landed"]
        /\ UNCHANGED <<leader, loads, recent, deleting>>
    BY <1>6, <2>2 DEF Store
  <2> QED
    BY <2>1, <2>2, <2>3
<1>7. ASSUME NEW r \in Request, Pop(r) PROVE Quietly'
  BY <1>7 DEF Pop
<1>8. ASSUME NEW r \in Request, Signal(r) PROVE Quietly'
  BY <1>8 DEF Signal, Followers
<1>9. ASSUME NEW r \in Request, Wake(r) PROVE Quietly'
  BY <1>9 DEF Wake, Return
<1>10. ASSUME NEW r \in Request, WaitTimesOut(r) PROVE Quietly'
  BY <1>10 DEF WaitTimesOut
<1>11. ASSUME NEW f \in Flusher, Commit(f) \/ Delete(f) \/ DeleteSkipped(f) PROVE Quietly'
  BY <1>11 DEF Commit, Delete, DeleteSkipped
<1>12. CASE Expire \/ LimboLands \/ RecentFades
  BY <1>12 DEF Expire, LimboLands, RecentFades
<1>13. CASE UNCHANGED vars
  BY <1>13 DEF vars
<1> QED
  BY <1>1, <1>2, <1>3, <1>4, <1>5, <1>6, <1>7, <1>8, <1>9, <1>10, <1>11, <1>12, <1>13
     DEF Next, RequestStep

-----------------------------------------------------------------------------
\* Every step that leaves an old document in the cache leaves a reason for it.
LEMMA StepKeepsOldOnlyByRace ==
    ASSUME Typed, OldOnlyByRace, [Next]_vars
    PROVE  OldOnlyByRace'
<1> USE DEF Typed, TypeOK, OldOnlyByRace, Version, dataVars, cacheVars, flightVars, requestVars
<1>1. ASSUME NEW r \in Request, Store(r) PROVE OldOnlyByRace'
  <2>1. /\ UNCHANGED dataVars
        /\ \/ entry' = got[r] /\ raced' = (got[r] # version)
           \/ UNCHANGED <<entry, raced>>
    BY <1>1, Zenon DEF Store
  <2> QED
    BY <2>1, Zenon
<1>2. ASSUME NEW f \in Flusher, Commit(f) \/ Delete(f) \/ DeleteSkipped(f)
      PROVE  OldOnlyByRace'
  BY <1>2 DEF Commit, Delete, DeleteSkipped
<1>3. CASE Expire \/ LimboLands
  BY <1>3 DEF Expire, LimboLands
<1>4. CASE UNCHANGED <<dataVars, cacheVars>>
  BY <1>4
<1> QED
  BY <1>1, <1>2, <1>3, <1>4 DEF Next, RequestStep, Miss, Join, Recheck, Fetch, FetchFails,
     Pop, Signal, Wake, WaitTimesOut, RecentFades, vars

-----------------------------------------------------------------------------
IInv == Typed /\ Flights /\ OneQuery /\ OldOnlyByRace

\* The invariant holds before the first request.
LEMMA InitInvariant == Init => IInv
<1> SUFFICES ASSUME Init PROVE IInv
  OBVIOUS
<1>1. Flights /\ OneQuery /\ OldOnlyByRace
  BY ServiceAssumption DEF Init, Flights, FlightHasItsLeader, FollowersAreHeard, Leads,
     OneQuery, Quietly, OldOnlyByRace
<1> QED
  BY <1>1, InitTyped DEF IInv

\* The inductive invariant of the read path: types, the flight each place belongs to, the
\* course of a quiet burst and the only way old data gets into the cache.
THEOREM Invariance == Spec => []IInv
<1>1. IInv /\ [Next]_vars => IInv'
  BY StepTyped, StepKeepsFlights, StepKeepsOneQuery, StepKeepsOldOnlyByRace
     DEF IInv, Flights
<1> QED
  BY <1>1, InitInvariant, PTL DEF Spec

\* Types, for any number of requests, flushers and commits.
THEOREM TypeCorrect == Spec => []TypeOK
BY Invariance, PTL DEF IInv, Typed

\* The table of flights has the flight of the request that leads one, and no other.
THEOREM OneLeader == Spec => []FlightHasItsLeader
BY Invariance, PTL DEF IInv, Flights

\* A follower waits for a flight whose leader has still to signal.
THEOREM SignalComes == Spec => []FollowersAreHeard
BY Invariance, PTL DEF IInv, Flights

\* However many requests there are, a quiet burst costs one query.
THEOREM OneQueryPerBurst == Spec => []BurstCostsOneQuery
<1>1. IInv => BurstCostsOneQuery
  BY DEF IInv, OneQuery, Quietly, BurstCostsOneQuery
<1> QED
  BY <1>1, Invariance, PTL

\* Deletes that were all done leave old data only where the documented race put it.
THEOREM RaceOnly == Spec => []OldOnlyByRace
BY Invariance, PTL DEF IInv

=============================================================================
