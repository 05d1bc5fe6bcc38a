---------------------------- MODULE DatabaseGuard ----------------------------
(***************************************************************************)
(* DatabaseGuard.call: a deadline, a bulkhead and a circuit breaker around *)
(* the read-path database calls.                                           *)
(*                                                                         *)
(* A request thread that the breaker lets through takes one of the slots,  *)
(* makes sure the workers run, queues its call and waits for the answer at *)
(* most timeout_s.  A worker takes a call, runs it, delivers the result    *)
(* and only then releases the slot, also when nobody waits any more: the   *)
(* job of a caller that timed out is an orphan.                            *)
(*                                                                         *)
(* A database that is up answers at once; a slow one is hung.  timeout_s   *)
(* runs out only for a caller that waited while the database was hung, but *)
(* then at any time: the answer and the deadline race when it comes back.  *)
(***************************************************************************)
EXTENDS Naturals, Sequences, FiniteSets, CircuitBreaker

CONSTANTS
    Caller,           \* request threads
    Nobody,           \* the owner of a call whose caller gave up
    MaxConcurrency    \* max_concurrency: slots, and worker threads

ASSUME GuardAssumption ==
    /\ IsFiniteSet(Caller)
    /\ Nobody \notin Caller
    /\ MaxConcurrency \in Nat \ {0}

Worker == 1..MaxConcurrency
Owner == Caller \cup {Nobody}

VARIABLES
    breaker,    \* _breaker
    slots,      \* _slots: how many are free
    started,    \* Len(_workers): workers 1..started run
    queue,      \* _queue: the owners of the calls not begun, Nobody for an orphan
    running,    \* running[w]: w is busy: "no", "call" or "release" (slot not released yet)
    serves,     \* serves[w]: the owner of the call w runs
    at,         \* at[c]: where caller c is in call()
    outcome,    \* outcome[c]: what c has to report
    probe,      \* probe[c]: c was let in as the probe and has not reported yet
    stalled,    \* the callers that have waited for a hung database
    db          \* the database: up, hung or down (connections fail at once)

workerVars == <<queue, running, serves>>
callerVars == <<at, outcome, probe, stalled>>
vars == <<breaker, slots, started, workerVars, callerVars, db>>

\* slot: waits for a slot; ensure: has it, workers not checked; starting: starts
\* them; waiting: for the future; report: the call is over.
Place == {"idle", "slot", "ensure", "starting", "waiting", "report"}
\* answer: a result, or an SQL or data error; trip: an error of _TRIP_ON, or no answer.
Outcome == {"none", "answer", "trip"}

Init ==
    /\ breaker = ClosedBreaker
    /\ slots = MaxConcurrency
    /\ started = 0
    /\ queue = <<>>
    /\ running = [w \in Worker |-> "no"]
    /\ serves = [w \in Worker |-> Nobody]
    /\ at = [c \in Caller |-> "idle"]
    /\ outcome = [c \in Caller |-> "none"]
    /\ probe = [c \in Caller |-> FALSE]
    /\ stalled = {}
    /\ db = "up"

-----------------------------------------------------------------------------
(* The caller.                                                             *)

\* A caller the breaker refuses gets DatabaseUnavailable and changes nothing but a
\* counter.
Call(c) ==
    /\ at[c] = "idle"
    /\ Allows(breaker)
    /\ at' = [at EXCEPT ![c] = "slot"]
    /\ probe' = [probe EXCEPT ![c] = GrantsProbe(breaker)]
    /\ breaker' = AfterAllow(breaker)
    /\ UNCHANGED <<slots, started, workerVars, outcome, stalled, db>>

TakeSlot(c) ==
    /\ at[c] = "slot"
    /\ slots > 0
    /\ slots' = slots - 1
    /\ at' = [at EXCEPT ![c] = "ensure"]
    /\ UNCHANGED <<breaker, started, workerVars, outcome, probe, stalled, db>>

\* Faulty: saturation counts as a failure of the database.
SaturatedTrips(c) ==
    /\ at[c] = "slot"
    /\ slots = 0
    /\ breaker' = AfterFailure(breaker)
    /\ probe' = [probe EXCEPT ![c] = FALSE]
    /\ at' = [at EXCEPT ![c] = "idle"]
    /\ UNCHANGED <<slots, started, workerVars, outcome, stalled, db>>

\* Faulty: the grant is not given back.
SaturatedKeepsGrant(c) ==
    /\ at[c] = "slot"
    /\ slots = 0
    /\ probe' = [probe EXCEPT ![c] = FALSE]
    /\ at' = [at EXCEPT ![c] = "idle"]
    /\ UNCHANGED <<breaker, slots, started, workerVars, outcome, stalled, db>>

\* No slot within slot_wait_s: cancel_probe, DatabaseUnavailable.
Saturated(c) ==
    /\ at[c] = "slot"
    /\ slots = 0
    /\ breaker' = AfterCancel(breaker)
    /\ probe' = [probe EXCEPT ![c] = FALSE]
    /\ at' = [at EXCEPT ![c] = "idle"]
    /\ UNCHANGED <<slots, started, workerVars, outcome, stalled, db>>

\* _ensure_workers finds no worker and starts the first one.  Whoever looks from
\* then on finds the list not empty and goes on, although it is still growing.
StartFirst(c) ==
    /\ at[c] = "ensure"
    /\ started = 0
    /\ started' = 1
    /\ at' = [at EXCEPT ![c] = "starting"]
    /\ UNCHANGED <<breaker, slots, workerVars, outcome, probe, stalled, db>>

StartNext(c) ==
    /\ at[c] = "starting"
    /\ started < MaxConcurrency
    /\ started' = started + 1
    /\ UNCHANGED <<breaker, slots, workerVars, callerVars, db>>

Enqueue(c) ==
    /\ \/ at[c] = "ensure" /\ started > 0
       \/ at[c] = "starting" /\ started = MaxConcurrency
    /\ queue' = Append(queue, c)
    /\ at' = [at EXCEPT ![c] = "waiting"]
    /\ stalled' = IF db = "hung" THEN stalled \cup {c} ELSE stalled
    /\ UNCHANGED <<breaker, slots, started, running, serves, outcome, probe, db>>

Disown(c) ==
    /\ queue' = [i \in DOMAIN queue |-> IF queue[i] = c THEN Nobody ELSE queue[i]]
    /\ serves' = [w \in Worker |-> IF serves[w] = c THEN Nobody ELSE serves[w]]

\* Faulty: fut.result() without a timeout.
TimeoutNever(c) == FALSE

\* Faulty: the caller that times out gives the slot back, its call is still running.
TimeoutReleasesSlot(c) ==
    /\ c \in stalled
    /\ Disown(c)
    /\ slots' = slots + 1
    /\ at' = [at EXCEPT ![c] = "report"]
    /\ outcome' = [outcome EXCEPT ![c] = "trip"]
    /\ stalled' = stalled \ {c}
    /\ UNCHANGED <<breaker, started, running, probe, db>>

\* timeout_s pass without an answer: the caller leaves its call behind.
Timeout(c) ==
    /\ c \in stalled
    /\ Disown(c)
    /\ at' = [at EXCEPT ![c] = "report"]
    /\ outcome' = [outcome EXCEPT ![c] = "trip"]
    /\ stalled' = stalled \ {c}
    /\ UNCHANGED <<breaker, slots, started, running, probe, db>>

\* An answer, even an SQL or data error, shows the database alive.
Report(c) ==
    /\ at[c] = "report"
    /\ breaker' = IF outcome[c] = "answer" THEN AfterSuccess(breaker)
                                            ELSE AfterFailure(breaker)
    /\ at' = [at EXCEPT ![c] = "idle"]
    /\ outcome' = [outcome EXCEPT ![c] = "none"]
    /\ probe' = [probe EXCEPT ![c] = FALSE]
    /\ UNCHANGED <<slots, started, workerVars, stalled, db>>

-----------------------------------------------------------------------------
(* The worker threads.                                                     *)

Begin(w) ==
    /\ w <= started
    /\ running[w] = "no"
    /\ queue # <<>>
    /\ serves' = [serves EXCEPT ![w] = Head(queue)]
    /\ queue' = Tail(queue)
    /\ running' = [running EXCEPT ![w] = "call"]
    /\ UNCHANGED <<breaker, slots, started, callerVars, db>>

\* Faulty: a worker whose caller gave up takes the next call at once.
DeliverForgetsOrphan(w) ==
    /\ running[w] = "call"
    /\ db # "hung"
    /\ running' = [running EXCEPT ![w] = IF serves[w] = Nobody THEN "no" ELSE "release"]
    /\ serves' = [serves EXCEPT ![w] = Nobody]
    /\ stalled' = stalled \ {serves[w]}
    /\ IF serves[w] = Nobody
       THEN UNCHANGED <<at, outcome>>
       ELSE /\ at' = [at EXCEPT ![serves[w]] = "report"]
            /\ outcome' = [outcome EXCEPT
                              ![serves[w]] = IF db = "up" THEN "answer" ELSE "trip"]
    /\ UNCHANGED <<breaker, slots, started, queue, probe, db>>

\* The call returns or raises, and the future wakes the caller if it still waits.
Deliver(w) ==
    /\ running[w] = "call"
    /\ db # "hung"
    /\ running' = [running EXCEPT ![w] = "release"]
    /\ serves' = [serves EXCEPT ![w] = Nobody]
    /\ stalled' = stalled \ {serves[w]}
    /\ IF serves[w] = Nobody
       THEN UNCHANGED <<at, outcome>>
       ELSE /\ at' = [at EXCEPT ![serves[w]] = "report"]
            /\ outcome' = [outcome EXCEPT
                              ![serves[w]] = IF db = "up" THEN "answer" ELSE "trip"]
    /\ UNCHANGED <<breaker, slots, started, queue, probe, db>>

\* The slot was held for as long as the call really ran.
Release(w) ==
    /\ running[w] = "release"
    /\ slots' = slots + 1
    /\ running' = [running EXCEPT ![w] = "no"]
    /\ UNCHANGED <<breaker, started, queue, serves, callerVars, db>>

-----------------------------------------------------------------------------
WindowElapses ==
    /\ breaker.window = "running"
    /\ breaker' = AfterWindow(breaker)
    /\ UNCHANGED <<slots, started, workerVars, callerVars, db>>

DbChanges ==
    /\ db' \in {"up", "hung", "down"} \ {db}
    /\ stalled' = IF db' = "hung" THEN {c \in Caller : at[c] = "waiting"} ELSE stalled
    /\ UNCHANGED <<breaker, slots, started, workerVars, at, outcome, probe>>

CallerStep(c) ==
    \/ TakeSlot(c)
    \/ Saturated(c)
    \/ StartFirst(c)
    \/ StartNext(c)
    \/ Enqueue(c)
    \/ Timeout(c)
    \/ Report(c)

WorkerStep(w) == Begin(w) \/ Deliver(w) \/ Release(w)

Next ==
    \/ \E c \in Caller : Call(c) \/ CallerStep(c)
    \/ \E w \in Worker : WorkerStep(w)
    \/ WindowElapses
    \/ DbChanges

Spec == Init /\ [][Next]_vars

\* Threads are scheduled, a call on a database that answers ends, deadlines and the
\* breaker's clock fire, requests keep arriving.  The database may hang for ever.
Fairness ==
    /\ \A c \in Caller : WF_vars(CallerStep(c))
    /\ \A w \in Worker : WF_vars(WorkerStep(w))
    /\ WF_vars(WindowElapses)
    /\ WF_vars(\E c \in Caller : Call(c))

FairSpec == Spec /\ Fairness

-----------------------------------------------------------------------------
(* Properties.                                                             *)

TypeOK ==
    /\ breaker \in Breaker
    /\ slots \in 0..MaxConcurrency
    /\ started \in 0..MaxConcurrency
    /\ queue \in Seq(Owner)
    /\ running \in [Worker -> {"no", "call", "release"}]
    /\ serves \in [Worker -> Owner]
    /\ at \in [Caller -> Place]
    /\ outcome \in [Caller -> Outcome]
    /\ probe \in [Caller -> BOOLEAN]
    /\ stalled \subseteq Caller
    /\ db \in {"up", "hung", "down"}

Busy == {w \in Worker : running[w] # "no"}
Holders == {c \in Caller : at[c] \in {"ensure", "starting"}}

\* A slot is held from the acquire to the end of the call it was taken for, through
\* the hand-over from caller to queue to worker and past a timeout: none leaks and
\* none is released twice (guard.py:21-22, 84).
SlotsConserved ==
    slots + Cardinality(Holders) + Len(queue) + Cardinality(Busy) = MaxConcurrency

\* A breaker that waits for its probe has one to wait for, although the grant may
\* be cancelled by any caller that finds no slot (breaker.py:13-15, 44-48).
ProbeHasOwner == breaker.probing => \E c \in Caller : probe[c]

\* Every request thread gets out of call(), also when the database hangs for ever.
EveryCallReturns == \A c \in Caller : at[c] # "idle" ~> at[c] = "idle"

\* When the database is back for good, the breaker closes and no slot stays with a
\* call that hung.
RecoversWithDatabase ==
    <>[](db = "up") =>
        /\ <>[](breaker.window = "closed")
        /\ []<>(slots > 0)

\* Load alone never opens the breaker: however many callers find no slot, it stays
\* closed while the database has done nothing but answer (guard.py:96).
LoadKeepsBreakerClosed == [](db = "up") => [](breaker.window = "closed")

=============================================================================
