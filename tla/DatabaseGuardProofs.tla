-------------------------- MODULE DatabaseGuardProofs --------------------------
(***************************************************************************)
(* What holds of DatabaseGuard for any set of callers and number of slots. *)
(***************************************************************************)
EXTENDS DatabaseGuard, FiniteSetTheorems, SequenceTheorems, TLAPS

\* A call that has an owner is that of a caller who waits for it, and his only one.
CallsAreAwaited ==
    /\ \A c \in stalled : at[c] = "waiting"
    /\ \A i \in DOMAIN queue : queue[i] # Nobody => at[queue[i]] = "waiting"
    /\ \A w \in Worker : serves[w] # Nobody => at[serves[w]] = "waiting"
    /\ \A i, j \in DOMAIN queue : queue[i] # Nobody /\ queue[i] = queue[j] => i = j
    /\ \A v, w \in Worker : serves[v] # Nobody /\ serves[v] = serves[w] => v = w
    /\ \A i \in DOMAIN queue, w \in Worker : queue[i] # Nobody => queue[i] # serves[w]

IInv == TypeOK /\ CallsAreAwaited /\ SlotsConserved /\ ProbeHasOwner

\* Calls that hold a slot and workers are finite sets, so they can be counted.
LEMMA Finite ==
    ASSUME TypeOK
    PROVE  /\ IsFiniteSet(Holders) /\ Cardinality(Holders) \in Nat
           /\ IsFiniteSet(Busy) /\ Cardinality(Busy) \in Nat
           /\ slots \in Nat /\ Len(queue) \in Nat
<1>1. IsFiniteSet(Worker) /\ Busy \in SUBSET Worker /\ Holders \in SUBSET Caller
  BY GuardAssumption, FS_Interval DEF Worker, Busy, Holders
<1> QED
  BY <1>1, GuardAssumption, FS_Subset, FS_CardinalityType DEF TypeOK

\* A new guard has all its slots and no calls.
LEMMA InitInvariant == Init => IInv
<1> SUFFICES ASSUME Init PROVE IInv
  OBVIOUS
<1>1. Holders = {} /\ Busy = {} /\ Len(queue) = 0
  BY DEF Init, Holders, Busy
<1>2. SlotsConserved
  BY <1>1, FS_EmptySet, GuardAssumption DEF Init, SlotsConserved
<1>3. breaker \in Breaker /\ ~breaker.probing
  BY DEF Init, Breaker, ClosedBreaker, Windows
<1>4. TypeOK
  BY <1>3, GuardAssumption DEF Init, TypeOK, Owner, Place, Outcome
<1>5. CallsAreAwaited
  BY DEF Init, CallsAreAwaited
<1> QED
  BY <1>2, <1>3, <1>4, <1>5 DEF IInv, ProbeHasOwner

-----------------------------------------------------------------------------
\* What the steps have in common that move no slot.
LEMMA SameSlots ==
    ASSUME IInv, UNCHANGED <<slots, running>>, Len(queue') = Len(queue), Holders' = Holders
    PROVE  SlotsConserved'
<1>1. Busy' = Busy
  BY DEF Busy
<1> QED
  BY <1>1 DEF IInv, SlotsConserved

\* Asking the breaker takes no slot.
LEMMA CallKeeps ==
    ASSUME IInv, NEW c \in Caller, Call(c)
    PROVE  IInv'
<1>1. /\ at[c] = "idle" /\ at' = [at EXCEPT ![c] = "slot"] /\ at \in [Caller -> Place]
      /\ probe' = [probe EXCEPT ![c] = GrantsProbe(breaker)]
      /\ probe \in [Caller -> BOOLEAN]
      /\ breaker' = AfterAllow(breaker) /\ Allows(breaker) /\ breaker \in Breaker
      /\ UNCHANGED <<slots, started, workerVars, outcome, stalled, db>>
  BY DEF Call, IInv, TypeOK
<1>2. breaker' \in Breaker /\ (breaker'.probing <=> GrantsProbe(breaker))
  BY <1>1 DEF Breaker, AfterAllow, Allows, GrantsProbe, Windows
<1>3. GrantsProbe(breaker) \in BOOLEAN
  BY <1>1 DEF GrantsProbe, Allows, Breaker
<1>4. probe' \in [Caller -> BOOLEAN] /\ (breaker'.probing => probe'[c])
  BY <1>1, <1>2, <1>3
<1>5. TypeOK' /\ ProbeHasOwner'
  BY <1>1, <1>2, <1>4 DEF IInv, TypeOK, ProbeHasOwner, Place, workerVars
<1>6. Holders' = Holders
  BY <1>1 DEF Holders
<1>7. CallsAreAwaited'
  BY <1>1 DEF IInv, CallsAreAwaited, TypeOK, Owner, workerVars
<1> QED
  BY <1>1, <1>5, <1>6, <1>7, SameSlots DEF IInv, workerVars

\* The slot a caller takes is one less that is free and one more that is held.
LEMMA TakeSlotKeeps ==
    ASSUME IInv, NEW c \in Caller, TakeSlot(c)
    PROVE  IInv'
<1>1. TypeOK' /\ ProbeHasOwner' /\ CallsAreAwaited'
  BY GuardAssumption DEF TakeSlot, IInv, TypeOK, ProbeHasOwner, CallsAreAwaited, Owner, Place,
     workerVars
<1>2. Holders' = Holders \cup {c} /\ c \notin Holders /\ Busy' = Busy
  BY DEF TakeSlot, IInv, TypeOK, Holders, Busy, workerVars
<1>3. Cardinality(Holders') = Cardinality(Holders) + 1
  BY <1>2, Finite, FS_AddElement DEF IInv
<1>4. slots' = slots - 1 /\ queue' = queue
  BY DEF TakeSlot, workerVars
<1> QED
  BY <1>1, <1>2, <1>3, <1>4, Finite, GuardAssumption DEF IInv, SlotsConserved

\* A caller without a slot leaves as it came, its probe given back.
LEMMA SaturatedKeeps ==
    ASSUME IInv, NEW c \in Caller, Saturated(c)
    PROVE  IInv'
<1>1. breaker' \in Breaker /\ ~breaker'.probing
  BY DEF Saturated, IInv, TypeOK, Breaker, AfterCancel, Windows
<1>2. TypeOK' /\ ProbeHasOwner' /\ CallsAreAwaited'
  BY <1>1 DEF Saturated, IInv, TypeOK, ProbeHasOwner, CallsAreAwaited, Owner, Place, workerVars
<1>3. Holders' = Holders
  BY DEF Saturated, IInv, TypeOK, Holders
<1> QED
  BY <1>2, <1>3, SameSlots DEF IInv, Saturated, workerVars

\* Starting workers moves no slot.
LEMMA StartKeeps ==
    ASSUME IInv, NEW c \in Caller, StartFirst(c) \/ StartNext(c)
    PROVE  IInv'
<1>1. TypeOK' /\ ProbeHasOwner' /\ CallsAreAwaited'
  BY GuardAssumption DEF StartFirst, StartNext, IInv, TypeOK, ProbeHasOwner,
     CallsAreAwaited, Owner, Place, workerVars, callerVars
<1>2. Holders' = Holders
  BY DEF StartFirst, StartNext, callerVars, IInv, TypeOK, Holders
<1> QED
  BY <1>1, <1>2, SameSlots DEF IInv, StartFirst, StartNext, workerVars

\* A queued call is awaited by the caller whose slot it carries.
LEMMA EnqueueKeeps ==
    ASSUME IInv, NEW c \in Caller, Enqueue(c)
    PROVE  IInv'
<1>1. /\ at[c] \in {"ensure", "starting"} /\ at' = [at EXCEPT ![c] = "waiting"]
      /\ queue' = Append(queue, c) /\ queue \in Seq(Owner) /\ c \in Owner /\ c # Nobody
      /\ stalled' \subseteq stalled \cup {c}
      /\ UNCHANGED <<breaker, slots, started, running, serves, outcome, probe, db>>
  BY GuardAssumption DEF Enqueue, IInv, TypeOK, Owner
<1>2. /\ queue' \in Seq(Owner) /\ Len(queue') = Len(queue) + 1
      /\ DOMAIN queue' = DOMAIN queue \cup {Len(queue) + 1}
      /\ queue'[Len(queue) + 1] = c
      /\ \A i \in DOMAIN queue : queue'[i] = queue[i] /\ i # Len(queue) + 1
  BY <1>1
<1>3. TypeOK' /\ ProbeHasOwner'
  BY <1>1, <1>2 DEF IInv, TypeOK, ProbeHasOwner, Place
<1>4. \A i \in DOMAIN queue, w \in Worker : queue[i] # c /\ serves[w] # c
  BY <1>1 DEF IInv, CallsAreAwaited
<1>5. CallsAreAwaited'
  <2>1. at' \in [Caller -> Place] /\ at'[c] = "waiting" /\ \A d \in Caller \ {c} : at'[d] = at[d]
    BY <1>1 DEF IInv, TypeOK, Place
  <2>2. /\ \A d \in stalled' : at'[d] = "waiting"
        /\ \A w \in Worker : serves[w] # Nobody => at'[serves[w]] = "waiting"
    BY <1>1, <1>4, <2>1 DEF IInv, CallsAreAwaited, TypeOK, Owner
  <2>3. \A i \in DOMAIN queue' : queue'[i] # Nobody => at'[queue'[i]] = "waiting"
    BY <1>1, <1>2, <1>4, <2>1 DEF IInv, CallsAreAwaited, TypeOK, Owner
  <2>4. /\ \A i, j \in DOMAIN queue' : queue'[i] # Nobody /\ queue'[i] = queue'[j] => i = j
        /\ \A i \in DOMAIN queue', w \in Worker : queue'[i] # Nobody => queue'[i] # serves[w]
    BY <1>1, <1>2, <1>4 DEF IInv, CallsAreAwaited
  <2> QED
    BY <1>1, <2>2, <2>3, <2>4 DEF IInv, CallsAreAwaited
<1>6. Holders' = Holders \ {c} /\ c \in Holders /\ Busy' = Busy
  BY <1>1 DEF IInv, TypeOK, Holders, Busy
<1>7. Cardinality(Holders') = Cardinality(Holders) - 1
  BY <1>6, Finite, FS_RemoveElement DEF IInv
<1>8. SlotsConserved'
  BY <1>1, <1>2, <1>6, <1>7, Finite, GuardAssumption DEF IInv, SlotsConserved
<1> QED
  BY <1>3, <1>5, <1>8 DEF IInv

\* A timeout turns the slot of one caller into that of one orphan.
LEMMA TimeoutKeeps ==
    ASSUME IInv, NEW c \in Caller, Timeout(c)
    PROVE  IInv'
<1>1. /\ at[c] = "waiting" /\ at' = [at EXCEPT ![c] = "report"]
      /\ stalled' = stalled \ {c}
      /\ queue' = [i \in DOMAIN queue |-> IF queue[i] = c THEN Nobody ELSE queue[i]]
      /\ serves' = [w \in Worker |-> IF serves[w] = c THEN Nobody ELSE serves[w]]
      /\ UNCHANGED <<breaker, slots, started, running, probe, db>>
  BY DEF Timeout, Disown, IInv, CallsAreAwaited
<1>2. queue \in [1..Len(queue) -> Owner] /\ Len(queue) \in Nat
  BY DEF IInv, TypeOK
<1>3. queue' \in [1..Len(queue) -> Owner]
  BY <1>1, <1>2 DEF Owner
<1>4. queue' \in Seq(Owner) /\ Len(queue') = Len(queue) /\ DOMAIN queue' = DOMAIN queue
  BY <1>2, <1>3, SeqDef
<1>5. TypeOK' /\ ProbeHasOwner'
  BY <1>1, <1>4 DEF Timeout, IInv, TypeOK, ProbeHasOwner, Place, Outcome, Owner
<1>6. \A d \in Caller \ {c} : at'[d] = at[d]
  BY <1>1 DEF IInv, TypeOK
<1>7. CallsAreAwaited'
  BY <1>1, <1>4, <1>6 DEF IInv, CallsAreAwaited, TypeOK, Owner
<1>8. Holders' = Holders
  BY <1>1 DEF IInv, TypeOK, Holders
<1> QED
  BY <1>1, <1>4, <1>5, <1>7, <1>8, SameSlots DEF IInv

\* A report to the breaker moves no slot.
LEMMA ReportKeeps ==
    ASSUME IInv, NEW c \in Caller, Report(c)
    PROVE  IInv'
<1>1. breaker' \in Breaker /\ ~breaker'.probing
  BY DEF Report, Breaker, AfterSuccess, AfterFailure, ClosedBreaker, Windows
<1>2. TypeOK' /\ ProbeHasOwner' /\ CallsAreAwaited'
  BY <1>1 DEF Report, IInv, TypeOK, ProbeHasOwner, CallsAreAwaited, Owner, Place, Outcome,
     workerVars
<1>3. Holders' = Holders
  BY DEF Report, IInv, TypeOK, Holders
<1> QED
  BY <1>2, <1>3, SameSlots DEF IInv, Report, workerVars

-----------------------------------------------------------------------------
\* A worker takes the call at the head of the queue with its slot.
LEMMA BeginKeeps ==
    ASSUME IInv, NEW w \in Worker, Begin(w)
    PROVE  IInv'
<1>1. /\ running[w] = "no" /\ queue # << >> /\ queue \in Seq(Owner)
      /\ serves' = [serves EXCEPT ![w] = Head(queue)] /\ queue' = Tail(queue)
      /\ running' = [running EXCEPT ![w] = "call"]
      /\ UNCHANGED <<breaker, slots, started, at, outcome, probe, stalled, db>>
  BY DEF Begin, callerVars, IInv, TypeOK
<1>2. /\ Len(queue) \in Nat \ {0} /\ Head(queue) \in Owner /\ Tail(queue) \in Seq(Owner)
      /\ Len(Tail(queue)) = Len(queue) - 1 /\ Head(queue) = queue[1] /\ 1 \in DOMAIN queue
      /\ DOMAIN Tail(queue) = 1..(Len(queue) - 1)
      /\ \A i \in DOMAIN Tail(queue) :
            i + 1 \in DOMAIN queue /\ i + 1 # 1 /\ Tail(queue)[i] = queue[i + 1]
  BY <1>1
<1>3. TypeOK' /\ ProbeHasOwner'
  BY <1>1, <1>2 DEF IInv, TypeOK, ProbeHasOwner
<1>4. serves'[w] = Head(queue) /\ \A v \in Worker \ {w} : serves'[v] = serves[v]
  BY <1>1 DEF IInv, TypeOK
<1>5. CallsAreAwaited'
  <2>1. /\ \A c \in stalled' : at'[c] = "waiting"
        /\ \A i \in DOMAIN queue' : queue'[i] # Nobody => at'[queue'[i]] = "waiting"
        /\ \A v \in Worker : serves'[v] # Nobody => at'[serves'[v]] = "waiting"
    BY <1>1, <1>2, <1>4 DEF IInv, CallsAreAwaited
  <2>2. \A i, j \in DOMAIN queue' : queue'[i] # Nobody /\ queue'[i] = queue'[j] => i = j
    <3> TAKE i, j \in DOMAIN queue'
    <3>1. i + 1 \in DOMAIN queue /\ j + 1 \in DOMAIN queue /\ i \in Nat /\ j \in Nat
      BY <1>1, <1>2
    <3>2. queue'[i] = queue[i + 1] /\ queue'[j] = queue[j + 1]
      BY <1>1, <1>2
    <3>3. queue'[i] # Nobody /\ queue'[i] = queue'[j] => i + 1 = j + 1
      BY <3>1, <3>2 DEF IInv, CallsAreAwaited
    <3> QED
      BY <3>1, <3>3
  <2>3. \A u, v \in Worker : serves'[u] # Nobody /\ serves'[u] = serves'[v] => u = v
    BY <1>2, <1>4 DEF IInv, CallsAreAwaited
  <2>4. \A i \in DOMAIN queue', v \in Worker : queue'[i] # Nobody => queue'[i] # serves'[v]
    <3> TAKE i \in DOMAIN queue', v \in Worker
    <3>1. i + 1 \in DOMAIN queue /\ i + 1 # 1 /\ queue'[i] = queue[i + 1]
      BY <1>1, <1>2
    <3>2. CASE v = w
      BY <1>2, <1>4, <3>1, <3>2 DEF IInv, CallsAreAwaited
    <3>3. CASE v # w
      BY <1>4, <3>1, <3>3 DEF IInv, CallsAreAwaited
    <3> QED
      BY <3>2, <3>3
  <2> QED
    BY <2>1, <2>2, <2>3, <2>4 DEF CallsAreAwaited
<1>6. Busy' = Busy \cup {w} /\ w \notin Busy /\ Holders' = Holders
  BY <1>1 DEF IInv, TypeOK, Busy, Holders
<1>7. Cardinality(Busy') = Cardinality(Busy) + 1
  BY <1>6, Finite, FS_AddElement DEF IInv
<1>8. SlotsConserved'
  BY <1>1, <1>2, <1>6, <1>7, Finite, GuardAssumption DEF IInv, SlotsConserved
<1> QED
  BY <1>3, <1>5, <1>8 DEF IInv

\* An answer reaches the caller who waits for it and keeps the slot until its release.
LEMMA DeliverKeeps ==
    ASSUME IInv, NEW w \in Worker, Deliver(w)
    PROVE  IInv'
<1>1. /\ running[w] = "call" /\ running' = [running EXCEPT ![w] = "release"]
      /\ serves' = [serves EXCEPT ![w] = Nobody] /\ stalled' = stalled \ {serves[w]}
      /\ UNCHANGED <<breaker, slots, started, queue, probe, db>>
  BY DEF Deliver
<1>2. serves'[w] = Nobody /\ \A v \in Worker \ {w} : serves'[v] = serves[v]
  BY <1>1 DEF IInv, TypeOK
<1>3. Busy' = Busy
  BY <1>1 DEF IInv, TypeOK, Busy
<1>4. CASE serves[w] = Nobody
  <2>1. UNCHANGED <<at, outcome>>
    BY <1>4 DEF Deliver
  <2>2. TypeOK' /\ ProbeHasOwner' /\ Holders' = Holders
    BY <1>1, <2>1 DEF IInv, TypeOK, ProbeHasOwner, Holders, Owner
  <2>3. CallsAreAwaited'
    BY <1>1, <1>2, <2>1 DEF IInv, CallsAreAwaited
  <2> QED
    BY <1>1, <1>3, <2>2, <2>3 DEF IInv, SlotsConserved
<1>5. CASE serves[w] # Nobody
  <2>1. PICK c : c = serves[w]
    OBVIOUS
  <2>2. /\ c \in Caller /\ at[c] = "waiting" /\ at' = [at EXCEPT ![c] = "report"]
        /\ outcome' = [outcome EXCEPT ![c] = IF db = "up" THEN "answer" ELSE "trip"]
    BY <1>5, <2>1 DEF Deliver, IInv, TypeOK, Owner, CallsAreAwaited
  <2>3. TypeOK' /\ ProbeHasOwner' /\ Holders' = Holders
    BY <1>1, <2>2 DEF IInv, TypeOK, ProbeHasOwner, Holders, Owner, Place, Outcome
  <2>4. \A d \in Caller \ {c} : at'[d] = at[d]
    BY <2>2 DEF IInv, TypeOK
  <2>5. /\ \A i \in DOMAIN queue : queue[i] # Nobody => queue[i] # c /\ queue[i] \in Caller
        /\ \A v \in Worker \ {w} : serves[v] # Nobody => serves[v] # c /\ serves[v] \in Caller
    BY <1>5, <2>1 DEF IInv, CallsAreAwaited, TypeOK, Owner
  <2>6. CallsAreAwaited'
    BY <1>1, <1>2, <2>1, <2>4, <2>5 DEF IInv, CallsAreAwaited, TypeOK
  <2> QED
    BY <1>1, <1>3, <2>3, <2>6 DEF IInv, SlotsConserved
<1> QED
  BY <1>4, <1>5

\* The release frees the slot of exactly one call.
LEMMA ReleaseKeeps ==
    ASSUME IInv, NEW w \in Worker, Release(w)
    PROVE  IInv'
<1>1. /\ running[w] = "release" /\ slots' = slots + 1
      /\ running' = [running EXCEPT ![w] = "no"]
      /\ UNCHANGED <<breaker, started, queue, serves, at, outcome, probe, stalled, db>>
  BY DEF Release, callerVars
<1>2. Busy' = Busy \ {w} /\ w \in Busy /\ Holders' = Holders
  BY <1>1 DEF IInv, TypeOK, Busy, Holders
<1>3. Cardinality(Busy') = Cardinality(Busy) - 1 /\ Cardinality(Busy') \in Nat
  <2>1. IsFiniteSet(Busy')
    BY <1>2, Finite, FS_RemoveElement DEF IInv
  <2> QED
    BY <1>2, <2>1, Finite, FS_RemoveElement, FS_CardinalityType DEF IInv
<1>4. SlotsConserved' /\ slots' \in 0..MaxConcurrency
  <2>1. /\ slots \in Nat /\ Cardinality(Holders) \in Nat /\ Len(queue) \in Nat
        /\ Cardinality(Busy) \in Nat
    BY Finite DEF IInv
  <2>2. slots + Cardinality(Holders) + Len(queue) + Cardinality(Busy) = MaxConcurrency
    BY DEF IInv, SlotsConserved
  <2>3. slots' + Cardinality(Holders') + Len(queue') + Cardinality(Busy') = MaxConcurrency
    BY <1>1, <1>2, <1>3, <2>1, <2>2
  <2>4. slots' \in 0..MaxConcurrency
    BY <1>1, <1>3, <2>1, <2>2, GuardAssumption
  <2> QED
    BY <2>3, <2>4 DEF SlotsConserved
<1>5. TypeOK' /\ ProbeHasOwner' /\ CallsAreAwaited'
  BY <1>1, <1>4 DEF IInv, TypeOK, ProbeHasOwner, CallsAreAwaited
<1> QED
  BY <1>4, <1>5 DEF IInv

\* The clock and the database move no slot.
LEMMA EnvironmentKeeps ==
    ASSUME IInv, WindowElapses \/ DbChanges
    PROVE  IInv'
<1>1. breaker' \in Breaker /\ (breaker'.probing => breaker.probing)
  BY DEF WindowElapses, DbChanges, IInv, TypeOK, Breaker, AfterWindow, Windows
<1>2. /\ UNCHANGED <<slots, started, queue, running, serves, at, outcome, probe>>
      /\ db' \in {"up", "hung", "down"}
      /\ stalled' \subseteq stalled \cup {c \in Caller : at[c] = "waiting"}
  BY DEF WindowElapses, DbChanges, workerVars, callerVars, IInv, TypeOK
<1>3. TypeOK' /\ ProbeHasOwner' /\ CallsAreAwaited'
  BY <1>1, <1>2 DEF IInv, TypeOK, ProbeHasOwner, CallsAreAwaited
<1>4. Holders' = Holders
  BY <1>2 DEF Holders
<1> QED
  BY <1>2, <1>3, <1>4, SameSlots DEF IInv

\* Every step keeps the invariant of the guard.
LEMMA StepInvariant ==
    ASSUME IInv, [Next]_vars
    PROVE  IInv'
<1>1. CASE UNCHANGED vars
  BY <1>1 DEF vars, workerVars, callerVars, IInv, TypeOK, CallsAreAwaited, SlotsConserved,
     ProbeHasOwner, Holders, Busy
<1>2. CASE Next
  BY <1>2, CallKeeps, TakeSlotKeeps, SaturatedKeeps, StartKeeps, EnqueueKeeps, TimeoutKeeps,
     ReportKeeps, BeginKeeps, DeliverKeeps, ReleaseKeeps, EnvironmentKeeps
     DEF Next, CallerStep, WorkerStep
<1> QED
  BY <1>1, <1>2

\* The inductive invariant of the guard: types, the slots, and that a call somebody owns is
\* the only one of a caller who waits.
THEOREM Invariance == Spec => []IInv
BY InitInvariant, StepInvariant, PTL DEF Spec

\* Types, for any callers and slots: never more slots than max_concurrency.
THEOREM TypeCorrect == Spec => []TypeOK
BY Invariance, PTL DEF IInv

\* No slot leaks and none is released twice, for any number of callers and slots.
THEOREM SlotsAreConserved == Spec => []SlotsConserved
BY Invariance, PTL DEF IInv

\* The breaker of the database never waits for a probe nobody is making.
THEOREM ProbeIsOwned == Spec => []ProbeHasOwner
BY Invariance, PTL DEF IInv

-----------------------------------------------------------------------------
\* Nobody waits for a hung database and every call that is over was answered.
OnlyAnswers ==
    /\ breaker.window = "closed"
    /\ stalled = {}
    /\ \A c \in Caller : at[c] = "report" => outcome[c] = "answer"

\* While the database only answers, every call that is over was answered.
LEMMA AnswersStep ==
    ASSUME TypeOK, OnlyAnswers, db = "up", db' = "up", [Next]_vars
    PROVE  OnlyAnswers'
<1> USE DEF OnlyAnswers
<1>0. breaker \in [window : Windows, probing : BOOLEAN]
  BY DEF TypeOK, Breaker
<1>1. ASSUME NEW c \in Caller, Call(c) \/ Saturated(c) PROVE OnlyAnswers'
  <2>1. breaker'.window = breaker.window /\ UNCHANGED <<outcome, stalled>>
    BY <1>0, <1>1 DEF Call, Saturated, AfterAllow, AfterCancel
  <2>2. \A d \in Caller : at'[d] = "report" => at[d] = "report"
    BY <1>1 DEF Call, Saturated, TypeOK
  <2> QED
    BY <2>1, <2>2
<1>2. ASSUME NEW c \in Caller,
             TakeSlot(c) \/ StartFirst(c) \/ StartNext(c) \/ Enqueue(c)
      PROVE  OnlyAnswers'
  <2>1. UNCHANGED <<breaker, outcome, stalled>>
    BY <1>2 DEF TakeSlot, StartFirst, StartNext, Enqueue, callerVars
  <2>2. \A d \in Caller : at'[d] = "report" => at[d] = "report"
    BY <1>2 DEF TakeSlot, StartFirst, StartNext, Enqueue, callerVars, TypeOK
  <2> QED
    BY <2>1, <2>2
<1>3. ASSUME NEW c \in Caller, Timeout(c) PROVE FALSE
  BY <1>3 DEF Timeout
<1>4. ASSUME NEW c \in Caller, Report(c) PROVE OnlyAnswers'
  <2>1. breaker' = ClosedBreaker /\ stalled' = stalled
    BY <1>4 DEF Report, AfterSuccess
  <2>2. \A d \in Caller : at'[d] = "report" => d # c /\ at[d] = "report"
                                              /\ outcome'[d] = outcome[d]
    BY <1>4 DEF Report, TypeOK
  <2> QED
    BY <2>1, <2>2 DEF ClosedBreaker
<1>5. ASSUME NEW w \in Worker, Begin(w) \/ Release(w) PROVE OnlyAnswers'
  BY <1>5 DEF Begin, Release, callerVars
<1>6. ASSUME NEW w \in Worker, Deliver(w) PROVE OnlyAnswers'
  <2>1. breaker' = breaker /\ stalled' = {}
    BY <1>6 DEF Deliver
  <2>2. CASE serves[w] = Nobody
    BY <1>6, <2>1, <2>2 DEF Deliver
  <2>3. CASE serves[w] # Nobody
    <3>1. \A d \in Caller \ {serves[w]} : at'[d] = at[d] /\ outcome'[d] = outcome[d]
      BY <1>6, <2>3 DEF Deliver, TypeOK
    <3>2. serves[w] \in Caller => outcome'[serves[w]] = "answer"
      BY <1>6, <2>3 DEF Deliver, TypeOK
    <3> QED
      BY <2>1, <3>1, <3>2
  <2> QED
    BY <2>2, <2>3
<1>7. CASE WindowElapses \/ DbChanges
  BY <1>7 DEF WindowElapses, DbChanges
<1>8. CASE UNCHANGED vars
  BY <1>8 DEF vars, callerVars
<1> QED
  BY <1>1, <1>2, <1>3, <1>4, <1>5, <1>6, <1>7, <1>8 DEF Next, CallerStep, WorkerStep

\* However many callers find no slot, a database that only ever answers never sees its
\* breaker open, for any callers and slots.
THEOREM SaturationNeverTrips == Spec => LoadKeepsBreakerClosed
<1>1. Init => OnlyAnswers
  BY DEF Init, OnlyAnswers, ClosedBreaker
<1>2. TypeOK /\ OnlyAnswers /\ db = "up" /\ (db = "up")' /\ [Next]_vars => OnlyAnswers'
  BY AnswersStep
<1>3. OnlyAnswers => breaker.window = "closed"
  BY DEF OnlyAnswers
<1> QED
  BY <1>1, <1>2, <1>3, TypeCorrect, PTL DEF Spec, LoadKeepsBreakerClosed

-----------------------------------------------------------------------------
\* A call that was let in never waits behind a hung one: until it is answered or given up it
\* is in the queue or with a worker, for every call in the queue there is a worker with
\* nothing to do, and somebody is starting the workers that do not run yet (guard.py:14-15,
\* 58-73).
AdmittedCallsRun ==
    /\ \A c \in Caller :
          at[c] = "waiting" => \/ \E i \in DOMAIN queue : queue[i] = c
                               \/ \E w \in Worker : serves[w] = c
    /\ Len(queue) <= Cardinality(Worker \ Busy)
    /\ queue # << >> => started = MaxConcurrency \/ \E c \in Caller : at[c] = "starting"

\* The part about the calls, with what makes it inductive.
WaitingIsHeld ==
    /\ \A w \in Worker : running[w] # "call" => serves[w] = Nobody
    /\ \A c \in Caller :
          at[c] = "waiting" => \/ \E i \in DOMAIN queue : queue[i] = c
                               \/ \E w \in Worker : serves[w] = c

\* The part about the start of the workers, likewise.
WorkersAreStarted ==
    /\ started \in 1..(MaxConcurrency - 1) => \E c \in Caller : at[c] = "starting"
    /\ \A c \in Caller : at[c] = "starting" => started > 0
    /\ queue # << >> => started > 0

\* Every step keeps waiting calls in the queue or on a worker.
LEMMA HeldStep ==
    ASSUME IInv, WaitingIsHeld, [Next]_vars
    PROVE  WaitingIsHeld'
<1>1. CASE \/ UNCHANGED vars
           \/ WindowElapses \/ DbChanges
           \/ \E c \in Caller : \/ Call(c) \/ TakeSlot(c) \/ Saturated(c) \/ StartFirst(c)
                                \/ StartNext(c) \/ Report(c)
           \/ \E w \in Worker : Release(w)
  <2>1. UNCHANGED <<queue, serves>>
    BY <1>1 DEF vars, workerVars, WindowElapses, DbChanges, Call, TakeSlot, Saturated,
       StartFirst, StartNext, Report, Release
  <2>2. \A c \in Caller : at'[c] = "waiting" => at[c] = "waiting"
    BY <1>1 DEF vars, callerVars, WindowElapses, DbChanges, Call, TakeSlot, Saturated,
       StartFirst, StartNext, Report, Release, IInv, TypeOK
  <2>3. \A w \in Worker : running[w] = "call" => running'[w] = "call"
    BY <1>1 DEF vars, workerVars, WindowElapses, DbChanges, Call, TakeSlot, Saturated,
       StartFirst, StartNext, Report, Release, IInv, TypeOK
  <2> QED
    BY <2>1, <2>2, <2>3 DEF WaitingIsHeld
<1>2. ASSUME NEW c \in Caller, Enqueue(c) PROVE WaitingIsHeld'
  <2>1. /\ queue' = Append(queue, c) /\ queue \in Seq(Owner) /\ c \in Owner
        /\ at' = [at EXCEPT ![c] = "waiting"] /\ UNCHANGED <<running, serves>>
    BY <1>2 DEF Enqueue, IInv, TypeOK, Owner
  <2>2. /\ Len(queue) + 1 \in DOMAIN queue' /\ queue'[Len(queue) + 1] = c
        /\ \A i \in DOMAIN queue : i \in DOMAIN queue' /\ queue'[i] = queue[i]
    BY <2>1
  <2>3. \A d \in Caller \ {c} : at'[d] = at[d]
    BY <2>1 DEF IInv, TypeOK
  <2> QED
    BY <2>1, <2>2, <2>3 DEF WaitingIsHeld
<1>3. ASSUME NEW c \in Caller, Timeout(c) PROVE WaitingIsHeld'
  <2>1. /\ at' = [at EXCEPT ![c] = "report"] /\ running' = running
        /\ queue' = [i \in DOMAIN queue |-> IF queue[i] = c THEN Nobody ELSE queue[i]]
        /\ serves' = [w \in Worker |-> IF serves[w] = c THEN Nobody ELSE serves[w]]
    BY <1>3 DEF Timeout, Disown
  <2>2. \A d \in Caller : at'[d] = "waiting" => d # c /\ at[d] = "waiting"
    BY <2>1 DEF IInv, TypeOK
  <2>3. /\ \A i \in DOMAIN queue : i \in DOMAIN queue' /\ (queue[i] # c => queue'[i] = queue[i])
        /\ \A w \in Worker : serves[w] # c => serves'[w] = serves[w]
        /\ \A w \in Worker : serves[w] = Nobody => serves'[w] = Nobody
    BY <2>1
  <2> QED
    BY <2>1, <2>2, <2>3 DEF WaitingIsHeld
<1>4. ASSUME NEW w \in Worker, Begin(w) PROVE WaitingIsHeld'
  <2>1. /\ running[w] = "no" /\ queue # << >> /\ queue \in Seq(Owner)
        /\ serves' = [serves EXCEPT ![w] = Head(queue)] /\ queue' = Tail(queue)
        /\ running' = [running EXCEPT ![w] = "call"] /\ at' = at
    BY <1>4 DEF Begin, callerVars, IInv, TypeOK
  <2>2. serves[w] = Nobody /\ serves'[w] = queue[1]
        /\ \A v \in Worker \ {w} : serves'[v] = serves[v]
    BY <2>1 DEF WaitingIsHeld, IInv, TypeOK
  <2>3. \A i \in DOMAIN queue : i = 1 \/ (i - 1 \in DOMAIN queue' /\ queue'[i - 1] = queue[i])
    <3>1. PICK n \in Nat \ {0} : n = Len(queue)
      BY <2>1
    <3>2. DOMAIN queue = 1..n /\ DOMAIN queue' = 1..(n - 1)
      BY <2>1, <3>1
    <3>3. \A i \in 1..(n - 1) : queue'[i] = queue[i + 1]
      BY <2>1, <3>1
    <3> TAKE i \in DOMAIN queue
    <3>4. CASE i # 1
      <4>1. i - 1 \in 1..(n - 1) /\ (i - 1) + 1 = i
        BY <3>2, <3>4
      <4> QED
        BY <3>2, <3>3, <4>1
    <3> QED
      BY <3>4
  <2>4. ASSUME NEW c \in Caller, at[c] = "waiting"
        PROVE  \/ \E i \in DOMAIN queue' : queue'[i] = c
               \/ \E v \in Worker : serves'[v] = c
    <3>1. CASE \E v \in Worker : serves[v] = c
      BY <2>2, <3>1, GuardAssumption
    <3>2. CASE \E i \in DOMAIN queue : queue[i] = c
      BY <2>2, <2>3, <3>2
    <3> QED
      BY <2>4, <3>1, <3>2 DEF WaitingIsHeld
  <2>5. \A v \in Worker : running'[v] # "call" => v # w /\ running[v] # "call"
    BY <2>1 DEF IInv, TypeOK
  <2> QED
    BY <2>1, <2>2, <2>4, <2>5 DEF WaitingIsHeld
<1>5. ASSUME NEW w \in Worker, Deliver(w) PROVE WaitingIsHeld'
  <2>1. /\ running' = [running EXCEPT ![w] = "release"] /\ queue' = queue
        /\ serves' = [serves EXCEPT ![w] = Nobody]
        /\ IF serves[w] = Nobody THEN at' = at ELSE at' = [at EXCEPT ![serves[w]] = "report"]
    BY <1>5 DEF Deliver
  <2>2. /\ \A v \in Worker \ {w} : serves'[v] = serves[v] /\ running'[v] = running[v]
        /\ serves'[w] = Nobody
    BY <2>1 DEF IInv, TypeOK
  <2>3. \A c \in Caller : at'[c] = "waiting" => at[c] = "waiting" /\ c # serves[w]
    BY <2>1, GuardAssumption DEF IInv, TypeOK
  <2> QED
    BY <2>1, <2>2, <2>3 DEF WaitingIsHeld
<1> QED
  BY <1>1, <1>2, <1>3, <1>4, <1>5 DEF Next, CallerStep, WorkerStep

\* Every step keeps the workers started, or somebody starting them, once a call is queued.
LEMMA StartedStep ==
    ASSUME IInv, WorkersAreStarted, [Next]_vars
    PROVE  WorkersAreStarted'
<1>0. started \in 0..MaxConcurrency /\ MaxConcurrency \in Nat \ {0} /\ at \in [Caller -> Place]
  BY GuardAssumption DEF IInv, TypeOK
<1>1. CASE \/ UNCHANGED vars
           \/ WindowElapses \/ DbChanges
           \/ \E c \in Caller : Call(c) \/ TakeSlot(c) \/ Saturated(c) \/ Report(c)
           \/ \E w \in Worker : Release(w)
  <2>1. UNCHANGED <<started, queue>>
    BY <1>1 DEF vars, workerVars, WindowElapses, DbChanges, Call, TakeSlot, Saturated,
       Report, Release
  <2>2. \A c \in Caller : at'[c] = "starting" <=> at[c] = "starting"
    BY <1>0, <1>1 DEF vars, callerVars, WindowElapses, DbChanges, Call, TakeSlot, Saturated,
       Report, Release
  <2> QED
    BY <2>1, <2>2 DEF WorkersAreStarted
<1>2. ASSUME NEW c \in Caller, Timeout(c) PROVE WorkersAreStarted'
  <2>1. /\ at[c] = "waiting" /\ at' = [at EXCEPT ![c] = "report"] /\ started' = started
        /\ queue' = [i \in DOMAIN queue |-> IF queue[i] = c THEN Nobody ELSE queue[i]]
    BY <1>2 DEF Timeout, Disown, IInv, CallsAreAwaited
  <2>2. \A d \in Caller : at'[d] = "starting" <=> at[d] = "starting"
    BY <1>0, <2>1
  <2>3. queue = << >> => queue' = << >>
    BY <2>1
  <2> QED
    BY <2>1, <2>2, <2>3 DEF WorkersAreStarted
<1>3. ASSUME NEW w \in Worker, Deliver(w) PROVE WorkersAreStarted'
  <2>1. /\ UNCHANGED <<started, queue>>
        /\ IF serves[w] = Nobody THEN at' = at ELSE at' = [at EXCEPT ![serves[w]] = "report"]
        /\ serves[w] # Nobody => at[serves[w]] = "waiting"
    BY <1>3 DEF Deliver, IInv, CallsAreAwaited
  <2>2. \A d \in Caller : at'[d] = "starting" <=> at[d] = "starting"
    BY <1>0, <2>1
  <2> QED
    BY <2>1, <2>2 DEF WorkersAreStarted
<1>4. ASSUME NEW w \in Worker, Begin(w) PROVE WorkersAreStarted'
  BY <1>4 DEF Begin, callerVars, WorkersAreStarted
<1>5. ASSUME NEW c \in Caller, StartFirst(c) \/ StartNext(c) PROVE WorkersAreStarted'
  <2>1. /\ at'[c] = "starting" /\ started' = started + 1 /\ queue' = queue
        /\ \A d \in Caller \ {c} : at'[d] = at[d]
    BY <1>0, <1>5 DEF StartFirst, StartNext, callerVars, workerVars
  <2> QED
    BY <1>0, <2>1 DEF WorkersAreStarted
<1>6. ASSUME NEW c \in Caller, Enqueue(c) PROVE WorkersAreStarted'
  <2>1. /\ started' = started /\ started > 0
        /\ at[c] = "starting" => started = MaxConcurrency
        /\ at'[c] = "waiting" /\ \A d \in Caller \ {c} : at'[d] = at[d]
    BY <1>0, <1>6, GuardAssumption DEF Enqueue
  <2> QED
    BY <1>0, <2>1 DEF WorkersAreStarted
<1> QED
  BY <1>1, <1>2, <1>3, <1>4, <1>5, <1>6 DEF Next, CallerStep, WorkerStep

\* There are as many workers as slots, so a call in the queue has one to itself.
LEMMA WorkersSuffice ==
    ASSUME IInv
    PROVE  Len(queue) <= Cardinality(Worker \ Busy)
<1>1. IsFiniteSet(Worker) /\ Cardinality(Worker) = MaxConcurrency
  BY FS_Interval, GuardAssumption DEF Worker
<1>2. Cardinality(Worker \ Busy) = Cardinality(Worker) - Cardinality(Worker \cap Busy)
  BY <1>1, FS_Difference
<1>3. Worker \cap Busy = Busy
  BY DEF Busy
<1>4. /\ slots \in Nat /\ Cardinality(Holders) \in Nat /\ Len(queue) \in Nat
      /\ Cardinality(Busy) \in Nat /\ MaxConcurrency \in Nat
  BY Finite, GuardAssumption DEF IInv
<1>5. slots + Cardinality(Holders) + Len(queue) + Cardinality(Busy) = MaxConcurrency
  BY DEF IInv, SlotsConserved
<1>6. Cardinality(Worker \ Busy) = MaxConcurrency - Cardinality(Busy)
  BY <1>1, <1>2, <1>3
<1> QED
  BY <1>4, <1>5, <1>6

\* The bulkhead does what it is for: a call is refused at once or has a worker.
THEOREM AdmittedCallsGetWorkers == Spec => []AdmittedCallsRun
<1>1. Init => WaitingIsHeld /\ WorkersAreStarted
  BY DEF Init, WaitingIsHeld, WorkersAreStarted
<1>2. IInv /\ WaitingIsHeld /\ WorkersAreStarted => AdmittedCallsRun
  <2> SUFFICES ASSUME IInv, WaitingIsHeld, WorkersAreStarted PROVE AdmittedCallsRun
    OBVIOUS
  <2>1. started \in 0..MaxConcurrency /\ MaxConcurrency \in Nat
    BY GuardAssumption DEF IInv, TypeOK
  <2>2. queue # << >> => started = MaxConcurrency \/ \E c \in Caller : at[c] = "starting"
    BY <2>1 DEF WorkersAreStarted
  <2> QED
    BY <2>2, WorkersSuffice DEF WaitingIsHeld, AdmittedCallsRun
<1> QED
  BY <1>1, <1>2, Invariance, HeldStep, StartedStep, PTL DEF Spec

=============================================================================
