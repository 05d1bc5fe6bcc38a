--------------------------- MODULE CacheNodeProofs ---------------------------
(***************************************************************************)
(* What holds of CacheNode for any set of callers.                         *)
(***************************************************************************)
EXTENDS CacheNode, TLAPS

USE DEF Place, Windows

\* Each breaker method keeps a breaker a breaker; only allow() makes it probing,
\* and only one whose window has elapsed.
LEMMA BreakerMethods ==
    ASSUME NEW b \in Breaker
    PROVE  /\ ClosedBreaker \in Breaker /\ ~ClosedBreaker.probing
           /\ Allows(b) => AfterAllow(b) \in Breaker
           /\ AfterAllow(b).window = b.window
           /\ GrantsProbe(b) => b.window = "elapsed" /\ ~b.probing
           /\ Allows(b) => (AfterAllow(b).probing <=> GrantsProbe(b))
           /\ AfterSuccess(b) = ClosedBreaker
           /\ AfterFailure(b) \in Breaker /\ ~AfterFailure(b).probing
           /\ AfterFailure(b).window = "running"
           /\ b.window = "running" =>
                /\ AfterWindow(b) \in Breaker
                /\ AfterWindow(b).window = "elapsed" /\ ~AfterWindow(b).probing
BY DEF Breaker, ClosedBreaker, Allows, AfterAllow, GrantsProbe, AfterSuccess,
       AfterFailure, AfterWindow

\* Strengthening of ProbeHasOwner and HalfOpenAdmitsOne: the only call that is not
\* late while the window has elapsed is the probe the breaker waits for.
OnNode(c) == at[c] # "idle" /\ ~late[c]
Probing(c) == probe[c] /\ ~late[c] /\ at[c] \in {"call", "answered", "failed"}

IInv ==
    /\ TypeOK
    /\ \A c \in Caller : late[c] => at[c] # "idle"
    /\ breaker.probing => \E c \in Caller : Probing(c)
    /\ breaker.window = "elapsed" =>
         \A c \in Caller : OnNode(c) => breaker.probing
    /\ breaker.window = "elapsed" =>
         \A c, d \in Caller : OnNode(c) /\ OnNode(d) => c = d

\* A new breaker is closed, with no caller on the node.
LEMMA InitInvariant == Init => IInv
<1> SUFFICES ASSUME Init PROVE IInv
  OBVIOUS
<1>1. breaker \in Breaker /\ ~breaker.probing
  BY DEF Init, Breaker, ClosedBreaker, AfterFailure
<1> QED
  BY <1>1 DEF Init, IInv, TypeOK, OnNode

\* Every step of a caller, of the clock and of the node keeps the invariant.
LEMMA StepInvariant ==
    ASSUME IInv, [Next]_vars
    PROVE  IInv'
<1> USE DEF IInv, TypeOK, OnNode, Probing
<1>0. breaker \in Breaker
  OBVIOUS
<1>1. ASSUME NEW c \in Caller, Enter(c) PROVE IInv'
  <2>1. /\ at[c] = "idle" /\ ~late[c] /\ late' = late /\ node' = node
        /\ at' = [at EXCEPT ![c] = "call"]
        /\ probe' = [probe EXCEPT ![c] = GrantsProbe(breaker)]
        /\ Allows(breaker)
    BY <1>1 DEF Enter
  <2>2. /\ breaker' \in Breaker /\ breaker'.window = breaker.window
        /\ breaker'.probing <=> GrantsProbe(breaker)
        /\ breaker.window = "elapsed" => GrantsProbe(breaker) /\ ~breaker.probing
    BY <1>0, <1>1, <2>1, BreakerMethods DEF Enter, GrantsProbe, Allows
  <2>3. /\ at' \in [Caller -> Place] /\ at'[c] = "call"
        /\ \A d \in Caller \ {c} : at'[d] = at[d] /\ probe'[d] = probe[d]
        /\ probe' \in [Caller -> BOOLEAN]
        /\ probe'[c] <=> GrantsProbe(breaker)
    BY <2>1 DEF GrantsProbe
  <2> HIDE DEF OnNode, Probing
  <2>4. breaker'.probing => Probing(c)'
    BY <2>1, <2>2, <2>3 DEF Probing
  <2>5. breaker'.window = "elapsed" =>
          \A d \in Caller : OnNode(d)' => d = c /\ breaker'.probing
    BY <2>1, <2>2, <2>3 DEF OnNode
  <2> QED
    BY <2>1, <2>2, <2>3, <2>4, <2>5
<1>2. ASSUME NEW c \in Caller, Answer(c) \/ Fail(c) PROVE IInv'
  BY <1>2 DEF Answer, Fail
<1>3. ASSUME NEW c \in Caller, ReportSuccess(c) PROVE IInv'
  <2>1. breaker' \in Breaker /\ breaker'.window = "closed" /\ ~breaker'.probing
    BY <1>3 DEF ReportSuccess, AfterSuccess, ClosedBreaker, Breaker
  <2> QED
    BY <1>3, <2>1, ZenonT(30) DEF ReportSuccess, Leave
<1>4. ASSUME NEW c \in Caller, ReportFailure(c) PROVE IInv'
  <2>1. breaker' \in Breaker /\ breaker'.window = "running" /\ ~breaker'.probing
    BY <1>4 DEF ReportFailure, AfterFailure, Breaker
  <2> QED
    BY <1>4, <2>1 DEF ReportFailure, Leave
<1>5. ASSUME NEW c \in Caller, TtlAnswer(c) PROVE IInv'
  BY <1>5 DEF TtlAnswer, Leave
<1>6. CASE WindowElapses
  <2>1. breaker' \in Breaker /\ breaker'.window = "elapsed" /\ ~breaker'.probing
    BY <1>0, <1>6, BreakerMethods DEF WindowElapses
  <2> QED
    BY <1>6, <2>1 DEF WindowElapses
<1>7. CASE NodeFails \/ NodeRecovers \/ UNCHANGED vars
  BY <1>7 DEF NodeFails, NodeRecovers, vars
<1> QED
  BY <1>1, <1>2, <1>3, <1>4, <1>5, <1>6, <1>7 DEF Next, CallStep

\* The inductive invariant of a cache node holds for any callers.
THEOREM Invariance == Spec => []IInv
BY InitInvariant, StepInvariant, PTL DEF Spec

\* The type invariant, for any number of callers.
THEOREM TypeCorrect == Spec => []TypeOK
BY Invariance, PTL DEF IInv

\* The breaker never waits for a probe nobody is making, so a node is never skipped
\* for ever, however operations overlap windows and one another.
THEOREM ProbeIsOwned == Spec => []ProbeHasOwner
<1>1. IInv => ProbeHasOwner
  BY DEF IInv, ProbeHasOwner, Probing
<1> QED
  BY <1>1, Invariance, PTL

\* A node whose window has elapsed is used by one new call at a time, for any number
\* of threads.
THEOREM OneAtATime == Spec => []HalfOpenAdmitsOne
<1>1. IInv => HalfOpenAdmitsOne
  BY DEF IInv, HalfOpenAdmitsOne, OnNode
<1> QED
  BY <1>1, Invariance, PTL

=============================================================================
