------------------------------ MODULE CacheNode ------------------------------
(***************************************************************************)
(* One Redis node behind its circuit breaker, used by the request threads  *)
(* and the batch worker (DistributedCache over RedisNode).                 *)
(*                                                                         *)
(* get, set, delete, delete_many and get_ttl have the same shape: ask      *)
(* allow(), do the I/O, report success or failure.  delete_many does       *)
(* several round trips before its one report.  get_debug_info differs: it  *)
(* reports the success of its GET and then does a TTL, whose failure it    *)
(* reports as well although no allow() preceded it.                        *)
(*                                                                         *)
(* Nodes share nothing but the ring, which is read-only once built, so one *)
(* node stands for all.                                                    *)
(***************************************************************************)
EXTENDS CircuitBreaker

CONSTANT Caller   \* the threads that use the cache

VARIABLES
    breaker,   \* RedisNode._breaker
    node,      \* the Redis server: up or down (refusing, or not answering in time)
    at,        \* at[c]: where caller c is in its operation
    probe,     \* probe[c]: c was let in as the probe and has not reported yet
    late       \* late[c]: c's operation was under way when a window elapsed

vars == <<breaker, node, at, probe, late>>

\* call: in the I/O; answered, failed: I/O over, report due; ttl: in the second I/O.
Place == {"idle", "call", "answered", "failed", "ttl"}

\* RedisNode.__init__ pings the server and trips the breaker if that fails.
Init ==
    /\ node \in {"up", "down"}
    /\ breaker = IF node = "up" THEN ClosedBreaker ELSE AfterFailure(ClosedBreaker)
    /\ at = [c \in Caller |-> "idle"]
    /\ probe = [c \in Caller |-> FALSE]
    /\ late = [c \in Caller |-> FALSE]

-----------------------------------------------------------------------------
\* _usable_node lets the caller through.  A caller it refuses skips the node: a
\* cache miss, a delete that is not done; nothing modelled here changes.
Enter(c) ==
    /\ at[c] = "idle"
    /\ Allows(breaker)
    /\ at' = [at EXCEPT ![c] = "call"]
    /\ probe' = [probe EXCEPT ![c] = GrantsProbe(breaker)]
    /\ breaker' = AfterAllow(breaker)
    /\ UNCHANGED <<node, late>>

Answer(c) ==
    /\ at[c] = "call"
    /\ node = "up"
    /\ at' = [at EXCEPT ![c] = "answered"]
    /\ UNCHANGED <<breaker, node, probe, late>>

Fail(c) ==
    /\ at[c] \in {"call", "ttl"}
    /\ node = "down"
    /\ at' = [at EXCEPT ![c] = "failed"]
    /\ UNCHANGED <<breaker, node, probe, late>>

\* The operation of c is over.
Leave(c) ==
    /\ at' = [at EXCEPT ![c] = "idle"]
    /\ late' = [late EXCEPT ![c] = FALSE]

\* record_success; get_debug_info goes on to the TTL of a key it found.
ReportSuccess(c) ==
    /\ at[c] = "answered"
    /\ breaker' = AfterSuccess(breaker)
    /\ probe' = [probe EXCEPT ![c] = FALSE]
    /\ \/ /\ at' = [at EXCEPT ![c] = "ttl"]
          /\ UNCHANGED late
       \/ Leave(c)
    /\ UNCHANGED node

\* Faulty: an error is logged and not reported to the breaker.
ReportNothing(c) ==
    /\ at[c] = "failed"
    /\ Leave(c)
    /\ probe' = [probe EXCEPT ![c] = FALSE]
    /\ UNCHANGED <<breaker, node>>

ReportFailure(c) ==
    /\ at[c] = "failed"
    /\ breaker' = AfterFailure(breaker)
    /\ probe' = [probe EXCEPT ![c] = FALSE]
    /\ Leave(c)
    /\ UNCHANGED node

\* The TTL of get_debug_info arrives; it is not reported.
TtlAnswer(c) ==
    /\ at[c] = "ttl"
    /\ node = "up"
    /\ Leave(c)
    /\ UNCHANGED <<breaker, node, probe>>

\* The window passes.  With a socket timeout of 0.25 s and a window of at least 5 s
\* few operations outlast it; a delete_many of many round trips may.
WindowElapses ==
    /\ breaker.window = "running"
    /\ breaker' = AfterWindow(breaker)
    /\ late' = [c \in Caller |-> at[c] # "idle"]
    /\ UNCHANGED <<node, at, probe>>

NodeFails ==
    /\ node = "up"
    /\ node' = "down"
    /\ UNCHANGED <<breaker, at, probe, late>>

NodeRecovers ==
    /\ node = "down"
    /\ node' = "up"
    /\ UNCHANGED <<breaker, at, probe, late>>

CallStep(c) ==
    \/ Answer(c)
    \/ Fail(c)
    \/ ReportSuccess(c)
    \/ ReportFailure(c)
    \/ TtlAnswer(c)

Next ==
    \/ \E c \in Caller : Enter(c) \/ CallStep(c)
    \/ WindowElapses
    \/ NodeFails
    \/ NodeRecovers

Spec == Init /\ [][Next]_vars

\* I/O ends (the socket timeouts see to that), the clock advances, and requests
\* keep arriving.  The server may stay as it is for ever.
Fairness ==
    /\ \A c \in Caller : WF_vars(CallStep(c))
    /\ WF_vars(WindowElapses)
    /\ WF_vars(\E c \in Caller : Enter(c))

FairSpec == Spec /\ Fairness

-----------------------------------------------------------------------------
(* Properties.                                                             *)

TypeOK ==
    /\ breaker \in Breaker
    /\ node \in {"up", "down"}
    /\ at \in [Caller -> Place]
    /\ probe \in [Caller -> BOOLEAN]
    /\ late \in [Caller -> BOOLEAN]

\* A breaker that waits for its probe has one to wait for: somebody who was let in
\* as the probe is still to report.  Otherwise the node would be skipped for ever
\* (breaker.py:13-15).
ProbeHasOwner == breaker.probing => \E c \in Caller : probe[c]

\* Once the window has elapsed, at most one call is on the node beside those that
\* were there before: a dead node costs one thread, not the pool
\* (redis_node.py:16-20).
HalfOpenAdmitsOne ==
    breaker.window = "elapsed" =>
        \A c, d \in {e \in Caller : at[e] # "idle" /\ ~late[e]} : c = d

\* The breaker follows the server: one that stays up ends up used, one that stays
\* down ends up skipped except for probes.
BreakerFollowsNode ==
    /\ <>[](node = "up") => <>[](breaker.window = "closed")
    /\ <>[](node = "down") => <>[](breaker.window # "closed")

=============================================================================
