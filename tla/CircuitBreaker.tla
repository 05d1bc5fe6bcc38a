--------------------------- MODULE CircuitBreaker ---------------------------
(***************************************************************************)
(* The state of one CircuitBreaker and what its methods do to it.          *)
(*                                                                         *)
(* A breaker is a record.  window stands for _open_until: closed for 0.0,  *)
(* running for a time in the future, elapsed for one that has passed.      *)
(* probing is _probing.  Each method works under the breaker's lock and is *)
(* one step.  record_success looks at both fields before it takes the      *)
(* lock: when it finds the breaker closed it has no effect, which is what  *)
(* it would have done under the lock at that moment.                       *)
(***************************************************************************)

Windows == {"closed", "running", "elapsed"}
\* Nobody probes a breaker that is closed or whose window is running.
Breaker ==
    {b \in [window : Windows, probing : BOOLEAN] : b.probing => b.window = "elapsed"}

ClosedBreaker == [window |-> "closed", probing |-> FALSE]

\* Faulty: the probe that is under way does not keep others out.
AllowsElapsed(b) == b.window # "running"

\* allow() would return True ...
Allows(b) ==
    \/ b.window = "closed"
    \/ b.window = "elapsed" /\ ~b.probing

\* ... and this is the breaker after it did.
AfterAllow(b) == [b EXCEPT !.probing = (b.window # "closed")]

\* allow() makes the caller the half-open probe.
GrantsProbe(b) == Allows(b) /\ b.window # "closed"

\* Faulty: the window is closed, the probe stays marked as under way.
AfterSuccessKeepsProbe(b) == [b EXCEPT !.window = "closed"]

AfterSuccess(b) == ClosedBreaker

\* Faulty: the window is opened again, the probe stays marked as under way.
AfterFailureKeepsProbe(b) == [b EXCEPT !.window = "running"]

AfterFailure(b) == [window |-> "running", probing |-> FALSE]

\* cancel_probe(): whoever calls it, nobody is probing afterwards.
AfterCancel(b) == [b EXCEPT !.probing = FALSE]

\* The clock reaches _open_until.
AfterWindow(b) == [b EXCEPT !.window = "elapsed"]

=============================================================================
