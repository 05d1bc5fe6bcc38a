---------------------------- MODULE SearchLedger ----------------------------
(***************************************************************************)
(* What the write path promises for the searches POST /search accepted.    *)
(*                                                                         *)
(* Each accepted search is one event of its query.  An event waits in the  *)
(* memory of the process until it is settled exactly once: added to the    *)
(* count of its row (persisted), or given up by the flush (discarded).     *)
(* Going down is the only thing that may lose events, and a process that   *)
(* is down has none left: what was waiting is either in the database or    *)
(* gone.  Nothing here knows of batches, flushes, retries or threads.      *)
(***************************************************************************)
EXTENDS Naturals

CONSTANT Query

VARIABLES
    up,         \* the process is alive
    waiting,    \* waiting[q]: events of q held in memory
    persisted,  \* persisted[q]: events of q added to the row of q
    discarded,  \* discarded[q]: events of q the flush gave up
    lost        \* lost[q]: events of q that went down with a process

ledgerVars == <<up, waiting, persisted, discarded, lost>>

Counts == [Query -> Nat]
None == [q \in Query |-> 0]

LedgerInit ==
    /\ up = TRUE
    /\ waiting = None
    /\ persisted = None
    /\ discarded = None
    /\ lost = None

\* Settled counts never shrink, and no event appears or disappears.
Moves ==
    /\ waiting' \in Counts /\ persisted' \in Counts
    /\ discarded' \in Counts /\ lost' \in Counts
    /\ \A q \in Query :
         /\ persisted'[q] >= persisted[q]
         /\ discarded'[q] >= discarded[q]
         /\ lost'[q] >= lost[q]
         /\ waiting'[q] + persisted'[q] + discarded'[q] + lost'[q]
              = waiting[q] + persisted[q] + discarded[q] + lost[q]

Accept(q) ==
    /\ up
    /\ waiting' = [waiting EXCEPT ![q] = @ + 1]
    /\ UNCHANGED <<up, persisted, discarded, lost>>

Settle ==
    /\ up
    /\ Moves
    /\ UNCHANGED <<up, lost>>

GoDown ==
    /\ up
    /\ up' = FALSE
    /\ waiting' = None
    /\ Moves
    /\ UNCHANGED discarded

ComeUp ==
    /\ ~up
    /\ up' = TRUE
    /\ UNCHANGED <<waiting, persisted, discarded, lost>>

LedgerNext ==
    \/ \E q \in Query : Accept(q)
    \/ Settle
    \/ GoDown
    \/ ComeUp

LedgerSpec == LedgerInit /\ [][LedgerNext]_ledgerVars

=============================================================================
