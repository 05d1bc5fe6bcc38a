--------------------------- MODULE AtomicUpserts ---------------------------
(***************************************************************************)
(* What the table queries promises its writers.  A transaction adds its    *)
(* whole batch to the committed counts in one instant, or nothing of it    *)
(* ever: no other transaction's counts are overwritten or read half done.  *)
(* Nothing here knows of rows, locks or statements.                        *)
(***************************************************************************)
EXTENDS Naturals

CONSTANTS Query, Writer

VARIABLES
    count,  \* count[q]: the committed count of q
    batch   \* batch[w]: what the transaction of w is to add; NoCounts when there is none

NoCounts == [q \in Query |-> 0]

UpsertInit ==
    /\ count = NoCounts
    /\ batch = [w \in Writer |-> NoCounts]

Begins(w) ==
    /\ batch[w] = NoCounts
    /\ batch'[w] \in [Query -> Nat]
    /\ batch' = [batch EXCEPT ![w] = batch'[w]]
    /\ UNCHANGED count

Ends(w) == batch[w] # NoCounts /\ batch' = [batch EXCEPT ![w] = NoCounts]

Commits(w) == Ends(w) /\ count' = [q \in Query |-> count[q] + batch[w][q]]

Aborts(w) == Ends(w) /\ UNCHANGED count

UpsertNext == \E w \in Writer : Begins(w) \/ Commits(w) \/ Aborts(w)

UpsertSpec == UpsertInit /\ [][UpsertNext]_<<count, batch>>

=============================================================================
