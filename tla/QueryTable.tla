------------------------------ MODULE QueryTable ------------------------------
(***************************************************************************)
(* The table queries under its writers: the flushers of several API        *)
(* processes, each with one upsert statement in a transaction, and the     *)
(* ingest script.  A statement goes through its rows one by one, takes the *)
(* lock of each and keeps it until its transaction ends; what it writes is *)
(* computed from the row it finds once it has the lock.                    *)
(*                                                                         *)
(* historical_count stands for both counts (recent_count is merged in the  *)
(* same way, decayed); 0 is a row that does not exist.                     *)
(***************************************************************************)
EXTENDS Naturals, SequencesExt

CONSTANTS
    Query,       \* the texts that may have a row
    Rank,        \* Rank[q]: the place of q in the order of the database
    Flusher,     \* batch workers
    Ingester,    \* runs of ingest.py
    MaxCount     \* bound: no transaction begins once a row has this count

Writer == Flusher \cup Ingester

ASSUME TableAssumption ==
    /\ IsFiniteSet(Query)
    /\ Rank \in [Query -> Nat]
    /\ \A q, r \in Query : Rank[q] = Rank[r] => q = r
    /\ Flusher \cap Ingester = {}
    /\ MaxCount \in Nat

VARIABLES
    count,      \* count[q]: the committed historical_count
    batch,      \* batch[w]: what the transaction of w adds; all 0 when there is none
    rows,       \* rows[w]: the rows it has not locked yet, in its order
    new         \* new[w][q]: the count it has written for a row it holds

tableVars == <<count, batch, rows, new>>

NoCounts == [q \in Query |-> 0]

RowsOf(delta) == {q \in Query : delta[q] > 0}

TableInit ==
    /\ count = NoCounts
    /\ batch = [w \in Writer |-> NoCounts]
    /\ rows = [w \in Writer |-> << >>]
    /\ new = [w \in Writer |-> NoCounts]

-----------------------------------------------------------------------------
Running(w) == RowsOf(batch[w]) # {}
Held(w) == RowsOf(batch[w]) \ ToSet(rows[w])

InRowOrder(s) == \A i, j \in DOMAIN s : i < j => Rank[s[i]] < Rank[s[j]]

\* Faulty: no ORDER BY.
LockOrdersAny(w, S) == SetToSeqs(S)

\* ORDER BY t.q in the flushers' statement; the one of ingest.py has none.
LockOrders(w, S) ==
    IF w \in Flusher THEN {s \in SetToSeqs(S) : InRowOrder(s)} ELSE SetToSeqs(S)

\* apply_search_counts or ingest_csv executes its statement.
Begin(w, delta) ==
    /\ ~Running(w)
    /\ RowsOf(delta) # {}
    /\ \A q \in Query : count[q] < MaxCount
    /\ batch' = [batch EXCEPT ![w] = delta]
    /\ \E s \in LockOrders(w, RowsOf(delta)) : rows' = [rows EXCEPT ![w] = s]
    /\ UNCHANGED <<count, new>>

\* Faulty: the new value is computed from a row that another transaction is changing.
LockRowUnlocked(w) ==
    /\ rows[w] # << >>
    /\ new' = [new EXCEPT ![w][Head(rows[w])] = count[Head(rows[w])] + batch[w][Head(rows[w])]]
    /\ rows' = [rows EXCEPT ![w] = Tail(rows[w])]
    /\ UNCHANGED <<count, batch>>

\* ON CONFLICT DO UPDATE waits for the row and adds to what it finds.
LockRow(w) ==
    /\ rows[w] # << >>
    /\ LET q == Head(rows[w])
       IN /\ \A v \in Writer : q \notin Held(v)
          /\ new' = [new EXCEPT ![w][q] = count[q] + batch[w][q]]
    /\ rows' = [rows EXCEPT ![w] = Tail(rows[w])]
    /\ UNCHANGED <<count, batch>>

End(w) ==
    /\ batch' = [batch EXCEPT ![w] = NoCounts]
    /\ rows' = [rows EXCEPT ![w] = << >>]
    /\ new' = [new EXCEPT ![w] = NoCounts]

Commit(w) ==
    /\ Running(w)
    /\ rows[w] = << >>
    /\ count' = [q \in Query |-> IF q \in RowsOf(batch[w]) THEN new[w][q] ELSE count[q]]
    /\ End(w)

\* An error, a lost connection, the end of the process, or PostgreSQL's choice of a victim
\* in a deadlock.
Rollback(w) ==
    /\ Running(w)
    /\ End(w)
    /\ UNCHANGED count

TableNext ==
    \E w \in Writer :
        \/ \E delta \in [Query -> Nat] : Begin(w, delta)
        \/ LockRow(w) \/ Commit(w) \/ Rollback(w)

TableSpec == TableInit /\ [][TableNext]_tableVars

-----------------------------------------------------------------------------
(* Properties.                                                             *)

TableTypeOK ==
    /\ count \in [Query -> Nat]
    /\ batch \in [Writer -> [Query -> Nat]]
    /\ rows \in [Writer -> Seq(Query)]
    /\ new \in [Writer -> [Query -> Nat]]

\* No update is lost, and none is seen half done: however statements overlap, a commit adds
\* the whole batch of its transaction to what is committed at that instant, and nothing else
\* changes a count (query_repository.py:31-34).  The batch worker is modelled on this.
Atomic == INSTANCE AtomicUpserts
UpsertsAreAtomic == Atomic!UpsertSpec

WaitsFor(w, v) == rows[w] # << >> /\ Head(rows[w]) \in Held(v)

\* Flushers never wait for each other in a circle: of any of them, one can go on as far as
\* the others are concerned (query_repository.py:84-85).
FlushersNeverDeadlock ==
    \A S \in (SUBSET Flusher) \ {{}} : \E w \in S : \A v \in S : ~WaitsFor(w, v)

=============================================================================
