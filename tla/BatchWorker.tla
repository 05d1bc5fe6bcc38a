----------------------------- MODULE BatchWorker -----------------------------
(***************************************************************************)
(* The write path of one API process, from POST /search to the commit:     *)
(* the write buffer, the batch worker that flushes it, the shutdown with   *)
(* its final flush, and the process around them that may die at any step.  *)
(*                                                                         *)
(* Two flushers share the buffer.  "loop" is the daemon thread started by  *)
(* BatchWorker.start; "final" is the thread that runs BatchWorker.stop.    *)
(* stop waits for the loop at most 30 s by the clock, so a loop whose      *)
(* flush takes longer, because the database hangs or only because rows are *)
(* locked or a batch is bisected, and the final flush can be inside flush  *)
(* at the same time, and the process can end before the loop does.         *)
(*                                                                         *)
(* A statement is one transaction, and the database answers it, refuses it *)
(* because of a row it can never store (Bad), fails it, or hangs.  The     *)
(* recursion of _write over halves of a batch is the set todo of batches   *)
(* not written yet, taken in the order the recursion visits them.          *)
(***************************************************************************)
EXTENDS Naturals, FiniteSets, FiniteSetsExt

CONSTANTS
    Query,           \* normalised queries; a number is a query's place in sort order
    Bad,             \* the queries whose row the database refuses
    MaxUnique,       \* write_buffer_max_unique: distinct queries the buffer holds
    SizeThreshold,   \* write_buffer_size: distinct queries that start a flush early
    MaxRequests,     \* bound: searches accepted, over all lives of the process
    MaxRefused,      \* bound: searches refused in one life
    MaxOutages,      \* bound: database failures
    MaxLives,        \* bound: starts of the process
    CommitAckMayBeLost  \* TRUE: the reply to a commit that took effect may be lost

ASSUME QueryAssumption == Query \subseteq Nat /\ IsFiniteSet(Query)
ASSUME BadAssumption == Bad \subseteq Query
ASSUME LimitsAssumption ==
    /\ MaxUnique \in Nat
    /\ SizeThreshold \in Nat
    /\ MaxRequests \in Nat
    /\ MaxRefused \in Nat
    /\ MaxOutages \in Nat
    /\ MaxLives \in Nat \ {0}
    /\ CommitAckMayBeLost \in BOOLEAN

Flusher == {"loop", "final"}
Counts == [Query -> Nat]
None == [q \in Query |-> 0]

\* idle: the loop waits, or the final flush has not begun; exited: the loop
\* thread ended; done: stop() has returned; the others are the steps of flush().
Phase == {"idle", "swap", "write", "ping", "requeue", "settle", "exited", "done"}

VARIABLES
    buffer,     \* WriteBuffer._buffer; 0 stands for an absent key
    phase,      \* phase[f]: where flusher f is
    snapshot,   \* snapshot[f]: the counts f took out of the buffer
    todo,       \* todo[f]: the batches f has still to write
    written,    \* written[f]: rows the database acknowledged
    rejected,   \* rejected[f]: rows dropped because the database refuses them
    pending,    \* pending[f]: rows to put back into the buffer
    due,        \* the flush interval has elapsed since last_flush_time
    stage,      \* the process: running, joining, flushing or dead
    metrics,    \* WriteMetricsData: the counters about events
    db,         \* the database: up, down (fails at once) or hung
    outages,    \* database failures so far
    lives,      \* starts of the process so far
    crashed,    \* some process was killed
    abandoned,  \* history: queries a loop overtaken by stop() still held at an exit
    accepted,   \* accepted[q]: searches for q that increment took
    refused,    \* refused[q]: searches for q this process refused, the buffer being full
    committed,  \* committed[q]: what commits added to the row of q
    dropped,    \* dropped[q]: events dropped as unpersistable
    shed,       \* shed[q]: events that found no room when put back
    lost        \* lost[q]: events in memory when a process ended

bufferVars == <<buffer, accepted, refused>>
jobVars == <<phase, snapshot, todo, written, rejected, pending>>
processVars == <<stage, lives, crashed, abandoned>>
dbVars == <<db, outages>>
fateVars == <<committed, dropped, shed, lost>>
vars == <<bufferVars, jobVars, processVars, dbVars, fateVars, due, metrics>>

-----------------------------------------------------------------------------
(* Counts, batches and what is still in memory.                            *)

Keys(counts) == {q \in Query : counts[q] > 0}
Sum(counts, rows) == MapThenSumSet(LAMBDA q : counts[q], rows)
Add(counts, rows, more) ==
    [q \in Query |-> IF q \in rows THEN counts[q] + more[q] ELSE counts[q]]

\* items[:mid] and items[mid:] of the sorted batch.
LowerHalf(batch) ==
    {q \in batch : 2 * Cardinality({p \in batch : p < q}) + 1 < Cardinality(batch)}
\* Faulty: items[:mid + 1] and items[mid:], the middle row is in both.
HalvesOverlap(batch) ==
    {{q \in batch : 2 * Cardinality({p \in batch : p < q}) <= Cardinality(batch)},
     batch \ LowerHalf(batch)}
Halves(batch) == {LowerHalf(batch), batch \ LowerHalf(batch)}

\* The batch _write is at: the recursion does the lower half first.
IsCurrent(f, batch) ==
    /\ batch \in todo[f]
    /\ \A other \in todo[f] \ {batch} : \E q \in batch : \A p \in other : q < p

Unwritten(f) == UNION todo[f]
InFlight(f, q) ==
    IF q \in Unwritten(f) \cup pending[f] THEN snapshot[f][q] ELSE 0
Waiting(q) == buffer[q] + InFlight("loop", q) + InFlight("final", q)

\* The counters of WriteMetricsData about events, kept per query: the number the
\* code keeps is the sum over all queries.
Metric == {"received", "executed", "avoided", "dropped"}
NoMetrics == [m \in Metric |-> None]

-----------------------------------------------------------------------------
Init ==
    /\ buffer = None
    /\ phase = [f \in Flusher |-> "idle"]
    /\ snapshot = [f \in Flusher |-> None]
    /\ todo = [f \in Flusher |-> {}]
    /\ written = [f \in Flusher |-> {}]
    /\ rejected = [f \in Flusher |-> {}]
    /\ pending = [f \in Flusher |-> {}]
    /\ due = FALSE
    /\ stage = "running"
    /\ metrics = NoMetrics
    /\ db = "up"
    /\ outages = 0
    /\ lives = 1
    /\ crashed = FALSE
    /\ abandoned = {}
    /\ accepted = None
    /\ refused = None
    /\ committed = None
    /\ dropped = None
    /\ shed = None
    /\ lost = None

-----------------------------------------------------------------------------
(* POST /search: increment, then the metric.  Nothing of the process waits *)
(* between the two; a flush that took the event in that moment would only  *)
(* be ahead of the metric until the handler goes on.                       *)

HasRoom(q) == buffer[q] > 0 \/ Cardinality(Keys(buffer)) < MaxUnique

Search(q) ==
    /\ stage = "running"
    /\ Sum(accepted, Query) < MaxRequests
    /\ HasRoom(q)
    /\ buffer' = [buffer EXCEPT ![q] = @ + 1]
    /\ accepted' = [accepted EXCEPT ![q] = @ + 1]
    /\ metrics' = [metrics EXCEPT !["received"][q] = @ + 1]
    /\ UNCHANGED <<refused, jobVars, processVars, dbVars, fateVars, due>>

\* A new query finds the buffer full: 503, and the event counts as dropped.
Refuse(q) ==
    /\ stage = "running"
    /\ Sum(refused, Query) < MaxRefused
    /\ ~HasRoom(q)
    /\ refused' = [refused EXCEPT ![q] = @ + 1]
    /\ metrics' = [metrics EXCEPT !["dropped"][q] = @ + 1]
    /\ UNCHANGED <<buffer, accepted, jobVars, processVars, dbVars, fateVars, due>>

-----------------------------------------------------------------------------
(* The loop thread.                                                        *)

\* write_buffer_flush_interval_seconds pass since last_flush_time.
IntervalElapses ==
    /\ stage # "dead"
    /\ ~due
    /\ due' = TRUE
    /\ UNCHANGED <<bufferVars, jobVars, processVars, dbVars, fateVars, metrics>>

\* Faulty: the interval is forgotten, only a large buffer is flushed.
ShouldFlushBySize == Cardinality(Keys(buffer)) >= SizeThreshold /\ Keys(buffer) # {}
ShouldFlush ==
    /\ due \/ Cardinality(Keys(buffer)) >= SizeThreshold
    /\ Keys(buffer) # {}

\* A wake-up that finds nothing to do goes back to waiting and changes nothing.
Tick ==
    /\ stage = "running"
    /\ phase["loop"] = "idle"
    /\ ShouldFlush
    /\ phase' = [phase EXCEPT !["loop"] = "swap"]
    /\ UNCHANGED <<bufferVars, snapshot, todo, written, rejected, pending>>
    /\ UNCHANGED <<processVars, dbVars, fateVars, due, metrics>>

LoopExits ==
    /\ stage \in {"joining", "flushing"}
    /\ phase["loop"] = "idle"
    /\ phase' = [phase EXCEPT !["loop"] = "exited"]
    /\ UNCHANGED <<bufferVars, snapshot, todo, written, rejected, pending>>
    /\ UNCHANGED <<processVars, dbVars, fateVars, due, metrics>>

-----------------------------------------------------------------------------
(* flush(): one action per step another thread or the database can see.    *)

\* flush() returns: the loop notes the time and waits again, stop() returns.
Return(f) ==
    /\ phase' = [phase EXCEPT ![f] = IF f = "loop" THEN "idle" ELSE "done"]
    /\ due' = (f # "loop" /\ due)
    /\ snapshot' = [snapshot EXCEPT ![f] = None]
    /\ todo' = [todo EXCEPT ![f] = {}]
    /\ written' = [written EXCEPT ![f] = {}]
    /\ rejected' = [rejected EXCEPT ![f] = {}]
    /\ pending' = [pending EXCEPT ![f] = {}]

\* WriteBuffer.flush: copy and clear under the lock.
Swap(f) ==
    /\ phase[f] = "swap"
    /\ buffer' = None
    /\ IF Keys(buffer) = {}
       THEN Return(f)
       ELSE /\ phase' = [phase EXCEPT ![f] = "write"]
            /\ snapshot' = [snapshot EXCEPT ![f] = buffer]
            /\ todo' = [todo EXCEPT ![f] = {Keys(buffer)}]
            /\ UNCHANGED <<written, rejected, pending, due>>
    /\ UNCHANGED <<accepted, refused, processVars, dbVars, fateVars, metrics>>

\* Where _write and flush go when nothing of the current batch is left to do.
After(rest, put_back) ==
    IF rest # {} THEN "write" ELSE IF put_back # {} THEN "requeue" ELSE "settle"

\* Faulty: an error after the commit puts the committed batch back.
BatchCommitsAndRequeues(f, batch) ==
    /\ phase[f] = "write" /\ IsCurrent(f, batch)
    /\ db = "up"
    /\ batch \cap Bad = {}
    /\ committed' = Add(committed, batch, snapshot[f])
    /\ pending' = [pending EXCEPT ![f] = @ \cup batch]
    /\ todo' = [todo EXCEPT ![f] = @ \ {batch}]
    /\ phase' = [phase EXCEPT ![f] = After(todo[f] \ {batch}, batch)]
    /\ UNCHANGED <<bufferVars, snapshot, written, rejected, processVars, dbVars>>
    /\ UNCHANGED <<dropped, shed, lost, due, metrics>>

\* The transaction commits and the reply arrives.
BatchCommits(f, batch) ==
    /\ phase[f] = "write" /\ IsCurrent(f, batch)
    /\ db = "up"
    /\ batch \cap Bad = {}
    /\ committed' = Add(committed, batch, snapshot[f])
    /\ written' = [written EXCEPT ![f] = @ \cup batch]
    /\ todo' = [todo EXCEPT ![f] = @ \ {batch}]
    /\ phase' = [phase EXCEPT ![f] = After(todo[f] \ {batch}, pending[f])]
    /\ UNCHANGED <<bufferVars, snapshot, rejected, pending, processVars, dbVars>>
    /\ UNCHANGED <<dropped, shed, lost, due, metrics>>

\* The transaction rolls back: a row of the batch is bad, or the database is down.
BatchFails(f, batch) ==
    /\ phase[f] = "write" /\ IsCurrent(f, batch)
    /\ \/ db = "up" /\ batch \cap Bad # {}
       \/ db = "down"
    /\ phase' = [phase EXCEPT ![f] = "ping"]
    /\ UNCHANGED <<bufferVars, snapshot, todo, written, rejected, pending>>
    /\ UNCHANGED <<processVars, dbVars, fateVars, due, metrics>>

\* The transaction commits, but the connection breaks before the reply.
CommitReplyLost(f, batch) ==
    /\ CommitAckMayBeLost
    /\ phase[f] = "write" /\ IsCurrent(f, batch)
    /\ db = "up" /\ outages < MaxOutages
    /\ batch \cap Bad = {}
    /\ committed' = Add(committed, batch, snapshot[f])
    /\ phase' = [phase EXCEPT ![f] = "ping"]
    /\ outages' = outages + 1
    /\ db' \in {"up", "down"}
    /\ UNCHANGED <<bufferVars, snapshot, todo, written, rejected, pending>>
    /\ UNCHANGED <<processVars, dropped, shed, lost, due, metrics>>

\* Faulty: the batch of an outage is forgotten instead of put back.
PingFailsAndForgets(f, batch) ==
    /\ phase[f] = "ping" /\ IsCurrent(f, batch)
    /\ db = "down"
    /\ todo' = [todo EXCEPT ![f] = @ \ {batch}]
    /\ phase' = [phase EXCEPT ![f] = After(todo[f] \ {batch}, pending[f])]
    /\ UNCHANGED <<bufferVars, snapshot, written, rejected, pending>>
    /\ UNCHANGED <<processVars, dbVars, fateVars, due, metrics>>

\* ping() fails too: the outage is transient, the batch will be put back.
PingFails(f, batch) ==
    /\ phase[f] = "ping" /\ IsCurrent(f, batch)
    /\ db = "down"
    /\ pending' = [pending EXCEPT ![f] = @ \cup batch]
    /\ todo' = [todo EXCEPT ![f] = @ \ {batch}]
    /\ phase' = [phase EXCEPT ![f] = After(todo[f] \ {batch}, pending[f] \cup batch)]
    /\ UNCHANGED <<bufferVars, snapshot, written, rejected, processVars, dbVars>>
    /\ UNCHANGED <<fateVars, due, metrics>>

\* ping() answers, so the failure is blamed on the data: bisect the batch.
Bisect(f, batch) ==
    /\ phase[f] = "ping" /\ IsCurrent(f, batch)
    /\ db = "up"
    /\ Cardinality(batch) > 1
    /\ todo' = [todo EXCEPT ![f] = (@ \ {batch}) \cup Halves(batch)]
    /\ phase' = [phase EXCEPT ![f] = "write"]
    /\ UNCHANGED <<bufferVars, snapshot, written, rejected, pending>>
    /\ UNCHANGED <<processVars, dbVars, fateVars, due, metrics>>

\* Faulty: a refused batch is dropped whole.
DropBatch(f, batch) ==
    /\ phase[f] = "ping" /\ IsCurrent(f, batch)
    /\ db = "up"
    /\ dropped' = Add(dropped, batch, snapshot[f])
    /\ rejected' = [rejected EXCEPT ![f] = @ \cup batch]
    /\ todo' = [todo EXCEPT ![f] = @ \ {batch}]
    /\ phase' = [phase EXCEPT ![f] = After(todo[f] \ {batch}, pending[f])]
    /\ UNCHANGED <<bufferVars, snapshot, written, pending, processVars, dbVars>>
    /\ UNCHANGED <<committed, shed, lost, due, metrics>>

\* Faulty: a single refused row is tried again instead of dropped.
DropRowRetries(f, batch) ==
    /\ phase[f] = "ping" /\ IsCurrent(f, batch)
    /\ db = "up"
    /\ Cardinality(batch) = 1
    /\ phase' = [phase EXCEPT ![f] = "write"]
    /\ UNCHANGED <<bufferVars, snapshot, todo, written, rejected, pending>>
    /\ UNCHANGED <<processVars, dbVars, fateVars, due, metrics>>

\* ping() answers and the batch is a single row: drop it.
DropRow(f, batch) ==
    /\ phase[f] = "ping" /\ IsCurrent(f, batch)
    /\ db = "up"
    /\ Cardinality(batch) = 1
    /\ dropped' = Add(dropped, batch, snapshot[f])
    /\ rejected' = [rejected EXCEPT ![f] = @ \cup batch]
    /\ todo' = [todo EXCEPT ![f] = @ \ {batch}]
    /\ phase' = [phase EXCEPT ![f] = After(todo[f] \ {batch}, pending[f])]
    /\ UNCHANGED <<bufferVars, snapshot, written, pending, processVars, dbVars>>
    /\ UNCHANGED <<committed, shed, lost, due, metrics>>

\* Faulty: everything is put back, whatever arrived meanwhile.
RestoreAll(rows) == {rows}

\* What merge can restore: every row, or as many as fill the buffer.  Rows that
\* are in the buffer again are always taken; which of the others get the last
\* places follows the order of a dict and is left open.
Restorable(rows) ==
    {some \in SUBSET rows :
        LET after == Keys(buffer) \cup some IN
        /\ rows \cap Keys(buffer) \subseteq some
        /\ Cardinality(after) <= MaxUnique
        /\ some = rows \/ Cardinality(after) = MaxUnique}

\* merge and record_flush_failure; flush returns here if no row was settled.
Requeue(f, restored) ==
    /\ phase[f] = "requeue"
    /\ restored \in Restorable(pending[f])
    /\ buffer' = Add(buffer, restored, snapshot[f])
    /\ shed' = Add(shed, pending[f] \ restored, snapshot[f])
    /\ metrics' = [metrics EXCEPT
                     !["dropped"] = Add(@, pending[f] \ restored, snapshot[f])]
    /\ IF written[f] \cup rejected[f] = {}
       THEN Return(f)
       ELSE /\ phase' = [phase EXCEPT ![f] = "settle"]
            /\ pending' = [pending EXCEPT ![f] = {}]
            /\ UNCHANGED <<snapshot, todo, written, rejected, due>>
    /\ UNCHANGED <<accepted, refused, processVars, dbVars, committed, dropped, lost>>

One == [q \in Query |-> 1]
Repeats(f) == [q \in Query |-> snapshot[f][q] - 1]

\* Faulty: rows minus events instead of events minus rows.
SettleRowsSwapped(f) ==
    /\ phase[f] = "settle"
    /\ metrics' = [metrics EXCEPT
            !["dropped"] = Add(@, rejected[f], snapshot[f]),
            !["executed"] = Add(@, written[f], One),
            !["avoided"] = Add(@, written[f], [q \in Query |-> 1 - snapshot[f][q]])]
    /\ Return(f)
    /\ UNCHANGED <<bufferVars, processVars, dbVars, fateVars>>

\* Faulty: dropped rows are counted instead of dropped events.
SettleRowsCounted(f) ==
    /\ phase[f] = "settle"
    /\ metrics' = [metrics EXCEPT
            !["dropped"] = Add(@, rejected[f], One),
            !["executed"] = Add(@, written[f], One),
            !["avoided"] = Add(@, written[f], Repeats(f))]
    /\ Return(f)
    /\ UNCHANGED <<bufferVars, processVars, dbVars, fateVars>>

\* The metrics of the settled rows: one write executed for each written row, and
\* every further event of the row a write avoided (a row of a snapshot has at least
\* one, so max(0, ...) never cuts).  The cache deletes between them neither read nor
\* write anything modelled here and cannot raise out of flush.
SettleRows(f) ==
    /\ phase[f] = "settle"
    /\ metrics' = [metrics EXCEPT
            !["dropped"] = Add(@, rejected[f], snapshot[f]),
            !["executed"] = Add(@, written[f], One),
            !["avoided"] = Add(@, written[f], Repeats(f))]
    /\ Return(f)
    /\ UNCHANGED <<bufferVars, processVars, dbVars, fateVars>>

-----------------------------------------------------------------------------
(* Shutdown, death and restart of the process.                             *)

\* lifespan's finally: requests have been served, stop() sets the event and joins.
Stop ==
    /\ stage = "running"
    /\ stage' = "joining"
    /\ UNCHANGED <<bufferVars, jobVars, lives, crashed, abandoned>>
    /\ UNCHANGED <<dbVars, fateVars, due, metrics>>

\* Faulty: stop() returns without the final flush.
JoinedWithoutFlush ==
    /\ stage = "joining"
    /\ stage' = "flushing"
    /\ phase' = [phase EXCEPT !["final"] = "done"]
    /\ UNCHANGED <<bufferVars, snapshot, todo, written, rejected, pending>>
    /\ UNCHANGED <<lives, crashed, abandoned, dbVars, fateVars, due, metrics>>

\* join returns because the loop has ended, or gives up after 30 s wherever the loop is
\* by then and whatever the database does; either way stop() goes on to the final flush.
Joined ==
    /\ stage = "joining"
    /\ stage' = "flushing"
    /\ phase' = [phase EXCEPT !["final"] = "swap"]
    /\ UNCHANGED <<bufferVars, snapshot, todo, written, rejected, pending>>
    /\ UNCHANGED <<lives, crashed, abandoned, dbVars, fateVars, due, metrics>>

\* The process is gone, with its memory.  A commit on its way to the database,
\* and not refused by it, may still take effect (those of the flushers in landed).
CommitMayLand(f) ==
    /\ phase[f] = "write"
    /\ db # "down"
    /\ \E batch \in todo[f] : IsCurrent(f, batch) /\ batch \cap Bad = {}

Lands(f, landed, q) ==
    /\ f \in landed
    /\ \E batch \in todo[f] : IsCurrent(f, batch) /\ q \in batch

Landed(landed, q) ==
    (IF Lands("loop", landed, q) THEN snapshot["loop"][q] ELSE 0)
    + (IF Lands("final", landed, q) THEN snapshot["final"][q] ELSE 0)

Die(landed) ==
    /\ stage' = "dead"
    /\ committed' = [q \in Query |-> committed[q] + Landed(landed, q)]
    /\ lost' = [q \in Query |-> lost[q] + (Waiting(q) - Landed(landed, q))]
    /\ buffer' = None
    /\ phase' = [f \in Flusher |-> "idle"]
    /\ snapshot' = [f \in Flusher |-> None]
    /\ todo' = [f \in Flusher |-> {}]
    /\ written' = [f \in Flusher |-> {}]
    /\ rejected' = [f \in Flusher |-> {}]
    /\ pending' = [f \in Flusher |-> {}]
    /\ due' = FALSE
    /\ metrics' = NoMetrics
    /\ refused' = None
    /\ UNCHANGED <<accepted, lives, dbVars, dropped, shed>>

\* stop() has returned and the interpreter exits; a daemon loop dies with it.
Exit(landed) ==
    /\ stage = "flushing"
    /\ phase["final"] = "done"
    /\ \A f \in landed : CommitMayLand(f)
    /\ Die(landed)
    /\ abandoned' = abandoned \cup {q \in Query : InFlight("loop", q) > 0}
    /\ UNCHANGED crashed

\* SIGKILL, out of memory, power loss.
Crash(landed) ==
    /\ stage # "dead"
    /\ \A f \in landed : CommitMayLand(f)
    /\ Die(landed)
    /\ crashed' = TRUE
    /\ UNCHANGED abandoned

Start ==
    /\ stage = "dead"
    /\ lives < MaxLives
    /\ stage' = "running"
    /\ lives' = lives + 1
    /\ UNCHANGED <<bufferVars, jobVars, crashed, abandoned>>
    /\ UNCHANGED <<dbVars, fateVars, due, metrics>>

-----------------------------------------------------------------------------
(* The database.                                                           *)

DbFails ==
    /\ db = "up"
    /\ outages < MaxOutages
    /\ db' \in {"down", "hung"}
    /\ outages' = outages + 1
    /\ UNCHANGED <<bufferVars, jobVars, processVars, fateVars, due, metrics>>

\* A hung server is replaced: its connections break, statements fail at once.
HungDbBreaks ==
    /\ db = "hung"
    /\ db' = "down"
    /\ UNCHANGED <<bufferVars, jobVars, processVars, outages, fateVars, due, metrics>>

DbRecovers ==
    /\ db # "up"
    /\ db' = "up"
    /\ UNCHANGED <<bufferVars, jobVars, processVars, outages, fateVars, due, metrics>>

-----------------------------------------------------------------------------
FlushStep(f) ==
    \/ Swap(f)
    \/ \E batch \in todo[f] :
         \/ BatchCommits(f, batch)
         \/ BatchFails(f, batch)
         \/ CommitReplyLost(f, batch)
         \/ PingFails(f, batch)
         \/ Bisect(f, batch)
         \/ DropRow(f, batch)
    \/ \E restored \in SUBSET pending[f] : Requeue(f, restored)
    \/ SettleRows(f)

Next ==
    \/ \E q \in Query : Search(q) \/ Refuse(q)
    \/ IntervalElapses
    \/ Tick
    \/ LoopExits
    \/ \E f \in Flusher : FlushStep(f)
    \/ Stop
    \/ Joined
    \/ \E landed \in SUBSET Flusher : Exit(landed) \/ Crash(landed)
    \/ Start
    \/ DbFails
    \/ HungDbBreaks
    \/ DbRecovers

Spec == Init /\ [][Next]_vars

\* The threads are scheduled, the clock advances, every outage ends one day.
\* Nobody has to search, stop, crash or restart the process.
Fairness ==
    /\ \A f \in Flusher : WF_vars(FlushStep(f))
    /\ WF_vars(IntervalElapses)
    /\ WF_vars(Tick)
    /\ WF_vars(LoopExits)
    /\ WF_vars(Joined)
    /\ WF_vars(Exit({}))
    /\ WF_vars(DbRecovers)

FairSpec == Spec /\ Fairness

-----------------------------------------------------------------------------
(* Properties.                                                             *)

TypeOK ==
    /\ buffer \in Counts
    /\ phase \in [Flusher -> Phase]
    /\ snapshot \in [Flusher -> Counts]
    /\ todo \in [Flusher -> SUBSET SUBSET Query]
    /\ written \in [Flusher -> SUBSET Query]
    /\ rejected \in [Flusher -> SUBSET Query]
    /\ pending \in [Flusher -> SUBSET Query]
    /\ due \in BOOLEAN
    /\ stage \in {"running", "joining", "flushing", "dead"}
    /\ metrics \in [Metric -> Counts]
    /\ db \in {"up", "down", "hung"}
    /\ outages \in 0..MaxOutages
    /\ lives \in 1..MaxLives
    /\ crashed \in BOOLEAN
    /\ abandoned \subseteq Query
    /\ accepted \in Counts
    /\ refused \in Counts
    /\ committed \in Counts
    /\ dropped \in Counts
    /\ shed \in Counts
    /\ lost \in Counts

\* No event vanishes: whatever increment took is in memory, in the database, or
\* in one of the three ways to lose it, through every retry, bisection, re-queue,
\* overlap of the two flushers and crash.  While replies to commits arrive, none
\* is counted twice either (batch_worker.py:22-25).
Known(q) == Waiting(q) + committed[q] + dropped[q] + shed[q] + lost[q]
EventsConserved ==
    \A q \in Query :
        /\ accepted[q] <= Known(q)
        /\ ~CommitAckMayBeLost => accepted[q] = Known(q)

\* The buffer never holds more than max_unique distinct queries, although merge
\* puts rows back beside those that arrived meanwhile (buffer.py:8-10, 36-49).
BufferBounded == Cardinality(Keys(buffer)) <= MaxUnique

\* Every row of a snapshot is in exactly one place: a batch still to write, the
\* written rows, the rejected ones or those to put back (or it has been put back).
\* A committed row that is also pending would be re-queued after its commit
\* (batch_worker.py:107).
Placed(f) == Unwritten(f) \cup written[f] \cup rejected[f] \cup pending[f]
OneFate(f) ==
    /\ Placed(f) \subseteq Keys(snapshot[f])
    /\ phase[f] # "settle" => Placed(f) = Keys(snapshot[f])
    /\ \A a, b \in todo[f] : a # b => a \cap b = {}
    /\ Unwritten(f) \cap (written[f] \cup rejected[f] \cup pending[f]) = {}
    /\ written[f] \cap (rejected[f] \cup pending[f]) = {}
    /\ rejected[f] \cap pending[f] = {}
EachRowHasOneFate == \A f \in Flusher : OneFate(f)

\* With a database that never failed, bisection separates exactly the rows the
\* database refuses, however they are spread over the batch (batch_worker.py:23).
BisectionIsolatesBadRows ==
    \A f \in Flusher :
        phase[f] = "settle" /\ outages = 0 =>
            /\ written[f] = Keys(snapshot[f]) \ Bad
            /\ rejected[f] = Keys(snapshot[f]) \cap Bad

\* With a database that never failed, a good event is never dropped or shed; and unless a
\* process is killed, the only events lost are those in a flush of the loop that took
\* longer than the 30 s stop() waits for it and that the exit cut off: what is in the
\* buffer, and every flush that was not overtaken, is settled (batch_worker.py:22-24, 63).
HealthyDatabaseLosesNothing ==
    outages = 0 =>
        /\ \A q \in Query \ Bad : dropped[q] = 0
        /\ shed = None
        /\ ~crashed => \A q \in Query : lost[q] > 0 => q \in abandoned

Unrecorded(f, q) ==
    IF q \in written[f] \cup rejected[f] THEN snapshot[f][q] ELSE 0

\* The counters of /write/metrics explain every search of this life: written,
\* dropped, still in memory, or settled by a flush about to record it.
MetricsAccountForEveryEvent ==
    \A q \in Query :
        metrics["received"][q] + refused[q]
          = metrics["executed"][q] + metrics["avoided"][q] + metrics["dropped"][q]
            + Waiting(q) + Unrecorded("loop", q) + Unrecorded("final", q)

\* The worker keeps the ledger of SearchLedger: its steps accept one event, settle
\* waiting ones for good, or take the process down.
Ledger == INSTANCE SearchLedger WITH
    up <- stage # "dead",
    waiting <- [q \in Query |-> Waiting(q)],
    persisted <- committed,
    discarded <- [q \in Query |-> dropped[q] + shed[q]],
    lost <- lost
KeepsLedger == Ledger!LedgerSpec

\* Nothing waits in memory for ever: the loop keeps flushing through outages and
\* bad rows, and the shutdown takes the rest (batch_worker.py:86, 65).
EventsEventuallySettle == <>[](\A q \in Query : Waiting(q) = 0)

\* A shutdown comes to its end, even when the loop hangs on the database and the final
\* flush meets bad rows (batch_worker.py:59-66).
StopCompletes == stage = "joining" ~> stage = "dead"

-----------------------------------------------------------------------------
(* What the docstring of BatchWorker says and the code does not keep.      *)

\* "a commit is never followed by a re-queue of the same events (no double
\* counting)": no row grows by more than the searches accepted for it.
CommittedAtMostOnce == \A q \in Query : committed[q] <= accepted[q]

\* "a failed DB write never discards events - they are put back into the buffer":
\* no event of a row the database would take is dropped as unpersistable.
FailedWriteKeepsGoodEvents == \A q \in Query \ Bad : dropped[q] = 0

=============================================================================
