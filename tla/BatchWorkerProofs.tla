-------------------------- MODULE BatchWorkerProofs --------------------------
(***************************************************************************)
(* What holds of BatchWorker for every set of queries, every set of bad    *)
(* rows, every size of the buffer and any number of requests, outages and  *)
(* lives.                                                                  *)
(***************************************************************************)
EXTENDS BatchWorker, FiniteSetTheorems, TLAPS

USE DEF Flusher

\* None gives every query the count 0.
LEMMA NoneIsCounts == None \in Counts /\ \A q \in Query : None[q] = 0
BY DEF None, Counts

\* Adding counts to some rows keeps counts, and says what each row gets.
LEMMA AddCounts ==
    ASSUME NEW counts \in Counts, NEW rows, NEW more \in Counts
    PROVE  /\ Add(counts, rows, more) \in Counts
           /\ \A q \in Query : Add(counts, rows, more)[q]
                = counts[q] + (IF q \in rows THEN more[q] ELSE 0)
BY DEF Add, Counts

\* The halves of a batch are made of its rows, and of each of them once.
LEMMA HalvesSplit ==
    ASSUME NEW batch
    PROVE  /\ \A half \in Halves(batch) : half \subseteq batch
           /\ UNION Halves(batch) = batch
           /\ \A a, b \in Halves(batch) : a # b => a \cap b = {}
<1>1. LowerHalf(batch) \subseteq batch
  BY DEF LowerHalf
<1> QED
  BY <1>1 DEF Halves

\* What a flusher that dies in a statement may have committed was in memory.
LEMMA LandedIsWaiting ==
    ASSUME TypeOK, NEW landed, NEW q \in Query
    PROVE  /\ Landed(landed, q) \in Nat
           /\ Waiting(q) \in Nat
           /\ Waiting(q) - Landed(landed, q) \in Nat
<1>1. \A f \in Flusher : snapshot[f][q] \in Nat
  BY DEF TypeOK, Counts
<1>2. \A f \in Flusher :
         /\ InFlight(f, q) \in Nat
         /\ Lands(f, landed, q) => InFlight(f, q) = snapshot[f][q]
  BY <1>1 DEF InFlight, Lands, Unwritten
<1>3. buffer[q] \in Nat
  BY DEF TypeOK, Counts
<1> QED
  BY <1>1, <1>2, <1>3 DEF Waiting, Landed

\* A process starts with variables of their types.
LEMMA InitType == Init => TypeOK
<1> SUFFICES ASSUME Init PROVE TypeOK
  OBVIOUS
<1>1. /\ snapshot \in [Flusher -> Counts]
      /\ metrics \in [Metric -> Counts]
  BY NoneIsCounts DEF Init, NoMetrics
<1>2. outages \in 0..MaxOutages /\ lives \in 1..MaxLives
  BY LimitsAssumption DEF Init
<1> QED
  BY <1>1, <1>2, NoneIsCounts DEF Init, TypeOK, Phase

\* The part of the type invariant about the flushes in progress.
JobType ==
    /\ phase \in [Flusher -> Phase]
    /\ snapshot \in [Flusher -> Counts]
    /\ todo \in [Flusher -> SUBSET SUBSET Query]
    /\ written \in [Flusher -> SUBSET Query]
    /\ rejected \in [Flusher -> SUBSET Query]
    /\ pending \in [Flusher -> SUBSET Query]
    /\ due \in BOOLEAN

\* A flush that returns leaves the variables of a flusher of their types.
LEMMA ReturnType ==
    ASSUME TypeOK, NEW f \in Flusher, Return(f)
    PROVE  JobType'
<1>1. phase' \in [Flusher -> Phase]
  BY DEF TypeOK, Return, Phase
<1>2. snapshot' \in [Flusher -> Counts]
  BY NoneIsCounts DEF TypeOK, Return
<1>3. due' \in BOOLEAN
  BY DEF Return
<1>4. /\ todo' \in [Flusher -> SUBSET SUBSET Query]
      /\ written' \in [Flusher -> SUBSET Query]
      /\ rejected' \in [Flusher -> SUBSET Query]
      /\ pending' \in [Flusher -> SUBSET Query]
  BY DEF TypeOK, Return
<1> QED
  BY <1>1, <1>2, <1>3, <1>4 DEF JobType

\* Every step keeps the types; a written row is one of the snapshot because it has one fate.
LEMMA TypeStep ==
    ASSUME TypeOK, EachRowHasOneFate, [Next]_vars
    PROVE  TypeOK'
<1> USE LimitsAssumption DEF TypeOK, Phase, bufferVars, jobVars, processVars, dbVars, fateVars
<1>1. ASSUME NEW q \in Query, Search(q) PROVE TypeOK'
  BY <1>1 DEF Search, Metric, Counts
<1>2. ASSUME NEW q \in Query, Refuse(q) PROVE TypeOK'
  BY <1>2 DEF Refuse, Metric, Counts
<1>3. CASE IntervalElapses
  BY <1>3 DEF IntervalElapses
<1>4. CASE Tick
  BY <1>4 DEF Tick
<1>5. CASE LoopExits
  BY <1>5 DEF LoopExits
<1>6. ASSUME NEW f \in Flusher, Swap(f) PROVE TypeOK'
  <2>1. JobType'
    <3>1. CASE Return(f)
      BY <3>1, ReturnType
    <3>2. CASE ~Return(f)
      BY <3>2, <1>6 DEF Swap, Keys, JobType
    <3> QED
      BY <3>1, <3>2
  <2> QED
    BY <2>1, <1>6, NoneIsCounts DEF Swap, JobType
<1>7. ASSUME NEW f \in Flusher, NEW batch \in todo[f], BatchCommits(f, batch)
      PROVE  TypeOK'
  BY <1>7, AddCounts DEF BatchCommits, After
<1>8. ASSUME NEW f \in Flusher, NEW batch \in todo[f], BatchFails(f, batch)
      PROVE  TypeOK'
  BY <1>8 DEF BatchFails
<1>9. ASSUME NEW f \in Flusher, NEW batch \in todo[f], CommitReplyLost(f, batch)
      PROVE  TypeOK'
  BY <1>9, AddCounts DEF CommitReplyLost
<1>10. ASSUME NEW f \in Flusher, NEW batch \in todo[f], PingFails(f, batch)
       PROVE  TypeOK'
  BY <1>10 DEF PingFails, After
<1>11. ASSUME NEW f \in Flusher, NEW batch \in todo[f], Bisect(f, batch)
       PROVE  TypeOK'
  BY <1>11, HalvesSplit DEF Bisect
<1>12. ASSUME NEW f \in Flusher, NEW batch \in todo[f], DropRow(f, batch)
       PROVE  TypeOK'
  BY <1>12, AddCounts DEF DropRow, After
<1>13. ASSUME NEW f \in Flusher, NEW restored \in SUBSET pending[f], Requeue(f, restored)
       PROVE  TypeOK'
  <2>1. /\ buffer' \in Counts
        /\ shed' \in Counts
        /\ metrics' \in [Metric -> Counts]
    BY <1>13, AddCounts DEF Requeue, Metric
  <2>2. JobType'
    <3>1. CASE Return(f)
      BY <3>1, ReturnType
    <3>2. CASE ~Return(f)
      BY <3>2, <1>13 DEF Requeue, JobType
    <3> QED
      BY <3>1, <3>2
  <2> QED
    BY <2>1, <2>2, <1>13 DEF Requeue, JobType
<1>14. ASSUME NEW f \in Flusher, SettleRows(f) PROVE TypeOK'
  <2>1. Add(metrics["avoided"], written[f], Repeats(f)) \in Counts
    <3>1. written[f] \subseteq Keys(snapshot[f])
      BY DEF EachRowHasOneFate, OneFate, Placed
    <3> QED
      BY <3>1 DEF Add, Counts, Repeats, Keys, Metric
  <2>2. One \in Counts
    BY DEF One, Counts
  <2>3. metrics' \in [Metric -> Counts]
    BY <1>14, <2>1, <2>2, AddCounts DEF SettleRows, Metric
  <2>4. JobType'
    BY <1>14, ReturnType DEF SettleRows
  <2> QED
    BY <1>14, <2>3, <2>4 DEF SettleRows, JobType
<1>15. CASE Stop
  BY <1>15 DEF Stop
<1>16. CASE Joined
  BY <1>16 DEF Joined
<1>17. ASSUME NEW landed \in SUBSET Flusher, Exit(landed) \/ Crash(landed)
       PROVE  TypeOK'
  <2>1. committed' \in Counts /\ lost' \in Counts
    BY <1>17, LandedIsWaiting DEF Exit, Crash, Die, Counts
  <2>2. NoMetrics \in [Metric -> Counts]
    BY NoneIsCounts DEF NoMetrics
  <2>3. JobType'
    <3>1. Die(landed)
      BY <1>17 DEF Exit, Crash
    <3>2. phase' \in [Flusher -> Phase] /\ due' \in BOOLEAN
      BY <3>1 DEF Die
    <3>3. snapshot' \in [Flusher -> Counts]
      BY <3>1, NoneIsCounts DEF Die
    <3>4. todo' \in [Flusher -> SUBSET SUBSET Query]
      BY <3>1 DEF Die
    <3>5. written' \in [Flusher -> SUBSET Query]
      BY <3>1 DEF Die
    <3>6. /\ rejected' \in [Flusher -> SUBSET Query]
          /\ pending' \in [Flusher -> SUBSET Query]
      BY <3>1 DEF Die
    <3> QED
      BY <3>2, <3>3, <3>4, <3>5, <3>6 DEF JobType
  <2>4. /\ stage' = "dead"
        /\ buffer' \in Counts /\ refused' \in Counts
        /\ metrics' \in [Metric -> Counts]
        /\ crashed' \in BOOLEAN /\ abandoned' \subseteq Query
    BY <1>17, <2>2, NoneIsCounts DEF Exit, Crash, Die
  <2>5. UNCHANGED <<accepted, lives, db, outages, dropped, shed>>
    BY <1>17 DEF Exit, Crash, Die
  <2> QED
    BY <2>1, <2>3, <2>4, <2>5 DEF JobType
<1>18. CASE Start
  BY <1>18 DEF Start
<1>19. CASE DbFails
  BY <1>19 DEF DbFails
<1>20. CASE HungDbBreaks
  BY <1>20 DEF HungDbBreaks
<1>21. CASE DbRecovers
  BY <1>21 DEF DbRecovers
<1>22. CASE UNCHANGED vars
  BY <1>22 DEF vars
<1> QED
  BY <1>1, <1>2, <1>3, <1>4, <1>5, <1>6, <1>7, <1>8, <1>9, <1>10, <1>11, <1>12,
     <1>13, <1>14, <1>15, <1>16, <1>17, <1>18, <1>19, <1>20, <1>21, <1>22
     DEF Next, FlushStep

-----------------------------------------------------------------------------
(* Every row of a snapshot has one fate.  The phases say which of its sets *)
(* can hold rows at all.                                                   *)

Shape(f) ==
    /\ phase[f] \notin {"write", "ping"} => todo[f] = {}
    /\ phase[f] \in {"idle", "swap", "exited", "done"} =>
         written[f] = {} /\ rejected[f] = {} /\ pending[f] = {}
    /\ phase[f] = "settle" => pending[f] = {}

JobInv ==
    /\ TypeOK
    /\ stage # "flushing" => phase["final"] = "idle"
    /\ stage = "dead" => phase["loop"] = "idle"
    /\ \A f \in Flusher : Shape(f) /\ OneFate(f)

\* A process starts with no flush under way.
LEMMA InitJob == Init => JobInv
<1> SUFFICES ASSUME Init PROVE JobInv
  OBVIOUS
<1>1. TypeOK
  BY InitType
<1>2. ASSUME NEW f \in Flusher PROVE Shape(f) /\ OneFate(f)
  <2>1. Keys(snapshot[f]) = {}
    BY NoneIsCounts DEF Init, Keys
  <2> QED
    BY <2>1 DEF Init, Shape, OneFate, Placed, Unwritten
<1> QED
  BY <1>1, <1>2 DEF Init, JobInv

\* A flusher whose own variables do not change keeps its part of the invariant.
LEMMA SameJob ==
    ASSUME NEW f \in Flusher, Shape(f), OneFate(f),
           phase'[f] = phase[f], snapshot'[f] = snapshot[f], todo'[f] = todo[f],
           written'[f] = written[f], rejected'[f] = rejected[f],
           pending'[f] = pending[f]
    PROVE  Shape(f)' /\ OneFate(f)'
BY DEF Shape, OneFate, Placed, Unwritten, Keys

\* A flush that returns leaves its flusher with no rows.
LEMMA ReturnJob ==
    ASSUME TypeOK, NEW f \in Flusher, Return(f)
    PROVE  Shape(f)' /\ OneFate(f)'
<1>1. /\ snapshot'[f] = None /\ todo'[f] = {} /\ written'[f] = {}
      /\ rejected'[f] = {} /\ pending'[f] = {}
      /\ phase'[f] \in {"idle", "done"}
  BY DEF Return, TypeOK
<1>2. Keys(snapshot[f])' = {}
  BY <1>1, NoneIsCounts DEF Keys
<1> QED
  BY <1>1, <1>2 DEF Shape, OneFate, Placed, Unwritten

\* Batches are disjoint: taking one out, or replacing it by its halves, moves
\* exactly its rows.
LEMMA TakeBatch ==
    ASSUME NEW batches, NEW batch \in batches,
           \A a, b \in batches : a # b => a \cap b = {}
    PROVE  /\ UNION (batches \ {batch}) = (UNION batches) \ batch
           /\ UNION ((batches \ {batch}) \cup Halves(batch)) = UNION batches
           /\ \A a, b \in (batches \ {batch}) \cup Halves(batch) :
                 a # b => a \cap b = {}
<1>1. UNION (batches \ {batch}) = (UNION batches) \ batch
  OBVIOUS
<1>2. UNION ((batches \ {batch}) \cup Halves(batch)) = UNION batches
  BY <1>1, HalvesSplit
<1>3. \A a \in batches \ {batch}, b \in Halves(batch) : a \cap b = {}
  BY HalvesSplit
<1> QED
  BY <1>1, <1>2, <1>3, HalvesSplit

\* Every step of a flush keeps the flusher's part of the invariant.
LEMMA FlushJob ==
    ASSUME JobInv, NEW f \in Flusher, FlushStep(f)
    PROVE  Shape(f)' /\ OneFate(f)'
<1> USE DEF JobInv
<1>0. TypeOK /\ Shape(f) /\ OneFate(f)
  OBVIOUS
<1>1. CASE Swap(f)
  <2>1. CASE Return(f)
    BY <1>0, <2>1, ReturnJob
  <2>2. CASE ~Return(f)
    <3>1. /\ phase'[f] = "write" /\ snapshot'[f] = buffer /\ todo'[f] = {Keys(buffer)}
          /\ written'[f] = {} /\ rejected'[f] = {} /\ pending'[f] = {}
      BY <1>0, <1>1, <2>2 DEF Swap, Shape, TypeOK
    <3>2. Keys(snapshot[f])' = Keys(buffer)
      BY <3>1 DEF Keys
    <3> QED
      BY <3>1, <3>2 DEF Shape, OneFate, Placed, Unwritten
  <2> QED
    BY <2>1, <2>2
<1>2. ASSUME NEW batch \in todo[f],
             \/ BatchCommits(f, batch)
             \/ PingFails(f, batch)
             \/ DropRow(f, batch)
      PROVE  Shape(f)' /\ OneFate(f)'
  <2>1. /\ todo'[f] = todo[f] \ {batch}
        /\ snapshot'[f] = snapshot[f]
        /\ \/ /\ written'[f] = written[f] \cup batch
              /\ rejected'[f] = rejected[f] /\ pending'[f] = pending[f]
           \/ /\ pending'[f] = pending[f] \cup batch
              /\ rejected'[f] = rejected[f] /\ written'[f] = written[f]
           \/ /\ rejected'[f] = rejected[f] \cup batch
              /\ written'[f] = written[f] /\ pending'[f] = pending[f]
    BY <1>0, <1>2 DEF BatchCommits, PingFails, DropRow, TypeOK
  <2>2. /\ phase[f] \in {"write", "ping"}
        /\ phase'[f] = After(todo'[f], pending'[f])
    BY <1>0, <1>2, <2>1 DEF BatchCommits, PingFails, DropRow, TypeOK
  <2>3. Unwritten(f)' = Unwritten(f) \ batch /\ batch \subseteq Unwritten(f)
    BY <1>0, <2>1, TakeBatch DEF OneFate, Unwritten
  <2>4. Keys(snapshot[f])' = Keys(snapshot[f]) /\ Placed(f) = Keys(snapshot[f])
    BY <1>0, <2>1, <2>2 DEF OneFate, Keys
  <2>5. Placed(f)' = Keys(snapshot[f])
    BY <2>1, <2>3, <2>4 DEF Placed
  <2>6. OneFate(f)'
    BY <1>0, <2>1, <2>3, <2>4, <2>5 DEF OneFate
  <2>7. Shape(f)'
    BY <2>1, <2>2 DEF Shape, After
  <2> QED
    BY <2>6, <2>7
<1>3. ASSUME NEW batch \in todo[f],
             BatchFails(f, batch) \/ CommitReplyLost(f, batch)
      PROVE  Shape(f)' /\ OneFate(f)'
  <2>1. /\ phase[f] = "write" /\ phase'[f] = "ping"
        /\ UNCHANGED <<snapshot, todo, written, rejected, pending>>
    BY <1>0, <1>3 DEF BatchFails, CommitReplyLost, TypeOK
  <2> QED
    BY <1>0, <2>1 DEF Shape, OneFate, Placed, Unwritten, Keys
<1>4. ASSUME NEW batch \in todo[f], Bisect(f, batch)
      PROVE  Shape(f)' /\ OneFate(f)'
  <2>1. /\ phase[f] = "ping" /\ phase'[f] = "write"
        /\ todo'[f] = (todo[f] \ {batch}) \cup Halves(batch)
        /\ UNCHANGED <<snapshot, written, rejected, pending>>
    BY <1>0, <1>4 DEF Bisect, TypeOK
  <2>2. /\ Unwritten(f)' = Unwritten(f)
        /\ \A a, b \in todo'[f] : a # b => a \cap b = {}
    BY <1>0, <2>1, TakeBatch DEF OneFate, Unwritten
  <2>3. Placed(f)' = Placed(f) /\ Keys(snapshot[f])' = Keys(snapshot[f])
    BY <2>1, <2>2 DEF Placed, Keys
  <2>4. OneFate(f)'
    BY <1>0, <2>1, <2>2, <2>3 DEF OneFate
  <2> QED
    BY <2>1, <2>4 DEF Shape
<1>5. ASSUME NEW restored, Requeue(f, restored)
      PROVE  Shape(f)' /\ OneFate(f)'
  <2>1. CASE Return(f)
    BY <1>0, <2>1, ReturnJob
  <2>2. CASE ~Return(f)
    <3>1. /\ phase[f] = "requeue" /\ phase'[f] = "settle" /\ pending'[f] = {}
          /\ UNCHANGED <<snapshot, todo, written, rejected>>
      BY <1>0, <1>5, <2>2 DEF Requeue, TypeOK
    <3> QED
      BY <1>0, <3>1 DEF Shape, OneFate, Placed, Unwritten, Keys
  <2> QED
    BY <2>1, <2>2
<1>6. CASE SettleRows(f)
  BY <1>0, <1>6, ReturnJob DEF SettleRows
<1> QED
  BY <1>1, <1>2, <1>3, <1>4, <1>5, <1>6 DEF FlushStep

\* A flush moves only the variables of its own flusher, and leaves stage alone.
LEMMA FlushIsLocal ==
    ASSUME TypeOK, NEW f \in Flusher, FlushStep(f)
    PROVE  /\ stage' = stage
           /\ phase[f] \notin {"idle", "exited", "done"}
           /\ \A g \in Flusher \ {f} :
                /\ phase'[g] = phase[g] /\ snapshot'[g] = snapshot[g]
                /\ todo'[g] = todo[g] /\ written'[g] = written[g]
                /\ rejected'[g] = rejected[g] /\ pending'[g] = pending[g]
<1> USE DEF TypeOK, processVars
<1>1. CASE Swap(f)
  BY <1>1 DEF Swap, Return
<1>2. ASSUME NEW batch \in todo[f],
             \/ BatchCommits(f, batch)
             \/ PingFails(f, batch)
             \/ DropRow(f, batch)
             \/ BatchFails(f, batch)
             \/ CommitReplyLost(f, batch)
             \/ Bisect(f, batch)
      PROVE  stage' = stage /\ phase[f] \in {"write", "ping"}
             /\ \A g \in Flusher \ {f} :
                  /\ phase'[g] = phase[g] /\ snapshot'[g] = snapshot[g]
                  /\ todo'[g] = todo[g] /\ written'[g] = written[g]
                  /\ rejected'[g] = rejected[g] /\ pending'[g] = pending[g]
  BY <1>2 DEF BatchCommits, PingFails, DropRow, BatchFails, CommitReplyLost, Bisect
<1>3. ASSUME NEW restored, Requeue(f, restored)
      PROVE  stage' = stage /\ phase[f] = "requeue"
             /\ \A g \in Flusher \ {f} :
                  /\ phase'[g] = phase[g] /\ snapshot'[g] = snapshot[g]
                  /\ todo'[g] = todo[g] /\ written'[g] = written[g]
                  /\ rejected'[g] = rejected[g] /\ pending'[g] = pending[g]
  BY <1>3 DEF Requeue, Return
<1>4. CASE SettleRows(f)
  BY <1>4 DEF SettleRows, Return
<1> QED
  BY <1>1, <1>2, <1>3, <1>4 DEF FlushStep

\* The steps that touch no flush in progress.
LEMMA QuietSteps ==
    ASSUME \/ \E q \in Query : Search(q) \/ Refuse(q)
           \/ IntervalElapses \/ Stop \/ Start
           \/ DbFails \/ HungDbBreaks \/ DbRecovers \/ UNCHANGED vars
    PROVE  UNCHANGED jobVars
BY DEF Search, Refuse, IntervalElapses, Stop, Start, DbFails, HungDbBreaks,
       DbRecovers, vars

\* Every step of flushers, requests, shutdown, crash and database keeps JobInv.
LEMMA JobStep ==
    ASSUME JobInv, [Next]_vars
    PROVE  JobInv'
<1> USE DEF JobInv
<1>0. TypeOK' /\ TypeOK
  BY TypeStep DEF EachRowHasOneFate
<1>1. CASE \/ \E q \in Query : Search(q) \/ Refuse(q)
           \/ IntervalElapses \/ Stop \/ Start
           \/ DbFails \/ HungDbBreaks \/ DbRecovers \/ UNCHANGED vars
  <2>1. UNCHANGED jobVars
    BY <1>1, QuietSteps
  <2>2. /\ stage' # "flushing" => stage # "flushing"
        /\ stage' = "dead" => stage = "dead"
    BY <1>1 DEF Search, Refuse, IntervalElapses, Stop, Start, DbFails,
                HungDbBreaks, DbRecovers, vars, processVars
  <2>3. \A f \in Flusher : Shape(f)' /\ OneFate(f)'
    BY <2>1, SameJob DEF jobVars
  <2> QED
    BY <1>0, <2>1, <2>2, <2>3 DEF jobVars
<1>2. CASE Tick \/ LoopExits \/ Joined
  <2>1. UNCHANGED <<snapshot, todo, written, rejected, pending>>
    BY <1>2 DEF Tick, LoopExits, Joined
  <2>2. ASSUME NEW f \in Flusher PROVE Shape(f)' /\ OneFate(f)'
    <3>1. \/ phase'[f] = phase[f]
          \/ /\ phase[f] = "idle"
             /\ phase'[f] \in {"swap", "exited"}
      BY <1>0, <1>2 DEF Tick, LoopExits, Joined, TypeOK
    <3> QED
      BY <2>1, <3>1 DEF Shape, OneFate, Placed, Unwritten, Keys
  <2>3. /\ stage' # "flushing" => phase'["final"] = "idle"
        /\ stage' # "dead"
    BY <1>0, <1>2 DEF Tick, LoopExits, Joined, TypeOK, processVars
  <2> QED
    BY <1>0, <2>2, <2>3
<1>3. ASSUME NEW f \in Flusher, FlushStep(f) PROVE JobInv'
  <2>1. ASSUME NEW g \in Flusher PROVE Shape(g)' /\ OneFate(g)'
    BY <1>0, <1>3, FlushJob, FlushIsLocal, SameJob
  <2>2. /\ stage' # "flushing" => phase'["final"] = "idle"
        /\ stage' # "dead"
    BY <1>0, <1>3, FlushIsLocal
  <2> QED
    BY <1>0, <2>1, <2>2
<1>4. ASSUME NEW landed, Exit(landed) \/ Crash(landed) PROVE JobInv'
  <2>1. Die(landed)
    BY <1>4 DEF Exit, Crash
  <2>2. ASSUME NEW f \in Flusher PROVE Shape(f)' /\ OneFate(f)'
    <3>1. /\ phase'[f] = "idle" /\ snapshot'[f] = None /\ todo'[f] = {}
          /\ written'[f] = {} /\ rejected'[f] = {} /\ pending'[f] = {}
      BY <2>1 DEF Die
    <3>2. Keys(snapshot[f])' = {}
      BY <3>1, NoneIsCounts DEF Keys
    <3> QED
      BY <3>1, <3>2 DEF Shape, OneFate, Placed, Unwritten
  <2>3. phase'["final"] = "idle" /\ phase'["loop"] = "idle"
    BY <2>1 DEF Die
  <2> QED
    BY <1>0, <2>2, <2>3
<1> QED
  BY <1>1, <1>2, <1>3, <1>4 DEF Next

\* Type correctness of the whole write path, and the one fate of every row of a
\* snapshot, whatever the batches, the outages and the overlap of the two flushers.
THEOREM JobInvariant == Spec => []JobInv
BY InitJob, JobStep, PTL DEF Spec

\* The variables of the write path have their types in every reachable state.
THEOREM TypeCorrect == Spec => []TypeOK
BY JobInvariant, PTL DEF JobInv

\* A row of a snapshot is never in two places at once, so it is not put back once committed.
THEOREM OneFatePerRow == Spec => []EachRowHasOneFate
<1>1. JobInv => EachRowHasOneFate
  BY DEF JobInv, EachRowHasOneFate
<1> QED
  BY <1>1, JobInvariant, PTL

-----------------------------------------------------------------------------
(* No event vanishes.                                                      *)

\* What flusher f can move: the buffer, its own flight, and where events end.
Reach(f, q) == buffer[q] + InFlight(f, q) + committed[q] + dropped[q] + shed[q]

\* What is counted for a query is a natural number, wherever it is counted.
LEMMA CountsAreNat ==
    ASSUME TypeOK, NEW q \in Query
    PROVE  /\ buffer[q] \in Nat /\ accepted[q] \in Nat /\ committed[q] \in Nat
           /\ dropped[q] \in Nat /\ shed[q] \in Nat /\ lost[q] \in Nat
           /\ \A f \in Flusher : snapshot[f][q] \in Nat /\ InFlight(f, q) \in Nat
BY DEF TypeOK, Counts, InFlight

\* So are the sums over the places where events of a query can be.
LEMMA KnownIsNat ==
    ASSUME TypeOK, NEW q \in Query
    PROVE  Waiting(q) \in Nat /\ Known(q) \in Nat /\ accepted[q] \in Nat
<1>1. Waiting(q) \in Nat
  BY CountsAreNat DEF Waiting
<1> QED
  BY <1>1, CountsAreNat DEF Known

\* A step of a flush moves events between the places of Reach; only a lost reply adds some.
LEMMA FlushBalance ==
    ASSUME JobInv, NEW f \in Flusher, FlushStep(f), NEW q \in Query
    PROVE  /\ accepted' = accepted /\ lost' = lost
           /\ Reach(f, q)' >= Reach(f, q)
           /\ ~CommitAckMayBeLost => Reach(f, q)' = Reach(f, q)
<1>0. /\ TypeOK /\ Shape(f) /\ OneFate(f)
      /\ buffer[q] \in Nat /\ committed[q] \in Nat /\ dropped[q] \in Nat
      /\ shed[q] \in Nat /\ snapshot[f][q] \in Nat /\ InFlight(f, q) \in Nat
  BY CountsAreNat DEF JobInv
<1> DEFINE Same == accepted' = accepted /\ lost' = lost
<1>1. CASE Swap(f)
  <2>1. InFlight(f, q) = 0
    BY <1>0, <1>1 DEF Swap, Shape, InFlight, Unwritten
  <2>2. InFlight(f, q)' = buffer[q]
    <3>1. CASE Keys(buffer) = {}
      BY <1>0, <1>1, <3>1 DEF Swap, Return, Keys, InFlight, Unwritten, TypeOK
    <3>2. CASE Keys(buffer) # {}
      <4>1. /\ todo'[f] = {Keys(buffer)} /\ snapshot'[f] = buffer
            /\ pending'[f] = {}
        BY <1>0, <1>1, <3>2 DEF Swap, TypeOK, Shape
      <4> QED
        BY <1>0, <4>1 DEF Keys, InFlight, Unwritten
    <3> QED
      BY <3>1, <3>2
  <2>3. buffer'[q] = 0 /\ UNCHANGED fateVars /\ Same
    BY <1>1, NoneIsCounts DEF Swap, fateVars
  <2> QED
    BY <1>0, <2>1, <2>2, <2>3 DEF Reach, fateVars
<1>2. ASSUME NEW batch \in todo[f], BatchCommits(f, batch) \/ DropRow(f, batch)
      PROVE  Same /\ Reach(f, q)' = Reach(f, q)
  <2>1. /\ todo'[f] = todo[f] \ {batch}
        /\ UNCHANGED <<snapshot, pending, buffer, shed>> /\ Same
        /\ \/ committed' = Add(committed, batch, snapshot[f]) /\ dropped' = dropped
           \/ dropped' = Add(dropped, batch, snapshot[f]) /\ committed' = committed
    BY <1>0, <1>2 DEF BatchCommits, DropRow, TypeOK, bufferVars
  <2>2. Unwritten(f)' = Unwritten(f) \ batch /\ batch \subseteq Unwritten(f)
    BY <1>0, <2>1, TakeBatch DEF OneFate, Unwritten
  <2>3. CASE q \in batch
    <3>1. InFlight(f, q) = snapshot[f][q] /\ InFlight(f, q)' = 0
      BY <1>0, <2>1, <2>2, <2>3 DEF InFlight, OneFate
    <3> QED
      BY <1>0, <2>1, <2>3, <3>1 DEF Reach, Add
  <2>4. CASE q \notin batch
    <3>1. InFlight(f, q)' = InFlight(f, q)
      BY <2>1, <2>2, <2>4 DEF InFlight
    <3> QED
      BY <1>0, <2>1, <2>4, <3>1 DEF Reach, Add
  <2> QED
    BY <2>1, <2>3, <2>4
<1>3. ASSUME NEW batch \in todo[f], PingFails(f, batch)
      PROVE  Same /\ Reach(f, q)' = Reach(f, q)
  <2>1. /\ todo'[f] = todo[f] \ {batch} /\ pending'[f] = pending[f] \cup batch
        /\ UNCHANGED <<snapshot, buffer, committed, dropped, shed>> /\ Same
    BY <1>0, <1>3 DEF PingFails, TypeOK, bufferVars, fateVars
  <2>2. Unwritten(f)' = Unwritten(f) \ batch /\ batch \subseteq Unwritten(f)
    BY <1>0, <2>1, TakeBatch DEF OneFate, Unwritten
  <2>3. InFlight(f, q)' = InFlight(f, q)
    BY <2>1, <2>2 DEF InFlight
  <2> QED
    BY <2>1, <2>3 DEF Reach
<1>4. ASSUME NEW batch \in todo[f], BatchFails(f, batch)
      PROVE  Same /\ Reach(f, q)' = Reach(f, q)
  BY <1>4 DEF BatchFails, Reach, InFlight, Unwritten, bufferVars, fateVars
<1>5. ASSUME NEW batch \in todo[f], CommitReplyLost(f, batch)
      PROVE  Same /\ Reach(f, q)' >= Reach(f, q) /\ CommitAckMayBeLost
  <2>1. /\ UNCHANGED <<todo, snapshot, pending, buffer, dropped, shed>> /\ Same
        /\ committed' = Add(committed, batch, snapshot[f])
        /\ CommitAckMayBeLost
    BY <1>5 DEF CommitReplyLost, bufferVars
  <2>2. InFlight(f, q)' = InFlight(f, q) /\ committed'[q] >= committed[q]
        /\ committed'[q] \in Nat
    BY <1>0, <2>1 DEF InFlight, Unwritten, Add
  <2> QED
    BY <1>0, <2>1, <2>2 DEF Reach
<1>6. ASSUME NEW batch \in todo[f], Bisect(f, batch)
      PROVE  Same /\ Reach(f, q)' = Reach(f, q)
  <2>1. /\ todo'[f] = (todo[f] \ {batch}) \cup Halves(batch)
        /\ UNCHANGED <<snapshot, pending, buffer, committed, dropped, shed>> /\ Same
    BY <1>0, <1>6 DEF Bisect, TypeOK, bufferVars, fateVars
  <2>2. Unwritten(f)' = Unwritten(f)
    BY <1>0, <2>1, TakeBatch DEF OneFate, Unwritten
  <2> QED
    BY <2>1, <2>2 DEF InFlight, Reach
<1>7. ASSUME NEW restored \in SUBSET pending[f], Requeue(f, restored)
      PROVE  Same /\ Reach(f, q)' = Reach(f, q)
  <2>1. /\ todo[f] = {} /\ todo'[f] = {} /\ pending'[f] = {}
    BY <1>0, <1>7 DEF Requeue, Return, Shape, TypeOK
  <2>2. /\ buffer' = Add(buffer, restored, snapshot[f])
        /\ shed' = Add(shed, pending[f] \ restored, snapshot[f])
        /\ UNCHANGED <<committed, dropped>> /\ Same
    BY <1>7 DEF Requeue
  <2>3. /\ InFlight(f, q) = IF q \in pending[f] THEN snapshot[f][q] ELSE 0
        /\ InFlight(f, q)' = 0
    BY <2>1 DEF InFlight, Unwritten
  <2> QED
    BY <1>0, <2>2, <2>3 DEF Reach, Add
<1>8. CASE SettleRows(f)
  <2>1. /\ todo[f] = {} /\ pending[f] = {} /\ todo'[f] = {} /\ pending'[f] = {}
        /\ UNCHANGED <<buffer, committed, dropped, shed>> /\ Same
    BY <1>0, <1>8 DEF SettleRows, Return, Shape, TypeOK, bufferVars, fateVars
  <2> QED
    BY <1>0, <2>1 DEF InFlight, Unwritten, Reach
<1> QED
  <2>1. Reach(f, q) \in Nat
    BY <1>0 DEF Reach
  <2> QED
    BY <1>1, <1>2, <1>3, <1>4, <1>5, <1>6, <1>7, <1>8, <2>1 DEF FlushStep

\* A search adds one event to both sides; every other step moves events between
\* the places Known adds up, or lets a commit count once more.
LEMMA StepBalance ==
    ASSUME JobInv, [Next]_vars, NEW q \in Query
    PROVE  /\ Known(q)' - accepted'[q] >= Known(q) - accepted[q]
           /\ ~CommitAckMayBeLost => Known(q)' - accepted'[q] = Known(q) - accepted[q]
<1>0. /\ TypeOK /\ TypeOK'
      /\ Waiting(q) \in Nat /\ Known(q) \in Nat /\ accepted[q] \in Nat
  BY JobStep, KnownIsNat DEF JobInv
<1>1. ASSUME NEW r \in Query, Search(r)
      PROVE  Known(q)' - accepted'[q] = Known(q) - accepted[q]
  <2>1. /\ buffer'[q] = buffer[q] + (IF q = r THEN 1 ELSE 0)
        /\ accepted'[q] = accepted[q] + (IF q = r THEN 1 ELSE 0)
        /\ UNCHANGED <<todo, pending, snapshot>> /\ UNCHANGED fateVars
    BY <1>0, <1>1 DEF Search, TypeOK, Counts, jobVars
  <2>2. \A f \in Flusher : InFlight(f, q)' = InFlight(f, q)
    BY <2>1 DEF InFlight, Unwritten
  <2> QED
    BY <1>0, <2>1, <2>2, CountsAreNat DEF Known, Waiting, fateVars
<1>2. CASE \/ \E r \in Query : Refuse(r)
           \/ IntervalElapses \/ Stop \/ Start \/ Tick \/ LoopExits \/ Joined
           \/ DbFails \/ HungDbBreaks \/ DbRecovers \/ UNCHANGED vars
  <2>1. UNCHANGED <<buffer, accepted, todo, pending, snapshot>>
        /\ UNCHANGED fateVars
    BY <1>2 DEF Refuse, IntervalElapses, Stop, Start, Tick, LoopExits, Joined,
                DbFails, HungDbBreaks, DbRecovers, vars, bufferVars, jobVars
  <2>2. Known(q)' = Known(q) /\ accepted' = accepted
    BY <2>1 DEF Known, Waiting, InFlight, Unwritten, fateVars
  <2> QED
    BY <1>0, <2>2
<1>3. ASSUME NEW f \in Flusher, FlushStep(f)
      PROVE  /\ Known(q)' - accepted'[q] >= Known(q) - accepted[q]
             /\ ~CommitAckMayBeLost =>
                  Known(q)' - accepted'[q] = Known(q) - accepted[q]
  <2>1. PICK g \in Flusher : Flusher = {f, g} /\ g # f
    OBVIOUS
  <2>2. InFlight(g, q)' = InFlight(g, q)
    BY <1>0, <1>3, <2>1, FlushIsLocal DEF InFlight, Unwritten
  <2>3. /\ Known(q) = Reach(f, q) + InFlight(g, q) + lost[q]
        /\ Known(q)' = Reach(f, q)' + InFlight(g, q)' + lost'[q]
    <3>1. /\ Waiting(q) = buffer[q] + InFlight(f, q) + InFlight(g, q)
          /\ Waiting(q)' = buffer'[q] + InFlight(f, q)' + InFlight(g, q)'
      <4>1. /\ InFlight("loop", q) \in Nat /\ InFlight("final", q) \in Nat
            /\ InFlight("loop", q)' \in Nat /\ InFlight("final", q)' \in Nat
            /\ buffer[q] \in Nat /\ buffer'[q] \in Nat
        BY <1>0 DEF TypeOK, Counts, InFlight
      <4>2. CASE f = "loop" /\ g = "final"
        BY <4>1, <4>2 DEF Waiting
      <4>3. CASE f = "final" /\ g = "loop"
        BY <4>1, <4>3 DEF Waiting
      <4> QED
        BY <2>1, <4>2, <4>3
    <3>2. /\ InFlight(f, q) \in Nat /\ InFlight(g, q) \in Nat
          /\ InFlight(f, q)' \in Nat /\ InFlight(g, q)' \in Nat
          /\ buffer[q] \in Nat /\ buffer'[q] \in Nat
          /\ committed[q] \in Nat /\ committed'[q] \in Nat
          /\ dropped[q] \in Nat /\ dropped'[q] \in Nat
          /\ shed[q] \in Nat /\ shed'[q] \in Nat
          /\ lost[q] \in Nat /\ lost'[q] \in Nat
      BY <1>0, <2>1 DEF TypeOK, Counts, InFlight
    <3> QED
      BY <3>1, <3>2 DEF Known, Reach
  <2>4. /\ Reach(f, q) \in Nat /\ Reach(f, q)' \in Nat
        /\ InFlight(g, q) \in Nat /\ lost[q] \in Nat
    BY <1>0, <2>1 DEF TypeOK, Counts, InFlight, Reach
  <2> QED
    BY <1>0, <1>3, <2>2, <2>3, <2>4, FlushBalance
<1>4. ASSUME NEW landed, Exit(landed) \/ Crash(landed)
      PROVE  Known(q)' - accepted'[q] = Known(q) - accepted[q]
  <2>1. Die(landed)
    BY <1>4 DEF Exit, Crash
  <2>2. Waiting(q)' = 0
    BY <2>1, NoneIsCounts DEF Die, Waiting, InFlight, Unwritten
  <2>3. /\ committed'[q] = committed[q] + Landed(landed, q)
        /\ lost'[q] = lost[q] + (Waiting(q) - Landed(landed, q))
        /\ UNCHANGED <<accepted, dropped, shed>>
    BY <2>1 DEF Die
  <2> QED
    BY <1>0, <2>2, <2>3, LandedIsWaiting, CountsAreNat DEF Known
<1> QED
  <2>1. \A q1 \in {q} : Known(q) - accepted[q] >= Known(q) - accepted[q]
    BY <1>0
  <2> QED
    BY <1>0, <1>1, <1>2, <1>3, <1>4, <2>1 DEF Next

\* No event accepted by POST /search vanishes, and while replies to commits arrive
\* none is counted twice, for any number of queries, requests, outages and crashes.
THEOREM Conservation == Spec => []EventsConserved
<1>1. Init => EventsConserved
  <2> SUFFICES ASSUME Init PROVE EventsConserved
    OBVIOUS
  <2>1. ASSUME NEW q \in Query PROVE accepted[q] = 0 /\ Known(q) = 0
    BY NoneIsCounts DEF Init, Known, Waiting, InFlight, Unwritten
  <2> QED
    BY <2>1 DEF EventsConserved
<1>2. JobInv /\ EventsConserved /\ [Next]_vars => EventsConserved'
  <2> SUFFICES ASSUME JobInv, EventsConserved, [Next]_vars, NEW q \in Query
               PROVE  /\ accepted'[q] <= Known(q)'
                      /\ ~CommitAckMayBeLost => accepted'[q] = Known(q)'
    BY DEF EventsConserved
  <2>1. /\ Known(q) \in Nat /\ accepted[q] \in Nat
    BY KnownIsNat DEF JobInv
  <2>2. TypeOK'
    BY TypeStep DEF JobInv, EachRowHasOneFate
  <2>3. accepted'[q] \in Nat /\ Known(q)' \in Nat
    <3>1. /\ accepted'[q] \in Nat /\ buffer'[q] \in Nat /\ committed'[q] \in Nat
          /\ dropped'[q] \in Nat /\ shed'[q] \in Nat /\ lost'[q] \in Nat
          /\ \A f \in Flusher : InFlight(f, q)' \in Nat
      BY <2>2 DEF TypeOK, Counts, InFlight
    <3> QED
      BY <3>1 DEF Known, Waiting
  <2> QED
    BY <2>1, <2>3, StepBalance DEF EventsConserved
<1> QED
  BY <1>1, <1>2, JobInvariant, PTL DEF Spec

\* What the lost reply of BatchWorker_ack_lost takes away holds without it: a row never grows
\* by more than the searches accepted for it, whatever is retried, split, put back or killed.
THEOREM NoDoubleCounting ==
    ASSUME ~CommitAckMayBeLost
    PROVE  Spec => []CommittedAtMostOnce
<1>1. TypeOK /\ EventsConserved => CommittedAtMostOnce
  <2> SUFFICES ASSUME TypeOK, EventsConserved, NEW q \in Query
               PROVE  committed[q] <= accepted[q]
    BY DEF CommittedAtMostOnce
  <2>1. accepted[q] = Waiting(q) + committed[q] + dropped[q] + shed[q] + lost[q]
    BY DEF EventsConserved, Known
  <2> QED
    BY <2>1, CountsAreNat, KnownIsNat
<1> QED
  BY <1>1, TypeCorrect, Conservation, PTL

-----------------------------------------------------------------------------
(* The bound of the buffer.                                                *)

\* A buffer holds finitely many queries.
LEMMA KeysAreFinite ==
    ASSUME NEW counts
    PROVE  /\ IsFiniteSet(Keys(counts)) /\ Keys(counts) \subseteq Query
           /\ Cardinality(Keys(counts)) \in Nat
BY QueryAssumption, FS_Subset, FS_CardinalityType DEF Keys

\* An empty buffer is within any bound.
LEMMA EmptyBufferIsBounded == Cardinality(Keys(None)) <= MaxUnique
<1>1. Keys(None) = {}
  BY NoneIsCounts DEF Keys
<1> QED
  BY <1>1, FS_EmptySet, LimitsAssumption

\* The buffer holds at most max_unique distinct queries, also after rows of a failed
\* flush were merged with those that arrived while it was running.
THEOREM BufferIsBounded == Spec => []BufferBounded
<1>1. Init => BufferBounded
  BY EmptyBufferIsBounded DEF Init, BufferBounded
<1>2. TypeOK /\ BufferBounded /\ [Next]_vars => BufferBounded'
  <2> SUFFICES ASSUME TypeOK, BufferBounded, [Next]_vars PROVE BufferBounded'
    OBVIOUS
  <2>1. ASSUME NEW q \in Query, Search(q) PROVE BufferBounded'
    <3>1. Keys(buffer') = Keys(buffer) \cup {q}
      BY <2>1 DEF Search, Keys, TypeOK, Counts
    <3>2. CASE q \in Keys(buffer)
      BY <3>1, <3>2 DEF BufferBounded
    <3>3. CASE q \notin Keys(buffer)
      <4>1. Cardinality(Keys(buffer)) < MaxUnique
        BY <2>1, <3>3, KeysAreFinite, LimitsAssumption
           DEF Search, HasRoom, Keys, TypeOK, Counts
      <4>2. Cardinality(Keys(buffer')) = Cardinality(Keys(buffer)) + 1
        BY <3>1, <3>3, KeysAreFinite, FS_AddElement
      <4> QED
        BY <4>1, <4>2, KeysAreFinite, LimitsAssumption DEF BufferBounded
    <3> QED
      BY <3>2, <3>3
  <2>2. ASSUME NEW f \in Flusher, NEW restored \in SUBSET pending[f],
               Requeue(f, restored)
        PROVE  BufferBounded'
    <3>1. Keys(buffer') \subseteq Keys(buffer) \cup restored
      BY <2>2 DEF Requeue, Keys, Add
    <3>2. /\ Cardinality(Keys(buffer) \cup restored) <= MaxUnique
          /\ restored \subseteq Query
      BY <2>2 DEF Requeue, Restorable, TypeOK
    <3>3. IsFiniteSet(Keys(buffer) \cup restored)
      BY <3>2, KeysAreFinite, QueryAssumption, FS_Subset
    <3>4. /\ Cardinality(Keys(buffer')) <= Cardinality(Keys(buffer) \cup restored)
          /\ Cardinality(Keys(buffer')) \in Nat
          /\ Cardinality(Keys(buffer) \cup restored) \in Nat
      BY <3>1, <3>3, FS_Subset, FS_CardinalityType
    <3> QED
      BY <3>2, <3>4, LimitsAssumption DEF BufferBounded
  <2>3. ASSUME buffer' = None PROVE BufferBounded'
    BY <2>3, EmptyBufferIsBounded DEF BufferBounded
  <2>4. ASSUME buffer' = buffer PROVE BufferBounded'
    BY <2>4 DEF BufferBounded
  <2>5. ASSUME NEW f \in Flusher, FlushStep(f) PROVE BufferBounded'
    <3>1. \/ buffer' = None \/ buffer' = buffer
          \/ \E restored \in SUBSET pending[f] : Requeue(f, restored)
      BY <2>5 DEF FlushStep, Swap, BatchCommits, BatchFails, CommitReplyLost,
                  PingFails, Bisect, DropRow, SettleRows, bufferVars
    <3> QED
      BY <3>1, <2>2, <2>3, <2>4
  <2>6. ASSUME NEW landed, Exit(landed) \/ Crash(landed) PROVE BufferBounded'
    BY <2>6, <2>3 DEF Exit, Crash, Die
  <2>7. CASE \/ \E q \in Query : Refuse(q)
             \/ IntervalElapses \/ Stop \/ Start \/ Tick \/ LoopExits \/ Joined
             \/ DbFails \/ HungDbBreaks \/ DbRecovers \/ UNCHANGED vars
    BY <2>7, <2>4 DEF Refuse, IntervalElapses, Stop, Start, Tick, LoopExits, Joined,
                      DbFails, HungDbBreaks, DbRecovers, vars, bufferVars
  <2> QED
    BY <2>1, <2>5, <2>6, <2>7 DEF Next
<1> QED
  BY <1>1, <1>2, TypeCorrect, PTL DEF Spec

-----------------------------------------------------------------------------
(* The worker implements the ledger, as long as replies to commits arrive. *)

Held == [q \in Query |-> Waiting(q)]
GivenUp == [q \in Query |-> dropped[q] + shed[q]]

\* What the ledger sees of the worker are counts.
LEMMA LedgerCounts ==
    ASSUME TypeOK
    PROVE  Held \in Counts /\ GivenUp \in Counts
           /\ committed \in Counts /\ lost \in Counts
<1>1. \A q \in Query : Waiting(q) \in Nat /\ dropped[q] + shed[q] \in Nat
  BY KnownIsNat, CountsAreNat
<1> QED
  BY <1>1 DEF Held, GivenUp, TypeOK, Counts

\* What a flush settles stays settled.
LEMMA FlushSettles ==
    ASSUME TypeOK, NEW f \in Flusher, FlushStep(f), NEW q \in Query
    PROVE  /\ committed'[q] >= committed[q]
           /\ dropped'[q] + shed'[q] >= dropped[q] + shed[q]
<1>0. /\ committed[q] \in Nat /\ dropped[q] \in Nat /\ shed[q] \in Nat
      /\ snapshot[f][q] \in Nat
  BY CountsAreNat
<1>1. \A rows : /\ Add(committed, rows, snapshot[f])[q] \in Nat
                /\ Add(committed, rows, snapshot[f])[q] >= committed[q]
                /\ Add(dropped, rows, snapshot[f])[q] \in Nat
                /\ Add(dropped, rows, snapshot[f])[q] >= dropped[q]
                /\ Add(shed, rows, snapshot[f])[q] \in Nat
                /\ Add(shed, rows, snapshot[f])[q] >= shed[q]
  BY <1>0 DEF Add
<1>2. CASE Swap(f) \/ SettleRows(f)
  BY <1>0, <1>2 DEF Swap, SettleRows, fateVars
<1>3. ASSUME NEW batch \in todo[f],
             \/ BatchCommits(f, batch) \/ CommitReplyLost(f, batch)
             \/ DropRow(f, batch)
      PROVE  /\ committed'[q] >= committed[q]
             /\ dropped'[q] + shed'[q] >= dropped[q] + shed[q]
  BY <1>0, <1>1, <1>3 DEF BatchCommits, CommitReplyLost, DropRow
<1>4. ASSUME NEW batch \in todo[f],
             \/ BatchFails(f, batch) \/ PingFails(f, batch) \/ Bisect(f, batch)
      PROVE  UNCHANGED fateVars
  BY <1>4 DEF BatchFails, PingFails, Bisect
<1>5. ASSUME NEW restored, Requeue(f, restored)
      PROVE  /\ committed'[q] >= committed[q]
             /\ dropped'[q] + shed'[q] >= dropped[q] + shed[q]
  BY <1>0, <1>1, <1>5 DEF Requeue
<1> QED
  BY <1>0, <1>2, <1>3, <1>4, <1>5 DEF FlushStep, fateVars

\* Steps that leave every event where it is.
LEMMA LedgerStutter ==
    ASSUME \/ \E r \in Query : Refuse(r)
           \/ IntervalElapses \/ Stop \/ Tick \/ LoopExits \/ Joined
           \/ DbFails \/ HungDbBreaks \/ DbRecovers \/ UNCHANGED vars
    PROVE  UNCHANGED <<stage # "dead", Held, committed, GivenUp, lost>>
<1>1. /\ UNCHANGED <<buffer, todo, pending, snapshot, committed, dropped, shed, lost>>
      /\ (stage # "dead")' = (stage # "dead")
  BY DEF Refuse, IntervalElapses, Stop, Tick, LoopExits, Joined, DbFails,
         HungDbBreaks, DbRecovers, vars, bufferVars, jobVars, fateVars, processVars
<1> QED
  BY <1>1 DEF Held, GivenUp, Waiting, InFlight, Unwritten

\* While replies arrive, every step is one of the ledger or changes nothing the ledger sees.
LEMMA LedgerStep ==
    ASSUME ~CommitAckMayBeLost, JobInv, [Next]_vars
    PROVE  [Ledger!LedgerNext]_(Ledger!ledgerVars)
<1> USE DEF Ledger!ledgerVars, Ledger!LedgerNext
<1>0. /\ TypeOK /\ TypeOK'
      /\ Held \in Counts /\ GivenUp \in Counts
      /\ Held' \in Counts /\ GivenUp' \in Counts
      /\ committed' \in Counts /\ lost' \in Counts
  <2>1. TypeOK /\ TypeOK'
    BY JobStep DEF JobInv
  <2>2. \A q \in Query : Waiting(q)' \in Nat /\ (dropped[q] + shed[q])' \in Nat
    <3>1. \A q \in Query : /\ buffer'[q] \in Nat
                           /\ InFlight("loop", q)' \in Nat
                           /\ InFlight("final", q)' \in Nat
                           /\ dropped'[q] \in Nat /\ shed'[q] \in Nat
      BY <2>1 DEF TypeOK, Counts, InFlight
    <3> QED
      BY <3>1 DEF Waiting
  <2> QED
    BY <2>1, <2>2, LedgerCounts DEF Held, GivenUp, TypeOK, Counts
\* No event appears or disappears: the balance, read per query.
<1>1. ASSUME accepted' = accepted, NEW q \in Query
      PROVE  Held'[q] + committed'[q] + GivenUp'[q] + lost'[q]
               = Held[q] + committed[q] + GivenUp[q] + lost[q]
  <2>1. Known(q)' = Known(q)
    <3>1. Known(q)' \in Nat
      <4>1. /\ Held'[q] \in Nat /\ Held'[q] = Waiting(q)'
            /\ committed'[q] \in Nat /\ dropped'[q] \in Nat
            /\ shed'[q] \in Nat /\ lost'[q] \in Nat
        BY <1>0 DEF Held, TypeOK, Counts
      <4> QED
        BY <4>1 DEF Known
    <3> QED
      BY <1>0, <1>1, <3>1, StepBalance, KnownIsNat
  <2>2. /\ Held[q] = Waiting(q) /\ Held'[q] = Waiting(q)'
        /\ GivenUp[q] = dropped[q] + shed[q] /\ GivenUp'[q] = dropped'[q] + shed'[q]
    BY DEF Held, GivenUp
  <2>3. /\ Waiting(q) \in Nat /\ Waiting(q)' \in Nat
        /\ committed[q] \in Nat /\ committed'[q] \in Nat
        /\ dropped[q] \in Nat /\ dropped'[q] \in Nat
        /\ shed[q] \in Nat /\ shed'[q] \in Nat
        /\ lost[q] \in Nat /\ lost'[q] \in Nat
    BY <1>0, <2>2 DEF TypeOK, Counts, Held
  <2> QED
    BY <2>1, <2>2, <2>3 DEF Known
<1>2. ASSUME NEW r \in Query, Search(r) PROVE Ledger!Accept(r)
  <2>1. /\ stage # "dead" /\ stage' = stage
        /\ UNCHANGED <<committed, dropped, shed, lost>>
    BY <1>2 DEF Search, processVars, fateVars
  <2>2. ASSUME NEW q \in Query
        PROVE  Waiting(q)' = Waiting(q) + (IF q = r THEN 1 ELSE 0)
    <3>1. /\ buffer'[q] = buffer[q] + (IF q = r THEN 1 ELSE 0)
          /\ UNCHANGED <<todo, pending, snapshot>>
      BY <1>0, <1>2 DEF Search, TypeOK, Counts, jobVars
    <3>2. \A f \in Flusher : InFlight(f, q)' = InFlight(f, q)
      BY <3>1 DEF InFlight, Unwritten
    <3> QED
      BY <1>0, <3>1, <3>2, CountsAreNat DEF Waiting
  <2>3. Held' = [Held EXCEPT ![r] = @ + 1]
    <3>1. \A q \in Query : Waiting(q) \in Nat
      BY <1>0, KnownIsNat
    <3>2. Held' = [q \in Query |-> Waiting(q) + (IF q = r THEN 1 ELSE 0)]
      BY <2>2 DEF Held
    <3>3. Held = [q \in Query |-> Waiting(q)]
      BY DEF Held
    <3>4. [Held EXCEPT ![r] = @ + 1]
            = [q \in Query |-> Waiting(q) + (IF q = r THEN 1 ELSE 0)]
      BY <3>1, <3>3
    <3> QED
      BY <3>2, <3>4
  <2> QED
    BY <2>1, <2>3 DEF Ledger!Accept, Held, GivenUp
<1>3. ASSUME NEW f \in Flusher, FlushStep(f) PROVE Ledger!Settle
  <2>1. stage # "dead" /\ stage' = stage
    BY <1>0, <1>3, FlushIsLocal DEF JobInv
  <2>2. \A q \in Query : accepted' = accepted /\ lost' = lost
    BY <1>3, FlushBalance
  <2>3. lost' = lost
    BY <1>3 DEF FlushStep, Swap, BatchCommits, BatchFails, CommitReplyLost, PingFails,
                Bisect, DropRow, Requeue, SettleRows, fateVars
  <2>4. ASSUME NEW q \in Query
        PROVE  /\ committed'[q] >= committed[q]
               /\ GivenUp'[q] >= GivenUp[q]
               /\ lost'[q] >= lost[q]
    BY <1>0, <1>3, <2>3, FlushSettles, CountsAreNat DEF GivenUp
  <2>5. Ledger!Moves
    BY <1>0, <1>1, <2>2, <2>4 DEF Ledger!Moves, Ledger!Counts, Counts, Held, GivenUp
  <2> QED
    BY <2>1, <2>3, <2>5 DEF Ledger!Settle
<1>4. ASSUME NEW landed \in SUBSET Flusher, Exit(landed) \/ Crash(landed)
      PROVE  Ledger!GoDown
  <2>1. Die(landed) /\ stage # "dead" /\ stage' = "dead"
    BY <1>4 DEF Exit, Crash, Die
  <2>2. Held' = [q \in Query |-> 0]
    BY <2>1, NoneIsCounts DEF Die, Held, Waiting, InFlight, Unwritten
  <2>3. GivenUp' = GivenUp /\ accepted' = accepted
    BY <2>1 DEF Die, GivenUp
  <2>4. ASSUME NEW q \in Query
        PROVE  /\ committed'[q] >= committed[q]
               /\ GivenUp'[q] >= GivenUp[q]
               /\ lost'[q] >= lost[q]
    BY <1>0, <2>1, <2>3, LandedIsWaiting, CountsAreNat DEF Die, GivenUp
  <2>5. Ledger!Moves
    BY <1>0, <1>1, <2>3, <2>4 DEF Ledger!Moves, Ledger!Counts, Counts, Held, GivenUp
  <2> QED
    BY <2>1, <2>2, <2>3, <2>5 DEF Ledger!GoDown, Ledger!None, Held, GivenUp
<1>5. CASE Start
  <2>1. /\ stage = "dead" /\ stage' = "running"
        /\ UNCHANGED <<buffer, todo, pending, snapshot, committed, dropped, shed, lost>>
    BY <1>5 DEF Start, bufferVars, jobVars, fateVars
  <2>2. Held' = Held /\ GivenUp' = GivenUp
    BY <2>1 DEF Held, GivenUp, Waiting, InFlight, Unwritten
  <2> QED
    BY <2>1, <2>2 DEF Ledger!ComeUp, Held, GivenUp
<1>6. CASE \/ \E r \in Query : Refuse(r)
           \/ IntervalElapses \/ Stop \/ Tick \/ LoopExits \/ Joined
           \/ DbFails \/ HungDbBreaks \/ DbRecovers \/ UNCHANGED vars
  BY <1>6, LedgerStutter DEF Held, GivenUp
<1> QED
  BY <1>2, <1>3, <1>4, <1>5, <1>6 DEF Next

\* As long as the reply to a commit arrives, the write path is a ledger that settles
\* every accepted event once and loses none but those in memory at a death.
THEOREM ImplementsLedger ==
    ASSUME ~CommitAckMayBeLost
    PROVE  Spec => KeepsLedger
<1>1. Init => Ledger!LedgerInit
  <2> SUFFICES ASSUME Init PROVE Ledger!LedgerInit
    OBVIOUS
  <2>1. Held = None /\ GivenUp = None
    BY NoneIsCounts DEF Init, Held, GivenUp, Waiting, InFlight, Unwritten, None
  <2> QED
    BY <2>1 DEF Init, Ledger!LedgerInit, Ledger!None, None, Held, GivenUp
<1>2. JobInv /\ [Next]_vars => [Ledger!LedgerNext]_(Ledger!ledgerVars)
  BY LedgerStep
<1> QED
  BY <1>1, <1>2, JobInvariant, PTL DEF Spec, KeepsLedger, Ledger!LedgerSpec

-----------------------------------------------------------------------------
(* The counters of /write/metrics account for every event of a life.       *)

\* What a step of flusher f moves between the places the counters speak of.
Accounted(f, q) ==
    metrics["executed"][q] + metrics["avoided"][q] + metrics["dropped"][q]
      + buffer[q] + InFlight(f, q) + Unrecorded(f, q)

\* The counters and what they account for are natural numbers.
LEMMA CountersAreNat ==
    ASSUME TypeOK, NEW q \in Query
    PROVE  /\ \A m \in Metric : metrics[m][q] \in Nat
           /\ refused[q] \in Nat /\ buffer[q] \in Nat
           /\ \A f \in Flusher : /\ snapshot[f][q] \in Nat
                                 /\ InFlight(f, q) \in Nat
                                 /\ Unrecorded(f, q) \in Nat
                                 /\ Accounted(f, q) \in Nat
<1>1. /\ \A m \in Metric : metrics[m][q] \in Nat
      /\ refused[q] \in Nat /\ buffer[q] \in Nat
      /\ \A f \in Flusher : snapshot[f][q] \in Nat
  BY DEF TypeOK, Counts
<1>2. \A f \in Flusher : InFlight(f, q) \in Nat /\ Unrecorded(f, q) \in Nat
  BY <1>1 DEF InFlight, Unrecorded
<1>3. \A f \in Flusher : Accounted(f, q) \in Nat
  BY <1>1, <1>2 DEF Accounted, Metric
<1> QED
  BY <1>1, <1>2, <1>3

\* Every step of a flush, a lost reply included, keeps the account balanced.
LEMMA FlushAccount ==
    ASSUME JobInv, NEW f \in Flusher, FlushStep(f), NEW q \in Query
    PROVE  /\ UNCHANGED <<metrics["received"], refused>>
           /\ Accounted(f, q)' = Accounted(f, q)
<1>0. /\ TypeOK /\ Shape(f) /\ OneFate(f)
      /\ \A m \in Metric : metrics[m][q] \in Nat
      /\ buffer[q] \in Nat /\ snapshot[f][q] \in Nat
  BY CountersAreNat DEF JobInv
<1> DEFINE Same == UNCHANGED <<metrics["received"], refused>>
<1>1. CASE Swap(f)
  <2>1. InFlight(f, q) = 0 /\ Unrecorded(f, q) = 0
    BY <1>0, <1>1 DEF Swap, Shape, InFlight, Unwritten, Unrecorded
  <2>2. InFlight(f, q)' = buffer[q] /\ Unrecorded(f, q)' = 0
    <3>1. CASE Keys(buffer) = {}
      BY <1>0, <1>1, <3>1 DEF Swap, Return, Keys, InFlight, Unwritten, Unrecorded, TypeOK
    <3>2. CASE Keys(buffer) # {}
      <4>1. /\ todo'[f] = {Keys(buffer)} /\ snapshot'[f] = buffer
            /\ pending'[f] = {} /\ written'[f] = {} /\ rejected'[f] = {}
        BY <1>0, <1>1, <3>2 DEF Swap, TypeOK, Shape
      <4> QED
        BY <1>0, <4>1 DEF Keys, InFlight, Unwritten, Unrecorded
    <3> QED
      BY <3>1, <3>2
  <2>3. buffer'[q] = 0 /\ UNCHANGED metrics /\ Same
    BY <1>1, NoneIsCounts DEF Swap
  <2> QED
    BY <1>0, <2>1, <2>2, <2>3 DEF Accounted, Metric
<1>2. ASSUME NEW batch \in todo[f], BatchCommits(f, batch) \/ DropRow(f, batch)
      PROVE  Same /\ Accounted(f, q)' = Accounted(f, q)
  <2>1. /\ todo'[f] = todo[f] \ {batch}
        /\ UNCHANGED <<snapshot, pending, buffer, metrics>> /\ Same
        /\ written'[f] \cup rejected'[f] = written[f] \cup rejected[f] \cup batch
    BY <1>0, <1>2 DEF BatchCommits, DropRow, TypeOK, bufferVars
  <2>2. Unwritten(f)' = Unwritten(f) \ batch /\ batch \subseteq Unwritten(f)
    BY <1>0, <2>1, TakeBatch DEF OneFate, Unwritten
  <2>3. CASE q \in batch
    <3>1. InFlight(f, q) = snapshot[f][q] /\ InFlight(f, q)' = 0
      BY <1>0, <2>1, <2>2, <2>3 DEF InFlight, OneFate
    <3>2. Unrecorded(f, q) = 0 /\ Unrecorded(f, q)' = snapshot[f][q]
      BY <1>0, <2>1, <2>2, <2>3 DEF Unrecorded, OneFate
    <3> QED
      BY <1>0, <2>1, <3>1, <3>2 DEF Accounted, Metric
  <2>4. CASE q \notin batch
    <3>1. InFlight(f, q)' = InFlight(f, q) /\ Unrecorded(f, q)' = Unrecorded(f, q)
      BY <2>1, <2>2, <2>4 DEF InFlight, Unrecorded
    <3> QED
      BY <2>1, <3>1 DEF Accounted
  <2> QED
    BY <2>1, <2>3, <2>4
<1>3. ASSUME NEW batch \in todo[f], PingFails(f, batch)
      PROVE  Same /\ Accounted(f, q)' = Accounted(f, q)
  <2>1. /\ todo'[f] = todo[f] \ {batch} /\ pending'[f] = pending[f] \cup batch
        /\ UNCHANGED <<snapshot, buffer, metrics, written, rejected>> /\ Same
    BY <1>0, <1>3 DEF PingFails, TypeOK, bufferVars
  <2>2. Unwritten(f)' = Unwritten(f) \ batch /\ batch \subseteq Unwritten(f)
    BY <1>0, <2>1, TakeBatch DEF OneFate, Unwritten
  <2>3. InFlight(f, q)' = InFlight(f, q) /\ Unrecorded(f, q)' = Unrecorded(f, q)
    BY <2>1, <2>2 DEF InFlight, Unrecorded
  <2> QED
    BY <2>1, <2>3 DEF Accounted
<1>4. ASSUME NEW batch \in todo[f],
             BatchFails(f, batch) \/ CommitReplyLost(f, batch)
      PROVE  Same /\ Accounted(f, q)' = Accounted(f, q)
  <2>1. UNCHANGED <<bufferVars, snapshot, todo, written, rejected, pending, metrics>>
    BY <1>4 DEF BatchFails, CommitReplyLost
  <2> QED
    BY <2>1 DEF Accounted, InFlight, Unwritten, Unrecorded, bufferVars
<1>5. ASSUME NEW batch \in todo[f], Bisect(f, batch)
      PROVE  Same /\ Accounted(f, q)' = Accounted(f, q)
  <2>1. /\ todo'[f] = (todo[f] \ {batch}) \cup Halves(batch)
        /\ UNCHANGED <<snapshot, pending, buffer, metrics, written, rejected>> /\ Same
    BY <1>0, <1>5 DEF Bisect, TypeOK, bufferVars
  <2>2. Unwritten(f)' = Unwritten(f)
    BY <1>0, <2>1, TakeBatch DEF OneFate, Unwritten
  <2> QED
    BY <2>1, <2>2 DEF Accounted, InFlight, Unrecorded
\* What merge takes is in the buffer again, the rest of pending is counted as dropped.
<1>6. ASSUME NEW restored \in SUBSET pending[f], Requeue(f, restored)
      PROVE  Same /\ Accounted(f, q)' = Accounted(f, q)
  <2>1. /\ todo[f] = {} /\ todo'[f] = {} /\ pending'[f] = {}
    BY <1>0, <1>6 DEF Requeue, Return, Shape, TypeOK
  <2>2. /\ buffer' = Add(buffer, restored, snapshot[f])
        /\ metrics' = [metrics EXCEPT
              !["dropped"] = Add(@, pending[f] \ restored, snapshot[f])]
        /\ refused' = refused
    BY <1>6 DEF Requeue
  <2>3. /\ metrics'["executed"] = metrics["executed"]
        /\ metrics'["avoided"] = metrics["avoided"]
        /\ metrics'["received"] = metrics["received"]
        /\ metrics'["dropped"][q] = metrics["dropped"][q]
             + (IF q \in pending[f] \ restored THEN snapshot[f][q] ELSE 0)
    BY <1>0, <2>2, AddCounts DEF TypeOK, Metric
  <2>4. /\ InFlight(f, q) = IF q \in pending[f] THEN snapshot[f][q] ELSE 0
        /\ InFlight(f, q)' = 0
    BY <2>1 DEF InFlight, Unwritten
  <2>5. Unrecorded(f, q)' = Unrecorded(f, q)
    <3>1. CASE written[f] \cup rejected[f] = {}
      BY <1>0, <1>6, <3>1 DEF Requeue, Return, Unrecorded, TypeOK
    <3>2. CASE written[f] \cup rejected[f] # {}
      BY <1>6, <3>2 DEF Requeue, Unrecorded
    <3> QED
      BY <3>1, <3>2
  <2>6. buffer'[q] = buffer[q] + (IF q \in restored THEN snapshot[f][q] ELSE 0)
    BY <1>0, <2>2, AddCounts DEF TypeOK
  <2>7. Unrecorded(f, q) \in Nat
    BY <1>0, CountersAreNat
  <2> QED
    BY <1>0, <2>2, <2>3, <2>4, <2>5, <2>6, <2>7 DEF Accounted, Metric
\* A written row is one write executed and its other events writes avoided.
<1>7. CASE SettleRows(f)
  <2>1. /\ todo[f] = {} /\ pending[f] = {} /\ todo'[f] = {} /\ pending'[f] = {}
        /\ written'[f] = {} /\ rejected'[f] = {}
        /\ buffer' = buffer /\ refused' = refused
    BY <1>0, <1>7 DEF SettleRows, Return, Shape, TypeOK, bufferVars
  <2>2. /\ InFlight(f, q) = 0 /\ InFlight(f, q)' = 0 /\ Unrecorded(f, q)' = 0
    BY <2>1 DEF InFlight, Unwritten, Unrecorded
  <2>3. /\ metrics'["received"] = metrics["received"]
        /\ metrics'["dropped"][q] = metrics["dropped"][q]
             + (IF q \in rejected[f] THEN snapshot[f][q] ELSE 0)
        /\ metrics'["executed"][q] = metrics["executed"][q]
             + (IF q \in written[f] THEN 1 ELSE 0)
        /\ metrics'["avoided"][q] = metrics["avoided"][q]
             + (IF q \in written[f] THEN snapshot[f][q] - 1 ELSE 0)
    BY <1>0, <1>7 DEF SettleRows, TypeOK, Metric, Add, One, Repeats, Counts
  <2>4. ~(q \in written[f] /\ q \in rejected[f])
    BY <1>0 DEF OneFate
  <2>5. CASE q \in written[f]
    BY <1>0, <2>1, <2>2, <2>3, <2>4, <2>5 DEF Accounted, Unrecorded, Metric
  <2>6. CASE q \in rejected[f]
    BY <1>0, <2>1, <2>2, <2>3, <2>4, <2>6 DEF Accounted, Unrecorded, Metric
  <2>7. CASE q \notin written[f] \cup rejected[f]
    BY <1>0, <2>1, <2>2, <2>3, <2>7 DEF Accounted, Unrecorded, Metric
  <2> QED
    BY <2>1, <2>3, <2>5, <2>6, <2>7
<1> QED
  BY <1>1, <1>2, <1>3, <1>4, <1>5, <1>6, <1>7 DEF FlushStep

\* The searches the counters and the refusals speak of, and where they are.
Owed(q) == metrics["received"][q] + refused[q]
Seen(q) ==
    metrics["executed"][q] + metrics["avoided"][q] + metrics["dropped"][q]
      + Waiting(q) + Unrecorded("loop", q) + Unrecorded("final", q)

\* At every moment the counters of this life and what it still holds add up to the
\* searches it accepted or refused, for any batches, outages and lost replies.
THEOREM CountersBalance == Spec => []MetricsAccountForEveryEvent
<1>1. Init => MetricsAccountForEveryEvent
  <2> SUFFICES ASSUME Init PROVE MetricsAccountForEveryEvent
    OBVIOUS
  <2>1. ASSUME NEW q \in Query
        PROVE  /\ \A m \in Metric : metrics[m][q] = 0
               /\ refused[q] = 0 /\ Waiting(q) = 0
               /\ \A f \in Flusher : Unrecorded(f, q) = 0
    BY NoneIsCounts DEF Init, NoMetrics, Waiting, InFlight, Unwritten, Unrecorded
  <2> QED
    BY <2>1 DEF MetricsAccountForEveryEvent, Metric
<1>2. JobInv /\ MetricsAccountForEveryEvent /\ [Next]_vars
        => MetricsAccountForEveryEvent'
  <2> SUFFICES ASSUME JobInv, MetricsAccountForEveryEvent, [Next]_vars,
                      NEW q \in Query
               PROVE  Owed(q)' = Seen(q)'
    BY DEF MetricsAccountForEveryEvent, Owed, Seen
  <2>0. TypeOK /\ TypeOK' /\ Owed(q) = Seen(q)
    BY JobStep DEF JobInv, MetricsAccountForEveryEvent, Owed, Seen
  <2>1. ASSUME NEW r \in Query, Search(r) PROVE Owed(q)' = Seen(q)'
    <3>1. /\ buffer'[q] = buffer[q] + (IF q = r THEN 1 ELSE 0)
          /\ metrics'["received"][q]
               = metrics["received"][q] + (IF q = r THEN 1 ELSE 0)
          /\ metrics'["executed"] = metrics["executed"]
          /\ metrics'["avoided"] = metrics["avoided"]
          /\ metrics'["dropped"] = metrics["dropped"]
          /\ UNCHANGED <<refused, todo, pending, snapshot, written, rejected>>
      BY <2>0, <2>1 DEF Search, TypeOK, Counts, Metric, jobVars
    <3>2. \A f \in Flusher : /\ InFlight(f, q)' = InFlight(f, q)
                             /\ Unrecorded(f, q)' = Unrecorded(f, q)
      BY <3>1 DEF InFlight, Unwritten, Unrecorded
    <3>3. /\ \A m \in Metric : metrics[m][q] \in Nat
          /\ refused[q] \in Nat /\ buffer[q] \in Nat
          /\ \A f \in Flusher : InFlight(f, q) \in Nat /\ Unrecorded(f, q) \in Nat
      BY <2>0, CountersAreNat
    <3>4. /\ Waiting(q) \in Nat
          /\ Waiting(q)' = Waiting(q) + (IF q = r THEN 1 ELSE 0)
      BY <3>1, <3>2, <3>3 DEF Waiting
    <3> QED
      BY <2>0, <3>1, <3>2, <3>3, <3>4 DEF Metric, Owed, Seen
  <2>2. ASSUME NEW r \in Query, Refuse(r) PROVE Owed(q)' = Seen(q)'
    <3>1. /\ refused'[q] = refused[q] + (IF q = r THEN 1 ELSE 0)
          /\ metrics'["dropped"][q]
               = metrics["dropped"][q] + (IF q = r THEN 1 ELSE 0)
          /\ metrics'["executed"] = metrics["executed"]
          /\ metrics'["avoided"] = metrics["avoided"]
          /\ metrics'["received"] = metrics["received"]
          /\ UNCHANGED <<buffer, todo, pending, snapshot, written, rejected>>
      BY <2>0, <2>2 DEF Refuse, TypeOK, Counts, Metric, jobVars
    <3>2. \A f \in Flusher : /\ InFlight(f, q)' = InFlight(f, q)
                             /\ Unrecorded(f, q)' = Unrecorded(f, q)
      BY <3>1 DEF InFlight, Unwritten, Unrecorded
    <3>3. /\ \A m \in Metric : metrics[m][q] \in Nat
          /\ refused[q] \in Nat /\ buffer[q] \in Nat
          /\ \A f \in Flusher : InFlight(f, q) \in Nat /\ Unrecorded(f, q) \in Nat
      BY <2>0, CountersAreNat
    <3> QED
      BY <2>0, <3>1, <3>2, <3>3 DEF Waiting, Metric, Owed, Seen
  <2>3. CASE \/ IntervalElapses \/ Stop \/ Start \/ Tick \/ LoopExits \/ Joined
             \/ DbFails \/ HungDbBreaks \/ DbRecovers \/ UNCHANGED vars
    <3>1. UNCHANGED <<buffer, refused, todo, pending, snapshot, written, rejected,
                      metrics>>
      BY <2>3 DEF IntervalElapses, Stop, Start, Tick, LoopExits, Joined,
                  DbFails, HungDbBreaks, DbRecovers, vars, bufferVars, jobVars
    <3>2. Owed(q)' = Owed(q) /\ Seen(q)' = Seen(q)
      BY <3>1 DEF Waiting, InFlight, Unwritten, Unrecorded, Owed, Seen
    <3> QED
      BY <2>0, <3>2
  <2>4. ASSUME NEW f \in Flusher, FlushStep(f) PROVE Owed(q)' = Seen(q)'
    <3>1. PICK g \in Flusher : Flusher = {f, g} /\ g # f
      OBVIOUS
    <3>2. /\ InFlight(g, q)' = InFlight(g, q)
          /\ Unrecorded(g, q)' = Unrecorded(g, q)
      BY <2>0, <2>4, <3>1, FlushIsLocal DEF InFlight, Unwritten, Unrecorded
    <3>3. \A h \in Flusher : /\ InFlight(h, q) \in Nat /\ InFlight(h, q)' \in Nat
                             /\ Unrecorded(h, q) \in Nat /\ Unrecorded(h, q)' \in Nat
      BY <2>0 DEF TypeOK, Counts, InFlight, Unrecorded
    <3>4. /\ \A m \in Metric : metrics[m][q] \in Nat /\ metrics'[m][q] \in Nat
          /\ buffer[q] \in Nat /\ buffer'[q] \in Nat
      BY <2>0 DEF TypeOK, Counts
    <3>5. /\ Seen(q) = Accounted(f, q) + (InFlight(g, q) + Unrecorded(g, q))
          /\ Seen(q)' = Accounted(f, q)' + (InFlight(g, q)' + Unrecorded(g, q)')
      <4>1. CASE f = "loop" /\ g = "final"
        BY <3>3, <3>4, <4>1 DEF Waiting, Accounted, Metric, Seen
      <4>2. CASE f = "final" /\ g = "loop"
        BY <3>3, <3>4, <4>2 DEF Waiting, Accounted, Metric, Seen
      <4> QED
        BY <3>1, <4>1, <4>2
    <3>6. Owed(q)' = Owed(q) /\ Accounted(f, q)' = Accounted(f, q)
      BY <2>4, FlushAccount DEF Owed
    <3> QED
      BY <2>0, <3>2, <3>5, <3>6
  <2>5. ASSUME NEW landed, Exit(landed) \/ Crash(landed) PROVE Owed(q)' = Seen(q)'
    <3>1. Die(landed)
      BY <2>5 DEF Exit, Crash
    <3>2. /\ Waiting(q)' = 0
          /\ \A f \in Flusher : Unrecorded(f, q)' = 0
      BY <3>1, NoneIsCounts DEF Die, Waiting, InFlight, Unwritten, Unrecorded
    <3>3. refused'[q] = 0 /\ \A m \in Metric : metrics'[m][q] = 0
      BY <3>1, NoneIsCounts DEF Die, NoMetrics
    <3> QED
      BY <3>2, <3>3 DEF Metric, Owed, Seen
  <2> QED
    BY <2>1, <2>2, <2>3, <2>4, <2>5 DEF Next
<1> QED
  BY <1>1, <1>2, JobInvariant, PTL DEF Spec

-----------------------------------------------------------------------------
(* A database that never failed: bisection finds exactly the bad rows, and *)
(* nothing else is lost.                                                   *)

\* While no outage has happened a batch comes to a ping only because it holds a bad
\* row, so no row is ever pending and rows are sorted into written and rejected.
Sorted(f) ==
    /\ phase[f] # "requeue"
    /\ pending[f] = {}
    /\ Placed(f) = Keys(snapshot[f])
    /\ written[f] \cap Bad = {}
    /\ rejected[f] \subseteq Bad
    /\ phase[f] = "ping" =>
         \A batch \in todo[f] : IsCurrent(f, batch) => batch \cap Bad # {}

\* Once the final flush has taken the buffer it stays empty, wherever the loop is: searches
\* have ended, and on a healthy database the loop puts nothing back.
CleanShutdown ==
    stage = "flushing" => phase["final"] = "swap" \/ buffer = None

NothingGoodLost ==
    /\ \A q \in Query \ Bad : dropped[q] = 0
    /\ shed = None
    /\ ~crashed => \A q \in Query : lost[q] > 0 => q \in abandoned

HealthyInv ==
    outages = 0 =>
        /\ db = "up"
        /\ \A f \in Flusher : Sorted(f)
        /\ CleanShutdown
        /\ NothingGoodLost

\* The recursion is at one batch at a time.
LEMMA CurrentIsUnique ==
    ASSUME TypeOK, NEW f \in Flusher, NEW a, NEW b, IsCurrent(f, a), IsCurrent(f, b)
    PROVE  a = b
<1> SUFFICES ASSUME a # b PROVE FALSE
  OBVIOUS
<1>1. PICK p \in a : \A r \in b : p < r
  BY DEF IsCurrent
<1>2. PICK r \in b : \A s \in a : r < s
  BY DEF IsCurrent
<1>3. p \in Nat /\ r \in Nat
  BY QueryAssumption DEF IsCurrent, TypeOK
<1> QED
  BY <1>1, <1>2, <1>3

\* A flusher whose own variables do not change stays sorted.
LEMMA SameSorted ==
    ASSUME NEW f \in Flusher, Sorted(f),
           phase'[f] = phase[f], snapshot'[f] = snapshot[f], todo'[f] = todo[f],
           written'[f] = written[f], rejected'[f] = rejected[f],
           pending'[f] = pending[f]
    PROVE  Sorted(f)'
BY DEF Sorted, Placed, Unwritten, Keys, IsCurrent

\* A flusher without a job is sorted.
LEMMA EmptySorted ==
    ASSUME NEW f \in Flusher,
           snapshot'[f] = None, todo'[f] = {}, written'[f] = {},
           rejected'[f] = {}, pending'[f] = {},
           phase'[f] \notin {"ping", "requeue"}
    PROVE  Sorted(f)'
<1>1. Keys(snapshot[f])' = {}
  BY NoneIsCounts DEF Keys
<1> QED
  BY <1>1 DEF Sorted, Placed, Unwritten

\* A flush that returns has no rows left to sort.
LEMMA ReturnSorted ==
    ASSUME TypeOK, NEW f \in Flusher, Return(f)
    PROVE  Sorted(f)'
<1>1. /\ snapshot'[f] = None /\ todo'[f] = {} /\ written'[f] = {}
      /\ rejected'[f] = {} /\ pending'[f] = {}
      /\ phase'[f] \in {"idle", "done"}
  BY DEF Return, TypeOK
<1> QED
  BY <1>1, EmptySorted

\* A batch that is dropped is one bad row.
LEMMA DroppedIsBad ==
    ASSUME JobInv, NEW f \in Flusher, Sorted(f), NEW batch \in todo[f], DropRow(f, batch)
    PROVE  batch \subseteq Bad
<1>1. /\ Cardinality(batch) = 1 /\ batch \cap Bad # {}
      /\ batch \subseteq Query
  BY DEF DropRow, Sorted, JobInv, TypeOK
<1>2. IsFiniteSet(batch)
  BY <1>1, QueryAssumption, FS_Subset
<1>3. PICK q : batch = {q}
  BY <1>1, <1>2, FS_Singleton
<1> QED
  BY <1>1, <1>3

\* A flush of a database that never failed puts good rows among the written, bad ones among
\* the rejected.
LEMMA FlushSorts ==
    ASSUME JobInv, NEW f \in Flusher, Sorted(f), FlushStep(f),
           db = "up", outages = 0, outages' = 0
    PROVE  Sorted(f)'
<1>0. TypeOK /\ Shape(f) /\ OneFate(f)
  BY DEF JobInv
<1>1. CASE Swap(f)
  <2>1. CASE Return(f)
    BY <1>0, <2>1, ReturnSorted
  <2>2. CASE ~Return(f)
    <3>1. /\ phase'[f] = "write" /\ snapshot'[f] = buffer /\ todo'[f] = {Keys(buffer)}
          /\ written'[f] = {} /\ rejected'[f] = {} /\ pending'[f] = {}
      BY <1>0, <1>1, <2>2 DEF Swap, Shape, TypeOK
    <3>2. Keys(snapshot[f])' = Keys(buffer)
      BY <3>1 DEF Keys
    <3> QED
      BY <3>1, <3>2 DEF Sorted, Placed, Unwritten
  <2> QED
    BY <2>1, <2>2
<1>2. ASSUME NEW batch \in todo[f], BatchCommits(f, batch) \/ DropRow(f, batch)
      PROVE  Sorted(f)'
  <2>1. /\ todo'[f] = todo[f] \ {batch}
        /\ snapshot'[f] = snapshot[f] /\ pending'[f] = pending[f]
        /\ \/ /\ written'[f] = written[f] \cup batch /\ rejected'[f] = rejected[f]
              /\ batch \cap Bad = {}
           \/ /\ rejected'[f] = rejected[f] \cup batch /\ written'[f] = written[f]
              /\ batch \subseteq Bad
    BY <1>0, <1>2, DroppedIsBad DEF BatchCommits, DropRow, TypeOK
  <2>2. phase'[f] \in {"write", "settle"}
    BY <1>0, <1>2 DEF BatchCommits, DropRow, TypeOK, Sorted, After
  <2>3. Unwritten(f)' = Unwritten(f) \ batch /\ batch \subseteq Unwritten(f)
    BY <1>0, <2>1, TakeBatch DEF OneFate, Unwritten
  <2>4. Placed(f)' = Placed(f) /\ Keys(snapshot[f])' = Keys(snapshot[f])
    BY <2>1, <2>3 DEF Placed, Keys
  <2> QED
    BY <2>1, <2>2, <2>4 DEF Sorted
<1>3. ASSUME NEW batch \in todo[f], BatchFails(f, batch) PROVE Sorted(f)'
  <2>1. /\ UNCHANGED <<snapshot, todo, written, rejected, pending>>
        /\ phase'[f] = "ping"
        /\ IsCurrent(f, batch) /\ batch \cap Bad # {}
    BY <1>0, <1>3 DEF BatchFails, TypeOK
  <2>2. \A b \in todo[f] : IsCurrent(f, b) => b \cap Bad # {}
    BY <1>0, <2>1, CurrentIsUnique
  <2>3. \A b : IsCurrent(f, b)' <=> IsCurrent(f, b)
    BY <2>1 DEF IsCurrent
  <2>4. Placed(f)' = Placed(f) /\ Keys(snapshot[f])' = Keys(snapshot[f])
    BY <2>1 DEF Placed, Unwritten, Keys
  <2> QED
    BY <2>1, <2>2, <2>3, <2>4 DEF Sorted
<1>4. ASSUME NEW batch \in todo[f], Bisect(f, batch) PROVE Sorted(f)'
  <2>1. /\ phase'[f] = "write"
        /\ todo'[f] = (todo[f] \ {batch}) \cup Halves(batch)
        /\ UNCHANGED <<snapshot, written, rejected, pending>>
    BY <1>0, <1>4 DEF Bisect, TypeOK
  <2>2. Unwritten(f)' = Unwritten(f)
    BY <1>0, <2>1, TakeBatch DEF OneFate, Unwritten
  <2>3. Placed(f)' = Placed(f) /\ Keys(snapshot[f])' = Keys(snapshot[f])
    BY <2>1, <2>2 DEF Placed, Keys
  <2> QED
    BY <2>1, <2>3 DEF Sorted
<1>5. CASE SettleRows(f)
  BY <1>0, <1>5, ReturnSorted DEF SettleRows
<1>6. ASSUME NEW batch \in todo[f], CommitReplyLost(f, batch) \/ PingFails(f, batch)
      PROVE  FALSE
  BY <1>6 DEF CommitReplyLost, PingFails
<1>7. ASSUME NEW restored, Requeue(f, restored) PROVE FALSE
  BY <1>7 DEF Requeue, Sorted
<1> QED
  BY <1>1, <1>2, <1>3, <1>4, <1>5, <1>6, <1>7 DEF FlushStep

\* A flush of a healthy database drops bad rows only and sheds none.
LEMMA FlushKeepsGood ==
    ASSUME JobInv, NEW f \in Flusher, Sorted(f), FlushStep(f), NothingGoodLost
    PROVE  NothingGoodLost' /\ (buffer' = buffer \/ buffer' = None)
<1>1. ASSUME NEW batch \in todo[f], DropRow(f, batch)
      PROVE  NothingGoodLost' /\ buffer' = buffer
  <2>1. batch \subseteq Bad
    BY <1>1, DroppedIsBad
  <2>2. /\ dropped' = Add(dropped, batch, snapshot[f])
        /\ UNCHANGED <<shed, lost, crashed, abandoned, buffer>>
    BY <1>1 DEF DropRow, processVars, bufferVars
  <2>3. \A q \in Query \ Bad : dropped'[q] = dropped[q]
    BY <2>1, <2>2 DEF Add
  <2> QED
    BY <2>2, <2>3 DEF NothingGoodLost
<1>2. ASSUME NEW restored, Requeue(f, restored) PROVE FALSE
  BY <1>2 DEF Requeue, Sorted
<1>3. ASSUME NEW batch \in todo[f],
             \/ BatchCommits(f, batch) \/ BatchFails(f, batch)
             \/ CommitReplyLost(f, batch) \/ PingFails(f, batch) \/ Bisect(f, batch)
      PROVE  UNCHANGED <<dropped, shed, lost, crashed, abandoned, buffer>>
  BY <1>3 DEF BatchCommits, BatchFails, CommitReplyLost, PingFails, Bisect,
              fateVars, processVars, bufferVars
<1>4. CASE Swap(f) \/ SettleRows(f)
  <2>1. /\ UNCHANGED <<dropped, shed, lost, crashed, abandoned>>
        /\ buffer' = buffer \/ buffer' = None
    BY <1>4 DEF Swap, SettleRows, fateVars, processVars, bufferVars
  <2> QED
    BY <2>1 DEF NothingGoodLost
<1> QED
  BY <1>1, <1>2, <1>3, <1>4 DEF FlushStep, NothingGoodLost

\* When stop() has returned, what still waits in memory is in a flush of the loop.
LEMMA ExitCutsOffTheLoop ==
    ASSUME JobInv, NEW landed, NEW q \in Query,
           CleanShutdown, stage = "flushing", phase["final"] = "done",
           Waiting(q) - Landed(landed, q) > 0
    PROVE  InFlight("loop", q) > 0
<1>1. TypeOK /\ Shape("final")
  BY DEF JobInv
<1>2. buffer[q] = 0
  BY NoneIsCounts DEF CleanShutdown
<1>3. InFlight("final", q) = 0
  BY <1>1 DEF Shape, InFlight, Unwritten
<1>4. InFlight("loop", q) \in Nat
  BY <1>1 DEF TypeOK, Counts, InFlight
<1>5. Waiting(q) = InFlight("loop", q)
  BY <1>2, <1>3, <1>4 DEF Waiting
<1> QED
  BY <1>1, <1>4, <1>5, LandedIsWaiting

\* Of a flush only a lost reply tells something about the database.
LEMMA FlushDatabase ==
    ASSUME NEW f \in Flusher, FlushStep(f)
    PROVE  UNCHANGED dbVars \/ \E batch \in todo[f] : CommitReplyLost(f, batch)
BY DEF FlushStep, Swap, BatchCommits, BatchFails, PingFails, Bisect, DropRow,
       Requeue, SettleRows

\* Outages are counted, never forgotten.
LEMMA OutagesOnlyGrow ==
    ASSUME TypeOK, [Next]_vars
    PROVE  outages' = 0 => outages = 0
<1>0. outages \in Nat
  BY LimitsAssumption DEF TypeOK
<1>1. ASSUME NEW f \in Flusher, FlushStep(f)
      PROVE  outages' = outages \/ outages' = outages + 1
  BY <1>1, FlushDatabase DEF CommitReplyLost, dbVars
<1>2. CASE DbFails
  BY <1>0, <1>2 DEF DbFails
<1>3. CASE \/ \E q \in Query : Search(q) \/ Refuse(q)
           \/ IntervalElapses \/ Tick \/ LoopExits \/ Stop \/ Joined
           \/ Start \/ HungDbBreaks \/ DbRecovers \/ UNCHANGED vars
  BY <1>3 DEF Search, Refuse, IntervalElapses, Tick, LoopExits, Stop, Joined, Start,
              HungDbBreaks, DbRecovers, vars, dbVars
<1>4. ASSUME NEW landed, Exit(landed) \/ Crash(landed) PROVE outages' = outages
  BY <1>4 DEF Exit, Crash, Die, dbVars
<1> QED
  BY <1>0, <1>1, <1>2, <1>3, <1>4 DEF Next

\* Every step of a run without outages keeps HealthyInv.
LEMMA HealthyStep ==
    ASSUME JobInv, HealthyInv, [Next]_vars
    PROVE  HealthyInv'
<1> SUFFICES ASSUME outages' = 0
             PROVE  /\ db' = "up"
                    /\ \A f \in Flusher : Sorted(f)'
                    /\ CleanShutdown' /\ NothingGoodLost'
  BY DEF HealthyInv
<1>0. /\ TypeOK
      /\ stage # "flushing" => phase["final"] = "idle"
  BY DEF JobInv
<1>1. outages = 0
  BY <1>0, OutagesOnlyGrow
<1>2. /\ db = "up" /\ CleanShutdown /\ NothingGoodLost
      /\ \A f \in Flusher : Sorted(f)
  BY <1>1 DEF HealthyInv
<1>3. CASE \/ \E q \in Query : Search(q) \/ Refuse(q)
           \/ IntervalElapses \/ Stop \/ Start
           \/ DbFails \/ HungDbBreaks \/ DbRecovers \/ UNCHANGED vars
  <2>1. UNCHANGED jobVars /\ UNCHANGED fateVars /\ UNCHANGED <<crashed, abandoned>>
    BY <1>3, QuietSteps DEF Search, Refuse, IntervalElapses, Stop, Start, DbFails,
         HungDbBreaks, DbRecovers, vars, processVars
  <2>2. db' = "up"
    BY <1>1, <1>2, <1>3 DEF Search, Refuse, IntervalElapses, Stop, Start, DbFails,
         HungDbBreaks, DbRecovers, vars, dbVars
  <2>3. stage' = "flushing" => stage = "flushing" /\ buffer' = buffer
    BY <1>3 DEF Search, Refuse, IntervalElapses, Stop, Start, DbFails,
         HungDbBreaks, DbRecovers, vars, processVars, bufferVars
  <2>4. CleanShutdown' /\ NothingGoodLost'
    BY <1>2, <2>1, <2>3 DEF CleanShutdown, NothingGoodLost, jobVars, fateVars
  <2>5. \A f \in Flusher : Sorted(f)'
    BY <1>2, <2>1, SameSorted DEF jobVars
  <2> QED
    BY <2>2, <2>4, <2>5
<1>4. CASE Tick \/ LoopExits \/ Joined
  <2>1. /\ UNCHANGED <<snapshot, todo, written, rejected, pending, buffer, db>>
        /\ UNCHANGED <<crashed, abandoned>> /\ UNCHANGED fateVars
    BY <1>4 DEF Tick, LoopExits, Joined, dbVars, bufferVars, processVars
  <2>2. ASSUME NEW f \in Flusher PROVE Sorted(f)'
    <3>1. phase'[f] = phase[f] \/ phase'[f] \in {"swap", "exited"}
      BY <1>0, <1>4 DEF Tick, LoopExits, Joined, TypeOK
    <3>2. Placed(f)' = Placed(f) /\ Keys(snapshot[f])' = Keys(snapshot[f])
      BY <2>1 DEF Placed, Unwritten, Keys
    <3>3. \A b : IsCurrent(f, b)' <=> IsCurrent(f, b)
      BY <2>1 DEF IsCurrent
    <3> QED
      BY <1>2, <2>1, <3>1, <3>2, <3>3 DEF Sorted
  <2>3. CleanShutdown'
    <3>1. CASE Joined
      BY <1>0, <1>2, <3>1 DEF Joined, CleanShutdown, TypeOK
    <3>2. CASE Tick \/ LoopExits
      BY <1>0, <1>2, <2>1, <3>2 DEF Tick, LoopExits, CleanShutdown, TypeOK, processVars
    <3> QED
      BY <1>4, <3>1, <3>2
  <2> QED
    BY <1>2, <2>1, <2>2, <2>3 DEF NothingGoodLost, fateVars
<1>5. ASSUME NEW f \in Flusher, FlushStep(f)
      PROVE  /\ db' = "up"
             /\ \A g \in Flusher : Sorted(g)'
             /\ CleanShutdown' /\ NothingGoodLost'
  <2>1. /\ stage' = stage
        /\ phase[f] \notin {"idle", "exited", "done"}
        /\ \A g \in Flusher \ {f} : phase'[g] = phase[g]
    BY <1>0, <1>5, FlushIsLocal
  <2>2. \A g \in Flusher : Sorted(g)'
    BY <1>0, <1>1, <1>2, <1>5, FlushSorts, FlushIsLocal, SameSorted
  <2>3. NothingGoodLost' /\ (buffer' = buffer \/ buffer' = None)
    BY <1>2, <1>5, FlushKeepsGood
  <2>4. CleanShutdown'
    <3> SUFFICES ASSUME stage' = "flushing", phase'["final"] # "swap"
                 PROVE  buffer' = None
      BY DEF CleanShutdown
    <3>1. CASE phase["final"] = "swap"
      <4>1. f = "final"
        BY <2>1, <3>1
      <4>2. Swap(f)
        BY <1>5, <3>1, <4>1 DEF FlushStep, BatchCommits, BatchFails, CommitReplyLost,
             PingFails, Bisect, DropRow, Requeue, SettleRows
      <4> QED
        BY <4>2 DEF Swap
    <3>2. CASE buffer = None
      BY <2>3, <3>2
    <3> QED
      BY <1>2, <2>1, <3>1, <3>2 DEF CleanShutdown
  <2>5. db' = "up"
    <3>1. ASSUME NEW batch \in todo[f], CommitReplyLost(f, batch) PROVE outages' = 1
      BY <1>1, <3>1 DEF CommitReplyLost
    <3>2. db' = db \/ \E batch \in todo[f] : CommitReplyLost(f, batch)
      BY <1>5, FlushDatabase DEF dbVars
    <3> QED
      BY <1>2, <3>1, <3>2
  <2> QED
    BY <2>1, <2>2, <2>3, <2>4, <2>5 DEF CleanShutdown
<1>6. ASSUME NEW landed, Exit(landed) \/ Crash(landed)
      PROVE  /\ db' = "up"
             /\ \A f \in Flusher : Sorted(f)'
             /\ CleanShutdown' /\ NothingGoodLost'
  <2>1. Die(landed)
    BY <1>6 DEF Exit, Crash
  <2>2. db' = "up" /\ stage' = "dead"
    BY <1>2, <2>1 DEF Die, dbVars
  <2>3. ASSUME NEW f \in Flusher PROVE Sorted(f)'
    BY <2>1, EmptySorted DEF Die
  <2>4. dropped' = dropped /\ shed' = shed
    BY <2>1 DEF Die
  <2>5. ASSUME ~crashed', NEW q \in Query, lost'[q] > 0
        PROVE  q \in abandoned'
    <3>1. /\ Exit(landed)
          /\ lost[q] > 0 => q \in abandoned
      BY <1>2, <1>6, <2>5 DEF Exit, Crash, NothingGoodLost
    <3>2. /\ lost'[q] = lost[q] + (Waiting(q) - Landed(landed, q))
          /\ lost[q] \in Nat /\ Waiting(q) - Landed(landed, q) \in Nat
      BY <1>0, <2>1, LandedIsWaiting DEF Die, TypeOK, Counts
    <3>3. CASE Waiting(q) - Landed(landed, q) > 0
      BY <1>2, <3>1, <3>3, ExitCutsOffTheLoop DEF Exit
    <3>4. CASE Waiting(q) - Landed(landed, q) = 0
      BY <2>5, <3>1, <3>2, <3>4 DEF Exit
    <3> QED
      BY <3>2, <3>3, <3>4
  <2> QED
    BY <1>2, <2>2, <2>3, <2>4, <2>5 DEF CleanShutdown, NothingGoodLost
<1> QED
  BY <1>3, <1>4, <1>5, <1>6 DEF Next

\* HealthyInv holds of every run, and says something until the first outage.
LEMMA HealthyInvariant == Spec => []HealthyInv
<1>1. Init => HealthyInv
  <2> SUFFICES ASSUME Init PROVE HealthyInv
    OBVIOUS
  <2>1. ASSUME NEW f \in Flusher PROVE Sorted(f)
    <3>1. Keys(snapshot[f]) = {}
      BY NoneIsCounts DEF Init, Keys
    <3> QED
      BY <3>1 DEF Init, Sorted, Placed, Unwritten
  <2> QED
    BY <2>1, NoneIsCounts DEF Init, HealthyInv, CleanShutdown, NothingGoodLost
<1> QED
  BY <1>1, HealthyStep, JobInvariant, PTL DEF Spec

\* Without an outage bisection writes every good row of a batch and rejects every bad
\* one, for batches of any size and any spread of the bad rows.
THEOREM BisectionIsExact == Spec => []BisectionIsolatesBadRows
<1>1. JobInv /\ HealthyInv => BisectionIsolatesBadRows
  <2> SUFFICES ASSUME JobInv, HealthyInv, NEW f \in Flusher,
                      phase[f] = "settle", outages = 0
               PROVE  /\ written[f] = Keys(snapshot[f]) \ Bad
                      /\ rejected[f] = Keys(snapshot[f]) \cap Bad
    BY DEF BisectionIsolatesBadRows
  <2>1. /\ Sorted(f)
        /\ todo[f] = {}
    BY DEF HealthyInv, JobInv, Shape
  <2>2. written[f] \cup rejected[f] = Keys(snapshot[f])
    BY <2>1 DEF Sorted, Placed, Unwritten
  <2> QED
    BY <2>1, <2>2 DEF Sorted
<1> QED
  BY <1>1, JobInvariant, HealthyInvariant, PTL

\* Without an outage only bad rows are dropped, none is shed, and a shutdown loses nothing
\* but what a flush of the loop still held that it did not wait for any longer.
THEOREM HealthyRunLosesNothing == Spec => []HealthyDatabaseLosesNothing
<1>1. HealthyInv => HealthyDatabaseLosesNothing
  BY DEF HealthyInv, NothingGoodLost, HealthyDatabaseLosesNothing
<1> QED
  BY <1>1, HealthyInvariant, PTL
=============================================================================
