------------------------- MODULE ScoreRefreshProofs -------------------------
(* Proofs about ScoreRefresh, for any number of drivers, trips, workers and  *)
(* expiration calls: an expiration run leaves every score exact, and the     *)
(* published board is the ranking of the committed scores.                   *)
EXTENDS ScoreRefresh, LeaderboardProofs

-----------------------------------------------------------------------------
(* The invariant *)

Shape ==
  /\ rating \in [Trips -> Ratings]
  /\ rowLock \in [Drivers -> Processes \cup {None}]
  /\ pc \in [Processes -> Phases]
  /\ todo \in [Processes -> SUBSET Drivers]
  /\ DOMAIN at = Processes /\ DOMAIN work = Processes /\ DOMAIN dirty = Processes
  /\ \A p \in Processes :
       /\ DOMAIN work[p] = {"driver", "new", "old"} /\ DOMAIN dirty[p] = Drivers
       /\ pc[p] \in {"aggregated", "loaded", "inserted"} => work[p].driver \in Drivers

(* An expiration run that has the city. *)
Running(x) == pc[x] \in {"batch", "aggregated", "loaded", "inserted"}

(* The driver whose new score the run has not written yet. *)
InHand(x, d) == pc[x] \in {"aggregated", "loaded"} /\ d = work[x].driver

Exact(x, d) == ScoreOf(rating, d, EffectiveAt[x])

(* While a run has the city no review changes and no other transaction       *)
(* commits scores, so that what it aggregated and loaded stays true: of the  *)
(* drivers it is done with it sees the exact scores.                         *)
RunInv(x) ==
  IF ~Running(x) THEN \A d \in Drivers : rowLock[d] # x
  ELSE
    /\ cityLock = x /\ at[x] = EffectiveAt[x]
    /\ \A d \in todo[x] : rowLock[d] # x
    /\ \A d \in Drivers : InHand(x, d) =>
         /\ d \notin todo[x] /\ rowLock[d] # x
         /\ work[x].new = Exact(x, d)
         /\ pc[x] = "loaded" => work[x].old = score[d]
    /\ pc[x] = "inserted" => work[x].driver \notin todo[x]
    /\ \A d \in Drivers \ todo[x] : InHand(x, d) \/ View(x)[d] = Exact(x, d)

IInv == Shape /\ (\A x \in Expirers : RunInv(x)) /\ PublishedIsRanking

-----------------------------------------------------------------------------
(* Lemmas about rows *)

(* Updating a row that is as it was loaded stores the new row whole.         *)
LEMMA MergeUnchanged ==
  ASSUME NEW old, NEW r, NEW d, NEW t
  PROVE  Merge(old, old, ScoreOf(r, d, t)) = ScoreOf(r, d, t)
BY DEF Merge, ScoreOf

(* A score is a row, hence no missing one. *)
LEMMA ScoreIsRow ==
  ASSUME NEW r \in [Trips -> Ratings], NEW d, NEW t \in Nat
  PROVE  ScoreOf(r, d, t) \in Rows /\ ScoreOf(r, d, t) # None
<1>1. \A e \in Trips : r[e] \in Nat
  BY CityAssumption
<1>2. ScoreOf(r, d, t) \in Rows
  BY <1>1, ScoreType DEF Rows
<1> QED BY <1>2, RowsAssumption

(* Rows that agree on what an expiration compares have the same standing.    *)
LEMMA SameStanding ==
  ASSUME NEW r, NEW s,
         \A d \in Drivers : /\ r[d] # None /\ s[d] # None
                            /\ r[d].sum = s[d].sum /\ r[d].count = s[d].count
                            /\ r[d].eligible = s[d].eligible
  PROVE  Standing(r) = Standing(s)
<1>1. {d \in Drivers : r[d] # None /\ r[d].eligible} = {d \in Drivers : s[d] # None /\ s[d].eligible}
  OBVIOUS
<1> QED BY <1>1 DEF Standing

-----------------------------------------------------------------------------
(* Initial states *)

LEMMA Initially == Init => IInv
<1> SUFFICES ASSUME Init PROVE IInv
  OBVIOUS
<1>1. Shape
  BY RowsAssumption DEF Init, Shape, NoScores, NoWork, Phases
<1>2. \A x \in Expirers : RunInv(x)
  BY ProcessesAssumption DEF Init, RunInv, Running, Processes
<1>3. PublishedIsRanking
  BY DEF Init, PublishedIsRanking
<1> QED BY <1>1, <1>2, <1>3 DEF IInv

-----------------------------------------------------------------------------
(* Shape *)

LEMMA EndKeepsShape ==
  ASSUME Shape, NEW p \in Processes, NEW place \in {"idle", "done"},
         EndTransaction(p, place), rating' = rating
  PROVE  Shape'
BY DEF Shape, EndTransaction, NoWork, NoScores, Phases

LEMMA RecalculationKeepsShape ==
  ASSUME Shape, NEW p \in Processes, Recalculate(p)
  PROVE  Shape'
<1> USE DEF Shape, Phases
<1>1. CASE Aggregate(p)
  BY <1>1 DEF Aggregate, tables, rowlocks
<1>2. CASE Load(p)
  BY <1>2 DEF Load, tables, rowlocks
<1>3. CASE FlushUpdate(p)
  BY <1>3 DEF FlushUpdate, tables, NoWork
<1>4. CASE FlushInsert(p)
  BY <1>4 DEF FlushInsert, tables
<1>5. CASE ReferenceCity(p)
  BY <1>5 DEF ReferenceCity, tables, NoWork
<1> QED BY <1>1, <1>2, <1>3, <1>4, <1>5 DEF Recalculate

LEMMA WorkerKeepsShape ==
  ASSUME Shape, NEW w \in Workers, WorkerStep(w) \/ FailBatch(w)
  PROVE  Shape'
<1>0. w \in Processes
  BY DEF Processes
<1>1. CASE Claim(w)
  BY <1>0, <1>1 DEF Claim, Shape, Phases, rowlocks
<1>2. CASE Recalculate(w)
  BY <1>0, <1>2, RecalculationKeepsShape
<1>3. CASE PublishAndCommit(w)
  BY <1>0, <1>3, EndKeepsShape DEF PublishAndCommit
<1>4. CASE RollBack(w)
  BY <1>0, <1>4, EndKeepsShape DEF RollBack
<1> QED BY <1>1, <1>2, <1>3, <1>4 DEF WorkerStep, DuplicateRow, RefuseEntry, CancelBatch, FailBatch

LEMMA ExpirerKeepsShape ==
  ASSUME Shape, NEW x \in Expirers, ExpirerStep(x) \/ FailExpiration(x)
  PROVE  Shape'
<1>0. x \in Processes
  BY DEF Processes
<1>1. CASE CheckExpiration(x)
  BY <1>0, <1>1 DEF CheckExpiration, Shape, Phases, tables, rowlocks, local
<1>2. CASE LockCity(x)
  BY <1>0, <1>2 DEF LockCity, Shape, Phases, tables
<1>3. CASE Recalculate(x)
  BY <1>0, <1>3, RecalculationKeepsShape
<1>4. CASE CommitExpiration(x)
  BY <1>0, <1>4, EndKeepsShape DEF CommitExpiration
<1>5. CASE RollBackExpiration(x)
  BY <1>0, <1>5, EndKeepsShape DEF RollBackExpiration, tables
<1> QED BY <1>1, <1>2, <1>3, <1>4, <1>5
        DEF ExpirerStep, RejectSecondRun, CancelExpiration, FailExpiration

-----------------------------------------------------------------------------
(* Steps of others leave a run alone *)

(* Nothing a run relies on changes: its own variables and row locks, and the *)
(* reviews and scores while it has the city.                                 *)
Undisturbed(x) ==
  /\ pc'[x] = pc[x] /\ todo'[x] = todo[x] /\ at'[x] = at[x]
  /\ work'[x] = work[x] /\ dirty'[x] = dirty[x]
  /\ \A d \in Drivers : rowLock'[d] = x <=> rowLock[d] = x
  /\ cityLock = x => cityLock' = x /\ rating' = rating /\ score' = score

LEMMA UndisturbedRun ==
  ASSUME Shape, NEW x \in Expirers, RunInv(x), Undisturbed(x)
  PROVE  RunInv(x)'
<1>1. CASE ~Running(x)
  BY <1>1 DEF RunInv, Undisturbed, Running
<1>2. CASE Running(x)
  <2>1. cityLock = x
    BY <1>2 DEF RunInv
  <2>2. Running(x)' /\ cityLock' = x /\ rating' = rating /\ score' = score
    BY <1>2, <2>1 DEF Undisturbed, Running
  <2>3. \A d \in Drivers : Exact(x, d)' = Exact(x, d)
    BY <2>2 DEF Exact
  <2>4. \A d \in Drivers : View(x)'[d] = View(x)[d]
    BY <2>2 DEF View, Undisturbed
  <2>5. \A d \in Drivers : InHand(x, d)' <=> InHand(x, d)
    BY DEF InHand, Undisturbed
  <2>6. /\ cityLock' = x /\ at'[x] = EffectiveAt[x]
        /\ \A d \in todo'[x] : rowLock'[d] # x
        /\ pc'[x] = "inserted" => work'[x].driver \notin todo'[x]
    BY <1>2, <2>2 DEF RunInv, Undisturbed, Shape, Processes
  <2>7. \A d \in Drivers : InHand(x, d)' =>
          /\ d \notin todo'[x] /\ rowLock'[d] # x
          /\ work'[x].new = Exact(x, d)'
          /\ pc'[x] = "loaded" => work'[x].old = score'[d]
    BY <1>2, <2>2, <2>3, <2>5 DEF RunInv, Undisturbed
  <2>8. \A d \in Drivers \ todo'[x] : InHand(x, d)' \/ View(x)'[d] = Exact(x, d)'
    BY <1>2, <2>3, <2>4, <2>5 DEF RunInv, Undisturbed
  <2> QED BY <2>2, <2>6, <2>7, <2>8 DEF RunInv
<1> QED BY <1>1, <1>2

LEMMA EndOfAnother ==
  ASSUME Shape, NEW x \in Expirers, NEW p \in Processes \ {x}, NEW place,
         EndTransaction(p, place), rating' = rating, score' = score \/ cityLock \in {None, p}
  PROVE  Undisturbed(x)
BY ProcessesAssumption DEF Shape, EndTransaction, Undisturbed, Processes

LEMMA RecalculationOfAnother ==
  ASSUME Shape, NEW x \in Expirers, NEW p \in Processes \ {x}, Recalculate(p)
  PROVE  Undisturbed(x)
<1> USE ProcessesAssumption DEF Shape, Undisturbed, Processes
<1>1. CASE Aggregate(p)
  BY <1>1 DEF Aggregate, tables, rowlocks
<1>2. CASE Load(p)
  BY <1>2 DEF Load, tables, rowlocks
<1>3. CASE FlushUpdate(p)
  BY <1>3 DEF FlushUpdate, tables
<1>4. CASE FlushInsert(p)
  BY <1>4 DEF FlushInsert, tables
<1>5. CASE ReferenceCity(p)
  BY <1>5 DEF ReferenceCity, tables
<1> QED BY <1>1, <1>2, <1>3, <1>4, <1>5 DEF Recalculate

LEMMA WorkerLeavesRun ==
  ASSUME Shape, NEW x \in Expirers, NEW w \in Workers, WorkerStep(w) \/ FailBatch(w)
  PROVE  Undisturbed(x)
<1>0. w \in Processes \ {x}
  BY ProcessesAssumption DEF Processes
<1>1. CASE Claim(w)
  BY <1>0, <1>1, ProcessesAssumption DEF Claim, Shape, Undisturbed, rowlocks
<1>2. CASE Recalculate(w)
  BY <1>0, <1>2, RecalculationOfAnother
<1>3. CASE PublishAndCommit(w)
  BY <1>0, <1>3, EndOfAnother DEF PublishAndCommit, CityFree
<1>4. CASE RollBack(w)
  BY <1>0, <1>4, EndOfAnother DEF RollBack
<1> QED BY <1>1, <1>2, <1>3, <1>4 DEF WorkerStep, DuplicateRow, RefuseEntry, CancelBatch, FailBatch

LEMMA ExpirerLeavesRun ==
  ASSUME Shape, NEW x \in Expirers, NEW y \in Expirers \ {x}, RunInv(y),
         ExpirerStep(y) \/ FailExpiration(y)
  PROVE  Undisturbed(x)
<1>0. y \in Processes \ {x}
  BY DEF Processes
<1>1. CASE CheckExpiration(y)
  BY <1>0, <1>1 DEF CheckExpiration, Shape, Undisturbed, tables, rowlocks, local
<1>2. CASE LockCity(y)
  BY <1>0, <1>2, ProcessesAssumption DEF LockCity, CityFree, Shape, Undisturbed, tables, Processes
<1>3. CASE Recalculate(y)
  BY <1>0, <1>3, RecalculationOfAnother
<1>4. CASE CommitExpiration(y)
  <2>1. cityLock = y
    BY <1>4 DEF CommitExpiration, RunInv, Running
  <2> QED BY <1>0, <1>4, <2>1, EndOfAnother DEF CommitExpiration
<1>5. CASE RollBackExpiration(y)
  BY <1>0, <1>5, EndOfAnother DEF RollBackExpiration, tables
<1> QED BY <1>1, <1>2, <1>3, <1>4, <1>5
        DEF ExpirerStep, RejectSecondRun, CancelExpiration, FailExpiration

-----------------------------------------------------------------------------
(* The run's own steps *)

LEMMA EndedRun ==
  ASSUME Shape, NEW x \in Expirers, EndTransaction(x, "done")
  PROVE  RunInv(x)'
<1>1. x \in Processes /\ x # None
  BY ProcessesAssumption DEF Processes
<1>2. pc'[x] = "done" /\ \A d \in Drivers : rowLock'[d] # x
  BY <1>1 DEF Shape, EndTransaction
<1> QED BY <1>2 DEF RunInv, Running

LEMMA RunRecalculates ==
  ASSUME Shape, NEW x \in Expirers, RunInv(x), Recalculate(x)
  PROVE  RunInv(x)'
<1>0. x \in Processes /\ x # None
  BY ProcessesAssumption DEF Processes
<1>1. CASE Aggregate(x)
  <2>1. PICK d \in todo[x] :
          /\ work' = [work EXCEPT ![x] =
                       [driver |-> d, new |-> ScoreOf(rating, d, at[x]), old |-> None]]
          /\ todo' = [todo EXCEPT ![x] = @ \ {d}]
    BY <1>1 DEF Aggregate
  <2>2. /\ pc[x] = "batch" /\ pc'[x] = "aggregated"
        /\ UNCHANGED <<rating, score, rowLock, cityLock, at, dirty>>
    BY <1>0, <1>1 DEF Aggregate, Shape, tables, rowlocks
  <2>3. work'[x].driver = d /\ work'[x].new = ScoreOf(rating, d, at[x])
    BY <1>0, <2>1 DEF Shape
  <2>4. todo'[x] = todo[x] \ {d}
    BY <1>0, <2>1 DEF Shape
  <2> QED BY <2>2, <2>3, <2>4 DEF RunInv, Running, InHand, Exact, View
<1>2. CASE Load(x)
  <2>1. /\ pc[x] = "aggregated" /\ pc'[x] = "loaded"
        /\ UNCHANGED <<rating, score, rowLock, cityLock, at, dirty, todo>>
    BY <1>0, <1>2 DEF Load, Shape, tables, rowlocks
  <2>2. /\ work'[x].driver = work[x].driver /\ work'[x].new = work[x].new
        /\ work'[x].old = score[work[x].driver]
    BY <1>0, <1>2 DEF Load, Shape
  <2> QED BY <2>1, <2>2 DEF RunInv, Running, InHand, Exact, View
<1>3. CASE FlushUpdate(x)
  <2> DEFINE d == work[x].driver
  <2>1. /\ pc[x] = "loaded" /\ pc'[x] = "batch" /\ d \in Drivers
        /\ UNCHANGED <<rating, score, cityLock, at, todo>>
    BY <1>0, <1>3 DEF FlushUpdate, Shape, tables
  <2>2. /\ d \notin todo[x] /\ rowLock[d] # x /\ at[x] = EffectiveAt[x] /\ cityLock = x
        /\ work[x].new = Exact(x, d) /\ work[x].old = score[d]
    BY <2>1 DEF RunInv, Running, InHand
  <2>3. \A e \in Drivers \ {d} : /\ rowLock'[e] = rowLock[e]
                                 /\ dirty'[x][e] = dirty[x][e]
    BY <1>0, <1>3 DEF FlushUpdate, Shape
  <2>4. View(x)'[d] = Exact(x, d)
    <3>1. CASE work[x].new = work[x].old
      <4>1. rowLock'[d] # x
        BY <1>0, <1>3, <2>1, <2>2, <3>1 DEF FlushUpdate, Shape
      <4> QED BY <2>1, <2>2, <3>1, <4>1 DEF View
    <3>2. CASE work[x].new # work[x].old
      <4>1. rowLock'[d] = x /\ dirty'[x][d] = Merge(score[d], work[x].old, work[x].new)
        BY <1>0, <1>3, <2>1, <3>2 DEF FlushUpdate, Shape
      <4>2. Merge(score[d], work[x].old, work[x].new) = Exact(x, d)
        BY <2>2, MergeUnchanged DEF Exact
      <4> QED BY <2>1, <4>1, <4>2 DEF View
    <3> QED BY <3>1, <3>2
  <2>5. \A e \in Drivers : Exact(x, e)' = Exact(x, e) /\ ~InHand(x, e)'
    BY <2>1 DEF Exact, InHand
  <2>6. \A e \in Drivers \ {d} : View(x)'[e] = View(x)[e] /\ ~InHand(x, e)
    BY <2>1, <2>3 DEF View, InHand
  <2>7. \A e \in Drivers \ todo'[x] : View(x)'[e] = Exact(x, e)'
    BY <2>1, <2>4, <2>5, <2>6 DEF RunInv, Running
  <2>8. \A e \in todo'[x] : rowLock'[e] # x
    BY <1>0, <2>1, <2>2, <2>3 DEF RunInv, Running, Shape
  <2> QED BY <2>1, <2>2, <2>5, <2>7, <2>8 DEF RunInv, Running
<1>4. CASE FlushInsert(x)
  <2> DEFINE d == work[x].driver
  <2>1. /\ pc[x] = "loaded" /\ pc'[x] = "inserted" /\ d \in Drivers
        /\ UNCHANGED <<rating, score, cityLock, at, todo, work>>
        /\ rowLock'[d] = x /\ dirty'[x][d] = work[x].new
    BY <1>0, <1>4 DEF FlushInsert, Shape, tables
  <2>2. /\ d \notin todo[x] /\ at[x] = EffectiveAt[x] /\ cityLock = x
        /\ work[x].new = Exact(x, d)
    BY <2>1 DEF RunInv, Running, InHand
  <2>3. \A e \in Drivers \ {d} : /\ rowLock'[e] = rowLock[e]
                                 /\ dirty'[x][e] = dirty[x][e]
    BY <1>0, <1>4 DEF FlushInsert, Shape
  <2>4. \A e \in Drivers : Exact(x, e)' = Exact(x, e) /\ ~InHand(x, e)'
    BY <2>1 DEF Exact, InHand
  <2>5. \A e \in Drivers \ {d} : View(x)'[e] = View(x)[e] /\ ~InHand(x, e)
    BY <2>1, <2>3 DEF View, InHand
  <2>6. View(x)'[d] = Exact(x, d)
    BY <2>1, <2>2 DEF View
  <2>7. \A e \in Drivers \ todo'[x] : View(x)'[e] = Exact(x, e)'
    BY <2>1, <2>4, <2>5, <2>6 DEF RunInv, Running
  <2>8. \A e \in todo'[x] : rowLock'[e] # x
    BY <1>0, <2>1, <2>2, <2>3 DEF RunInv, Running, Shape
  <2> QED BY <2>1, <2>2, <2>4, <2>7, <2>8 DEF RunInv, Running
<1>5. CASE ReferenceCity(x)
  <2>1. /\ pc[x] = "inserted" /\ pc'[x] = "batch"
        /\ UNCHANGED <<rating, score, rowLock, cityLock, at, todo, dirty>>
    BY <1>0, <1>5 DEF ReferenceCity, Shape, tables
  <2> QED BY <2>1 DEF RunInv, Running, InHand, Exact, View
<1> QED BY <1>1, <1>2, <1>3, <1>4, <1>5 DEF Recalculate

LEMMA RunKeepsItself ==
  ASSUME Shape, NEW x \in Expirers, RunInv(x), ExpirerStep(x) \/ FailExpiration(x)
  PROVE  RunInv(x)'
<1>1. CASE CheckExpiration(x)
  BY <1>1 DEF CheckExpiration, Shape, Processes, RunInv, Running, rowlocks
<1>2. CASE LockCity(x)
  <2>1. /\ pc[x] = "checked" /\ pc'[x] = "batch" /\ todo'[x] = Drivers
        /\ at'[x] = EffectiveAt[x] /\ cityLock' = x /\ rowLock' = rowLock
    BY <1>2 DEF LockCity, Shape, Processes
  <2> QED BY <2>1 DEF RunInv, Running, InHand
<1>3. CASE Recalculate(x)
  BY <1>3, RunRecalculates
<1>4. CASE CommitExpiration(x)
  BY <1>4, EndedRun DEF CommitExpiration
<1>5. CASE RollBackExpiration(x)
  BY <1>5, EndedRun DEF RollBackExpiration
<1> QED BY <1>1, <1>2, <1>3, <1>4, <1>5
        DEF ExpirerStep, RejectSecondRun, CancelExpiration, FailExpiration

-----------------------------------------------------------------------------
(* The published board *)

LEMMA WorkerKeepsRanking ==
  ASSUME PublishedIsRanking, NEW w \in Workers, WorkerStep(w) \/ FailBatch(w)
  PROVE  PublishedIsRanking'
<1>1. CASE UNCHANGED <<score, published>>
  BY <1>1 DEF PublishedIsRanking
<1>2. CASE PublishAndCommit(w)
  BY <1>2 DEF PublishAndCommit, Generation, PublishedIsRanking
<1> QED
  BY <1>1, <1>2 DEF WorkerStep, FailBatch, Claim, Recalculate, Aggregate, Load, FlushUpdate,
     FlushInsert, ReferenceCity, DuplicateRow, RefuseEntry, CancelBatch, RollBack, tables

(* A run in which no score changed leaves the published board as it is,      *)
(* which is right because only calculated_at differs.                        *)
LEMMA ExpirerKeepsRanking ==
  ASSUME Shape, PublishedIsRanking, NEW x \in Expirers, RunInv(x),
         ExpirerStep(x) \/ FailExpiration(x)
  PROVE  PublishedIsRanking'
<1>1. CASE UNCHANGED <<score, published>>
  BY <1>1 DEF PublishedIsRanking
<1>2. CASE CommitExpiration(x)
  <2>1. \A d \in Drivers : View(x)[d] = Exact(x, d)
    BY <1>2 DEF CommitExpiration, RunInv, Running, InHand
  <2>2. \A d \in Drivers : View(x)[d] # None
    <3>1. rating \in [Trips -> Ratings] /\ EffectiveAt[x] \in Nat
      BY RowsAssumption DEF Shape, Times
    <3> QED BY <2>1, <3>1, ScoreIsRow DEF Exact
  <2>3. CASE Affected(x) = {}
    <3>1. \A d \in Drivers : /\ score[d] # None
                             /\ score[d].sum = View(x)[d].sum
                             /\ score[d].count = View(x)[d].count
                             /\ score[d].eligible = View(x)[d].eligible
      BY <2>3 DEF Affected
    <3>2. Standing(score) = Standing(View(x))
      BY <2>2, <3>1, SameStanding
    <3> QED BY <1>2, <2>3, <3>2 DEF CommitExpiration, PublishedIsRanking
  <2>4. CASE Affected(x) # {}
    BY <1>2, <2>4 DEF CommitExpiration, Generation, PublishedIsRanking
  <2> QED BY <2>3, <2>4
<1> QED
  BY <1>1, <1>2 DEF ExpirerStep, FailExpiration, CheckExpiration, LockCity, RejectSecondRun,
     Recalculate, Aggregate, Load, FlushUpdate, FlushInsert, ReferenceCity, CancelExpiration,
     RollBackExpiration, tables

-----------------------------------------------------------------------------
(* Every step *)

LEMMA Invariance == IInv /\ [Next]_vars => IInv'
<1> SUFFICES ASSUME IInv, [Next]_vars PROVE IInv'
  OBVIOUS
<1> USE DEF IInv
<1>1. CASE UNCHANGED vars
  BY <1>1 DEF vars, tables, rowlocks, local, Shape, RunInv, Running, InHand, Exact, View,
     PublishedIsRanking
<1>2. CASE Tick
  BY <1>2 DEF Tick, tables, rowlocks, local, Shape, RunInv, Running, InHand, Exact, View,
     PublishedIsRanking
<1>3. ASSUME NEW t \in Trips, NEW r \in Ratings, ChangeReview(t, r) PROVE IInv'
  <2>1. Shape'
    BY <1>3 DEF ChangeReview, Shape, rowlocks, local
  <2>2. ASSUME NEW x \in Expirers PROVE RunInv(x)'
    <3>1. Undisturbed(x)
      BY <1>3, ProcessesAssumption DEF ChangeReview, Undisturbed, rowlocks, local
    <3> QED BY <3>1, UndisturbedRun
  <2>3. PublishedIsRanking'
    BY <1>3 DEF ChangeReview, PublishedIsRanking
  <2> QED BY <2>1, <2>2, <2>3
<1>4. ASSUME NEW w \in Workers, WorkerStep(w) \/ FailBatch(w) PROVE IInv'
  <2>1. ASSUME NEW x \in Expirers PROVE RunInv(x)'
    BY <1>4, WorkerLeavesRun, UndisturbedRun
  <2> QED BY <1>4, <2>1, WorkerKeepsShape, WorkerKeepsRanking
<1>5. ASSUME NEW x \in Expirers, ExpirerStep(x) \/ FailExpiration(x) PROVE IInv'
  <2>1. ASSUME NEW y \in Expirers \ {x} PROVE RunInv(y)'
    <3>1. Undisturbed(y)
      BY <1>5, ExpirerLeavesRun
    <3> QED BY <3>1, UndisturbedRun
  <2>2. RunInv(x)'
    BY <1>5, RunKeepsItself
  <2> QED BY <1>5, <2>1, <2>2, ExpirerKeepsShape, ExpirerKeepsRanking
<1> QED BY <1>1, <1>2, <1>3, <1>4, <1>5 DEF Next

(* What a run with the city has aggregated and written stays true, and the   *)
(* board is the ranking, in every reachable state (run_city_expiration).     *)
THEOREM InvariantHolds == Spec => []IInv
BY Initially, Invariance, PTL DEF Spec

-----------------------------------------------------------------------------
(* Results *)

(* PublishedIsRanking: with any number of workers and expiration calls the   *)
(* published entries are the ranking of the committed scores, also after an  *)
(* expiration that publishes nothing (expiration_service.py:62).             *)
THEOREM PublishedIsCurrent == Spec => []PublishedIsRanking
<1>1. IInv => PublishedIsRanking
  BY DEF IInv
<1> QED BY <1>1, InvariantHolds, PTL

LEMMA ExpirationStep ==
  IInv /\ [Next]_vars =>
    [\A e \in expirations' \ expirations, d \in Drivers :
       score'[d] = ScoreOf(rating', d, e)]_vars
<1> SUFFICES ASSUME IInv, [Next]_vars, NEW e \in expirations' \ expirations, NEW d \in Drivers
             PROVE  score'[d] = ScoreOf(rating', d, e)
  OBVIOUS
<1>1. PICK x \in Expirers : CommitExpiration(x)
  BY DEF Next, vars, tables, Tick, ChangeReview, WorkerStep, FailBatch, ExpirerStep,
     FailExpiration, Claim, CheckExpiration, LockCity, RejectSecondRun, Recalculate, Aggregate,
     Load, FlushUpdate, FlushInsert, ReferenceCity, PublishAndCommit, DuplicateRow, RefuseEntry,
     CancelBatch, RollBack, CancelExpiration, RollBackExpiration
<1>2. e = EffectiveAt[x] /\ score' = View(x) /\ rating' = rating
  BY <1>1 DEF CommitExpiration
<1>3. View(x)[d] = Exact(x, d)
  BY <1>1 DEF IInv, CommitExpiration, RunInv, Running, InHand
<1> QED BY <1>2, <1>3 DEF Exact

(* ExpirationIsExact: a completed expiration leaves every driver's score     *)
(* exact at its effective time, although it reads reviews and scores without *)
(* locking them (expiration_service.py:25).                                  *)
THEOREM ExpirationsAreExact == Spec => ExpirationIsExact
BY InvariantHolds, ExpirationStep, PTL DEF Spec, ExpirationIsExact

-----------------------------------------------------------------------------
(* One worker and no expirations *)

(* A row is what its driver's reviews of this moment give; without a row     *)
(* there are none that count.                                                *)
IsExact(row, d) ==
  IF row = None THEN \A t \in Trips : DriverOf[t] = d => rating[t] = 0
  ELSE row = ScoreOf(rating, d, row.calculated)

(* The driver's events are in the batch of w and none came after them. *)
AllIn(w, d) == unclaimed[d] = 0 /\ claimed[w][d] > 0

(* The only worker is the only one to write scores, so that a row it loaded  *)
(* stays as it was; and a review that changes after it was aggregated leaves *)
(* an event for the next batch.                                              *)
DriverInv(w, d) ==
  /\ Settled(d) => IsExact(score[d], d)
  /\ d \in todo[w] => claimed[w][d] > 0 /\ rowLock[d] # w
  /\ claimed[w][d] = 0 => rowLock[d] # w
  /\ InHand(w, d) =>
       /\ d \notin todo[w] /\ claimed[w][d] > 0 /\ rowLock[d] # w
       /\ AllIn(w, d) => work[w].new = ScoreOf(rating, d, at[w])
       /\ pc[w] = "loaded" => work[w].old = score[d]
  /\ AllIn(w, d) /\ d \notin todo[w] =>
       InHand(w, d) \/ View(w)[d] = ScoreOf(rating, d, at[w])

BatchInv(w) ==
  /\ cityLock = None /\ expirations = {} /\ now \in 0..MaxTime
  /\ unclaimed \in [Drivers -> Nat] /\ claimed \in [Workers -> [Drivers -> Nat]]
  /\ IF pc[w] = "idle" THEN todo[w] = {} /\ claimed[w] = NoEvents ELSE at[w] \in Times

SoleInv(w) == BatchInv(w) /\ \A d \in Drivers : DriverInv(w, d)

(* A score depends on the reviews of its driver alone. *)
LEMMA OtherReview ==
  ASSUME NEW s, NEW r, NEW d, \A e \in Trips : DriverOf[e] = d => r[e] = s[e], NEW u
  PROVE  ScoreOf(r, d, u) = ScoreOf(s, d, u)
<1>1. Contributing(r, d, u) = Contributing(s, d, u)
  BY DEF Contributing
<1>2. [e \in Contributing(r, d, u) |-> r[e]] = [e \in Contributing(s, d, u) |-> s[e]]
  BY <1>1 DEF Contributing
<1> QED BY <1>1, <1>2 DEF ScoreOf

LEMMA LatestOfThree ==
  ASSUME NEW a \in Times, NEW b \in Times
  PROVE  Max({a, a, b}) \in Times
<1>1. a \in Nat /\ b \in Nat
  BY RowsAssumption
<1>2. \E m \in {a, a, b} : \A n \in {a, a, b} : m >= n
  BY <1>1
<1> QED BY <1>2 DEF Max

LEMMA SoleInitially ==
  ASSUME NEW w, Workers = {w}, Expirers = {}, Init
  PROVE  SoleInv(w)
<1>1. BatchInv(w)
  BY RowsAssumption DEF Init, BatchInv, NoEvents, Processes
<1>2. ASSUME NEW d \in Drivers PROVE DriverInv(w, d)
  BY ProcessesAssumption DEF Init, DriverInv, IsExact, InHand, AllIn, NoScores, NoEvents, Processes
<1> QED BY <1>1, <1>2 DEF SoleInv

LEMMA SoleReview ==
  ASSUME NEW w, Workers = {w}, Shape, SoleInv(w), NEW t \in Trips, NEW r \in Ratings,
         ChangeReview(t, r)
  PROVE  SoleInv(w)'
<1>1. /\ rating' = [rating EXCEPT ![t] = r]
      /\ unclaimed' = [unclaimed EXCEPT ![DriverOf[t]] = @ + 1]
      /\ UNCHANGED <<now, score, expirations, rowLock, cityLock, pc, claimed, todo, at, work, dirty>>
  BY DEF ChangeReview, rowlocks, local
<1>2. BatchInv(w)'
  <2>1. \A n \in Nat : n + 1 \in Nat
    OBVIOUS
  <2>2. unclaimed \in [Drivers -> Nat]
    BY DEF SoleInv, BatchInv
  <2>3. unclaimed' \in [Drivers -> Nat]
    BY <1>1, <2>1, <2>2
  <2> QED BY <1>1, <2>3 DEF SoleInv, BatchInv
<1>3. ASSUME NEW d \in Drivers PROVE DriverInv(w, d)'
  <2>1. DriverInv(w, d) /\ unclaimed[d] \in Nat
    BY DEF SoleInv, BatchInv
  <2>2. InHand(w, d)' <=> InHand(w, d)
    BY <1>1 DEF InHand
  <2>3. View(w)'[d] = View(w)[d]
    BY <1>1 DEF View
  <2>4. CASE DriverOf[t] = d
    <3>1. unclaimed'[d] = unclaimed[d] + 1
      BY <1>1, <2>4 DEF SoleInv, BatchInv
    <3>2. ~Settled(d)' /\ ~AllIn(w, d)'
      BY <2>1, <3>1 DEF Settled, AllIn
    <3> QED BY <1>1, <2>1, <2>2, <3>2 DEF DriverInv
  <2>5. CASE DriverOf[t] # d
    <3>1. unclaimed'[d] = unclaimed[d]
      BY <1>1, <2>5 DEF SoleInv, BatchInv
    <3>2. \A e \in Trips : DriverOf[e] = d => rating'[e] = rating[e]
      BY <1>1, <2>5 DEF Shape
    <3>3. \A u : ScoreOf(rating', d, u) = ScoreOf(rating, d, u)
      <4> SUFFICES ASSUME NEW u PROVE ScoreOf(rating', d, u) = ScoreOf(rating, d, u)
        OBVIOUS
      <4>1. PICK r2 : r2 = rating'
        OBVIOUS
      <4>2. PICK r1 : r1 = rating
        OBVIOUS
      <4>3. \A e \in Trips : DriverOf[e] = d => r2[e] = r1[e]
        BY <3>2, <4>1, <4>2
      <4>4. ScoreOf(r2, d, u) = ScoreOf(r1, d, u)
        BY <4>3, OtherReview
      <4> QED BY <4>1, <4>2, <4>4
    <3>4. /\ Settled(d)' <=> Settled(d)
          /\ AllIn(w, d)' <=> AllIn(w, d)
      BY <1>1, <3>1 DEF Settled, AllIn
    <3>5. IsExact(score[d], d)' <=> IsExact(score[d], d)
      BY <1>1, <3>2, <3>3 DEF IsExact
    <3> QED BY <1>1, <2>1, <2>2, <2>3, <3>3, <3>4, <3>5 DEF DriverInv
  <2> QED BY <2>4, <2>5
<1> QED BY <1>2, <1>3 DEF SoleInv

LEMMA SoleClaim ==
  ASSUME NEW w, Workers = {w}, Shape, SoleInv(w), Claim(w)
  PROVE  SoleInv(w)'
<1>0. w \in Processes /\ DOMAIN at = Processes
  BY DEF Processes, Shape
<1>1. PICK batch \in [Drivers -> 0..MaxChanges] :
        /\ \A d \in Drivers : batch[d] <= unclaimed[d]
        /\ claimed' = [claimed EXCEPT ![w] = batch]
        /\ unclaimed' = [d \in Drivers |-> unclaimed[d] - batch[d]]
        /\ todo' = [todo EXCEPT ![w] = {d \in Drivers : batch[d] > 0}]
  BY DEF Claim
<1>2. /\ pc[w] = "idle" /\ pc'[w] = "batch"
      /\ UNCHANGED <<now, rating, score, expirations, rowLock, cityLock, work, dirty>>
  BY <1>0 DEF Claim, Shape, rowlocks
<1>3. /\ claimed'[w] = batch /\ claimed' \in [Workers -> [Drivers -> Nat]]
      /\ todo'[w] = {d \in Drivers : batch[d] > 0}
      /\ unclaimed' \in [Drivers -> Nat]
  BY <1>0, <1>1, RowsAssumption DEF SoleInv, BatchInv, Shape
<1>4. at'[w] \in Times
  <2>1. PICK also \in Elsewhere \cup {now} :
          at' = [at EXCEPT ![w] = Max({now, LatestExpiration, also})]
    BY DEF Claim
  <2>2. LatestExpiration = now /\ now \in Times /\ also \in Times
    BY DEF SoleInv, BatchInv, LatestExpiration, Times
  <2> QED BY <1>0, <2>1, <2>2, LatestOfThree
<1>5. BatchInv(w)'
  BY <1>2, <1>3, <1>4 DEF SoleInv, BatchInv
<1>6. ASSUME NEW d \in Drivers PROVE DriverInv(w, d)'
  <2>1. DriverInv(w, d) /\ unclaimed[d] \in Nat /\ claimed[w][d] = 0 /\ batch[d] \in Nat
    BY <1>1, <1>2 DEF SoleInv, BatchInv, NoEvents
  <2>2. unclaimed'[d] = unclaimed[d] - batch[d] /\ claimed'[w][d] = batch[d]
    BY <1>1, <1>3
  <2>3. Settled(d)' => Settled(d)
    BY <2>1, <2>2 DEF Settled
  <2>4. IsExact(score[d], d)' <=> IsExact(score[d], d)
    BY <1>2 DEF IsExact
  <2>5. rowLock'[d] # w /\ ~InHand(w, d)'
    BY <1>2, <2>1 DEF DriverInv, InHand
  <2>6. d \in todo'[w] <=> claimed'[w][d] > 0
    BY <1>3
  <2> QED BY <2>1, <2>3, <2>4, <2>5, <2>6 DEF DriverInv, AllIn
<1> QED BY <1>5, <1>6 DEF SoleInv

LEMMA SoleCommit ==
  ASSUME NEW w, Workers = {w}, Shape, SoleInv(w), PublishAndCommit(w)
  PROVE  SoleInv(w)'
<1>0. w \in Processes /\ w # None
  BY ProcessesAssumption DEF Processes
<1>1. /\ pc[w] = "batch" /\ todo[w] = {} /\ score' = View(w)
      /\ claimed' = [claimed EXCEPT ![w] = NoEvents]
      /\ EndTransaction(w, "idle")
      /\ UNCHANGED <<now, rating, unclaimed, expirations>>
  BY DEF PublishAndCommit
<1>2. /\ pc'[w] = "idle" /\ todo'[w] = {} /\ claimed'[w] = NoEvents /\ cityLock' = None
      /\ \A d \in Drivers : rowLock'[d] # w
  BY <1>0, <1>1 DEF EndTransaction, Shape, SoleInv, BatchInv
<1>3. BatchInv(w)'
  BY <1>1, <1>2 DEF SoleInv, BatchInv, NoEvents
<1>4. ASSUME NEW d \in Drivers PROVE DriverInv(w, d)'
  <2>1. DriverInv(w, d) /\ unclaimed[d] \in Nat /\ claimed[w][d] \in Nat
    BY DEF SoleInv, BatchInv
  <2>2. ~InHand(w, d) /\ ~InHand(w, d)' /\ ~AllIn(w, d)'
    BY <1>1, <1>2 DEF InHand, AllIn, NoEvents
  <2>3. ASSUME unclaimed[d] = 0 PROVE IsExact(score[d], d)'
    <3>1. CASE claimed[w][d] = 0
      <4>1. View(w)[d] = score[d] /\ IsExact(score[d], d)
        BY <2>1, <2>3, <3>1 DEF DriverInv, View, Settled
      <4> QED BY <1>1, <4>1 DEF IsExact
    <3>2. CASE claimed[w][d] > 0
      <4>1. View(w)[d] = ScoreOf(rating, d, at[w])
        BY <1>1, <2>1, <2>2, <2>3, <3>2 DEF DriverInv, AllIn
      <4>2. View(w)[d] # None
        <5>1. rating \in [Trips -> Ratings] /\ at[w] \in Nat
          BY <1>1, <3>2, RowsAssumption DEF Shape, SoleInv, BatchInv, NoEvents
        <5> QED BY <4>1, <5>1, ScoreIsRow
      <4>3. View(w)[d].calculated = at[w]
        BY <4>1 DEF ScoreOf
      <4> QED BY <1>1, <4>1, <4>2, <4>3 DEF IsExact
    <3> QED BY <2>1, <3>1, <3>2
  <2> QED BY <1>1, <1>2, <2>2, <2>3 DEF DriverInv, Settled, NoEvents
<1> QED BY <1>3, <1>4 DEF SoleInv

LEMMA SoleRollBack ==
  ASSUME NEW w, Workers = {w}, Shape, SoleInv(w), RollBack(w)
  PROVE  SoleInv(w)'
<1>0. w \in Processes /\ w # None
  BY ProcessesAssumption DEF Processes
<1>1. /\ unclaimed' = [d \in Drivers |-> unclaimed[d] + claimed[w][d]]
      /\ claimed' = [claimed EXCEPT ![w] = NoEvents]
      /\ EndTransaction(w, "idle")
      /\ UNCHANGED <<now, rating, score, expirations>>
  BY DEF RollBack
<1>2. /\ pc'[w] = "idle" /\ todo'[w] = {} /\ claimed'[w] = NoEvents /\ cityLock' = None
      /\ \A d \in Drivers : rowLock'[d] # w
  BY <1>0, <1>1 DEF EndTransaction, Shape, SoleInv, BatchInv
<1>3. BatchInv(w)'
  BY <1>1, <1>2 DEF SoleInv, BatchInv, NoEvents
<1>4. ASSUME NEW d \in Drivers PROVE DriverInv(w, d)'
  <2>1. DriverInv(w, d) /\ unclaimed[d] \in Nat /\ claimed[w][d] \in Nat
    BY DEF SoleInv, BatchInv
  <2>2. ~InHand(w, d)' /\ ~AllIn(w, d)'
    BY <1>2 DEF InHand, AllIn, NoEvents
  <2>3. Settled(d)' => Settled(d)
    BY <1>1, <2>1 DEF Settled
  <2>4. IsExact(score[d], d)' <=> IsExact(score[d], d)
    BY <1>1 DEF IsExact
  <2> QED BY <1>2, <2>1, <2>2, <2>3, <2>4 DEF DriverInv
<1> QED BY <1>3, <1>4 DEF SoleInv

(* A driver the step does not touch. *)
LEMMA UntouchedDriver ==
  ASSUME NEW w, NEW d \in Drivers, DriverInv(w, d),
         ~InHand(w, d), ~InHand(w, d)',
         UNCHANGED <<rating, unclaimed, claimed, at>>, score'[d] = score[d],
         d \in todo'[w] <=> d \in todo[w],
         rowLock'[d] = w <=> rowLock[d] = w, dirty'[w][d] = dirty[w][d]
  PROVE  DriverInv(w, d)'
<1>1. View(w)'[d] = View(w)[d]
  BY DEF View
<1>2. /\ Settled(d)' <=> Settled(d)
      /\ AllIn(w, d)' <=> AllIn(w, d)
      /\ IsExact(score[d], d)' <=> IsExact(score[d], d)
  BY DEF Settled, AllIn, IsExact
<1> QED BY <1>1, <1>2 DEF DriverInv

LEMMA SoleRecalculation ==
  ASSUME NEW w, Workers = {w}, Shape, SoleInv(w), Recalculate(w)
  PROVE  SoleInv(w)'
<1>0. w \in Processes /\ w # None
  BY ProcessesAssumption DEF Processes
<1>1. CASE Aggregate(w)
  <2>1. PICK e \in todo[w] :
          /\ work' = [work EXCEPT ![w] =
                       [driver |-> e, new |-> ScoreOf(rating, e, at[w]), old |-> None]]
          /\ todo' = [todo EXCEPT ![w] = @ \ {e}]
    BY <1>1 DEF Aggregate
  <2>2. /\ pc[w] = "batch" /\ pc'[w] = "aggregated"
        /\ UNCHANGED <<now, tables, rowlocks, claimed, at, dirty>>
    BY <1>0, <1>1 DEF Aggregate, Shape
  <2>3. /\ work'[w].driver = e /\ work'[w].new = ScoreOf(rating, e, at[w])
        /\ todo'[w] = todo[w] \ {e}
    BY <1>0, <2>1 DEF Shape
  <2>4. BatchInv(w)'
    BY <2>2 DEF SoleInv, BatchInv, tables, rowlocks
  <2>5. ASSUME NEW d \in Drivers PROVE DriverInv(w, d)'
    <3>1. DriverInv(w, d) /\ ~InHand(w, d) /\ (InHand(w, d)' <=> d = e)
      BY <2>2, <2>3 DEF SoleInv, InHand
    <3>2. CASE d = e
      BY <2>2, <2>3, <3>1, <3>2 DEF DriverInv, Settled, AllIn, IsExact, tables, rowlocks
    <3>3. CASE d # e
      BY <2>2, <2>3, <3>1, <3>3, UntouchedDriver DEF tables, rowlocks
    <3> QED BY <3>2, <3>3
  <2> QED BY <2>4, <2>5 DEF SoleInv
<1>2. CASE Load(w)
  <2>1. /\ pc[w] = "aggregated" /\ pc'[w] = "loaded"
        /\ UNCHANGED <<now, tables, rowlocks, claimed, todo, at, dirty>>
    BY <1>0, <1>2 DEF Load, Shape
  <2>2. /\ work'[w].driver = work[w].driver /\ work'[w].new = work[w].new
        /\ work'[w].old = score[work[w].driver]
    BY <1>0, <1>2 DEF Load, Shape
  <2>3. BatchInv(w)'
    BY <2>1 DEF SoleInv, BatchInv, tables, rowlocks
  <2>4. ASSUME NEW d \in Drivers PROVE DriverInv(w, d)'
    <3>1. DriverInv(w, d) /\ (InHand(w, d) <=> d = work[w].driver) /\ (InHand(w, d)' <=> InHand(w, d))
      BY <2>1, <2>2 DEF SoleInv, InHand
    <3>2. CASE InHand(w, d)
      BY <2>1, <2>2, <3>1, <3>2 DEF DriverInv, Settled, AllIn, IsExact, tables, rowlocks
    <3>3. CASE ~InHand(w, d)
      BY <2>1, <3>1, <3>3, UntouchedDriver DEF tables, rowlocks
    <3> QED BY <3>2, <3>3
  <2> QED BY <2>3, <2>4 DEF SoleInv
<1>3. CASE FlushUpdate(w)
  <2> DEFINE e == work[w].driver
  <2>1. /\ pc[w] = "loaded" /\ pc'[w] = "batch" /\ e \in Drivers
        /\ UNCHANGED <<now, tables, cityLock, claimed, at, todo>>
    BY <1>0, <1>3 DEF FlushUpdate, Shape
  <2>2. BatchInv(w)'
    BY <2>1 DEF SoleInv, BatchInv, tables
  <2>3. ASSUME NEW d \in Drivers PROVE DriverInv(w, d)'
    <3>1. DriverInv(w, d) /\ (InHand(w, d) <=> d = e) /\ ~InHand(w, d)'
      BY <2>1 DEF SoleInv, InHand
    <3>2. CASE d # e
      <4>1. rowLock'[d] = rowLock[d] /\ dirty'[w][d] = dirty[w][d]
        BY <1>0, <1>3, <3>2 DEF FlushUpdate, Shape
      <4> QED BY <2>1, <3>1, <3>2, <4>1, UntouchedDriver DEF tables
    <3>3. CASE d = e
      <4>1. /\ d \notin todo[w] /\ claimed[w][d] > 0 /\ rowLock[d] # w /\ work[w].old = score[d]
            /\ AllIn(w, d) => work[w].new = ScoreOf(rating, d, at[w])
        BY <2>1, <3>1, <3>3 DEF DriverInv
      <4>2. IF work[w].new # work[w].old
            THEN rowLock'[d] = w /\ dirty'[w][d] = Merge(score[d], work[w].old, work[w].new)
            ELSE rowLock'[d] # w
        BY <1>0, <1>3, <2>1, <3>3, <4>1 DEF FlushUpdate, Shape
      <4>3. AllIn(w, d) => View(w)'[d] = ScoreOf(rating, d, at[w])
        <5>1. CASE work[w].new # work[w].old
          BY <4>1, <4>2, <5>1, MergeUnchanged DEF View
        <5>2. CASE work[w].new = work[w].old
          BY <2>1, <4>1, <4>2, <5>2 DEF View, tables
        <5> QED BY <5>1, <5>2
      <4>4. ~Settled(d) /\ ~Settled(d)' /\ (AllIn(w, d)' <=> AllIn(w, d))
        BY <2>1, <4>1 DEF SoleInv, BatchInv, Settled, AllIn, tables
      <4> QED BY <2>1, <3>1, <4>1, <4>3, <4>4 DEF DriverInv, AllIn, tables
    <3> QED BY <3>2, <3>3
  <2> QED BY <2>2, <2>3 DEF SoleInv
<1>4. CASE FlushInsert(w)
  <2> DEFINE e == work[w].driver
  <2>1. /\ pc[w] = "loaded" /\ pc'[w] = "inserted" /\ e \in Drivers
        /\ UNCHANGED <<now, tables, cityLock, claimed, at, todo, work>>
    BY <1>0, <1>4 DEF FlushInsert, Shape
  <2>2. BatchInv(w)'
    BY <2>1 DEF SoleInv, BatchInv, tables
  <2>3. ASSUME NEW d \in Drivers PROVE DriverInv(w, d)'
    <3>1. DriverInv(w, d) /\ (InHand(w, d) <=> d = e) /\ ~InHand(w, d)'
      BY <2>1 DEF SoleInv, InHand
    <3>2. CASE d # e
      <4>1. rowLock'[d] = rowLock[d] /\ dirty'[w][d] = dirty[w][d]
        BY <1>0, <1>4, <3>2 DEF FlushInsert, Shape
      <4> QED BY <2>1, <3>1, <3>2, <4>1, UntouchedDriver DEF tables
    <3>3. CASE d = e
      <4>1. /\ d \notin todo[w] /\ claimed[w][d] > 0
            /\ AllIn(w, d) => work[w].new = ScoreOf(rating, d, at[w])
        BY <2>1, <3>1, <3>3 DEF DriverInv
      <4>2. rowLock'[d] = w /\ dirty'[w][d] = work[w].new
        BY <1>0, <1>4, <2>1, <3>3 DEF FlushInsert, Shape
      <4>3. AllIn(w, d) => View(w)'[d] = ScoreOf(rating, d, at[w])
        BY <4>1, <4>2 DEF View
      <4>4. ~Settled(d) /\ ~Settled(d)' /\ (AllIn(w, d)' <=> AllIn(w, d))
        BY <2>1, <4>1 DEF SoleInv, BatchInv, Settled, AllIn, tables
      <4> QED BY <2>1, <3>1, <4>1, <4>3, <4>4 DEF DriverInv, AllIn, tables
    <3> QED BY <3>2, <3>3
  <2> QED BY <2>2, <2>3 DEF SoleInv
<1>5. CASE ReferenceCity(w)
  <2>1. /\ pc[w] = "inserted" /\ pc'[w] = "batch"
        /\ UNCHANGED <<now, tables, rowLock, cityLock, claimed, todo, at, dirty>>
    BY <1>0, <1>5 DEF ReferenceCity, Shape
  <2>2. BatchInv(w)'
    BY <2>1 DEF SoleInv, BatchInv, tables
  <2>3. ASSUME NEW d \in Drivers PROVE DriverInv(w, d)'
    <3>1. DriverInv(w, d) /\ ~InHand(w, d) /\ ~InHand(w, d)'
      BY <2>1 DEF SoleInv, InHand
    <3> QED BY <2>1, <3>1, UntouchedDriver DEF tables
  <2> QED BY <2>2, <2>3 DEF SoleInv
<1> QED BY <1>1, <1>2, <1>3, <1>4, <1>5 DEF Recalculate

LEMMA SoleInvariance ==
  ASSUME NEW w, Workers = {w}, Expirers = {}
  PROVE  IInv /\ SoleInv(w) /\ [Next]_vars => SoleInv(w)'
<1> SUFFICES ASSUME Shape, SoleInv(w), [Next]_vars PROVE SoleInv(w)'
  BY DEF IInv
<1>1. CASE UNCHANGED vars \/ Tick
  <2>1. /\ now' = now \/ (now < MaxTime /\ now' = now + 1)
        /\ UNCHANGED <<tables, rowlocks, pc, local>>
    BY <1>1 DEF vars, Tick
  <2>2. BatchInv(w)'
    BY <2>1, RowsAssumption DEF SoleInv, BatchInv, tables, rowlocks, local
  <2>3. ASSUME NEW d \in Drivers PROVE DriverInv(w, d)'
    BY <2>1 DEF SoleInv, DriverInv, Settled, AllIn, IsExact, InHand, View, tables, rowlocks, local
  <2> QED BY <2>2, <2>3 DEF SoleInv
<1>2. CASE \E t \in Trips, r \in Ratings : ChangeReview(t, r)
  BY <1>2, SoleReview
<1>3. CASE Claim(w)
  BY <1>3, SoleClaim
<1>4. CASE Recalculate(w)
  BY <1>4, SoleRecalculation
<1>5. CASE PublishAndCommit(w)
  BY <1>5, SoleCommit
<1>6. CASE RollBack(w)
  BY <1>6, SoleRollBack
<1> QED
  BY <1>1, <1>2, <1>3, <1>4, <1>5, <1>6
  DEF Next, WorkerStep, DuplicateRow, RefuseEntry, CancelBatch, FailBatch

(* SettledScoresAreAuthoritative: with one worker and no expirations, a      *)
(* driver whose events are done has the score its reviews give, whatever     *)
(* changed while a batch was between its aggregates and its commit           *)
(* (worker_service.py, process_batch).  With more of either it need not.     *)
THEOREM SoleWorkerScores ==
  ASSUME NEW w, Workers = {w}, Expirers = {}
  PROVE  Spec => []SettledScoresAreAuthoritative
<1>1. Init => SoleInv(w)
  BY SoleInitially
<1>2. IInv /\ SoleInv(w) /\ [Next]_vars => SoleInv(w)'
  BY SoleInvariance
<1>3. SoleInv(w) => SettledScoresAreAuthoritative
  <2> SUFFICES ASSUME SoleInv(w), NEW d \in Drivers, Settled(d) PROVE Authoritative(d)
    BY DEF SettledScoresAreAuthoritative
  <2>1. IsExact(score[d], d)
    BY DEF SoleInv, DriverInv
  <2>2. CASE score[d] = None
    BY <2>1, <2>2 DEF IsExact, Authoritative, WrongScores, WrongEligibility, MissingScores
  <2>3. CASE score[d] # None
    <3>1. PICK exact : exact = ScoreOf(rating, d, score[d].calculated)
      OBVIOUS
    <3>2. score[d] = exact
      BY <2>1, <2>3, <3>1 DEF IsExact
    <3>3. exact.eligible = (exact.count >= EligibilityCount)
      BY <3>1 DEF ScoreOf
    <3> QED
      BY <2>3, <3>1, <3>2, <3>3 DEF Authoritative, WrongScores, WrongEligibility, MissingScores
  <2> QED BY <2>2, <2>3
<1> QED BY <1>1, <1>2, <1>3, InvariantHolds, PTL DEF Spec
=============================================================================
