------------------------- MODULE RebuildTypesProofs --------------------------
(* Proof of the type invariant of StagedRebuild: what a candidate holds, how *)
(* many wait at a time, and which call may hold which lock.                  *)
EXTENDS StagedRebuildProofs, PublishedBoardProofs

-----------------------------------------------------------------------------
(* The invariant *)

TimesInv == ClockInv /\ rating \in [Trips -> Ratings]

JobRowsInv == \A j \in DOMAIN jobs : jobs[j].rows \in [Drivers -> Rows]

CallType(a) ==
  /\ admin[a].pc \in {"idle", "starting", "publishing", "replacing"} \cup Rescoring
  /\ admin[a].job \in Nat /\ admin[a].at \in Nat /\ admin[a].todo \subseteq Drivers
  /\ ~Publishing(a) => admin[a].job = 0

(* Where a call is when it holds score rows, the city, a share of the city. *)
HeldBy(a) ==
  /\ \A d \in Drivers : rowLock[d] = a => admin[a].pc \in Rescoring
  /\ cityLock = a => admin[a].pc = "replacing"
  /\ a \in citySharers => admin[a].pc \in Rescoring

CallTypesInv ==
  /\ DOMAIN rowLock = Drivers
  /\ upkeep \in 0..MaxUpkeep
  /\ \A a \in Admins : CallType(a) /\ HeldBy(a)

RebuildTypesInv == TimesInv /\ JobRowsInv /\ CallTypesInv

-----------------------------------------------------------------------------
(* The clock and the reviews *)

LEMMA TimesStep ==
  ASSUME TimesInv, [RebuildNext]_rebuildVars
  PROVE  TimesInv'
<1>1. CASE Next
  <2>1. ClockInv'
    BY <1>1, ClockStep DEF TimesInv
  <2>2. rating' \in [Trips -> Ratings]
    BY <1>1 DEF TimesInv, Next, tables, Tick, ChangeReview, WorkerStep, FailBatch, ExpirerStep,
       FailExpiration, Claim, CheckExpiration, LockCity, RejectSecondRun, Recalculate, Aggregate,
       Load, FlushUpdate, FlushInsert, ReferenceCity, PublishAndCommit, DuplicateRow, RefuseEntry,
       CancelBatch, RollBack, CancelExpiration, RollBackExpiration, CommitExpiration
  <2> QED BY <2>1, <2>2 DEF TimesInv
<1>2. CASE UNCHANGED <<now, expirations, rating>>
  BY <1>2 DEF TimesInv, ClockInv
<1>3. CASE \E p \in Processes : CancelWaiter(p)
  BY <1>2, <1>3 DEF CancelWaiter, RollBack, RollBackExpiration, tables, Processes
<1>4. CASE UNCHANGED rebuildVars
  BY <1>2, <1>4 DEF rebuildVars, refresh, tables
<1> QED
  BY <1>1, <1>2, <1>3, <1>4 DEF RebuildNext, refresh, tables, NewCall, ReadLatest, LockJob,
     DeleteScores, PublishBoard, CallStep, BuildCandidate, RefuseStart, LockCityToPublish,
     RefuseStale, CommitPublish, Rescore, AggregateScore, LoadScore, UpdateScore, InsertScore,
     ReferenceCityOfScore, DuplicateScore, CommitScores, CancelCall, FailCall, DiscardRebuild,
     CorruptScore, RollBackStale, RollBack

-----------------------------------------------------------------------------
(* Jobs *)

LEMMA JobRowsStep ==
  ASSUME RebuildInv, RebuildTypesInv, [RebuildNext]_rebuildVars
  PROVE  JobRowsInv'
<1>1. CASE JobsKept
  BY <1>1 DEF JobsKept, RebuildTypesInv, JobRowsInv
<1>2. ASSUME NEW a \in Admins, BuildCandidate(a) PROVE JobRowsInv'
  <2>1. PICK rows, r : /\ rows = [d \in Drivers |-> ScoreOf(rating, d, admin[a].at)]
                       /\ r.rows = rows /\ jobs' = Append(jobs, r)
    BY <1>2 DEF BuildCandidate
  <2>2. rows \in [Drivers -> Rows]
    BY <2>1, ScoreIsRow DEF RebuildTypesInv, TimesInv, CallTypesInv, CallType
  <2>3. PICK S : jobs \in Seq(S)
    BY DEF RebuildInv, JobsInv
  <2>4. /\ DOMAIN jobs' = 1..Len(jobs) + 1 /\ jobs'[Len(jobs) + 1] = r
        /\ \A j \in DOMAIN jobs : jobs'[j] = jobs[j]
    BY <2>1, <2>3, AppendJob
  <2> QED BY <2>1, <2>2, <2>3, <2>4 DEF RebuildTypesInv, JobRowsInv
<1>3. ASSUME NEW k \in DOMAIN jobs, NEW status, jobs' = [jobs EXCEPT ![k].status = status]
      PROVE  JobRowsInv'
  <2>1. \A j \in DOMAIN jobs : jobs'[j].rows = jobs[j].rows
    BY <1>3 DEF RebuildInv, JobsInv, JobFields
  <2>2. DOMAIN jobs' = DOMAIN jobs
    BY <1>3
  <2> QED BY <2>1, <2>2 DEF RebuildTypesInv, JobRowsInv
<1>4. CASE \E a \in Admins : CommitPublish(a)
  <2>1. PICK a \in Admins : CommitPublish(a)
    BY <1>4
  <2>2. admin[a].job \in DOMAIN jobs /\ jobs' = [jobs EXCEPT ![admin[a].job].status = "published"]
    BY <2>1 DEF CommitPublish, RebuildInv, CallsInv, Publishing, Active
  <2> QED BY <1>3, <2>2
<1>5. CASE \E j \in DOMAIN jobs : DiscardRebuild(j)
  BY <1>3, <1>5 DEF DiscardRebuild
<1> QED BY <1>1, <1>2, <1>4, <1>5, RebuildStep

-----------------------------------------------------------------------------
(* Calls and locks *)

(* The call of a goes on, and gains no lock that it did not have. *)
Unmoved(a) ==
  /\ admin'[a] = admin[a]
  /\ \A d \in Drivers : rowLock'[d] = a => rowLock[d] = a
  /\ cityLock' = a => cityLock = a
  /\ a \in citySharers' => a \in citySharers

LEMMA UnmovedKeeps ==
  ASSUME NEW a \in Admins, CallType(a), HeldBy(a), Unmoved(a)
  PROVE  CallType(a)' /\ HeldBy(a)'
BY DEF Unmoved, CallType, HeldBy, Publishing

(* Workers and expirations take their locks from nobody and for themselves. *)
LEMMA EndOfProcess ==
  ASSUME NEW p \in Processes, NEW place, EndTransaction(p, place), DOMAIN rowLock = Drivers,
         UNCHANGED admin
  PROVE  DOMAIN rowLock' = Drivers /\ \A a \in Admins : Unmoved(a)
BY AdminsAssumption DEF EndTransaction, Unmoved

LEMMA RefreshLeavesCalls ==
  ASSUME Next, UNCHANGED admin, DOMAIN rowLock = Drivers
  PROVE  DOMAIN rowLock' = Drivers /\ \A a \in Admins : Unmoved(a)
<1>1. CASE UNCHANGED rowlocks
  BY <1>1 DEF rowlocks, Unmoved
<1>2. CASE \E p \in Processes : \E place : EndTransaction(p, place)
  BY <1>2, EndOfProcess
<1>3. ASSUME NEW p \in Processes, Recalculate(p)
      PROVE  DOMAIN rowLock' = Drivers /\ \A a \in Admins : Unmoved(a)
  <2>1. CASE FlushUpdate(p)
    BY <2>1, AdminsAssumption DEF FlushUpdate, Unmoved
  <2>2. CASE FlushInsert(p)
    BY <2>2, AdminsAssumption DEF FlushInsert, Unmoved
  <2>3. CASE ReferenceCity(p)
    BY <2>3, AdminsAssumption DEF ReferenceCity, Unmoved
  <2> QED BY <1>1, <1>3, <2>1, <2>2, <2>3 DEF Recalculate, Aggregate, Load
<1>4. ASSUME NEW x \in Expirers, LockCity(x)
      PROVE  DOMAIN rowLock' = Drivers /\ \A a \in Admins : Unmoved(a)
  BY <1>4, AdminsAssumption DEF LockCity, Unmoved, Processes
<1> QED
  BY <1>1, <1>2, <1>3, <1>4 DEF Next, Processes, Tick, ChangeReview, WorkerStep, FailBatch,
     ExpirerStep, FailExpiration, Claim, CheckExpiration, RejectSecondRun, PublishAndCommit,
     DuplicateRow, RefuseEntry, CancelBatch, RollBack, CancelExpiration, RollBackExpiration,
     CommitExpiration

LEMMA EndOfCall ==
  ASSUME NEW a \in Admins, EndCall(a), DOMAIN rowLock = Drivers, DOMAIN admin = Admins
  PROVE  /\ DOMAIN rowLock' = Drivers
         /\ CallType(a)' /\ HeldBy(a)'
         /\ \A b \in Admins \ {a} : Unmoved(b)
<1>1. admin'[a] = Idle
  BY DEF EndCall
<1>2. CallType(a)'
  BY <1>1 DEF CallType, Publishing, Idle
<1>3. HeldBy(a)'
  BY AdminsAssumption DEF EndCall, HeldBy
<1> QED BY <1>2, <1>3, AdminsAssumption DEF EndCall, Unmoved

(* The recalculation goes on; it may hold rows and a share of the city.      *)
LEMMA RescoringGoesOn ==
  ASSUME NEW a \in Admins, CallType(a), HeldBy(a), cityLock' = cityLock,
         admin[a].pc \in Rescoring, admin'[a].pc \in Rescoring,
         admin'[a].job = admin[a].job, admin'[a].at = admin[a].at,
         admin'[a].todo \subseteq admin[a].todo
  PROVE  CallType(a)' /\ HeldBy(a)'
BY DEF CallType, HeldBy, Publishing, Rescoring

LEMMA RescoreTypes ==
  ASSUME NEW a \in Admins, DOMAIN rowLock = Drivers, DOMAIN admin = Admins,
         DOMAIN admin[a] = {"pc", "job", "at", "deleted", "todo", "work", "rows"},
         CallType(a), HeldBy(a), Rescore(a)
  PROVE  /\ DOMAIN rowLock' = Drivers
         /\ CallType(a)' /\ HeldBy(a)'
         /\ \A b \in Admins \ {a} : Unmoved(b)
<1>1. CASE AggregateScore(a)
  <2>1. /\ UNCHANGED rowlocks /\ \A b \in Admins \ {a} : admin'[b] = admin[b]
        /\ admin[a].pc = "rescoring" /\ admin'[a].pc = "aggregated"
        /\ admin'[a].job = admin[a].job /\ admin'[a].at = admin[a].at
        /\ admin'[a].todo \subseteq admin[a].todo
    BY <1>1 DEF AggregateScore, refresh
  <2> QED BY <2>1, RescoringGoesOn DEF Rescoring, Unmoved, rowlocks
<1>2. CASE LoadScore(a)
  <2>1. /\ UNCHANGED rowlocks /\ \A b \in Admins \ {a} : admin'[b] = admin[b]
        /\ admin[a].pc = "aggregated" /\ admin'[a].pc = "loaded"
        /\ admin'[a].job = admin[a].job /\ admin'[a].at = admin[a].at
        /\ admin'[a].todo = admin[a].todo
    BY <1>2 DEF LoadScore, refresh
  <2> QED BY <2>1, RescoringGoesOn DEF Rescoring, Unmoved, rowlocks
<1>3. CASE UpdateScore(a)
  <2>1. /\ UNCHANGED <<cityLock, citySharers>> /\ \A b \in Admins \ {a} : admin'[b] = admin[b]
        /\ admin[a].pc = "loaded" /\ admin'[a].pc = "rescoring"
        /\ admin'[a].job = admin[a].job /\ admin'[a].at = admin[a].at
        /\ admin'[a].todo = admin[a].todo
    BY <1>3 DEF UpdateScore
  <2>2. DOMAIN rowLock' = Drivers /\ \A d \in Drivers : rowLock'[d] \in {a, rowLock[d]}
    BY <1>3 DEF UpdateScore
  <2> QED BY <2>1, <2>2, RescoringGoesOn DEF Rescoring, Unmoved
<1>4. CASE InsertScore(a)
  <2>1. /\ UNCHANGED <<cityLock, citySharers>> /\ \A b \in Admins \ {a} : admin'[b] = admin[b]
        /\ admin[a].pc = "loaded" /\ admin'[a].pc = "inserted"
        /\ admin'[a].job = admin[a].job /\ admin'[a].at = admin[a].at
        /\ admin'[a].todo = admin[a].todo
    BY <1>4 DEF InsertScore
  <2>2. DOMAIN rowLock' = Drivers /\ \A d \in Drivers : rowLock'[d] \in {a, rowLock[d]}
    BY <1>4 DEF InsertScore
  <2> QED BY <2>1, <2>2, RescoringGoesOn DEF Rescoring, Unmoved
<1>5. CASE ReferenceCityOfScore(a)
  <2>1. /\ UNCHANGED <<cityLock, rowLock>> /\ citySharers' = citySharers \cup {a}
        /\ \A b \in Admins \ {a} : admin'[b] = admin[b]
        /\ admin[a].pc = "inserted" /\ admin'[a].pc = "rescoring"
        /\ admin'[a].job = admin[a].job /\ admin'[a].at = admin[a].at
        /\ admin'[a].todo = admin[a].todo
    BY <1>5 DEF ReferenceCityOfScore
  <2> QED BY <2>1, RescoringGoesOn DEF Rescoring, Unmoved
<1> QED BY <1>1, <1>2, <1>3, <1>4, <1>5 DEF Rescore

(* A call changes its own state and takes locks for itself. *)
LEMMA CallStepTypes ==
  ASSUME RebuildInv, RebuildTypesInv, NEW a \in Admins,
         NewCall(a) \/ CallStep(a) \/ FailCall(a)
  PROVE  /\ DOMAIN rowLock' = Drivers
         /\ CallType(a)' /\ HeldBy(a)'
         /\ \A b \in Admins \ {a} : Unmoved(b)
<1>1. /\ DOMAIN rowLock = Drivers /\ CallType(a) /\ HeldBy(a)
      /\ DOMAIN admin = Admins /\ DOMAIN admin[a] = {"pc", "job", "at", "deleted", "todo", "work", "rows"}
      /\ DOMAIN jobs \subseteq Nat
  BY DEF RebuildTypesInv, CallTypesInv, RebuildInv, CallsInv, JobsInv
<1>2. CASE EndCall(a)
  BY <1>1, <1>2, EndOfCall
<1>3. CASE ReadLatest(a)
  <2>1. PICK t : t = Max({now, LatestExpiration}) /\ t \in Nat
    <3>1. PICK l \in Nat : l = LatestExpiration
      BY LatestIsTime DEF RebuildTypesInv, TimesInv
    <3>2. now \in Nat
      BY LatestIsTime DEF RebuildTypesInv, TimesInv
    <3>3. {now, l} = {now, l, l}
      OBVIOUS
    <3>4. Max({now, l}) \in Nat
      BY <3>1, <3>2, <3>3, GreatestOfThree
    <3> QED BY <3>1, <3>4
  <2>2. /\ admin' = [admin EXCEPT ![a].pc = "starting", ![a].at = t]
        /\ admin[a].pc = "idle" /\ UNCHANGED rowlocks
    BY <1>3, <2>1 DEF ReadLatest, refresh
  <2>3. /\ admin'[a].pc = "starting" /\ admin'[a].at = t /\ admin'[a].job = admin[a].job
        /\ admin'[a].todo = admin[a].todo
    BY <1>1, <2>2
  <2>4. CallType(a)'
    BY <1>1, <2>1, <2>2, <2>3 DEF CallType, Publishing
  <2>5. HeldBy(a)'
    BY <1>1, <2>2 DEF HeldBy, Rescoring, rowlocks
  <2> QED BY <1>1, <2>2, <2>4, <2>5 DEF Unmoved, rowlocks
<1>4. ASSUME NEW j \in DOMAIN jobs, LockJob(a, j)
      PROVE  CallType(a)' /\ HeldBy(a)' /\ UNCHANGED rowLock /\ \A b \in Admins \ {a} : Unmoved(b)
  <2>1. /\ admin' = [admin EXCEPT ![a].pc = "publishing", ![a].job = j]
        /\ admin[a].pc = "idle" /\ UNCHANGED rowlocks
    BY <1>4 DEF LockJob, refresh
  <2>2. /\ admin'[a].pc = "publishing" /\ admin'[a].job = j /\ admin'[a].at = admin[a].at
        /\ admin'[a].todo = admin[a].todo
    BY <1>1, <2>1
  <2>3. CallType(a)'
    BY <1>1, <2>2 DEF CallType, Publishing
  <2>4. HeldBy(a)'
    BY <1>1, <2>1 DEF HeldBy, Rescoring, rowlocks
  <2> QED BY <1>1, <2>1, <2>3, <2>4 DEF Unmoved, rowlocks
<1>5. CASE LockCityToPublish(a)
  <2>1. /\ admin' = [admin EXCEPT ![a].pc = "replacing"] /\ admin[a].pc = "publishing"
        /\ cityLock' = a /\ UNCHANGED <<rowLock, citySharers>>
    BY <1>5 DEF LockCityToPublish
  <2>2. /\ admin'[a].pc = "replacing" /\ admin'[a].job = admin[a].job
        /\ admin'[a].at = admin[a].at /\ admin'[a].todo = admin[a].todo
    BY <1>1, <2>1
  <2>3. CallType(a)'
    BY <1>1, <2>2 DEF CallType, Publishing
  <2>4. HeldBy(a)'
    BY <1>1, <2>1, <2>2 DEF HeldBy, Rescoring
  <2> QED BY <1>1, <2>1, <2>3, <2>4 DEF Unmoved
<1>6. CASE DeleteScores(a)
  <2>1. /\ admin'[a].pc = "rescoring" /\ admin'[a].job = 0 /\ admin'[a].at = now
        /\ admin'[a].todo = Drivers /\ admin[a].pc = "idle"
        /\ \A b \in Admins \ {a} : admin'[b] = admin[b]
        /\ rowLock' = [d \in Drivers |-> IF score[d] # None THEN a ELSE rowLock[d]]
        /\ UNCHANGED <<cityLock, citySharers>>
    BY <1>1, <1>6 DEF DeleteScores, Idle
  <2>2. now \in Nat
    BY LatestIsTime DEF RebuildTypesInv, TimesInv
  <2>3. CallType(a)'
    BY <2>1, <2>2 DEF CallType, Publishing, Rescoring
  <2>4. HeldBy(a)'
    BY <1>1, <2>1 DEF HeldBy, Rescoring
  <2> QED BY <1>1, <2>1, <2>3, <2>4 DEF Unmoved
<1>7. CASE Rescore(a)
  BY <1>1, <1>7, RescoreTypes
<1>8. CASE PublishBoard(a)
  BY <1>1, <1>8, UnmovedKeeps DEF PublishBoard, rowlocks, Unmoved
<1> QED
  BY <1>1, <1>2, <1>3, <1>4, <1>5, <1>6, <1>7, <1>8 DEF NewCall, CallStep, FailCall,
     BuildCandidate, RefuseStart, RefuseStale, CommitPublish, DuplicateScore, CommitScores,
     CancelCall

LEMMA UpkeepStep ==
  ASSUME upkeep \in 0..MaxUpkeep, [RebuildNext]_rebuildVars
  PROVE  upkeep' \in 0..MaxUpkeep
<1>1. ASSUME NEW a \in Admins, Rescore(a) PROVE upkeep' = upkeep
  BY <1>1 DEF Rescore, AggregateScore, LoadScore, UpdateScore, InsertScore, ReferenceCityOfScore
<1>2. upkeep' = upkeep \/ (upkeep < MaxUpkeep /\ upkeep' = upkeep + 1)
  BY <1>1 DEF RebuildNext, rebuildVars, rebuild, NewCall, ReadLatest, LockJob, DeleteScores,
     PublishBoard, CallStep, BuildCandidate, RefuseStart, LockCityToPublish, RefuseStale,
     CommitPublish, DuplicateScore, CommitScores, CancelCall, FailCall, DiscardRebuild, CorruptScore
<1> QED BY <1>2, UpkeepAssumption

LEMMA CallTypesStep ==
  ASSUME RebuildInv, RebuildTypesInv, [RebuildNext]_rebuildVars
  PROVE  CallTypesInv'
<1>1. upkeep' \in 0..MaxUpkeep /\ DOMAIN rowLock = Drivers
  BY UpkeepStep DEF RebuildTypesInv, CallTypesInv
<1>2. ASSUME DOMAIN rowLock' = Drivers, \A a \in Admins : Unmoved(a)
      PROVE  CallTypesInv'
  BY <1>1, <1>2, UnmovedKeeps DEF RebuildTypesInv, CallTypesInv
<1>3. CASE Next /\ UNCHANGED rebuild
  BY <1>1, <1>2, <1>3, RefreshLeavesCalls DEF rebuild
<1>4. ASSUME NEW a \in Admins, NewCall(a) \/ CallStep(a) \/ FailCall(a)
      PROVE  CallTypesInv'
  BY <1>1, <1>4, CallStepTypes, UnmovedKeeps DEF RebuildTypesInv, CallTypesInv
<1>5. CASE UNCHANGED <<rowlocks, admin>>
  BY <1>1, <1>2, <1>5 DEF rowlocks, Unmoved
<1>6. ASSUME NEW p \in Processes, (p \in Workers /\ RollBackStale(p)) \/ CancelWaiter(p),
             UNCHANGED rebuild
      PROVE  CallTypesInv'
  <2>1. PICK place : EndTransaction(p, place)
    BY <1>6 DEF RollBackStale, CancelWaiter, RollBack, RollBackExpiration, Processes
  <2> QED BY <1>1, <1>2, <1>6, <2>1, EndOfProcess DEF rebuild
<1> QED
  BY <1>3, <1>4, <1>5, <1>6 DEF RebuildNext, rebuildVars, refresh, rebuild, DiscardRebuild,
     CorruptScore, Processes

-----------------------------------------------------------------------------
(* The type invariant *)

LEMMA RebuildTypesInitially == RebuildInit => RebuildTypesInv
<1> SUFFICES ASSUME RebuildInit PROVE RebuildTypesInv
  OBVIOUS
<1>1. TimesInv
  BY RowsAssumption, CityAssumption DEF RebuildInit, Init, TimesInv, ClockInv
<1>2. JobRowsInv
  BY DEF RebuildInit, JobRowsInv
<1>3. ASSUME NEW a \in Admins PROVE CallType(a) /\ HeldBy(a)
  BY AdminsAssumption DEF RebuildInit, Init, CallType, HeldBy, Publishing, Idle
<1>4. DOMAIN rowLock = Drivers /\ upkeep \in 0..MaxUpkeep
  BY UpkeepAssumption DEF RebuildInit, Init
<1> QED BY <1>1, <1>2, <1>3, <1>4 DEF RebuildTypesInv, CallTypesInv

LEMMA RebuildTypesInvariance ==
  RebuildInv /\ RebuildTypesInv /\ [RebuildNext]_rebuildVars => RebuildTypesInv'
BY TimesStep, JobRowsStep, CallTypesStep DEF RebuildTypesInv

LEMMA RebuildTypes == RebuildInv /\ RebuildTypesInv => RebuildTypeOK
<1> SUFFICES ASSUME RebuildInv, RebuildTypesInv PROVE RebuildTypeOK
  OBVIOUS
<1>1. ASSUME NEW j \in DOMAIN jobs
      PROVE  /\ [f \in {"status", "base", "version", "rows"} |-> jobs[j][f]] \in Jobs
             /\ jobs[j].base < jobs[j].version /\ jobs[j].version <= newest
  <2>1. /\ jobs[j].status \in {"ready", "published", "discarded"}
        /\ jobs[j].base \in Nat /\ jobs[j].version \in 1..newest /\ newest \in Nat
        /\ jobs[j].base < jobs[j].version
    BY DEF RebuildInv, JobsInv
  <2>2. jobs[j].rows \in [Drivers -> Rows]
    BY DEF RebuildTypesInv, JobRowsInv
  <2> QED BY <2>1, <2>2 DEF Jobs
<1>2. Cardinality(Active) <= 1
  <2>1. \A i, j \in Active : i = j
    BY DEF RebuildInv, JobsInv
  <2>2. CASE Active = {}
    BY <2>2, FS_EmptySet
  <2>3. CASE Active # {}
    <3>1. PICK j : Active = {j}
      BY <2>1, <2>3
    <3> QED BY <3>1, FS_Singleton
  <2> QED BY <2>2, <2>3
<1>3. ASSUME NEW a \in Admins
      PROVE  /\ [f \in {"pc", "job", "at", "todo"} |-> admin[a][f]] \in Calls
             /\ admin[a].job # 0 => admin[a].job \in Active
             /\ admin[a].pc = "replacing" <=> cityLock = a
             /\ a \in citySharers => admin[a].pc \in Rescoring
  <2>1. CallType(a) /\ HeldBy(a)
    BY DEF RebuildTypesInv, CallTypesInv
  <2>2. /\ Publishing(a) => admin[a].job \in Active
        /\ admin[a].pc = "replacing" => cityLock = a
    BY DEF RebuildInv, CallsInv, CityInv
  <2> QED BY <2>1, <2>2 DEF CallType, HeldBy, Calls
<1>4. \A d \in Drivers : rowLock[d] \in Admins => admin[rowLock[d]].pc \in Rescoring
  BY DEF RebuildTypesInv, CallTypesInv, HeldBy
<1>5. upkeep \in 0..MaxUpkeep
  BY DEF RebuildTypesInv, CallTypesInv
<1> QED BY <1>1, <1>2, <1>3, <1>4, <1>5 DEF RebuildTypeOK

(* RebuildTypeOK: at most one candidate waits for its publication, a         *)
(* candidate's scores are complete rows, its version follows the one it was  *)
(* compared with, a call that locked a job locked a ready one, the city is   *)
(* locked by a publication exactly while it replaces the scores, and only    *)
(* the offline recalculation ever holds single rows or a share of the city   *)
(* (rebuild_service.py:40 and :218, tools/rebuild).                          *)
THEOREM RebuildTypesAreOK == RebuildSpec => []RebuildTypeOK
BY RebuildInitially, RebuildInvariance, RebuildTypesInitially, RebuildTypesInvariance,
   RebuildTypes, PTL DEF RebuildSpec
=============================================================================
