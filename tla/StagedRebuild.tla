---------------------------- MODULE StagedRebuild ----------------------------
(* Rebuilding a city's scores (services/rebuild_service.py, tools/rebuild/)  *)
(* beside the workers and expiration runs of ScoreRefresh: a candidate is    *)
(* computed and compared, waits as "ready", and is published or discarded;   *)
(* the offline tools recalculate all scores, or rank the scores there are.   *)
(*                                                                           *)
(* start_rebuild reads and writes all but the latest expiration under the    *)
(* city's lock and nobody waits for its rows, so that part is one step.      *)
(* Operators named X_... are wrong variants of X that show that a property   *)
(* can fail.                                                                 *)
EXTENDS ScoreRefresh

CONSTANTS
  Admins,           \* concurrent rebuild calls
  MaxJobs,          \* bound on rebuild jobs
  MaxUpkeep         \* bound on manual repairs and corruptions of scores

ASSUME UpkeepAssumption == MaxUpkeep \in Nat
ASSUME AdminsAssumption == Admins \cap Processes = {} /\ None \notin Admins

VARIABLES
  jobs,             \* rebuild_jobs with their candidate scores, in order
  admin,            \* each call: its job, and what an offline rebuild deleted,
                    \* has yet to score, has in hand and wrote
  upkeep            \* offline rebuilds and corruptions so far

rebuild    == <<jobs, admin, upkeep>>
refresh    == <<now, tables, rowlocks, pc, local, failures>>
rebuildVars == <<refresh, rebuild>>

Idle == [pc |-> "idle", job |-> 0, at |-> 0, deleted |-> {}, todo |-> {},
         work |-> NoWork, rows |-> NoScores]

RebuildInit ==
  /\ Init
  /\ jobs = <<>>
  /\ admin = [a \in Admins |-> Idle]
  /\ upkeep = 0

Active == {j \in DOMAIN jobs : jobs[j].status = "ready"}

(* FOR UPDATE on the job row lasts from publish_rebuild's first query to its *)
(* end.                                                                      *)
JobFree(j) == \A a \in Admins : admin[a].job # j

(* A call ends, by a commit, an error or a rollback. *)
EndCall(a) ==
  /\ admin' = [admin EXCEPT ![a] = Idle]
  /\ cityLock' = IF cityLock = a THEN None ELSE cityLock
  /\ citySharers' = citySharers \ {a}
  /\ rowLock' = [d \in Drivers |-> IF rowLock[d] = a THEN None ELSE rowLock[d]]

-----------------------------------------------------------------------------
(* start_rebuild *)

(* The latest expiration is read before the city is locked. *)
ReadLatest(a) ==
  /\ admin[a].pc = "idle" /\ Len(jobs) < MaxJobs
  /\ admin' = [admin EXCEPT ![a].pc = "starting", ![a].at = Max({now, LatestExpiration})]
  /\ UNCHANGED <<refresh, jobs, upkeep>>

Ranks(entries) == [d \in {e.driver : e \in Range(entries)} |->
                     CHOOSE i \in DOMAIN entries : entries[i].driver = d]

(* _compare: the candidate's board with the published one, and its scores    *)
(* with the live ones.                                                       *)
Compare(old, new, rows) ==
  LET before == Ranks(old)
      after  == Ranks(new)
      shared == DOMAIN before \cap DOMAIN after
  IN [added   |-> DOMAIN after \ DOMAIN before,
      removed |-> DOMAIN before \ DOMAIN after,
      moved   |-> {d \in shared : before[d] # after[d]},
      changed |-> {d \in shared : old[before[d]] # new[after[d]]},
      differ  |-> {d \in Drivers : \/ score[d] = None
                                   \/ [score[d] EXCEPT !.calculated = 0]
                                        # [rows[d] EXCEPT !.calculated = 0]}]

CanStart_AnyReady == published.version > 0

CanStart == published.version > 0 /\ Active = {}

BuildCandidate(a) ==
  LET at_   == admin[a].at
      rows  == [d \in Drivers |-> ScoreOf(rating, d, at_)]
      board == Generation(rows)
  IN /\ admin[a].pc = "starting" /\ CityFree(a) /\ CanStart
     /\ jobs' = Append(jobs, [status |-> "ready", base |-> published.version,
                              version |-> board.version, rows |-> rows,
                              entries |-> board.entries,
                              comparison |-> Compare(published.entries, board.entries, rows)])
     /\ newest' = board.version
     /\ EndCall(a)
     /\ UNCHANGED <<now, rating, unclaimed, changes, score, published, expirations,
                    pc, local, failures, upkeep>>

(* No published generation to compare with, or the unique index on active    *)
(* jobs refuses a second one.                                                *)
RefuseStart(a) ==
  /\ admin[a].pc = "starting" /\ CityFree(a) /\ ~CanStart
  /\ EndCall(a)
  /\ UNCHANGED <<now, tables, pc, local, failures, jobs, upkeep>>

-----------------------------------------------------------------------------
(* publish_rebuild and discard_rebuild; a job that is not ready is refused,  *)
(* which changes nothing                                                     *)

LockJob(a, j) ==
  /\ admin[a].pc = "idle" /\ j \in Active /\ JobFree(j)
  /\ admin' = [admin EXCEPT ![a].pc = "publishing", ![a].job = j]
  /\ UNCHANGED <<refresh, jobs, upkeep>>

BaseIsPublished_Unchecked(j) == TRUE

BaseIsPublished(j) == published.version = jobs[j].base

LockCityToPublish_Unlocked(a) ==
  /\ admin[a].pc = "publishing" /\ CityFree(a) /\ BaseIsPublished(admin[a].job)
  /\ admin' = [admin EXCEPT ![a].pc = "replacing"]
  /\ UNCHANGED <<now, tables, rowlocks, pc, local, failures, jobs, upkeep>>

LockCityToPublish(a) ==
  /\ admin[a].pc = "publishing" /\ CityFree(a) /\ BaseIsPublished(admin[a].job)
  /\ cityLock' = a
  /\ admin' = [admin EXCEPT ![a].pc = "replacing"]
  /\ UNCHANGED <<now, tables, rowLock, citySharers, pc, local, failures, jobs, upkeep>>

RefuseStale(a) ==
  /\ admin[a].pc = "publishing" /\ CityFree(a) /\ ~BaseIsPublished(admin[a].job)
  /\ EndCall(a)
  /\ UNCHANGED <<now, tables, pc, local, failures, jobs, upkeep>>

(* An UPDATE that waited for a row while it was deleted and inserted again   *)
(* matches no row, and its session gives up (StaleDataError).  One issued    *)
(* after the commit finds the new row.                                       *)
MayBeStale == {w \in Workers : WantsRow(w) /\ work[w].old # None}

SomeGoStale(stale) == pc' = [p \in Processes |-> IF p \in stale THEN "stale" ELSE pc[p]]

(* All score rows of the city are deleted and inserted anew, which waits for *)
(* the rows others hold, and the candidate takes the published one's place.  *)
CommitPublish(a) ==
  LET j == admin[a].job
  IN /\ admin[a].pc = "replacing" /\ \A d \in Drivers : rowLock[d] = None
     /\ score' = jobs[j].rows
     /\ published' = [version |-> jobs[j].version, entries |-> jobs[j].entries]
     /\ jobs' = [jobs EXCEPT ![j].status = "published"]
     /\ \E stale \in SUBSET MayBeStale : SomeGoStale(stale)
     /\ EndCall(a)
     /\ UNCHANGED <<now, rating, unclaimed, changes, newest, expirations, local,
                    failures, upkeep>>

DiscardRebuild(j) ==
  /\ j \in Active /\ JobFree(j)
  /\ jobs' = [jobs EXCEPT ![j].status = "discarded"]
  /\ UNCHANGED <<refresh, admin, upkeep>>

-----------------------------------------------------------------------------
(* The offline tools: rebuild_city_scores takes no lock on the city and no   *)
(* notice of expirations; build_and_publish_generation by itself.            *)

DeleteScores(a) ==
  LET deleted == {d \in Drivers : score[d] # None}
  IN /\ admin[a].pc = "idle" /\ upkeep < MaxUpkeep
     /\ \A d \in deleted : rowLock[d] = None
     /\ rowLock' = [d \in Drivers |-> IF d \in deleted THEN a ELSE rowLock[d]]
     /\ admin' = [admin EXCEPT ![a] = [Idle EXCEPT !.pc = "rescoring", !.at = now,
                                                  !.deleted = deleted, !.todo = Drivers]]
     /\ upkeep' = upkeep + 1
     /\ UNCHANGED <<now, tables, cityLock, citySharers, pc, local, failures, jobs>>

(* recalculate_driver_score for the next driver, as in ScoreRefresh. *)
AggregateScore(a) ==
  LET d == Min(admin[a].todo)
  IN /\ admin[a].pc = "rescoring" /\ admin[a].todo # {}
     /\ admin' = [admin EXCEPT
                    ![a].pc = "aggregated",
                    ![a].todo = @ \ {d},
                    ![a].work = [driver |-> d, new |-> ScoreOf(rating, d, admin[a].at),
                                 old |-> None]]
     /\ UNCHANGED <<refresh, jobs, upkeep>>

(* A row that is not among the deleted was committed since: it is found.     *)
LoadScore(a) ==
  LET d == admin[a].work.driver
  IN /\ admin[a].pc = "aggregated"
     /\ admin' = [admin EXCEPT
                    ![a].pc = "loaded",
                    ![a].work.old = IF d \in admin[a].deleted THEN None ELSE score[d]]
     /\ UNCHANGED <<refresh, jobs, upkeep>>

(* An UPDATE that waits while another call replaces the row is one of the    *)
(* errors of FailCall.                                                       *)
UpdateScore(a) ==
  LET d == admin[a].work.driver
      old == admin[a].work.old
      new == admin[a].work.new
  IN /\ admin[a].pc = "loaded" /\ old # None
     /\ new # old => rowLock[d] = None
     /\ rowLock' = [rowLock EXCEPT ![d] = IF new # old THEN a ELSE @]
     /\ admin' = [admin EXCEPT
                    ![a].pc = "rescoring",
                    ![a].work = NoWork,
                    ![a].rows[d] = IF new # old THEN Merge(score[d], old, new) ELSE @]
     /\ UNCHANGED <<now, tables, cityLock, citySharers, pc, local, failures, jobs, upkeep>>

InsertScore(a) ==
  LET d == admin[a].work.driver
  IN /\ admin[a].pc = "loaded" /\ admin[a].work.old = None
     /\ d \in admin[a].deleted \/ (rowLock[d] = None /\ score[d] = None)
     /\ rowLock' = [rowLock EXCEPT ![d] = a]
     /\ admin' = [admin EXCEPT ![a].pc = "inserted", ![a].rows[d] = admin[a].work.new]
     /\ UNCHANGED <<now, tables, cityLock, citySharers, pc, local, failures, jobs, upkeep>>

ReferenceCityOfScore(a) ==
  /\ admin[a].pc = "inserted" /\ cityLock = None
  /\ citySharers' = citySharers \cup {a}
  /\ admin' = [admin EXCEPT ![a].pc = "rescoring", ![a].work = NoWork]
  /\ UNCHANGED <<now, tables, rowLock, cityLock, pc, local, failures, jobs, upkeep>>

(* A worker or an expiration committed the driver's first row since it was   *)
(* not found.                                                                *)
DuplicateScore(a) ==
  LET d == admin[a].work.driver
  IN /\ admin[a].pc = "loaded" /\ admin[a].work.old = None
     /\ rowLock[d] = None /\ score[d] # None
     /\ EndCall(a)
     /\ UNCHANGED <<now, tables, pc, local, failures, jobs, upkeep>>

CommitScores(a) ==
  /\ admin[a].pc = "rescoring" /\ admin[a].todo = {}
  /\ score' = [d \in Drivers |-> IF rowLock[d] = a THEN admin[a].rows[d] ELSE score[d]]
  /\ \E stale \in SUBSET {w \in MayBeStale : work[w].driver \in admin[a].deleted} :
       SomeGoStale(stale)
  /\ EndCall(a)
  /\ UNCHANGED <<now, rating, unclaimed, changes, newest, published, expirations,
                 local, failures, jobs, upkeep>>

PublishBoard(a) ==
  LET g == Generation(score)
  IN /\ admin[a].pc = "idle" /\ upkeep < MaxUpkeep /\ CityFree(a) /\ Publishable(score)
     /\ published' = g /\ newest' = g.version
     /\ upkeep' = upkeep + 1
     /\ UNCHANGED <<now, rating, unclaimed, changes, score, expirations, rowlocks,
                    pc, local, failures, jobs, admin>>

(* A committed score becomes wrong for a reason outside the system, as the   *)
(* iteration tool provokes.                                                  *)
CorruptScore(d) ==
  /\ upkeep < MaxUpkeep /\ score[d] # None /\ rowLock[d] = None
  /\ score' = [score EXCEPT ![d].sum = @ + 1]
  /\ upkeep' = upkeep + 1
  /\ UNCHANGED <<now, rating, unclaimed, changes, newest, published, expirations,
                 rowlocks, pc, local, failures, jobs, admin>>

-----------------------------------------------------------------------------
(* Failures and lock waits *)

FailCall(a) ==
  /\ admin[a].pc # "idle" /\ failures < MaxFailures
  /\ failures' = failures + 1
  /\ EndCall(a)
  /\ UNCHANGED <<now, tables, pc, local, jobs, upkeep>>

RollBackStale(w) == pc[w] = "stale" /\ RollBack(w) /\ UNCHANGED failures

AdminWaitsFor(a, q) ==
  \/ admin[a].pc \in {"starting", "publishing"} /\ (cityLock = q \/ q \in citySharers)
  \/ admin[a].pc = "replacing" /\ \E d \in Drivers : rowLock[d] = q
  \/ admin[a].pc = "inserted" /\ cityLock = q
  \/ /\ admin[a].pc = "loaded" /\ admin[a].work.new # admin[a].work.old
     /\ rowLock[admin[a].work.driver] = q

InCycle ==
  LET all == Processes \cup Admins
      Waits(p, q) == p # q /\ IF p \in Admins THEN AdminWaitsFor(p, q) ELSE WaitsFor(p, q)
      Reaches == TransitiveClosure([x, y \in all |-> Waits(x, y)], all)
      waiting == {p \in all : \E q \in all : Waits(p, q)}
  IN {p \in waiting : (\E q \in waiting : Waits(q, p)) /\ Reaches[p, p]}

CancelCall(a) ==
  /\ a \in InCycle
  /\ EndCall(a)
  /\ UNCHANGED <<now, tables, pc, local, failures, jobs, upkeep>>

(* The cycles of ScoreRefresh and those that pass through a rebuild. *)
CancelWaiter(p) ==
  /\ p \in InCycle
  /\ p \in Workers => RollBack(p)
  /\ p \in Expirers => RollBackExpiration(p)
  /\ UNCHANGED failures

-----------------------------------------------------------------------------
Rescore(a) ==
  \/ AggregateScore(a) \/ LoadScore(a) \/ UpdateScore(a)
  \/ InsertScore(a) \/ ReferenceCityOfScore(a)

CallStep(a) ==
  \/ BuildCandidate(a) \/ RefuseStart(a)
  \/ LockCityToPublish(a) \/ RefuseStale(a) \/ CommitPublish(a)
  \/ Rescore(a) \/ DuplicateScore(a) \/ CommitScores(a) \/ CancelCall(a)

NewCall(a) ==
  \/ ReadLatest(a) \/ (\E j \in DOMAIN jobs : LockJob(a, j))
  \/ DeleteScores(a) \/ PublishBoard(a)

WorkerOrCancel(w) == (WorkerStep(w) \/ RollBackStale(w) \/ CancelWaiter(w)) /\ UNCHANGED rebuild

RebuildNext ==
  \/ Next /\ UNCHANGED rebuild
  \/ \E a \in Admins : NewCall(a) \/ CallStep(a) \/ FailCall(a)
  \/ \E j \in DOMAIN jobs : DiscardRebuild(j)
  \/ \E d \in Drivers : CorruptScore(d)
  \/ \E w \in Workers : RollBackStale(w) /\ UNCHANGED rebuild
  \/ \E p \in Processes : CancelWaiter(p) /\ UNCHANGED rebuild

RebuildSpec == RebuildInit /\ [][RebuildNext]_rebuildVars

(* As FairSpec; an admin call that started runs on, but none need come, and  *)
(* a ready job may wait for ever.                                            *)
RebuildFairSpec ==
  /\ RebuildSpec
  /\ \A w \in Workers : /\ SF_rebuildVars(WorkerOrCancel(w))
                        /\ SF_rebuildVars(PublishAndCommit(w) /\ UNCHANGED rebuild)
  /\ \A x \in Expirers :
       SF_rebuildVars(pc[x] # "idle" /\ (ExpirerStep(x) \/ CancelWaiter(x)) /\ UNCHANGED rebuild)
  /\ \A a \in Admins : SF_rebuildVars(CallStep(a))

-----------------------------------------------------------------------------
(* Properties *)

Jobs == [status : {"ready", "published", "discarded"}, base : Nat, version : Nat,
         rows : [Drivers -> Rows]]

Rescoring == {"rescoring", "aggregated", "loaded", "inserted"}

Calls == [pc : {"idle", "starting", "publishing", "replacing"} \cup Rescoring,
          job : Nat, at : Nat, todo : SUBSET Drivers]

RebuildTypeOK ==
  /\ \A j \in DOMAIN jobs :
       /\ [f \in {"status", "base", "version", "rows"} |-> jobs[j][f]] \in Jobs
       /\ jobs[j].base < jobs[j].version /\ jobs[j].version <= newest
  /\ Cardinality(Active) <= 1
  /\ \A a \in Admins :
       /\ [f \in {"pc", "job", "at", "todo"} |-> admin[a][f]] \in Calls
       /\ admin[a].job # 0 => admin[a].job \in Active
       /\ admin[a].pc = "replacing" <=> cityLock = a
       /\ a \in citySharers => admin[a].pc \in Rescoring
  /\ \A d \in Drivers : rowLock[d] \in Admins => admin[rowLock[d]].pc \in Rescoring
  /\ upkeep \in 0..MaxUpkeep

StagedAs(v, status) == \E j \in DOMAIN jobs : jobs[j].version = v /\ jobs[j].status = status

(* The status column of each generation. *)
StatusOf(v) ==
  IF v = published.version THEN "published"
  ELSE IF StagedAs(v, "ready") THEN "candidate"
  ELSE IF StagedAs(v, "discarded") THEN "discarded"
  ELSE "superseded"

StatusColumn == [v \in 1..newest |-> StatusOf(v)]

Lifecycle == INSTANCE Generations WITH status <- StatusColumn

(* Candidates stay hidden until they are published or discarded, once and    *)
(* for good, and none replaces a generation published after it was compared, *)
(* with publishers, discards, workers and expirations at it together         *)
(* (architecture.md:121).                                                    *)
ImplementsGenerations == Lifecycle!Spec

IsPublish(j) == jobs[j].status = "ready" /\ jobs'[j].status = "published"

(* The scores a rebuild brings in are older than the moment they replace the *)
(* live ones, and still no processed review is lost by it: a driver without  *)
(* an event pending or in a batch gets a score that is exact for the reviews *)
(* of this moment, because a batch since the candidate would have published  *)
(* another base (rebuild_service.py:232).                                    *)
PublishKeepsProcessedChanges ==
  [][\A j \in DOMAIN jobs : IsPublish(j) =>
       \A d \in Drivers : Settled(d) => d \notin WrongScores']_rebuildVars

(* A publication holds the city and waits for score rows, a batch holds its  *)
(* rows and waits for the city, and a batch may find its rows deleted: with  *)
(* all that every admin call ends, and unless publications are tried again   *)
(* for ever, or a mixed row stays to be refused, every event is settled.     *)
RebuildsDoNotStarve ==
  /\ \A a \in Admins : []<>(admin[a].pc = "idle")
  /\ (\A a \in Admins : <>[](admin[a].pc = "idle")) /\ <>[](Unlistable = {}) =>
       <>[](\A d \in Drivers : Settled(d))
=============================================================================
