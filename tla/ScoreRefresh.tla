---------------------------- MODULE ScoreRefresh ----------------------------
(* How one city's driver_scores rows and published generation follow its     *)
(* reviews: workers that recalculate the drivers of the events they claimed  *)
(* (process_batch, recalculate_driver_score, build_and_publish_generation)   *)
(* and expiration runs that recalculate every driver (run_city_expiration),  *)
(* as READ COMMITTED transactions.  A transaction aggregates the reviews,    *)
(* loads the score row and later updates only the columns that differ from   *)
(* what it loaded.  A worker locks the city row only to publish, an          *)
(* expiration before it reads anything.                                      *)
(*                                                                           *)
(* Delivery of the events themselves is Outbox.tla; here an event is only    *)
(* counted: unclaimed, in some worker's batch, or done.  Operators named     *)
(* X_... are wrong variants of X that show that a property can fail.         *)
EXTENDS Leaderboard, Relation

CONSTANTS
  Workers,          \* worker processes
  Expirers,         \* calls of run_city_expiration
  EffectiveAt,      \* the effective_at each of them is given
  Elsewhere,        \* latest expirations of other cities in a batch
  Drivers,          \* drivers of the city
  Ratings,          \* contributions a review may make, 0 for none
  None,             \* no lock holder, no row
  MaxTime,          \* bound on the clock
  MaxChanges,       \* bound on contribution changes
  MaxFailures       \* bound on failed transactions

ASSUME ProcessesAssumption == Workers \cap Expirers = {} /\ None \notin Workers \cup Expirers

(* Drivers are numbered by stable_id. *)
ASSUME CityAssumption ==
  /\ IsFiniteSet(Drivers) /\ Drivers \subseteq Nat
  /\ IsFiniteSet(Workers) /\ IsFiniteSet(Expirers)
  /\ Ratings \subseteq Nat /\ MaxChanges \in Nat /\ MaxFailures \in Nat

(* The times scores are calculated for. *)
Times == 0..MaxTime \cup Elsewhere \cup {EffectiveAt[x] : x \in Expirers}

(* The rows of driver_scores. *)
Rows == [sum : Nat, count : Nat, eligible : BOOLEAN, calculated : Nat]

(* A trip may have no review, and no row is taken for a missing one. *)
ASSUME RowsAssumption ==
  /\ 0 \in Ratings /\ MaxTime \in Nat /\ Times \subseteq Nat
  /\ None \notin Rows

VARIABLES
  now,              \* wall clock
  rating,           \* what each trip's review contributes now
  unclaimed,        \* pending outbox events of each driver
  changes,          \* contribution changes so far
  score,            \* driver_scores row of each driver, or None
  newest,           \* highest version of a generation, published or not
  published,        \* the published generation: [version, entries]
  expirations,      \* effective_at of the completed expiration_runs
  rowLock,          \* holder of each driver_scores row
  cityLock,         \* holder of the city row, FOR UPDATE
  citySharers,      \* holders of the city row, FOR KEY SHARE
  pc,               \* place of each worker and each expiration call
  claimed,          \* events of each driver in a worker's batch
  todo,             \* drivers a transaction has yet to recalculate
  at,               \* the calculated_at it recalculates for
  work,             \* the driver in hand: [driver, new, old]
  dirty,            \* rows it has written and not committed
  failures          \* failed transactions so far

tables   == <<rating, unclaimed, changes, score, newest, published, expirations>>
rowlocks == <<rowLock, cityLock, citySharers>>
local    == <<claimed, todo, at, work, dirty>>
vars     == <<now, tables, rowlocks, pc, local, failures>>

Processes == Workers \cup Expirers

NoScores == [d \in Drivers |-> None]
NoEvents == [d \in Drivers |-> 0]
NoWork   == [driver |-> None, new |-> None, old |-> None]

Init ==
  /\ now = 0
  /\ rating = [t \in Trips |-> 0]
  /\ unclaimed = NoEvents
  /\ changes = 0
  /\ score = NoScores
  /\ newest = 0
  /\ published = [version |-> 0, entries |-> <<>>]
  /\ expirations = {}
  /\ rowLock = [d \in Drivers |-> None]
  /\ cityLock = None
  /\ citySharers = {}
  /\ pc = [p \in Processes |-> "idle"]
  /\ claimed = [w \in Workers |-> NoEvents]
  /\ todo = [p \in Processes |-> {}]
  /\ at = [p \in Processes |-> 0]
  /\ work = [p \in Processes |-> NoWork]
  /\ dirty = [p \in Processes |-> NoScores]
  /\ failures = 0

-----------------------------------------------------------------------------
(* The environment *)

Tick == /\ now < MaxTime
        /\ now' = now + 1
        /\ UNCHANGED <<tables, rowlocks, pc, local, failures>>

(* A review or moderation command changes a contribution and commits its     *)
(* event.  The event's foreign key locks the city row FOR KEY SHARE, so the  *)
(* command waits while a transaction holds that row FOR UPDATE.              *)
ChangeReview(t, r) ==
  /\ changes < MaxChanges /\ cityLock = None
  /\ r # rating[t]
  /\ rating' = [rating EXCEPT ![t] = r]
  /\ unclaimed' = [unclaimed EXCEPT ![DriverOf[t]] = @ + 1]
  /\ changes' = changes + 1
  /\ UNCHANGED <<now, score, newest, published, expirations, rowlocks, pc, local, failures>>

-----------------------------------------------------------------------------
(* Rows and generations *)

Merge_ForgetEligible(base, old, new) ==
  [c \in DOMAIN new |-> IF new[c] # old[c] /\ c # "eligible" THEN new[c] ELSE base[c]]

(* The UPDATE of a row the session loaded as `old': only the columns that    *)
(* differ from `old' are written.                                            *)
Merge(base, old, new) ==
  [c \in DOMAIN new |-> IF new[c] # old[c] THEN new[c] ELSE base[c]]

(* What the ranking of some rows depends on: the eligible drivers' sums and  *)
(* counts.                                                                   *)
Standing(rows) ==
  [d \in {e \in Drivers : rows[e] # None /\ rows[e].eligible} |->
     [sum |-> rows[d].sum, count |-> rows[d].count]]

Entries(standing) ==
  LET ranked == RankedDrivers(standing)
      Entry(d) == [driver |-> d, sum |-> standing[d].sum, count |-> standing[d].count]
  IN [i \in DOMAIN ranked |-> Entry(ranked[i])]

Generation_Unflushed(rows) == [version |-> newest + 1, entries |-> Entries(Standing(score))]

(* The generation ranked from the rows a transaction sees. *)
Generation(rows) == [version |-> newest + 1, entries |-> Entries(Standing(rows))]

(* The averages to rank by exist: a row mixed from two calculations may be   *)
(* eligible with a count of 0, and the query that divides by it fails.       *)
Rankable(rows) == \A d \in DOMAIN Standing(rows) : rows[d].count > 0

(* CHECK (contributing_review_count >= 20) of leaderboard_entries *)
Storable(g) == \A i \in DOMAIN g.entries : g.entries[i].count >= EligibilityCount

Publishable(rows) == Rankable(rows) /\ Storable(Generation(rows))

LatestExpiration == IF expirations = {} THEN now ELSE Max(expirations)

(* What a transaction sees: its own rows where it wrote, else what is        *)
(* committed.                                                                *)
View(p) == [d \in Drivers |-> IF rowLock[d] = p THEN dirty[p][d] ELSE score[d]]

(* The city row can be locked FOR UPDATE. *)
CityFree(p) == cityLock = None /\ citySharers \subseteq {p}

(* A rollback or a commit ends a transaction. *)
EndTransaction(p, place) ==
  /\ pc' = [pc EXCEPT ![p] = place]
  /\ todo' = [todo EXCEPT ![p] = {}]
  /\ at' = [at EXCEPT ![p] = 0]
  /\ work' = [work EXCEPT ![p] = NoWork]
  /\ dirty' = [dirty EXCEPT ![p] = NoScores]
  /\ cityLock' = IF cityLock = p THEN None ELSE cityLock
  /\ citySharers' = citySharers \ {p}
  /\ rowLock' = [d \in Drivers |-> IF rowLock[d] = p THEN None ELSE rowLock[d]]

-----------------------------------------------------------------------------
(* recalculate_driver_score, the same in a worker and in an expiration run *)

(* _aggregate, without a lock on the reviews or the score.  An expiration    *)
(* goes by stable_id, a worker iterates over a set.                          *)
Aggregate(p) ==
  /\ pc[p] = "batch"
  /\ \E d \in todo[p] :
       /\ p \in Expirers => d = Min(todo[p])
       /\ work' = [work EXCEPT ![p] =
                     [driver |-> d, new |-> ScoreOf(rating, d, at[p]), old |-> None]]
       /\ todo' = [todo EXCEPT ![p] = @ \ {d}]
  /\ pc' = [pc EXCEPT ![p] = "aggregated"]
  /\ UNCHANGED <<now, tables, rowlocks, claimed, at, dirty, failures>>

(* session.get(DriverScore, ...).  An expiration has loaded the row before   *)
(* the aggregate (expiration_service.py:40), which makes no difference: it   *)
(* has the city, without which nobody commits scores or reviews.             *)
Load(p) ==
  /\ pc[p] = "aggregated"
  /\ work' = [work EXCEPT ![p].old = score[work[p].driver]]
  /\ pc' = [pc EXCEPT ![p] = "loaded"]
  /\ UNCHANGED <<now, tables, rowlocks, claimed, todo, at, dirty, failures>>

(* The flush of a row that was there and is to change waits for it. *)
FlushUpdate(p) ==
  LET d == work[p].driver
      changed == work[p].new # work[p].old
  IN /\ pc[p] = "loaded" /\ work[p].old # None
     /\ changed => rowLock[d] = None
     /\ dirty' = [dirty EXCEPT ![p][d] =
                    IF changed THEN Merge(score[d], work[p].old, work[p].new) ELSE @]
     /\ rowLock' = [rowLock EXCEPT ![d] = IF changed THEN p ELSE @]
     /\ work' = [work EXCEPT ![p] = NoWork]
     /\ pc' = [pc EXCEPT ![p] = "batch"]
     /\ UNCHANGED <<now, tables, cityLock, citySharers, claimed, todo, at, failures>>

(* The flush of a new row waits for another insert of it, see DuplicateRow. *)
FlushInsert(p) ==
  LET d == work[p].driver
  IN /\ pc[p] = "loaded" /\ work[p].old = None
     /\ rowLock[d] = None /\ score[d] = None
     /\ dirty' = [dirty EXCEPT ![p][d] = work[p].new]
     /\ rowLock' = [rowLock EXCEPT ![d] = p]
     /\ pc' = [pc EXCEPT ![p] = "inserted"]
     /\ UNCHANGED <<now, tables, cityLock, citySharers, claimed, todo, at, work, failures>>

(* The foreign key of the new row is checked, which locks the city row FOR   *)
(* KEY SHARE until the transaction ends.                                     *)
ReferenceCity(p) ==
  /\ pc[p] = "inserted" /\ cityLock \in {None, p}
  /\ citySharers' = citySharers \cup {p}
  /\ work' = [work EXCEPT ![p] = NoWork]
  /\ pc' = [pc EXCEPT ![p] = "batch"]
  /\ UNCHANGED <<now, tables, rowLock, cityLock, claimed, todo, at, dirty, failures>>

Recalculate(p) ==
  Aggregate(p) \/ Load(p) \/ FlushUpdate(p) \/ FlushInsert(p) \/ ReferenceCity(p)

-----------------------------------------------------------------------------
(* process_batch *)

(* A batch: some of the pending events, and a time for its calculations that *)
(* is no earlier than the latest completed expiration at this moment, of     *)
(* this city and of any other the batch has events of.                       *)
Claim(w) ==
  /\ pc[w] = "idle"
  /\ \E batch \in [Drivers -> 0..MaxChanges] :
       /\ batch # NoEvents /\ \A d \in Drivers : batch[d] <= unclaimed[d]
       /\ claimed' = [claimed EXCEPT ![w] = batch]
       /\ unclaimed' = [d \in Drivers |-> unclaimed[d] - batch[d]]
       /\ todo' = [todo EXCEPT ![w] = {d \in Drivers : batch[d] > 0}]
  /\ \E also \in Elsewhere \cup {now} :
       at' = [at EXCEPT ![w] = Max({now, LatestExpiration, also})]
  /\ pc' = [pc EXCEPT ![w] = "batch"]
  /\ UNCHANGED <<now, rating, changes, score, newest, published, expirations, rowlocks,
                 work, dirty, failures>>

(* build_and_publish_generation takes the city row, and the batch commits. *)
PublishAndCommit(w) ==
  LET g == Generation(View(w))
  IN /\ pc[w] = "batch" /\ todo[w] = {} /\ CityFree(w)
     /\ Publishable(View(w))
     /\ score' = View(w)
     /\ published' = g /\ newest' = g.version
     /\ claimed' = [claimed EXCEPT ![w] = NoEvents]
     /\ EndTransaction(w, "idle")
     /\ UNCHANGED <<now, rating, unclaimed, changes, expirations, failures>>

(* failure_outcome answers "processing", which nobody claims. *)
RollBack_LeaveProcessing(w) ==
  /\ EndTransaction(w, "idle")
  /\ UNCHANGED <<now, rating, unclaimed, changes, score, newest, published, expirations, claimed>>

(* failure_outcome gives up at the first failure. *)
RollBack_GiveUp(w) ==
  /\ claimed' = [claimed EXCEPT ![w] = NoEvents]
  /\ EndTransaction(w, "idle")
  /\ UNCHANGED <<now, rating, unclaimed, changes, score, newest, published, expirations>>

(* The batch rolls back and its failure is recorded: its events are pending  *)
(* again, the delay and the limit of their attempts being left to Outbox.    *)
RollBack(w) ==
  /\ unclaimed' = [d \in Drivers |-> unclaimed[d] + claimed[w][d]]
  /\ claimed' = [claimed EXCEPT ![w] = NoEvents]
  /\ EndTransaction(w, "idle")
  /\ UNCHANGED <<now, rating, changes, score, newest, published, expirations>>

(* The insert meets a row committed since the load. *)
DuplicateRow(w) ==
  /\ pc[w] = "loaded" /\ rowLock[work[w].driver] = None
  /\ work[w].old = None /\ score[work[w].driver] # None
  /\ RollBack(w)
  /\ UNCHANGED failures

(* A row mixed from two calculations is marked eligible with a count below   *)
(* the limit, which the query or the check on leaderboard_entries refuses.   *)
RefuseEntry(w) ==
  /\ pc[w] = "batch" /\ todo[w] = {} /\ CityFree(w)
  /\ ~Publishable(View(w))
  /\ RollBack(w)
  /\ UNCHANGED failures

(* Any other error of the batch: the worker records it and goes on.  For the *)
(* tables its death is a failed batch too, but no further batch follows.     *)
FailBatch(w) ==
  /\ pc[w] # "idle" /\ failures < MaxFailures
  /\ failures' = failures + 1
  /\ RollBack(w)

-----------------------------------------------------------------------------
(* run_city_expiration *)

(* The idempotency check comes before the lock. *)
CheckExpiration(x) ==
  /\ pc[x] = "idle"
  /\ pc' = [pc EXCEPT ![x] = IF EffectiveAt[x] \in expirations THEN "done" ELSE "checked"]
  /\ UNCHANGED <<now, tables, rowlocks, local, failures>>

LockCity_Unlocked(x) ==
  /\ pc[x] = "checked" /\ CityFree(x)
  /\ EffectiveAt[x] \notin expirations
  /\ todo' = [todo EXCEPT ![x] = Drivers]
  /\ at' = [at EXCEPT ![x] = EffectiveAt[x]]
  /\ pc' = [pc EXCEPT ![x] = "batch"]
  /\ UNCHANGED <<now, tables, rowlocks, claimed, work, dirty, failures>>

(* The city row is locked and the row of the run inserted. *)
LockCity(x) ==
  /\ pc[x] = "checked" /\ CityFree(x)
  /\ EffectiveAt[x] \notin expirations
  /\ cityLock' = x
  /\ todo' = [todo EXCEPT ![x] = Drivers]
  /\ at' = [at EXCEPT ![x] = EffectiveAt[x]]
  /\ pc' = [pc EXCEPT ![x] = "batch"]
  /\ UNCHANGED <<now, tables, rowLock, citySharers, claimed, work, dirty, failures>>

RollBackExpiration(x) ==
  /\ EndTransaction(x, "done")
  /\ UNCHANGED <<now, tables, claimed>>

(* A run of the same time committed since the check: the insert violates the *)
(* unique (city_id, effective_at).                                           *)
RejectSecondRun(x) ==
  /\ pc[x] = "checked" /\ CityFree(x)
  /\ EffectiveAt[x] \in expirations
  /\ RollBackExpiration(x)
  /\ UNCHANGED failures

(* The drivers counted in affected_drivers: under the city's lock `score' is *)
(* still what the run read before.                                           *)
Affected(x) ==
  {d \in Drivers : \/ score[d] = None
                   \/ \E c \in {"sum", "count", "eligible"} : score[d][c] # View(x)[d][c]}

(* The run commits; it publishes a generation only if a driver changed. *)
CommitExpiration(x) ==
  /\ pc[x] = "batch" /\ x \in Expirers /\ todo[x] = {}
  /\ score' = View(x)
  /\ published' = IF Affected(x) = {} THEN published ELSE Generation(View(x))
  /\ newest' = IF Affected(x) = {} THEN newest ELSE newest + 1
  /\ expirations' = expirations \cup {EffectiveAt[x]}
  /\ EndTransaction(x, "done")
  /\ UNCHANGED <<now, rating, unclaimed, changes, claimed, failures>>

(* The call ends with an error; another one would be another expirer. *)
FailExpiration(x) ==
  /\ pc[x] \notin {"idle", "done"} /\ failures < MaxFailures
  /\ failures' = failures + 1
  /\ RollBackExpiration(x)

-----------------------------------------------------------------------------
(* Lock waits: a worker has its rows when it asks for the city, an           *)
(* expiration has the city when it asks for the rows, and two workers that   *)
(* inserted rows of one city share it when each asks for it alone.           *)

WantsCity(p) == pc[p] = "checked" \/ (p \in Workers /\ pc[p] = "batch" /\ todo[p] = {})

WantsRow(p) == pc[p] = "loaded" /\ work[p].new # work[p].old

WaitsFor(p, q) ==
  /\ p # q
  /\ \/ WantsRow(p) /\ rowLock[work[p].driver] = q
     \/ pc[p] = "inserted" /\ cityLock = q
     \/ WantsCity(p) /\ (cityLock = q \/ q \in citySharers)

Deadlocked ==
  LET Waits   == TransitiveClosure([x, y \in Processes |-> WaitsFor(x, y)], Processes)
      waiting == {p \in Processes : \E q \in Processes : WaitsFor(p, q)}
  IN {p \in waiting : (\E q \in waiting : WaitsFor(q, p)) /\ Waits[p, p]}

(* PostgreSQL cancels one transaction of a cycle. *)
CancelBatch(w) == w \in Deadlocked /\ RollBack(w) /\ UNCHANGED failures

CancelExpiration(x) == x \in Deadlocked /\ RollBackExpiration(x) /\ UNCHANGED failures

-----------------------------------------------------------------------------
WorkerStep(w) == \/ Claim(w) \/ Recalculate(w) \/ PublishAndCommit(w)
                 \/ DuplicateRow(w) \/ RefuseEntry(w) \/ CancelBatch(w)

ExpirerStep(x) == \/ CheckExpiration(x) \/ LockCity(x) \/ RejectSecondRun(x)
                  \/ Recalculate(x) \/ CommitExpiration(x) \/ CancelExpiration(x)

Next ==
  \/ Tick
  \/ \E t \in Trips, r \in Ratings : ChangeReview(t, r)
  \/ \E w \in Workers : WorkerStep(w) \/ FailBatch(w)
  \/ \E x \in Expirers : ExpirerStep(x) \/ FailExpiration(x)

Spec == Init /\ [][Next]_vars

(* The workers are running ones, which loop for ever (what the end of one    *)
(* means is the subject of Outbox), a call that started runs on, and         *)
(* PostgreSQL hands a lock to its waiters in turn, so that a batch that can  *)
(* take the city again and again takes it before others come back for it.    *)
(* Reviews, expirations and failures need not come.                          *)
FairSpec ==
  /\ Spec
  /\ \A w \in Workers : SF_vars(WorkerStep(w)) /\ SF_vars(PublishAndCommit(w))
  /\ \A x \in Expirers : SF_vars(pc[x] # "idle" /\ ExpirerStep(x))

-----------------------------------------------------------------------------
(* tools/audit/checks.py: the drivers that a query of the audit counts *)

(* score_matches_authoritative_reviews *)
WrongScores ==
  {d \in Drivers : score[d] # None /\
     LET exact == ScoreOf(rating, d, score[d].calculated)
     IN score[d].sum # exact.sum \/ score[d].count # exact.count}

(* score_eligibility_matches_count *)
WrongEligibility ==
  {d \in Drivers : score[d] # None /\ score[d].eligible # (score[d].count >= EligibilityCount)}

(* every_driver_has_score *)
MissingScores == {d \in Drivers : score[d] = None}

(* scores_cover_latest_expiration *)
OutdatedScores ==
  {d \in Drivers : /\ score[d] # None /\ expirations # {}
                   /\ score[d].calculated < Max(expirations)}

(* published_leaderboard_matches_scores *)
WrongEntries ==
  LET eligible == {d \in Drivers : score[d] # None /\ score[d].eligible}
      ExpectedRank(d) == 1 + Cardinality({e \in eligible : Ahead(score, e, d)})
      expected == {d \in eligible : ExpectedRank(d) <= BoardLimit}
      ranks    == DOMAIN published.entries
      Entry(i) == published.entries[i]
  IN {d \in Drivers :
        IF d \in expected
        THEN ~ \E i \in ranks : /\ i = ExpectedRank(d)
                                /\ Entry(i) = [driver |-> d, sum |-> score[d].sum,
                                               count |-> score[d].count]
        ELSE \E i \in ranks : Entry(i).driver = d}

-----------------------------------------------------------------------------
(* Properties *)

Phases == {"idle", "checked", "batch", "aggregated", "loaded", "inserted", "done"}

TypeOK ==
  /\ now \in 0..MaxTime /\ changes \in 0..MaxChanges /\ failures \in 0..MaxFailures
  /\ rating \in [Trips -> Ratings]
  /\ unclaimed \in [Drivers -> 0..MaxChanges]
  /\ \A d \in Drivers : score[d] # None => score[d] \in Rows
  /\ newest \in Nat /\ published.version \in 0..newest
  /\ Len(published.entries) <= BoardLimit
  /\ expirations \subseteq {EffectiveAt[x] : x \in Expirers}
  /\ rowLock \in [Drivers -> Processes \cup {None}]
  /\ cityLock \in Expirers \cup {None} /\ citySharers \subseteq Processes
  /\ pc \in [Processes -> Phases]
  /\ claimed \in [Workers -> [Drivers -> 0..MaxChanges]]
  /\ todo \in [Processes -> SUBSET Drivers]
  /\ at \in [Processes -> Nat]

(* No event of the driver is pending or in a batch. *)
Settled(d) == unclaimed[d] = 0 /\ \A w \in Workers : claimed[w][d] = 0

(* The audit finds nothing wrong in the driver's score; a driver without a   *)
(* score has no review that counts.                                          *)
Authoritative(d) ==
  /\ d \notin WrongScores \cup WrongEligibility
  /\ d \in MissingScores => \A t \in Trips : DriverOf[t] = d => rating[t] = 0

(* Once a driver's events are done, its score is the aggregate of its        *)
(* current reviews over the score's own window                               *)
(* (score_matches_authoritative_reviews, tools/audit/checks.py:73): no       *)
(* contribution is lost between an aggregate and the write that uses it.     *)
SettledScoresAreAuthoritative == \A d \in Drivers : Settled(d) => Authoritative(d)

(* The published entries are the eligible scores in their order              *)
(* (published_leaderboard_matches_scores, tools/audit/checks.py:115), at     *)
(* every moment and not only when the queue is empty.                        *)
PublishedMatchesScores == WrongEntries = {}

(* The published board is the ranking of the committed scores and of no      *)
(* older or uncommitted ones, with any number of workers and expirations:    *)
(* scores change only under the city's lock and with a publication, unless   *)
(* an expiration finds that none is needed (expiration_service.py:62).       *)
PublishedIsRanking ==
  published.version > 0 => published.entries = Entries(Standing(score))

(* The audit's scores_cover_latest_expiration (tools/audit/checks.py:236):   *)
(* no score is older than a completed expiration.                            *)
ScoresCoverLatestExpiration ==
  OutdatedScores = {} /\ (expirations # {} => MissingScores = {})

(* An expiration run leaves every score exact at its effective time,         *)
(* whatever commands and batches are in the middle of their transactions:    *)
(* it aggregates and loads without row locks, and what it read first must    *)
(* still hold when it commits (expiration_service.py:25).                    *)
ExpirationIsExact ==
  [][\A e \in expirations' \ expirations, d \in Drivers :
       score'[d] = ScoreOf(rating', d, e)]_vars

(* The eligible drivers whose entry the check on leaderboard_entries refuses *)
(* as soon as their rank is within the limit of the board (entities.py:174). *)
Unlistable == {d \in WrongEligibility : score[d].eligible}

(* Workers take score rows before the city, expirations the city before the  *)
(* rows, and workers that insert rows of one city deadlock over the city.    *)
(* These cycles are broken and refused batches retried, so that once the     *)
(* reviews rest every event is settled and every expiration call has ended:  *)
(* unless a row mixed from two calculations was committed beyond the limit   *)
(* of the board and stays there to stop the publications that reach it.      *)
QueueDrains ==
  <>[](Unlistable = {}) =>
    <>[](/\ \A d \in Drivers : Settled(d)
         /\ \A x \in Expirers : pc[x] \in {"idle", "done"})

(* Leaderboards are eventually consistent (architecture.md:204): once the    *)
(* reviews rest, the events are settled and the scores, hence by             *)
(* PublishedMatchesScores the leaderboard, are those of the reviews for good.*)
EventuallyConsistent ==
  <>[](\A d \in Drivers : Settled(d) /\ Authoritative(d))
=============================================================================
