# Driverboard in TLA+

Driverboard keeps per-city leaderboards of drivers, ranked by the reviews riders
gave their trips in the last 90 days. Review and moderation commands commit to
PostgreSQL together with an outbox event; workers turn events into scores and
publish a new generation of the city's leaderboard; expiration runs advance the
window; rebuilds replace a city's scores after a comparison; Redis caches the
published generation. These modules model all of that, lock by lock where the
behaviour depends on it, check it with TLC, and prove with TLAPS the safety of the
outbox, the commands, the scores, the rebuilds and the cache.
Source paths below are relative to `src/driver_leaderboard/` unless they start
with `tools/` or `architecture.md`.

## Inventory

| Component | State | Operations | Interacts with |
|---|---|---|---|
| Review commands, `services/review_service.py` | `reviews`, `review_versions`, `idempotency_requests` | `upsert_review`, `delete_review` | outbox (same transaction), moderation (row locks) |
| Moderation, `services/moderation_service.py` | `moderation_decisions`, `reviews.moderation_excluded` | `moderate_review` | the same rows, outbox |
| Outbox, `services/outbox_service.py` | `outbox_events` | `enqueue_contribution_change` | worker |
| Worker, `services/worker_service.py`, `tools/worker/cli.py` | event status, `processed_outbox_events` | `process_batch`, `record_batch_failure`, `drain_outbox`, the poll loop | scoring, generations, cache |
| Scoring, `services/scoring_service.py` | `driver_scores` | `recalculate_driver_score`, `rebuild_city_scores` | reads reviews |
| Generations, `services/leaderboard_service.py` | `leaderboard_generations`, `leaderboard_entries` | `build_and_publish_generation` | locks the city, reads scores |
| Expiration, `services/expiration_service.py` | `expiration_runs` | `run_city_expiration` | scoring and generations under the city lock |
| Staged rebuild, `services/rebuild_service.py` | `rebuild_jobs`, candidate scores and generation | `start_rebuild`, `publish_rebuild`, `discard_rebuild` | city lock, scores, generations, cache |
| Cache, `services/cache_service.py` | one Redis key for each city, with a TTL | read-through, `refresh_city_cache` | called after commits |
| Audit, `tools/audit/checks.py` | none | read-only SQL | every table |

What is hard, component by component, and what makes each correct:

* **Review commands and moderation.** Concurrent retries of one idempotency key;
  an unlocked read of the review that is used later; two computations of "next
  version" or "next decision number"; opposite lock orders. Correct means: one
  effect per key, sequential versions and decisions, and an outbox event exactly
  when a trip's contribution to the score changes.
* **Outbox and worker.** Interleaved claim queries, overlapping batches after a
  rollback, a failure recorded by a second transaction, crashes between the two,
  lost acknowledgements. Correct means: at most one application of an event,
  attempts bounded, every event settled.
* **Scores, generations and expiration.** An aggregate used after the reviews
  changed, updates of only the changed columns, a time bound read too early,
  locks taken in three different orders. Correct means: settled scores are the
  aggregates of the reviews, the published board is their ranking, expirations
  are exact, and deadlocks do not stop the queue.
* **Rebuild.** A candidate published after what it was compared with moved on; a
  publication and a discard at once; score rows replaced under a worker that has
  loaded them; the city held while waiting for rows. Correct means: a publication
  loses no processed review, a decision is final, the queue still drains.
* **Cache.** A slow reader's fill after a newer refresh; a crash before a refresh; a
  timed-out command applied late; a Redis that restarts from an older file. Correct
  means: only published boards are served, and a superseded one is forgotten within
  the TTL of the last copy of it.

`PROJECT.json` lists each hazard at its line with the properties that cover it.

## Modules

| Module | What it is |
|---|---|
| `Delivery` | Abstract contract of the outbox: an event is accepted, then delivered once, applied once, or abandoned. |
| `Outbox` | The `outbox_events` rows and the workers, statement by statement. Implements `Delivery`. |
| `OutboxProofs` | Theorems about `Outbox`, for all constants. |
| `ReviewStore` | Abstract store: each command is one atomic step, once per key. |
| `ReviewTransactions` | The three commands as transactions with their locks. Implements `ReviewStore`. |
| `ReviewTransactionsProofs` | Theorems about `ReviewTransactions`, for all constants. |
| `Leaderboard` | Pure operators: window, aggregate, eligibility, ranking. |
| `LeaderboardProofs` | Theorems about sums, windows and rankings, without any state. |
| `ScoreRefresh` | Workers and expiration runs as transactions on score rows, the city row and the published generation. |
| `ScoreRefreshProofs` | Theorems about `ScoreRefresh`, for all constants. |
| `PublishedBoardProofs` | More theorems about `ScoreRefresh`: its types and the audit of the board; rests on `LeaderboardProofs` and `ScoreRefreshProofs`. |
| `Generations` | Abstract life of a city's generations: candidate, published, superseded, discarded. |
| `StagedRebuild` | `ScoreRefresh` with the calls of `rebuild_service` and the offline rebuild tools. Implements `Generations`. |
| `StagedRebuildProofs` | Theorems about `StagedRebuild`, for all constants; rests on `ScoreRefreshProofs`. |
| `RebuildTypesProofs` | The type invariant of `StagedRebuild`; rests on `StagedRebuildProofs` and `PublishedBoardProofs`. |
| `ServableBoards` | Abstract promise to readers: what may still be told, and never again. |
| `LeaderboardCache` | The Redis key beside the generations (an instance of `Generations`), refreshes, fills and faults. Implements `ServableBoards`. |
| `LeaderboardCacheProofs` | Theorems about `LeaderboardCache`, for all constants. |
| `MCOutbox`, `MCReviews`, `MCScores`, `MCRebuild`, `MCCache` | Instances for TLC. |

Definitions with a suffix, such as `LockTrip_Unlocked`, are wrong variants of the
definition they are named after. They are used by no specification: put in the
place of the original they break the property they were written for, which shows
that the property depends on the code.

### Outbox

`status`, `attempts`, `due` and `ledger` are the committed columns and rows.
`"processing"` does not appear: `process_batch` writes it but always commits or
rolls back past it. A claim is three actions, `BeginBatch` (the snapshot of the
query), `ScanRow` (one row visited: skipped if locked, otherwise rechecked against
its committed version, as READ COMMITTED does) and `EndScan`. `GroupEvents` reads
the ledger, `CommitBatch` makes everything visible. `LoseCommitAck` is a commit
that takes effect although `session.commit()` raises. `FailBatch` is the rollback,
`RelockRow` and `RecordFailure` are `record_batch_failure`, which locks its rows one
by one, in no order, as its query has no `ORDER BY`, and then charges all of them.
Two such records of overlapping batches can therefore deadlock (`Deadlocked`); the poll
loop does not catch the detector's error, and the process it picks ends
(`DieOfDeadlock`). `Crash` is any other end of a process, at any point; it also stands
for the `--drain` worker, which leaves on `WorkerBatchError` without recording. A worker
that ended stays `"down"` and does nothing until somebody starts it again (`Restart`):
`docker-compose.yml` gives it no restart policy. `applied` counts the committed batches that
recalculated for an event; it is not in the database.

Exponential delays are abstracted to "due or not due". Rows are ordered by
`(created_at, id)`, which is not the order of their commits: `Enqueue` may happen
in any order.

### ReviewTransactions

One action for each lock a command waits for and each read whose result is used
later: `LockKey`, `Lookup`/`Replay`/`Conflict`, `LockTrip`, `ReadReview` (unlocked),
`LockReview`, and the commit. The last wait and the commit are one action, as
nothing is visible in between. What PostgreSQL locks by itself matters: inserting
a version takes a key-share lock on its review, which waits for a moderator's
`FOR UPDATE` (`UpsertNeedsReviewRow`). A moderation locks the review, then its trip;
a rider's command the other way round; `DeadlockVictim` is the detector's choice.
`Fail` is any error, disconnection or process death. Requests hash to themselves:
two requests conflict when any field differs.

The idempotency table, versions and decisions are sets of rows, so that a
duplicate version or decision number would show.

### Leaderboard and ScoreRefresh

Time, window, eligibility and limit are small numbers. A trip's `rating` is its
contribution at this moment (0 for none), the outcome of `ReviewTransactions`; an event
is a count per driver, the delivery itself being the subject of `Outbox`. A
recalculation is `Aggregate`, `Load`, then `FlushUpdate` (only changed columns, after
waiting for the row) or `FlushInsert` and `ReferenceCity`: the foreign key of a new
score row locks the city for key-share, which conflicts with the city's `FOR UPDATE`.
Workers and expiration runs share these steps. Workers lock the city in
`PublishAndCommit`, expirations in `LockCity`; `DuplicateRow`, `RefuseEntry` and
`RejectSecondRun` are the constraint violations the tables' keys and checks can raise,
`CancelBatch` and `CancelExpiration` the deadlock detector. SQLAlchemy's identity map is
weak and a batch drops each score after its flush, so entries are read back from the
rows. The other cities of a batch appear by their latest expirations (`Elsewhere`),
which the batch's calculation time must cover too. `Standing` is what the ranking query
reads of the rows and `Entries` the numbered ranking; `Generation` publishes it.
`InOrder` is the `ORDER BY`, a total order because `stable_id` is its last key. The
query divides by the count of every eligible row (`Rankable`), and the table of entries
refuses a count below 20 (`Storable`): a row mixed from two calculations can fail
either, and the batch rolls back. An expiration that changes no driver's sum, count or
eligibility publishes nothing, although it moves every row's calculation time.
`WrongScores` to `WrongEntries` are the queries of `tools/audit/checks.py`; the
properties are stated with them. A review command waits while the city is locked because
its event references the city.

### Generations and StagedRebuild

`StagedRebuild` extends `ScoreRefresh` with admin calls on the same rows and locks.
`ReadLatest` and `BuildCandidate` are `start_rebuild`: the latest expiration is read
before the city is locked; all else happens under that lock, where no commit of
scores, reviews or generations can come in between, and is one step. The job keeps
the candidate's rows, its board and the result of `_compare`. `LockJob`,
`LockCityToPublish` or `RefuseStale`, and `CommitPublish` are `publish_rebuild`; the
deletion of the score rows waits until no transaction has written one (PostgreSQL
takes the rows one by one, the model all at once when all are free; a worker that
has one row and waits for another then waits for the city instead, so the deadlock
is there either way). An `UPDATE` that waited while its row was deleted and inserted
anew matches nothing, the session raises `StaleDataError` and the batch rolls back
(`MayBeStale`, `RollBackStale`); an `UPDATE` sent after the commit finds the new row.
`DiscardRebuild` takes the job lock only. `DeleteScores`, `AggregateScore`, `LoadScore`,
`UpdateScore`, `InsertScore`, `ReferenceCityOfScore` and `CommitScores` are
`rebuild_city_scores`, which never locks the city row for update but shares it through
its inserts. It deletes the rows it sees, so a driver's first row that a batch or an
expiration commits after that is found and updated, unless it comes between the look
and the insert, which then fails (`DuplicateScore`); an update that waits while another
call replaces the row is one of the errors of `FailCall`. `PublishBoard` is `tools/rebuild/leaderboard.py`;
`CorruptScore` is the corruption `tools/iteration/cli.py` commits to exercise a
rebuild. `InCycle` extends the deadlock detector to the admin calls. A job is never
`"running"` for others to see: it is inserted and made ready in one transaction.

`Generations` holds only the status of each version. `StagedRebuild` maps a version
to `published` when it is the live one, to the status of the job that staged it, and
to `superseded` otherwise.

### ServableBoards and LeaderboardCache

Here a generation is its version. The database side is `Generations` itself, so a
candidate has a newer version than the board that is published. A publisher (worker,
expiration, `publish_rebuild`) commits, reads the published generation, and sends
`SETEX`; `tools/cache/cli.py` does the last two. A reader hits, or misses, reads and
fills. Any call to Redis may fail (`Miss`, `WriteFailed`), which is also how a process
without `CACHE_ENABLED` behaves; a write may time out at the client after 0.1 s and
apply later (`WriteTimedOut`, `ApplyLate`); a process may die anywhere (`Crash`); Redis
may restart with an append-only file that lags (`Sync`, `RestartRedis`), in which keys
keep their absolute expiry. The entries of a generation never change, so the two
queries of `get_published_leaderboard` are one step. `age` is not in the code: it
counts the ticks since the last publication or the last write of a superseded board.
`Copies` are all the places an answer can still come from.

## Runs

| Run | Question | Bounds, and why they are enough |
|---|---|---|
| `outbox_two_workers` | Effect-once, disjoint claims, audit relations, terminal failure, refinement of `Delivery`, settlement | 2 workers, 2 events in batches of 2, 3 attempts, 1 crash, 1 lost acknowledgement. Overlapping batches, partial claims, attempts that jump past the limit and deadlocked failure records all occur, the last without a bound. |
| `outbox_one_worker` | Ledger and status agree; attempts stay within the budget | 1 worker, 3 events, batches of 2, 2 crashes: the deployment of `docker-compose.yml`. |
| `outbox_late_record` | Does the ledger check hold with two workers? No. | 2 workers, 1 event, no crash, no lost acknowledgement. |
| `reviews_one_trip` | Versions, decisions, events, keys, replies, refinement of `ReviewStore` | 2 clients, 3 keys (so 3 effective commands), every kind of request on one trip, the rider's, another rider's and a refused one, 1 failure. Trips do not share rows, so one shows all conflicts. |
| `reviews_progress` | Every request ends | 2 clients, 3 keys, one request of each kind and one for an unknown trip: the lock-order deadlock occurs. |
| `scores_one_worker` | Scores, published board, convergence | 1 worker, 2 drivers, 3 trips, board of 1, clock 0..2, 3 changes, 1 failure, another city with a later expiration: trips enter and leave the window, the board is cut, calculation times go back and forth. |
| `scores_contention` | Exactness of expirations; the published entries are the ranking of the rows; the queue drains | 2 workers, 2 calls for one time, 2 drivers without rows, eligibility at 2 reviews, 2 changes, 1 failure: every constraint violation occurs, and cycles over rows and over the shared city. |
| `scores_two_workers` | Are settled scores authoritative with two workers? No. | 2 workers, 1 driver, 2 changes. |
| `scores_expiration` | Do scores cover the latest expiration? No. | 1 worker, 1 expiration. |
| `rebuild_one_worker` | Refinement of `Generations`, one active job; no processed review lost; nobody starves | 1 worker, 1 admin, 2 jobs, 1 driver, 2 trips that make it eligible, 2 changes, 1 repair or corruption, 1 failure: a start while a job is ready, a job after a decided one, stale candidates, a discard during a publication, rows deleted under a batch, refused entries and every cycle of waits. Expirations and a second admin are covered by the proofs, which have any number of both. |
| `rebuild_lost_change` | Are settled scores authoritative when a rebuild is published? No. | 1 worker, 1 admin, 1 driver with 1 trip, 3 changes, no failure, corruption or offline tool. |
| `cache_readers` | Stale data expires; only published boards, never a forgotten one; superseded boards are forgotten | 1 publisher, 2 readers (1 uncached), 3 generations, a TTL of 2 ticks, 1 late command: a fill, a late command and a file can each hold another version than the key. |

The `scores_*` and `rebuild_*` runs do not check for deadlock because the environment is
bounded: when the clock, the changes and the expiration calls are used up, the system
rests. In `Outbox` an idle worker keeps polling and in `ReviewTransactions` a client may
always send another request, and time always passes for a cache, so TLC checks deadlock
there.

`MaxCrashes`, `MaxLostAcks`, `MaxAborts`, `MaxFailures`, `MaxTime`, `MaxChanges`,
`MaxJobs`, `MaxUpkeep`, `MaxVersions` and `MaxLate` are bounds of the models and have no
counterpart in the code.

### What the violated runs show

1. `record_batch_failure` (`services/worker_service.py:123-127`) sets the status of
   rows it does not own any more. With two workers a completed event becomes
   pending again, or failed for good. Its effect is still applied once
   (`AppliedOnce`, also proved): the ledger protects the scores, not the status.
2. `recalculate_driver_score` (`services/scoring_service.py:62-79`) is not ordered
   between two workers that hold different events of one driver. The older
   aggregate can be written last, and stays.
3. `process_batch` reads the latest expiration (`services/worker_service.py:57`)
   before it holds a lock that keeps expirations out, and can set a score's time
   back behind a completed expiration. One worker is enough.
4. `publish_rebuild` (`services/rebuild_service.py:241-253`) replaces score rows that
   a worker has loaded and not yet written. The worker's flush then writes only the
   columns that differ from what it loaded, into the candidate's older row. One
   worker and one rebuild are enough, and no event is left to repair the score.

The audit check of 3 can also be broken by rebuilds and by expirations alone:
`start_rebuild` reads the latest expiration before it locks the city
(`services/rebuild_service.py:49-54`), an expiration that changes no driver publishes
nothing and so does not make a candidate stale; `rebuild_city_scores` takes the
clock's time without regard to expirations; and `run_city_expiration`
(`services/expiration_service.py:16-24`) takes any time it is given, and one earlier
than a completed run sets every score back, as TLC shows in the constants of
`scores_expiration` without the worker and with calls for the times 2 and 3. These have no run of their own.

`StaleDataExpires` is what holds of `architecture.md:222`, "A 120-second TTL bounds
stale data if a post-commit refresh cannot reach Redis": the bound counts from the
last write of a superseded board, and a reader that read before a publication may
fill the key after it.

## Fairness

* Workers: `tools/worker/cli.py` loops for ever with `--loop`, so a worker that is up and
  can step does (`WF` of `Work`, which has the deadlock detector in it). Retry delays are
  finite (`WF` of `BecomeDue`). Nothing in the repository starts a dead worker again, so
  `Restart` has no fairness; `EventuallySettled` assumes instead that some worker is up
  again and again, whether it never died or was restarted each time. Without that premise
  TLC finds the two workers dead and an event pending for ever. Crashes and lost
  acknowledgements are bounded; deaths by deadlock and failed batches are not: an event
  then fails for good, which is also settled.
* Review commands: PostgreSQL queues the waiters of a lock, so a request whose step is
  possible again and again takes it (`SF` of `Step`); the deadlock detector is part of
  `Step`. No client has to send anything.
* Score refresh: the workers here keep running, since the ends of a process belong to
  `Outbox`; `FailBatch` is an error that the loop survives. `SF` of a worker's and of a started expiration's steps, and of
  `PublishAndCommit` by itself: the first waiter for the city gets it when its holder is
  cancelled. Without that, two workers could cancel each other in turn for ever. Even so
  the queue need not drain: a mixed row, eligible with too low a count, that ranks
  behind `BoardLimit` is committed unchecked, and once the drivers ahead of it drop out
  every publication of the city is refused, until its driver is recalculated or an
  expiration runs. `QueueDrains` and `RebuildsDoNotStarve` therefore assume that no such
  row stays (`Unlistable`). The attempt limit of `Outbox` is left out of `ScoreRefresh`,
  where the number of failures is bounded instead.
* Rebuild: as for score refresh, and a started admin call runs on. Nothing makes an
  admin decide about a ready job or start one. An admin who repeats a publication for
  ever can meet the same batch in a deadlock each time, so that the events settle is
  claimed only if calls cease; that each call ends is claimed always.
* Cache: time passes (`WF` of `Tick`), Redis writes its file (`appendfsync everysec`), a
  command on its way arrives or is lost, a read or refresh that began ends somehow. No
  number of errors is assumed, and no refresh need ever succeed.

## Proofs

`OutboxProofs` is checked by TLAPS for every set of workers, every set of natural
numbers as events and all values of the bounds, from the four assumptions named
in `Outbox`.

* `TypeCorrect`: the type invariant, by itself inductive.
* `Invariance`: the inductive invariant `IInv`. `AppliedOnce` is not inductive: a
  commit adds one to `applied` for the events in `fresh`, which is right only if
  none of them entered the ledger since the worker read it. That is
  `FreshStaysFresh`, which holds because a fresh event is locked (`fresh` is within
  the batch, the batch is held while the worker is in `process_batch`) and
  `ClaimsAreDisjoint` keeps every other worker from committing it. The rest of
  `IInv` says which rows a worker holds in each place, and that pending rows are
  the only ones claimed (`HeldIsPending`), which gives `FailedIsTerminal` and the
  refinement.
* `EffectOnce`, `DisjointClaims`, `CompletionIsRecorded`, `FailureIsExhausted`,
  `TerminalFailure`: safety properties that follow from it. `ClaimsStayValid` states
  the two parts that carry it, `HeldIsPending` and `FreshStaysFresh`.
* `SoleWorkerLedger` and `SoleWorkerAttempts`: `LedgerIsCompleted` and
  `AttemptsWithinBudget`, under `Workers = {w}` and `MaxLostAcks = 0`. Neither
  hypothesis can go. `outbox_late_record` is the counterexample for two workers; and
  one worker whose acknowledgement is lost records a failure of events that its own
  commit completed. `SoleInv` adds that the batch whose failure is being recorded
  is still pending and out of the ledger.
* `OutboxImplementsDelivery`: each step of `Outbox` is, under `Outcome`, a step of
  `Delivery` or a stutter. A commit delivers exactly the fresh events at once; a
  failure record abandons the exhausted ones that the ledger does not hold.

Lemmas about locking and releasing rows (`LockingKeepsDisjoint`,
`ReleasingKeepsDisjoint`) are stated once and cited for each action.

`LeaderboardCacheProofs` is checked for all publishers and readers, with or without
a cache, every time to live and all bounds, from `CacheAssumption`.

* `CacheTypeCorrect`: the type invariant, by itself inductive.
* `StaleDataIsBounded`: `StaleDataExpires` says nothing of a key that is still young,
  so it is not inductive. `Aging` is: of a stale copy, in memory or on disk, `ttl` and
  `age` together are at most `Ttl`. A write starts both over, a tick moves one to
  the other, and a restart takes the copy on disk, of which the same holds.
* `ImplementsServableBoards`: a publication is newer than what it supersedes
  (`PublicationIsNewer`, from the guard of `Promote`), and every other step copies
  only generations that have a copy (`CopiesShrink`), so that it serves or is not
  seen. `CopiesArePublished` adds that nothing is copied before the first one.

`ReviewTransactionsProofs` is checked for all clients, keys, trips, requests and
bounds, from `RequestsAssumption` (an upsert has a positive rating),
`NoneAssumption` and `MaxAbortsAssumption`. The inductive invariant `IInv` is `TypeOK`,
`TablesInv` (what the committed rows of each trip satisfy) and `ClientInv(c)`
for each client: which locks it holds at each `pc`, that a lock it holds is its own,
and that what it has read is what the tables hold.

* `ReviewTypeCorrect`, `LookupsStayValid`, `RepliesStayDurable`,
  `VersionsStaySequential`, `DecisionsAlwaysExplain`: the invariants of
  `reviews_one_trip`. The two on versions and decisions are not inductive: a commit
  appends a number computed from an earlier read, so they need `SeenIsCurrent`,
  proved by itself as `ReadsStayCurrent`. A rider's command reads the review without
  a lock on it, but holds the trip, and every other command that could write that
  review takes the trip before it commits; a moderation reads under the review's lock.
* `EventsFollowContributions`: the action property `EventPerContributionChange`.
* `CommandsImplementStore`: each commit is the store's atomic step, as what the
  client saw is current and its key is unused; an answer is a reply from the table;
  every other step writes nothing (`OnlyCommitsWrite`).

The lemmas `RewriteIsSequential` and `DecisionIsExplained` say what one more row does
to a set of versions and of decisions, without any state.

`ScoreRefreshProofs` is checked for all drivers, trips, ratings, workers, expiration
calls and bounds, from `ProcessesAssumption` (a process is a worker or an expiration
call, and `None` is neither), `RowsAssumption` (times are natural numbers, 0 is a
rating, `None` is no score row), `CityAssumption` (drivers, workers and calls are finite
sets, `stable_id`s and ratings natural numbers) and `TripsAssumption` (the trips are a
finite set). The last two and `LeaderboardProofs` give `ScoreIsRow`: the score computed
for a driver is a complete row, and so is not taken for a missing one.

* `PublishedIsCurrent`: the published entries are those of the committed rows. Every
  commit that changes a row publishes, except an expiration that found no difference,
  and then the rows have the same `Standing` (`SameStanding`). This is stronger than it
  looks for two workers, where the rows themselves may be wrong: the board still
  agrees with them.
* `ExpirationsAreExact`: while a run has the city, `RunInv` says that its view of
  every driver it is done with is the exact score at its effective time, and that the
  one in hand is exact and unchanged since it was loaded. Every step of another
  process leaves this undisturbed, because commits of scores and of reviews need the
  city and row locks keep writers apart.
* `SoleWorkerScores`: `SettledScoresAreAuthoritative` under `Workers = {w}` and
  `Expirers = {}`. Neither hypothesis can go: `scores_two_workers` is the counterexample
  for a second worker, and one expiration is enough as well. A worker that loaded a row
  before the expiration committed waits for it, then writes only the columns that
  differ from what it loaded, so that the row is a mixture of two times, with no event
  left to repair it. TLC finds that in the constants of `scores_one_worker` with one
  expiration call.

`StagedRebuildProofs` adds `AdminsAssumption` (an administrator is no worker, expiration
or `None`) and is checked for any number of administrators and jobs.

* `RebuildInvariantHolds`: `RebuildInv` says who holds the city (`CityInv`), that
  events in hand belong to a batch (`EventsInv`), that versions are handed out in
  order, each job's after its base, and that at most one job is ready (`JobsInv`), that
  a publication's job stays ready under its lock and its base stays published once it
  has the city (`CallsInv`), and that a candidate whose base is still published is
  exact for each driver without an event to process (`CandidateInv`).
* `RebuildsImplementGenerations`: every step leaves the statuses alone, publishes a new
  board, stages, promotes or discards (`SameBoard`, `NewBoard`, and one lemma for each).
  That the promoted version is a candidate, and is newer than what it supersedes, is
  `JobsInv` and `CallsInv`.
* `PublicationsKeepProcessedChanges`: a driver can become settled after the
  comparison only by a batch, which publishes in the same transaction, so that
  the candidate is stale (`CandidateInv`).

`LeaderboardProofs` has no state. It is checked from `TripsAssumption` and
`LimitsAssumption` (the limit of the board is a positive number).

* The library's induction theorems take an operator, which the provers cannot
  instantiate. `SubsetInduction` takes a set of cases instead: a finite set is among
  them if each subset is whose proper subsets all are. It follows from the
  well-foundedness of the proper subsets, which the library states without operators.
  `SumsAgree`, `SumRemove`, `SumChange`, `SumBounds` and `SumType` follow for sums over a
  finite set, `Greatest` for the maximum, and `ScoreType`: a score's sum and count are
  natural numbers.
* `AheadIsTotal` and `AheadIsTransitive`: on rows with a count above 0, comparing
  averages as fractions and then counts and `stable_id` is a strict total order.
* `RankedDriversAreRanked`: a driver's rank is one more than the number of drivers
  ahead of it (`RankIn`), as the audit computes it. No two drivers have one rank, so every
  rank up to their number is taken (`EveryRankIsTaken`), and the sequence of drivers by
  rank is the order that `InOrder` chooses (`OrderExists`, `OrderHasRanks`). The cut at the
  limit then removes exactly the ranks beyond it.

`PublishedBoardProofs` is checked from the assumptions of the two.

* `BoardsInvHolds`: `BoardsInv` adds five parts to the invariant of
  `ScoreRefreshProofs`. `CountInv`: of each driver's events, those pending and those in
  all batches together are no more than the changes made. The bound on the pending ones
  alone is not inductive, as a rollback returns its batch to them, so the sum over the
  workers is needed and what one worker changes in it (`BatchCount`). `RowsInv`: the
  rows that a transaction read, merged or wrote are complete, and a row that it loaded
  is still there when its update is merged. `BoardInv`: no row with a count of 0 is
  committed as eligible, since such a row stops the publication it would be committed
  with. `ClockInv` and `LockInv` bound the times and say who may lock what.
* `TypesAreOK`: `TypeOK`, which contains the conservation of events and the length of
  the board.
* `AuditFindsTheBoard`: `PublishedMatchesScores`. `PublishedIsCurrent` says that the
  entries are the ranking operator's result for the committed rows,
  `RankedDriversAreRanked` what that result is, and `BoardInv` that the rows can be
  compared.

`RebuildTypesProofs` adds `UpkeepAssumption` (the bound is a natural number).

* `RebuildTypesAreOK`: `RebuildTypeOK`. `RebuildInv` has the jobs and the calls that
  publish; `CallTypesInv` adds that no call but the offline recalculation ever holds a
  score row or a share of the city (`HeldBy`), and that a step of another process or
  call gives it none (`Unmoved`); `TimesInv` and `JobRowsInv` add that a candidate's
  rows are complete.

TLC evaluates every assumption on the constants of the runs.

Only model-checked is all liveness (`EventuallySettled`, `EveryRequestIsAnswered`,
`QueueDrains`, `EventuallyConsistent`, `RebuildsDoNotStarve`, `SupersededIsForgotten`),
which the installed backends cannot prove. Every invariant, action property and
refinement of the passing runs is proved, `SettledScoresAreAuthoritative`,
`LedgerIsCompleted` and `AttemptsWithinBudget` for the one worker that their runs have.

## Not modelled

* A batch that spans several cities: only its effect on the calculation time is
  there. Cities share no score rows, and process_batch takes them one by one.
* In `ScoreRefresh` and `StagedRebuild`, workers that end for good: `Outbox` has them.
* In one run, expirations at several times, and expirations or two administrators beside
  rebuilds: their safety is proved for any number of each, their progress is not checked.
* The link from `StagedRebuild` to `LeaderboardCache` is `Generations`, which the one
  implements and the other uses; they are not composed in one state space.
* The load generators and reports under `tools/iteration` and `tools/benchmark`, which
  call the services and add no behaviour but `CorruptScore`; seeding.
* Configuration, the engine, request logging: no state a protocol depends on.
* Columns that only label rows: event types, payloads, error texts, timestamps of
  creation; encodings, status codes, metrics, logging, migrations.
* Two different idempotency keys with one advisory-lock hash: they would only
  wait for each other.
* Loss of committed data by PostgreSQL.

## Plan

1. Done: `Outbox` with `Delivery` and its proofs; `ReviewTransactions` with
   `ReviewStore`; `Leaderboard` and `ScoreRefresh`; `StagedRebuild` with
   `Generations`; `LeaderboardCache` with `ServableBoards`.
2. Done: the type, staleness and refinement of `LeaderboardCache` proved; the
   invariants and the refinement of `ReviewTransactions`; exact expirations, the
   published board and the sole worker of `ScoreRefresh`; the lifecycle of
   generations and the publications of `StagedRebuild`; the sole worker of `Outbox`.
3. Done: the ranking and the sums of `Leaderboard`; the types of `ScoreRefresh` and
   `StagedRebuild`; that the audit finds the published board in order.
4. Left: liveness is model-checked on small instances only; `StagedRebuild` and
   `LeaderboardCache` in one state space; that the board of a ready candidate is the
   ranking of its rows.
