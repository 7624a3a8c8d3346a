------------------------ MODULE StagedRebuildProofs -------------------------
(* Proofs about StagedRebuild, for any number of drivers, trips, workers,    *)
(* expiration calls and administrators: generations live as Generations      *)
(* says, and a publication loses no processed review.                        *)
EXTENDS StagedRebuild, ScoreRefreshProofs, SequenceTheorems

-----------------------------------------------------------------------------
(* The invariant *)

Publishing(a) == admin[a].pc \in {"publishing", "replacing"}

(* Who holds the city; nobody else can publish. *)
CityInv ==
  /\ DOMAIN pc = Processes
  /\ \A x \in Expirers : Running(x) => cityLock = x
  /\ \A a \in Admins : admin[a].pc = "replacing" => cityLock = a

EventsInv ==
  /\ unclaimed \in [Drivers -> Nat]
  /\ claimed \in [Workers -> [Drivers -> Nat]]
  /\ \A w \in Workers : pc[w] = "idle" => claimed[w] = NoEvents

JobFields == {"status", "base", "version", "rows", "entries", "comparison"}

(* Versions are handed out in order, a job's after the one it was compared   *)
(* with, and a staged one is not the published one.                          *)
JobsInv ==
  /\ newest \in Nat /\ published.version \in 0..newest
  /\ \E S : jobs \in Seq(S)
  /\ \A j \in DOMAIN jobs :
       /\ DOMAIN jobs[j] = JobFields
       /\ jobs[j].status \in {"ready", "published", "discarded"}
       /\ jobs[j].base \in Nat /\ jobs[j].version \in 1..newest
       /\ jobs[j].base < jobs[j].version
       /\ jobs[j].status # "published" => jobs[j].version # published.version
  /\ \A i, j \in DOMAIN jobs : jobs[i].version = jobs[j].version => i = j
  /\ \A i, j \in Active : i = j

(* The lock on a job keeps it ready and other publishers out. *)
CallsInv ==
  /\ DOMAIN admin = Admins
  /\ \A a \in Admins :
       /\ DOMAIN admin[a] = {"pc", "job", "at", "deleted", "todo", "work", "rows"}
       /\ Publishing(a) => admin[a].job \in Active
       /\ admin[a].pc = "replacing" => BaseIsPublished(admin[a].job)
  /\ \A a, b \in Admins : Publishing(a) /\ Publishing(b) => a = b

ExactRow(row, d) == row = ScoreOf(rating, d, row.calculated)

(* As long as nothing was published since, the candidate is exact for every  *)
(* driver without an event to process: a batch publishes when it settles.    *)
CandidateInv ==
  \A j \in Active, d \in Drivers :
    BaseIsPublished(j) /\ Settled(d) => ExactRow(jobs[j].rows[d], d)

RebuildInv == CityInv /\ EventsInv /\ JobsInv /\ CallsInv /\ CandidateInv

-----------------------------------------------------------------------------
(* Kinds of steps *)

SameBoard == newest' = newest /\ published'.version = published.version

NewBoard == newest' = newest + 1 /\ published'.version = newest + 1

(* No driver becomes settled, and the settled ones keep their reviews. *)
Calm ==
  \A d \in Drivers : Settled(d)' =>
    Settled(d) /\ \A u : ScoreOf(rating', d, u) = ScoreOf(rating, d, u)

SameEvents == UNCHANGED <<rating, unclaimed, claimed>>

LEMMA SameEventsAreCalm ==
  ASSUME SameEvents
  PROVE  Calm
BY DEF SameEvents, Calm, Settled

-----------------------------------------------------------------------------
(* Events *)

LEMMA ReviewIsCalm ==
  ASSUME EventsInv, NEW t \in Trips, NEW r, ChangeReview(t, r)
  PROVE  EventsInv' /\ Calm
<1>1. /\ rating' = [rating EXCEPT ![t] = r]
      /\ unclaimed' = [unclaimed EXCEPT ![DriverOf[t]] = @ + 1]
      /\ UNCHANGED <<pc, claimed>>
  BY DEF ChangeReview, local
<1>2. EventsInv'
  <2>1. \A n \in Nat : n + 1 \in Nat
    OBVIOUS
  <2>2. unclaimed \in [Drivers -> Nat]
    BY DEF EventsInv
  <2>3. unclaimed' \in [Drivers -> Nat]
    BY <1>1, <2>1, <2>2
  <2> QED BY <1>1, <2>3 DEF EventsInv
<1>3. ASSUME NEW d \in Drivers, Settled(d)'
      PROVE  Settled(d) /\ \A u : ScoreOf(rating', d, u) = ScoreOf(rating, d, u)
  <2>1. DriverOf[t] # d
    BY <1>1, <1>3 DEF EventsInv, Settled
  <2>2. Settled(d)
    BY <1>1, <1>3, <2>1 DEF EventsInv, Settled
  <2>3. PICK r1, r2 : r1 = rating /\ r2 = rating'
    OBVIOUS
  <2>4. \A e \in Trips : DriverOf[e] = d => r2[e] = r1[e]
    BY <1>1, <2>1, <2>3
  <2>5. \A u : ScoreOf(r2, d, u) = ScoreOf(r1, d, u)
    BY <2>4, OtherReview
  <2> QED BY <2>2, <2>3, <2>5
<1> QED BY <1>2, <1>3 DEF Calm

LEMMA ClaimIsCalm ==
  ASSUME EventsInv, DOMAIN pc = Processes, NEW w \in Workers, Claim(w)
  PROVE  EventsInv' /\ Calm
<1>1. PICK batch \in [Drivers -> 0..MaxChanges] :
        /\ \A d \in Drivers : batch[d] <= unclaimed[d]
        /\ claimed' = [claimed EXCEPT ![w] = batch]
        /\ unclaimed' = [d \in Drivers |-> unclaimed[d] - batch[d]]
  BY DEF Claim
<1>2. /\ pc[w] = "idle" /\ pc' = [pc EXCEPT ![w] = "batch"] /\ rating' = rating
      /\ claimed[w] = NoEvents
  BY DEF Claim, EventsInv
<1>3. \A d \in Drivers : batch[d] \in Nat /\ unclaimed[d] \in Nat /\ unclaimed[d] - batch[d] \in Nat
  BY <1>1 DEF EventsInv
<1>4. batch \in [Drivers -> Nat]
  BY <1>1
<1>5. EventsInv'
  BY <1>1, <1>2, <1>3, <1>4 DEF EventsInv, Processes
<1>6. ASSUME NEW d \in Drivers, Settled(d)' PROVE Settled(d)
  <2>1. batch[d] = 0
    BY <1>1, <1>6 DEF EventsInv, Settled
  <2>2. unclaimed[d] = 0
    BY <1>1, <1>3, <1>6, <2>1 DEF Settled
  <2>3. \A v \in Workers : claimed[v][d] = 0
    BY <1>1, <1>2, <1>6 DEF EventsInv, Settled, NoEvents
  <2> QED BY <2>2, <2>3 DEF Settled
<1> QED BY <1>2, <1>5, <1>6 DEF Calm

LEMMA RollBackIsCalm ==
  ASSUME EventsInv, DOMAIN pc = Processes, NEW w \in Workers, RollBack(w)
  PROVE  EventsInv' /\ Calm
<1>1. /\ unclaimed' = [d \in Drivers |-> unclaimed[d] + claimed[w][d]]
      /\ claimed' = [claimed EXCEPT ![w] = NoEvents]
      /\ pc' = [pc EXCEPT ![w] = "idle"] /\ rating' = rating
  BY DEF RollBack, EndTransaction
<1>2. NoEvents \in [Drivers -> Nat]
  BY DEF NoEvents
<1>3. \A d \in Drivers : unclaimed[d] \in Nat /\ claimed[w][d] \in Nat
  BY DEF EventsInv
<1>4. EventsInv'
  BY <1>1, <1>2, <1>3 DEF EventsInv, Processes
<1>5. ASSUME NEW d \in Drivers, Settled(d)' PROVE Settled(d)
  <2>1. unclaimed[d] = 0 /\ claimed[w][d] = 0
    BY <1>1, <1>3, <1>5 DEF Settled
  <2>2. \A v \in Workers : claimed[v][d] = 0
    BY <1>1, <1>5, <2>1 DEF EventsInv, Settled
  <2> QED BY <2>1, <2>2 DEF Settled
<1> QED BY <1>1, <1>4, <1>5 DEF Calm

LEMMA PublishKeepsEvents ==
  ASSUME EventsInv, DOMAIN pc = Processes, NEW w \in Workers, PublishAndCommit(w)
  PROVE  EventsInv'
<1>1. /\ claimed' = [claimed EXCEPT ![w] = NoEvents]
      /\ pc' = [pc EXCEPT ![w] = "idle"] /\ unclaimed' = unclaimed
  BY DEF PublishAndCommit, EndTransaction
<1>2. NoEvents \in [Drivers -> Nat]
  BY DEF NoEvents
<1> QED BY <1>1, <1>2 DEF EventsInv, Processes

(* A step that leaves the events and makes no worker idle. *)
LEMMA OthersKeepEvents ==
  ASSUME EventsInv, SameEvents, \A w \in Workers : pc'[w] = "idle" => pc[w] = "idle"
  PROVE  EventsInv'
BY DEF EventsInv, SameEvents

LEMMA RecalculationKeepsEvents ==
  ASSUME EventsInv, DOMAIN pc = Processes, NEW p \in Processes, Recalculate(p)
  PROVE  SameEvents /\ EventsInv'
<1>1. SameEvents
  BY DEF Recalculate, Aggregate, Load, FlushUpdate, FlushInsert, ReferenceCity, SameEvents, tables
<1>2. \A w \in Workers : pc'[w] = "idle" => pc[w] = "idle"
  BY DEF Recalculate, Aggregate, Load, FlushUpdate, FlushInsert, ReferenceCity, Processes
<1> QED BY <1>1, <1>2, OthersKeepEvents

LEMMA ExpirerKeepsEvents ==
  ASSUME EventsInv, DOMAIN pc = Processes, NEW x \in Expirers,
         \/ CheckExpiration(x) \/ LockCity(x) \/ Recalculate(x) \/ CommitExpiration(x)
         \/ RollBackExpiration(x)
  PROVE  SameEvents /\ EventsInv'
<1>0. x \in Processes /\ x \notin Workers
  BY ProcessesAssumption DEF Processes
<1>1. CASE Recalculate(x)
  BY <1>0, <1>1, RecalculationKeepsEvents
<1>2. CASE ~Recalculate(x)
  <2>1. SameEvents
    BY <1>2 DEF CheckExpiration, LockCity, CommitExpiration, RollBackExpiration, SameEvents,
       tables, local
  <2>2. \A w \in Workers : pc'[w] = pc[w]
    BY <1>0, <1>2 DEF CheckExpiration, LockCity, CommitExpiration, RollBackExpiration,
       EndTransaction, Processes
  <2> QED BY <2>1, <2>2, OthersKeepEvents
<1> QED BY <1>1, <1>2

-----------------------------------------------------------------------------
(* Refresh steps: the city and the board *)

LEMMA EndKeepsCity ==
  ASSUME CityInv, NEW p \in Processes, NEW place \in {"idle", "done"},
         EndTransaction(p, place), admin' = admin
  PROVE  CityInv'
<1>1. /\ DOMAIN pc' = Processes /\ pc'[p] = place
      /\ \A x \in Processes \ {p} : pc'[x] = pc[x]
      /\ cityLock' = IF cityLock = p THEN None ELSE cityLock
  BY DEF EndTransaction, CityInv
<1>2. ASSUME NEW x \in Expirers, Running(x)' PROVE cityLock' = x
  <2>1. x # p /\ pc'[x] = pc[x]
    BY <1>1, <1>2 DEF Running, Processes
  <2>2. cityLock = x
    BY <1>2, <2>1 DEF CityInv, Running
  <2> QED BY <1>1, <2>1, <2>2
<1>3. ASSUME NEW a \in Admins, admin'[a].pc = "replacing" PROVE cityLock' = a
  <2>1. cityLock = a /\ a # p
    BY <1>3, AdminsAssumption DEF CityInv
  <2> QED BY <1>1, <2>1
<1> QED BY <1>1, <1>2, <1>3 DEF CityInv

LEMMA RecalculationKeepsCity ==
  ASSUME CityInv, NEW p \in Processes, Recalculate(p), admin' = admin
  PROVE  CityInv'
<1>1. cityLock' = cityLock
  BY DEF Recalculate, Aggregate, Load, FlushUpdate, FlushInsert, ReferenceCity, rowlocks
<1>2. DOMAIN pc' = Processes /\ \A x \in Processes : Running(x)' => Running(x)
  BY DEF CityInv, Running, Recalculate, Aggregate, Load, FlushUpdate, FlushInsert, ReferenceCity
<1> QED BY <1>1, <1>2 DEF CityInv, Processes

LEMMA WorkerKeepsCity ==
  ASSUME CityInv, NEW w \in Workers, admin' = admin,
         Claim(w) \/ Recalculate(w) \/ PublishAndCommit(w) \/ RollBack(w)
  PROVE  CityInv'
<1>0. w \in Processes
  BY DEF Processes
<1>1. CASE Claim(w)
  BY <1>0, <1>1, ProcessesAssumption DEF Claim, CityInv, Running, rowlocks, Processes
<1>2. CASE Recalculate(w)
  BY <1>0, <1>2, RecalculationKeepsCity
<1>3. CASE PublishAndCommit(w)
  BY <1>0, <1>3, EndKeepsCity DEF PublishAndCommit
<1>4. CASE RollBack(w)
  BY <1>0, <1>4, EndKeepsCity DEF RollBack
<1> QED BY <1>1, <1>2, <1>3, <1>4

LEMMA ExpirerKeepsCity ==
  ASSUME CityInv, NEW x \in Expirers, admin' = admin,
         \/ CheckExpiration(x) \/ LockCity(x) \/ Recalculate(x) \/ CommitExpiration(x)
         \/ RollBackExpiration(x)
  PROVE  CityInv'
<1>0. x \in Processes
  BY DEF Processes
<1>1. CASE CheckExpiration(x)
  BY <1>0, <1>1 DEF CheckExpiration, CityInv, Running, rowlocks, Processes
<1>2. CASE LockCity(x)
  <2>1. /\ cityLock = None /\ cityLock' = x /\ pc' = [pc EXCEPT ![x] = "batch"]
    BY <1>2 DEF LockCity, CityFree
  <2>2. \A y \in Expirers : ~Running(y)
    BY <2>1, ProcessesAssumption DEF CityInv, Processes
  <2>3. \A a \in Admins : admin[a].pc # "replacing"
    BY <2>1, AdminsAssumption DEF CityInv
  <2> QED BY <1>0, <2>1, <2>2, <2>3 DEF CityInv, Running, Processes
<1>3. CASE Recalculate(x)
  BY <1>0, <1>3, RecalculationKeepsCity
<1>4. CASE CommitExpiration(x)
  BY <1>0, <1>4, EndKeepsCity DEF CommitExpiration
<1>5. CASE RollBackExpiration(x)
  BY <1>0, <1>5, EndKeepsCity DEF RollBackExpiration
<1> QED BY <1>1, <1>2, <1>3, <1>4, <1>5

(* A publication finds no administrator replacing the scores. *)
NobodyReplaces == \A a \in Admins : admin[a].pc # "replacing"

LEMMA FreeCity ==
  ASSUME CityInv, cityLock = None
  PROVE  NobodyReplaces
BY AdminsAssumption DEF CityInv, NobodyReplaces

LEMMA ExpirationPublishes ==
  ASSUME CityInv, NEW x \in Expirers, CommitExpiration(x)
  PROVE  SameBoard \/ (NewBoard /\ NobodyReplaces)
<1>1. cityLock = x
  BY DEF CommitExpiration, CityInv, Running
<1>2. NobodyReplaces
  BY <1>1, AdminsAssumption DEF CityInv, NobodyReplaces, Processes
<1> QED BY <1>2 DEF CommitExpiration, SameBoard, NewBoard, Generation

LEMMA WorkerPublishes ==
  ASSUME CityInv, NEW w \in Workers, PublishAndCommit(w)
  PROVE  NewBoard /\ NobodyReplaces
BY FreeCity DEF PublishAndCommit, NewBoard, Generation, CityFree

(* What a step of the workers and expirations does to the generations. *)
LEMMA RefreshStep ==
  ASSUME CityInv, EventsInv, Next, admin' = admin
  PROVE  /\ CityInv' /\ EventsInv'
         /\ (SameBoard /\ Calm) \/ (NewBoard /\ NobodyReplaces)
<1> USE DEF CityInv
<1>1. CASE Tick
  <2>1. SameEvents /\ SameBoard /\ EventsInv'
    BY <1>1 DEF Tick, SameEvents, SameBoard, EventsInv, tables, local
  <2>2. CityInv'
    BY <1>1 DEF Tick, rowlocks, Running
  <2> QED BY <2>1, <2>2, SameEventsAreCalm
<1>2. ASSUME NEW t \in Trips, NEW r \in Ratings, ChangeReview(t, r)
      PROVE  CityInv' /\ EventsInv' /\ SameBoard /\ Calm
  <2>1. SameBoard
    BY <1>2 DEF ChangeReview, SameBoard
  <2>2. CityInv'
    BY <1>2 DEF ChangeReview, rowlocks, Running
  <2> QED BY <1>2, <2>1, <2>2, ReviewIsCalm
<1>3. ASSUME NEW w \in Workers,
             Claim(w) \/ Recalculate(w) \/ PublishAndCommit(w) \/ RollBack(w)
      PROVE  /\ CityInv' /\ EventsInv'
             /\ (SameBoard /\ Calm) \/ (NewBoard /\ NobodyReplaces)
  <2>1. CityInv'
    BY <1>3, WorkerKeepsCity
  <2>2. CASE Claim(w)
    BY <2>1, <2>2, ClaimIsCalm DEF Claim, SameBoard
  <2>3. CASE Recalculate(w)
    <3>1. SameBoard
      BY <2>3 DEF Recalculate, Aggregate, Load, FlushUpdate, FlushInsert, ReferenceCity,
         tables, SameBoard
    <3> QED BY <2>1, <2>3, <3>1, RecalculationKeepsEvents, SameEventsAreCalm DEF Processes
  <2>4. CASE PublishAndCommit(w)
    BY <2>1, <2>4, PublishKeepsEvents, WorkerPublishes
  <2>5. CASE RollBack(w)
    BY <2>1, <2>5, RollBackIsCalm DEF RollBack, SameBoard
  <2> QED BY <1>3, <2>2, <2>3, <2>4, <2>5
<1>4. ASSUME NEW x \in Expirers,
             \/ CheckExpiration(x) \/ LockCity(x) \/ Recalculate(x) \/ CommitExpiration(x)
             \/ RollBackExpiration(x)
      PROVE  /\ CityInv' /\ EventsInv'
             /\ (SameBoard /\ Calm) \/ (NewBoard /\ NobodyReplaces)
  <2>1. CityInv'
    BY <1>4, ExpirerKeepsCity
  <2>2. EventsInv' /\ Calm
    BY <1>4, ExpirerKeepsEvents, SameEventsAreCalm
  <2>3. CASE CommitExpiration(x)
    BY <2>1, <2>2, <2>3, ExpirationPublishes
  <2>4. CASE ~CommitExpiration(x)
    <3>1. SameBoard
      BY <1>4, <2>4 DEF CheckExpiration, LockCity, Recalculate, Aggregate, Load, FlushUpdate,
         FlushInsert, ReferenceCity, RollBackExpiration, tables, SameBoard
    <3> QED BY <2>1, <2>2, <3>1
  <2> QED BY <2>3, <2>4
<1> QED
  BY <1>1, <1>2, <1>3, <1>4 DEF Next, WorkerStep, ExpirerStep, DuplicateRow, RefuseEntry,
     CancelBatch, FailBatch, RejectSecondRun, CancelExpiration, FailExpiration

-----------------------------------------------------------------------------
(* Jobs, calls and candidates *)

(* A step that leaves jobs alone, and either the board and the settled       *)
(* drivers too or publishes while nobody replaces the scores.                *)
LEMMA BoardStep ==
  ASSUME JobsInv, CandidateInv, jobs' = jobs, (SameBoard /\ Calm) \/ NewBoard
  PROVE  JobsInv' /\ CandidateInv'
<1>1. Active' = Active
  BY DEF Active
<1>2. CASE SameBoard /\ Calm
  <2>1. JobsInv'
    BY <1>1, <1>2 DEF JobsInv, SameBoard
  <2>2. ASSUME NEW j \in Active, NEW d \in Drivers, BaseIsPublished(j)', Settled(d)'
        PROVE  ExactRow(jobs[j].rows[d], d)'
    <3>1. BaseIsPublished(j) /\ Settled(d)
      BY <1>2, <2>2 DEF BaseIsPublished, SameBoard, Calm
    <3>2. ExactRow(jobs[j].rows[d], d)
      BY <3>1 DEF CandidateInv
    <3>3. \A u : ScoreOf(rating', d, u) = ScoreOf(rating, d, u)
      BY <1>2, <2>2 DEF Calm
    <3> QED BY <3>2, <3>3 DEF ExactRow
  <2> QED BY <1>1, <2>1, <2>2 DEF CandidateInv
<1>3. CASE NewBoard
  <2>1. JobsInv'
    BY <1>1, <1>3 DEF JobsInv, NewBoard
  <2>2. \A j \in Active : ~BaseIsPublished(j)'
    BY <1>3 DEF JobsInv, NewBoard, BaseIsPublished, Active
  <2> QED BY <1>1, <2>1, <2>2 DEF CandidateInv
<1> QED BY <1>2, <1>3

LEMMA CallsKeptByBoard ==
  ASSUME CallsInv, UNCHANGED <<jobs, admin>>, SameBoard \/ NobodyReplaces
  PROVE  CallsInv'
<1>1. Active' = Active /\ \A a \in Admins : Publishing(a)' <=> Publishing(a)
  BY DEF Active, Publishing
<1>2. \A a \in Admins : admin'[a].pc = "replacing" =>
                           published'.version = jobs'[admin'[a].job].base
  BY DEF CallsInv, NobodyReplaces, SameBoard, BaseIsPublished
<1> QED BY <1>1, <1>2 DEF CallsInv, BaseIsPublished

(* The call of a is, or becomes, none that publishes a job. *)
Leaves(a) ==
  /\ DOMAIN admin' = Admins
  /\ DOMAIN admin'[a] = {"pc", "job", "at", "deleted", "todo", "work", "rows"}
  /\ admin'[a].pc \notin {"publishing", "replacing"}
  /\ \A b \in Admins \ {a} : admin'[b] = admin[b]

LEMMA LeavingKeepsCalls ==
  ASSUME CallsInv, NEW a \in Admins, Leaves(a), jobs' = jobs, SameBoard
  PROVE  CallsInv'
<1>1. Active' = Active /\ \A b \in Admins \ {a} : Publishing(b)' <=> Publishing(b)
  BY DEF Active, Publishing, Leaves
<1>2. ~Publishing(a)'
  BY DEF Publishing, Leaves
<1>3. \A b \in Admins \ {a} : admin'[b].pc = "replacing" =>
                                 published'.version = jobs'[admin'[b].job].base
  BY DEF CallsInv, Leaves, SameBoard, BaseIsPublished
<1> QED BY <1>1, <1>2, <1>3 DEF CallsInv, Leaves, BaseIsPublished

(* A step that neither moves a worker or an expiration nor takes the city. *)
LEMMA LeavingKeepsCity ==
  ASSUME CityInv, NEW a \in Admins, Leaves(a), DOMAIN pc' = Processes,
         \A x \in Expirers : pc'[x] = pc[x],
         cityLock' = cityLock \/ cityLock' = IF cityLock = a THEN None ELSE cityLock
  PROVE  CityInv'
<1>1. a \notin Processes
  BY AdminsAssumption
<1>2. \A x \in Expirers : Running(x)' => cityLock = x /\ cityLock' = x
  BY <1>1 DEF CityInv, Running, Processes
<1>3. \A b \in Admins : admin'[b].pc = "replacing" => b # a /\ cityLock = b /\ cityLock' = b
  BY DEF CityInv, Leaves
<1> QED BY <1>2, <1>3 DEF CityInv

LEMMA EndLeaves ==
  ASSUME CallsInv, NEW a \in Admins, EndCall(a)
  PROVE  Leaves(a) /\ cityLock' = IF cityLock = a THEN None ELSE cityLock
BY DEF CallsInv, EndCall, Leaves, Idle

(* Workers whose UPDATE matches no row any more fail, the others go on. *)
LEMMA StaleKeeps ==
  ASSUME CityInv, EventsInv, SameEvents, NEW stale \in SUBSET MayBeStale, SomeGoStale(stale)
  PROVE  /\ EventsInv' /\ DOMAIN pc' = Processes
         /\ \A x \in Expirers : pc'[x] = pc[x]
<1>1. /\ DOMAIN pc' = Processes
      /\ \A x \in Expirers : pc'[x] = pc[x]
      /\ \A w \in Workers : pc'[w] = "idle" => pc[w] = "idle"
  BY ProcessesAssumption DEF SomeGoStale, MayBeStale, Processes
<1> QED BY <1>1, OthersKeepEvents

LEMMA CallStepsKeepInv ==
  ASSUME RebuildInv, NEW a \in Admins,
         \/ ReadLatest(a) \/ RefuseStart(a) \/ RefuseStale(a) \/ DeleteScores(a) \/ Rescore(a)
         \/ DuplicateScore(a) \/ FailCall(a) \/ CancelCall(a)
  PROVE  RebuildInv' /\ SameBoard /\ jobs' = jobs
<1> USE DEF RebuildInv
<1>1. SameEvents /\ SameBoard /\ pc' = pc /\ jobs' = jobs
  BY DEF ReadLatest, RefuseStart, RefuseStale, DeleteScores, Rescore, AggregateScore,
     LoadScore, UpdateScore, InsertScore, ReferenceCityOfScore, DuplicateScore, FailCall, CancelCall,
     SameEvents, SameBoard, refresh, tables, local
<1>2. Leaves(a) /\ (cityLock' = cityLock \/ cityLock' = IF cityLock = a THEN None ELSE cityLock)
  <2>1. CASE EndCall(a)
    BY <2>1, EndLeaves
  <2>2. CASE ReadLatest(a)
    BY <2>2 DEF ReadLatest, CallsInv, Leaves, refresh, rowlocks
  <2>3. CASE DeleteScores(a)
    BY <2>3 DEF DeleteScores, CallsInv, Leaves, Idle
  <2>4. CASE Rescore(a)
    <3>1. CASE AggregateScore(a)
      BY <3>1 DEF AggregateScore, CallsInv, Leaves, refresh, rowlocks
    <3>2. CASE LoadScore(a)
      BY <3>2 DEF LoadScore, CallsInv, Leaves, refresh, rowlocks
    <3>3. CASE UpdateScore(a)
      BY <3>3 DEF UpdateScore, CallsInv, Leaves
    <3>4. CASE InsertScore(a)
      BY <3>4 DEF InsertScore, CallsInv, Leaves
    <3>5. CASE ReferenceCityOfScore(a)
      BY <3>5 DEF ReferenceCityOfScore, CallsInv, Leaves
    <3> QED BY <2>4, <3>1, <3>2, <3>3, <3>4, <3>5 DEF Rescore
  <2> QED
    BY <2>1, <2>2, <2>3, <2>4 DEF RefuseStart, RefuseStale, DuplicateScore, FailCall, CancelCall
<1>3. CityInv'
  BY <1>1, <1>2, LeavingKeepsCity DEF CityInv
<1>4. EventsInv'
  BY <1>1, OthersKeepEvents
<1>5. JobsInv' /\ CandidateInv'
  BY <1>1, BoardStep, SameEventsAreCalm
<1>6. CallsInv'
  BY <1>1, <1>2, LeavingKeepsCalls
<1> QED BY <1>1, <1>3, <1>4, <1>5, <1>6

LEMMA BoardToolsKeepInv ==
  ASSUME RebuildInv, NEW a \in Admins, CommitScores(a) \/ PublishBoard(a)
  PROVE  RebuildInv' /\ (SameBoard \/ NewBoard) /\ jobs' = jobs
<1> USE DEF RebuildInv
<1>1. CASE CommitScores(a)
  <2>1. SameEvents /\ SameBoard /\ jobs' = jobs
    BY <1>1 DEF CommitScores, SameEvents, SameBoard, local
  <2>2. PICK stale \in SUBSET MayBeStale : SomeGoStale(stale)
    BY <1>1 DEF CommitScores
  <2>3. EventsInv' /\ DOMAIN pc' = Processes /\ \A x \in Expirers : pc'[x] = pc[x]
    BY <2>1, <2>2, StaleKeeps
  <2>4. Leaves(a) /\ cityLock' = IF cityLock = a THEN None ELSE cityLock
    BY <1>1, EndLeaves DEF CommitScores
  <2>5. CityInv'
    BY <2>3, <2>4, LeavingKeepsCity
  <2>6. JobsInv' /\ CandidateInv'
    BY <2>1, BoardStep, SameEventsAreCalm
  <2>7. CallsInv'
    BY <2>1, <2>4, LeavingKeepsCalls
  <2> QED BY <2>1, <2>3, <2>5, <2>6, <2>7
<1>2. CASE PublishBoard(a)
  <2>1. SameEvents /\ NewBoard /\ NobodyReplaces /\ UNCHANGED <<jobs, admin, pc, cityLock>>
    BY <1>2, FreeCity
    DEF PublishBoard, SameEvents, NewBoard, Generation, CityFree, local, rowlocks
  <2>2. CityInv' /\ EventsInv'
    BY <2>1, OthersKeepEvents DEF CityInv, Running
  <2>3. JobsInv' /\ CandidateInv'
    BY <2>1, BoardStep
  <2>4. CallsInv'
    BY <2>1, CallsKeptByBoard
  <2> QED BY <2>1, <2>2, <2>3, <2>4
<1> QED BY <1>1, <1>2

LEMMA LockJobKeepsInv ==
  ASSUME RebuildInv, NEW a \in Admins, NEW j \in DOMAIN jobs, LockJob(a, j)
  PROVE  RebuildInv' /\ SameBoard /\ jobs' = jobs
<1> USE DEF RebuildInv
<1>1. SameEvents /\ SameBoard /\ UNCHANGED <<pc, cityLock, jobs, published>>
  BY DEF LockJob, SameEvents, SameBoard, refresh, tables, rowlocks, local
<1>2. /\ DOMAIN admin' = Admins
      /\ admin'[a].pc = "publishing" /\ admin'[a].job = j
      /\ DOMAIN admin'[a] = {"pc", "job", "at", "deleted", "todo", "work", "rows"}
      /\ \A b \in Admins \ {a} : admin'[b] = admin[b]
  BY DEF LockJob, CallsInv
<1>3. \A b \in Admins : ~Publishing(b)
  BY DEF LockJob, JobFree, CallsInv, JobsInv
<1>4. CityInv' /\ EventsInv'
  BY <1>1, <1>2, OthersKeepEvents DEF CityInv, Running
<1>5. JobsInv' /\ CandidateInv'
  BY <1>1, BoardStep, SameEventsAreCalm
<1>6. CallsInv'
  <2>1. Active' = Active /\ j \in Active
    BY <1>1 DEF Active, LockJob
  <2>2. \A b \in Admins \ {a} : ~Publishing(b)'
    BY <1>2, <1>3 DEF Publishing
  <2>3. \A b \in Admins : admin'[b].pc # "replacing"
    BY <1>2, <1>3 DEF Publishing
  <2> QED BY <1>2, <2>1, <2>2, <2>3 DEF CallsInv
<1> QED BY <1>1, <1>4, <1>5, <1>6

LEMMA LockCityToPublishKeepsInv ==
  ASSUME RebuildInv, NEW a \in Admins, LockCityToPublish(a)
  PROVE  RebuildInv' /\ SameBoard /\ jobs' = jobs
<1> USE DEF RebuildInv
<1>1. /\ SameEvents /\ SameBoard /\ UNCHANGED <<pc, jobs, published>>
      /\ cityLock = None /\ cityLock' = a
  BY DEF LockCityToPublish, SameEvents, SameBoard, CityFree, tables, local
<1>2. /\ DOMAIN admin' = Admins
      /\ admin[a].pc = "publishing" /\ admin'[a].pc = "replacing"
      /\ admin'[a].job = admin[a].job
      /\ DOMAIN admin'[a] = {"pc", "job", "at", "deleted", "todo", "work", "rows"}
      /\ \A b \in Admins \ {a} : admin'[b] = admin[b]
  BY DEF LockCityToPublish, CallsInv
<1>3. CityInv'
  <2>1. \A x \in Expirers : ~Running(x)
    BY <1>1, ProcessesAssumption DEF CityInv, Processes
  <2>2. \A b \in Admins : admin[b].pc # "replacing"
    BY <1>1, FreeCity DEF NobodyReplaces
  <2> QED BY <1>1, <1>2, <2>1, <2>2 DEF CityInv, Running
<1>4. EventsInv'
  BY <1>1, OthersKeepEvents
<1>5. JobsInv' /\ CandidateInv'
  BY <1>1, BoardStep, SameEventsAreCalm
<1>6. CallsInv'
  <2>1. Active' = Active /\ \A b \in Admins : Publishing(b)' <=> Publishing(b)
    BY <1>1, <1>2 DEF Active, Publishing
  <2>2. Publishing(a) /\ published.version = jobs[admin[a].job].base
    BY <1>2 DEF Publishing, LockCityToPublish, BaseIsPublished
  <2>3. \A b \in Admins : admin'[b].pc = "replacing" =>
                            published'.version = jobs'[admin'[b].job].base
    BY <1>1, <1>2, <2>2 DEF CallsInv, BaseIsPublished
  <2> QED BY <1>2, <2>1, <2>3 DEF CallsInv, BaseIsPublished, Publishing
<1> QED BY <1>1, <1>3, <1>4, <1>5, <1>6

(* A candidate is appended to the jobs. *)
LEMMA AppendJob ==
  ASSUME NEW S, NEW s \in Seq(S), NEW r
  PROVE  /\ Append(s, r) \in Seq(S \cup {r})
         /\ Len(s) \in Nat /\ DOMAIN s = 1..Len(s)
         /\ DOMAIN Append(s, r) = 1..(Len(s) + 1)
         /\ \A i \in 1..Len(s) : Append(s, r)[i] = s[i]
         /\ Append(s, r)[Len(s) + 1] = r
<1>1. s \in Seq(S \cup {r})
  OBVIOUS
<1> QED BY <1>1, AppendProperties, LenProperties

LEMMA BuildCandidateKeepsInv ==
  ASSUME RebuildInv, NEW a \in Admins, BuildCandidate(a)
  PROVE  RebuildInv'
<1> USE DEF RebuildInv
<1> DEFINE rows == [d \in Drivers |-> ScoreOf(rating, d, admin[a].at)]
           n    == Len(jobs)
<1>1. PICK r :
        /\ r = [status |-> "ready", base |-> published.version, version |-> newest + 1,
                rows |-> rows, entries |-> Generation(rows).entries,
                comparison |-> Compare(published.entries, Generation(rows).entries, rows)]
        /\ jobs' = Append(jobs, r)
  BY DEF BuildCandidate, Generation
<1>2. /\ r.status = "ready" /\ r.base = published.version /\ r.version = newest + 1
      /\ r.rows = rows /\ DOMAIN r = JobFields
  BY <1>1 DEF JobFields
<1>3. /\ newest' = newest + 1 /\ published' = published /\ published.version > 0
      /\ Active = {} /\ SameEvents /\ EndCall(a) /\ pc' = pc
  BY DEF BuildCandidate, Generation, CanStart, SameEvents, local
<1>4. /\ n \in Nat /\ DOMAIN jobs = 1..n /\ DOMAIN jobs' = 1..(n + 1)
      /\ \A i \in 1..n : jobs'[i] = jobs[i]
      /\ jobs'[n + 1] = r /\ \E S : jobs' \in Seq(S)
  <2>1. PICK S : jobs \in Seq(S)
    BY DEF JobsInv
  <2>2. /\ Append(jobs, r) \in Seq(S \cup {r})
        /\ Len(jobs) \in Nat /\ DOMAIN jobs = 1..Len(jobs)
        /\ DOMAIN Append(jobs, r) = 1..(Len(jobs) + 1)
        /\ \A i \in 1..Len(jobs) : Append(jobs, r)[i] = jobs[i]
        /\ Append(jobs, r)[Len(jobs) + 1] = r
    BY <2>1, AppendJob
  <2>3. jobs' = Append(jobs, r)
    BY <1>1
  <2> HIDE DEF rows
  <2> QED BY <2>2, <2>3
<1>5. Active' = {n + 1}
  BY <1>2, <1>3, <1>4 DEF Active
<1>6. EventsInv'
  BY <1>3, OthersKeepEvents
<1>7. Leaves(a) /\ cityLock' = IF cityLock = a THEN None ELSE cityLock
  BY <1>3, EndLeaves
<1>8. CityInv'
  BY <1>3, <1>7, LeavingKeepsCity DEF CityInv
<1>9. JobsInv'
  <2>1. /\ newest' \in Nat /\ published'.version \in 0..newest'
        /\ published.version \in 1..newest
    BY <1>3 DEF JobsInv
  <2>2. ASSUME NEW j \in DOMAIN jobs'
        PROVE  /\ DOMAIN jobs'[j] = JobFields
               /\ jobs'[j].status \in {"ready", "published", "discarded"}
               /\ jobs'[j].base \in Nat /\ jobs'[j].version \in 1..newest'
               /\ jobs'[j].base < jobs'[j].version
               /\ jobs'[j].status # "published" => jobs'[j].version # published'.version
    <3>1. CASE j = n + 1
      BY <1>2, <1>3, <1>4, <2>1, <3>1 DEF JobsInv
    <3>2. CASE j \in 1..n
      BY <1>3, <1>4, <2>1, <3>2 DEF JobsInv
    <3> QED BY <1>4, <3>1, <3>2
  <2>3. ASSUME NEW i \in DOMAIN jobs', NEW j \in DOMAIN jobs',
               jobs'[i].version = jobs'[j].version
        PROVE  i = j
    <3>1. \A k \in 1..n : jobs'[k].version = jobs[k].version /\ jobs[k].version \in 1..newest
      BY <1>4 DEF JobsInv
    <3>2. jobs'[n + 1].version = newest + 1 /\ newest \in Nat
      BY <1>2, <1>4 DEF JobsInv
    <3>3. CASE i \in 1..n /\ j \in 1..n
      BY <1>4, <2>3, <3>1, <3>3 DEF JobsInv
    <3> QED BY <1>4, <2>3, <3>1, <3>2, <3>3
  <2> QED BY <1>4, <1>5, <2>1, <2>2, <2>3 DEF JobsInv
<1>10. CallsInv'
  <2>1. \A b \in Admins : ~Publishing(b)
    BY <1>3 DEF CallsInv
  <2>2. \A b \in Admins : ~Publishing(b)' /\ admin'[b].pc # "replacing"
    BY <1>7, <2>1 DEF Leaves, Publishing
  <2> QED BY <1>7, <2>2 DEF CallsInv, Leaves
<1>11. CandidateInv'
  <2>1. PICK built : built = rows
    OBVIOUS
  <2>2. jobs'[n + 1].rows = built
    BY <1>2, <1>4, <2>1
  <2>3. ASSUME NEW d \in Drivers PROVE built[d] = ScoreOf(rating', d, built[d].calculated)
    <3>1. built[d] = ScoreOf(rating, d, admin[a].at)
      BY <2>1
    <3>2. built[d].calculated = admin[a].at
      BY <3>1 DEF ScoreOf
    <3> QED BY <1>3, <3>1, <3>2 DEF SameEvents
  <2> QED BY <1>5, <2>2, <2>3 DEF CandidateInv, ExactRow
<1> QED BY <1>6, <1>8, <1>9, <1>10, <1>11

(* What the end of a job, with a new status, does to the jobs. *)
LEMMA JobEnds ==
  ASSUME JobsInv, NEW j \in Active, NEW s \in {"published", "discarded"},
         jobs' = [jobs EXCEPT ![j].status = s]
  PROVE  /\ DOMAIN jobs' = DOMAIN jobs /\ jobs'[j].status = s
         /\ \A i \in DOMAIN jobs \ {j} : jobs'[i] = jobs[i]
         /\ DOMAIN jobs'[j] = JobFields
         /\ jobs'[j].base = jobs[j].base /\ jobs'[j].version = jobs[j].version
         /\ jobs'[j].rows = jobs[j].rows
         /\ Active' = {} /\ \E S : jobs' \in Seq(S)
<1>1. j \in DOMAIN jobs /\ DOMAIN jobs[j] = JobFields
  BY DEF Active, JobsInv
<1>2. PICK r : r = [jobs[j] EXCEPT !.status = s]
  OBVIOUS
<1>3. jobs' = [jobs EXCEPT ![j] = r]
  BY <1>2
<1>4. /\ DOMAIN r = JobFields /\ r.status = s /\ r.base = jobs[j].base
      /\ r.version = jobs[j].version /\ r.rows = jobs[j].rows
  BY <1>1, <1>2 DEF JobFields
<1>5. \E S : jobs' \in Seq(S)
  <2>1. PICK S : jobs \in Seq(S)
    BY DEF JobsInv
  <2>2. jobs \in Seq(S \cup {r})
    BY <2>1
  <2>3. jobs' \in Seq(S \cup {r})
    BY <1>1, <1>3, <2>2, ExceptSeq
  <2> QED BY <2>3
<1>6. Active' = {}
  BY <1>1, <1>3, <1>4 DEF Active, JobsInv
<1> QED BY <1>1, <1>3, <1>4, <1>5, <1>6

LEMMA CommitPublishKeepsInv ==
  ASSUME RebuildInv, NEW a \in Admins, CommitPublish(a)
  PROVE  RebuildInv'
<1> USE DEF RebuildInv
<1> DEFINE j == admin[a].job
<1>1. /\ jobs' = [jobs EXCEPT ![j].status = "published"]
      /\ published'.version = jobs[j].version /\ newest' = newest
      /\ SameEvents /\ EndCall(a) /\ admin[a].pc = "replacing"
  BY DEF CommitPublish, SameEvents, local
<1>2. j \in Active /\ Publishing(a)
  BY <1>1 DEF CallsInv, Publishing
<1>3. /\ DOMAIN jobs' = DOMAIN jobs /\ jobs'[j].status = "published"
      /\ \A i \in DOMAIN jobs \ {j} : jobs'[i] = jobs[i]
      /\ DOMAIN jobs'[j] = JobFields
      /\ jobs'[j].base = jobs[j].base /\ jobs'[j].version = jobs[j].version
      /\ Active' = {} /\ \E S : jobs' \in Seq(S)
  BY <1>1, <1>2, JobEnds
<1>4. PICK stale \in SUBSET MayBeStale : SomeGoStale(stale)
  BY DEF CommitPublish
<1>5. EventsInv' /\ DOMAIN pc' = Processes /\ \A x \in Expirers : pc'[x] = pc[x]
  BY <1>1, <1>4, StaleKeeps
<1>6. Leaves(a) /\ cityLock' = IF cityLock = a THEN None ELSE cityLock
  BY <1>1, EndLeaves
<1>7. CityInv'
  BY <1>5, <1>6, LeavingKeepsCity
<1>8. JobsInv'
  <2>1. j \in DOMAIN jobs
    BY <1>2 DEF Active
  <2>2. published'.version \in 0..newest'
    BY <1>1, <2>1 DEF JobsInv
  <2>3. \A i \in DOMAIN jobs \ {j} : jobs[i].version # jobs[j].version
    BY <2>1 DEF JobsInv
  <2> QED BY <1>1, <1>3, <2>1, <2>2, <2>3 DEF JobsInv
<1>9. CallsInv'
  <2>1. \A b \in Admins \ {a} : ~Publishing(b)
    BY <1>2 DEF CallsInv
  <2>2. \A b \in Admins : ~Publishing(b)' /\ admin'[b].pc # "replacing"
    BY <1>6, <2>1 DEF Leaves, Publishing
  <2> QED BY <1>6, <2>2 DEF CallsInv, Leaves
<1>10. CandidateInv'
  BY <1>3 DEF CandidateInv
<1> QED BY <1>5, <1>7, <1>8, <1>9, <1>10

LEMMA DiscardKeepsInv ==
  ASSUME RebuildInv, NEW j \in DOMAIN jobs, DiscardRebuild(j)
  PROVE  RebuildInv'
<1> USE DEF RebuildInv
<1>1. /\ j \in Active /\ JobFree(j)
      /\ jobs' = [jobs EXCEPT ![j].status = "discarded"]
      /\ SameEvents /\ SameBoard /\ UNCHANGED <<admin, pc, cityLock>>
  BY DEF DiscardRebuild, SameEvents, SameBoard, refresh, tables, rowlocks, local
<1>2. /\ DOMAIN jobs' = DOMAIN jobs /\ jobs'[j].status = "discarded"
      /\ \A i \in DOMAIN jobs \ {j} : jobs'[i] = jobs[i]
      /\ DOMAIN jobs'[j] = JobFields
      /\ jobs'[j].base = jobs[j].base /\ jobs'[j].version = jobs[j].version
      /\ Active' = {} /\ \E S : jobs' \in Seq(S)
  BY <1>1, JobEnds
<1>3. CityInv' /\ EventsInv'
  BY <1>1, OthersKeepEvents DEF CityInv, Running
<1>4. JobsInv'
  <2>1. jobs[j].status = "ready"
    BY <1>1 DEF Active
  <2> QED BY <1>1, <1>2, <2>1 DEF JobsInv, SameBoard
<1>5. CallsInv'
  <2>1. \A b \in Admins : ~Publishing(b)
    BY <1>1 DEF CallsInv, JobsInv, JobFree
  <2>2. \A b \in Admins : ~Publishing(b)' /\ admin'[b].pc # "replacing"
    BY <1>1, <2>1 DEF Publishing
  <2> QED BY <1>1, <2>2 DEF CallsInv
<1>6. CandidateInv'
  BY <1>2 DEF CandidateInv
<1> QED BY <1>3, <1>4, <1>5, <1>6

-----------------------------------------------------------------------------
(* Every step *)

LEMMA RebuildInitially == RebuildInit => RebuildInv
<1> SUFFICES ASSUME RebuildInit PROVE RebuildInv
  OBVIOUS
<1> USE DEF RebuildInit, Init
<1>1. CityInv
  BY DEF CityInv, Running, Idle, Processes
<1>2. EventsInv
  BY DEF EventsInv, NoEvents
<1>3. JobsInv
  <2>1. jobs \in Seq({}) /\ DOMAIN jobs = {}
    OBVIOUS
  <2> QED BY <2>1 DEF JobsInv, Active
<1>4. CallsInv
  BY DEF CallsInv, Publishing, Idle
<1>5. CandidateInv
  BY DEF CandidateInv, Active
<1> QED BY <1>1, <1>2, <1>3, <1>4, <1>5 DEF RebuildInv

(* The jobs are left alone. *)
JobsKept == jobs' = jobs /\ (SameBoard \/ NewBoard)

LEMMA RefreshKeepsInv ==
  ASSUME RebuildInv, Next, UNCHANGED rebuild
  PROVE  RebuildInv' /\ JobsKept
<1> USE DEF RebuildInv
<1>1. jobs' = jobs /\ admin' = admin
  BY DEF rebuild
<1>2. CityInv' /\ EventsInv' /\ ((SameBoard /\ Calm) \/ (NewBoard /\ NobodyReplaces))
  BY <1>1, RefreshStep
<1>3. JobsInv' /\ CandidateInv'
  BY <1>1, <1>2, BoardStep
<1>4. CallsInv'
  BY <1>1, <1>2, CallsKeptByBoard
<1> QED BY <1>1, <1>2, <1>3, <1>4 DEF JobsKept

LEMMA RollBacksKeepInv ==
  ASSUME RebuildInv, NEW p \in Processes, p \in Workers => RollBack(p),
         p \in Expirers => RollBackExpiration(p), UNCHANGED rebuild
  PROVE  RebuildInv' /\ JobsKept
<1> USE DEF RebuildInv
<1>1. jobs' = jobs /\ admin' = admin
  BY DEF rebuild
<1>2. CityInv' /\ EventsInv' /\ SameBoard /\ Calm
  <2>1. CASE p \in Workers
    BY <1>1, <2>1, WorkerKeepsCity, RollBackIsCalm DEF RollBack, SameBoard, CityInv
  <2>2. CASE p \in Expirers
    BY <1>1, <2>2, ExpirerKeepsCity, ExpirerKeepsEvents, SameEventsAreCalm
    DEF RollBackExpiration, tables, SameBoard, CityInv
  <2> QED BY <2>1, <2>2 DEF Processes
<1>3. JobsInv' /\ CandidateInv'
  BY <1>1, <1>2, BoardStep
<1>4. CallsInv'
  BY <1>1, <1>2, CallsKeptByBoard
<1> QED BY <1>1, <1>2, <1>3, <1>4 DEF JobsKept

LEMMA StutteringKeepsInv ==
  ASSUME RebuildInv, UNCHANGED rebuildVars
  PROVE  RebuildInv' /\ JobsKept
<1> USE DEF RebuildInv
<1>1. SameEvents /\ SameBoard /\ UNCHANGED <<jobs, admin, pc, cityLock>>
  BY DEF rebuildVars, rebuild, refresh, tables, rowlocks, local, SameEvents, SameBoard
<1>2. CityInv' /\ EventsInv'
  BY <1>1, OthersKeepEvents DEF CityInv, Running
<1>3. JobsInv' /\ CandidateInv'
  BY <1>1, BoardStep, SameEventsAreCalm
<1>4. CallsInv'
  BY <1>1, CallsKeptByBoard
<1> QED BY <1>1, <1>2, <1>3, <1>4 DEF JobsKept

(* Only three kinds of steps touch the jobs. *)
LEMMA RebuildStep ==
  ASSUME RebuildInv, [RebuildNext]_rebuildVars
  PROVE  /\ RebuildInv'
         /\ \/ JobsKept
            \/ \E a \in Admins : BuildCandidate(a) \/ CommitPublish(a)
            \/ \E j \in DOMAIN jobs : DiscardRebuild(j)
<1>1. CASE UNCHANGED rebuildVars
  BY <1>1, StutteringKeepsInv
<1>2. CASE Next /\ UNCHANGED rebuild
  BY <1>2, RefreshKeepsInv
<1>3. ASSUME NEW a \in Admins, NewCall(a) \/ CallStep(a) \/ FailCall(a)
      PROVE  RebuildInv' /\ (JobsKept \/ BuildCandidate(a) \/ CommitPublish(a))
  <2>1. CASE \/ ReadLatest(a) \/ RefuseStart(a) \/ RefuseStale(a) \/ DeleteScores(a)
             \/ Rescore(a) \/ DuplicateScore(a) \/ FailCall(a) \/ CancelCall(a)
    BY <2>1, CallStepsKeepInv DEF JobsKept
  <2>2. CASE CommitScores(a) \/ PublishBoard(a)
    BY <2>2, BoardToolsKeepInv DEF JobsKept
  <2>3. CASE \E j \in DOMAIN jobs : LockJob(a, j)
    BY <2>3, LockJobKeepsInv DEF JobsKept
  <2>4. CASE LockCityToPublish(a)
    BY <2>4, LockCityToPublishKeepsInv DEF JobsKept
  <2>5. CASE BuildCandidate(a)
    BY <2>5, BuildCandidateKeepsInv
  <2>6. CASE CommitPublish(a)
    BY <2>6, CommitPublishKeepsInv
  <2> QED BY <1>3, <2>1, <2>2, <2>3, <2>4, <2>5, <2>6 DEF NewCall, CallStep
<1>4. ASSUME NEW j \in DOMAIN jobs, DiscardRebuild(j) PROVE RebuildInv'
  BY <1>4, DiscardKeepsInv
<1>5. ASSUME NEW d \in Drivers, CorruptScore(d) PROVE RebuildInv' /\ JobsKept
  <2>1. SameEvents /\ SameBoard /\ UNCHANGED <<jobs, admin, pc, cityLock>>
    BY <1>5 DEF CorruptScore, SameEvents, SameBoard, local, rowlocks
  <2> QED BY <2>1, OthersKeepEvents, BoardStep, SameEventsAreCalm, CallsKeptByBoard
          DEF CityInv, Running, RebuildInv, JobsKept
<1>6. ASSUME NEW p \in Processes, (p \in Workers /\ RollBackStale(p)) \/ CancelWaiter(p),
             UNCHANGED rebuild
      PROVE  RebuildInv' /\ JobsKept
  <2>1. (p \in Workers => RollBack(p)) /\ (p \in Expirers => RollBackExpiration(p))
    BY <1>6, ProcessesAssumption DEF RollBackStale, CancelWaiter
  <2> QED BY <1>6, <2>1, RollBacksKeepInv
<1> QED BY <1>1, <1>2, <1>3, <1>4, <1>5, <1>6 DEF RebuildNext, Processes

LEMMA RebuildInvariance == RebuildInv /\ [RebuildNext]_rebuildVars => RebuildInv'
BY RebuildStep

(* The order of versions, the locks on jobs and the exactness of a candidate *)
(* (start_rebuild and publish_rebuild) hold of every reachable state.        *)
THEOREM RebuildInvariantHolds == RebuildSpec => []RebuildInv
BY RebuildInitially, RebuildInvariance, PTL DEF RebuildSpec

-----------------------------------------------------------------------------
(* The statuses of the generations *)

LEMMA ColumnType ==
  ASSUME JobsInv
  PROVE  /\ newest \in Nat
         /\ StatusColumn \in [1..newest -> Lifecycle!Statuses]
         /\ \A v \in 1..newest : StatusColumn[v] = StatusOf(v)
BY DEF JobsInv, StatusColumn, StatusOf, Lifecycle!Statuses

(* The published generation is not staged, and the only candidate is the     *)
(* active job's.                                                             *)
LEMMA ColumnMeaning ==
  ASSUME JobsInv
  PROVE  /\ \A v \in 1..newest : StatusColumn[v] = "published" <=> v = published.version
         /\ \A v \in 1..newest : StatusColumn[v] = "candidate" <=> StagedAs(v, "ready")
         /\ ~StagedAs(published.version, "ready") /\ ~StagedAs(published.version, "discarded")
<1>1. ~StagedAs(published.version, "ready") /\ ~StagedAs(published.version, "discarded")
  BY DEF JobsInv, StagedAs
<1> QED BY <1>1, ColumnType DEF StatusOf

LEMMA AppendColumn ==
  ASSUME NEW S, NEW n \in Nat, NEW s \in [1..n -> S], NEW t \in [1..(n + 1) -> S],
         \A v \in 1..n : t[v] = s[v]
  PROVE  t = Append(s, t[n + 1])
<1>1. s \in Seq(S) /\ Len(s) = n
  OBVIOUS
<1>2. t \in Seq(S) /\ Len(t) = n + 1
  OBVIOUS
<1>3. Append(s, t[n + 1]) \in Seq(S) /\ Len(Append(s, t[n + 1])) = n + 1
  BY <1>1, <1>2, AppendProperties
<1>4. \A v \in 1..(n + 1) : Append(s, t[n + 1])[v] = t[v]
  BY <1>1, <1>2, AppendProperties
<1> QED BY <1>2, <1>3, <1>4, SeqEqual

LEMMA KeptColumn ==
  ASSUME JobsInv, JobsInv', jobs' = jobs, SameBoard
  PROVE  StatusColumn' = StatusColumn
<1>1. \A v \in 1..newest : StatusOf(v)' = StatusOf(v)
  BY DEF StatusOf, StagedAs, SameBoard
<1> QED BY <1>1 DEF StatusColumn, SameBoard

LEMMA PublishedColumn ==
  ASSUME JobsInv, JobsInv', jobs' = jobs, NewBoard
  PROVE  Lifecycle!Publish
<1> DEFINE superseded == Lifecycle!Superseded
<1>1. superseded \in [1..newest -> Lifecycle!Statuses]
  BY ColumnType DEF Lifecycle!Superseded, Lifecycle!Statuses
<1>2. /\ newest \in Nat /\ newest' = newest + 1 /\ published'.version = newest + 1
      /\ StatusColumn' \in [1..(newest + 1) -> Lifecycle!Statuses]
      /\ \A v \in 1..(newest + 1) : StatusColumn'[v] = StatusOf(v)'
  BY ColumnType DEF NewBoard, JobsInv, StatusColumn, StatusOf, Lifecycle!Statuses
<1>3. StatusColumn'[newest + 1] = "published"
  BY <1>2 DEF StatusOf
<1>4. ASSUME NEW v \in 1..newest PROVE StatusColumn'[v] = superseded[v]
  <2>1. StatusColumn'[v] = StatusOf(v)' /\ v # published'.version
    BY <1>2
  <2>2. StagedAs(v, "ready")' <=> StagedAs(v, "ready")
    BY DEF StagedAs
  <2>3. StagedAs(v, "discarded")' <=> StagedAs(v, "discarded")
    BY DEF StagedAs
  <2>4. superseded[v] = IF StatusColumn[v] = "published" THEN "superseded" ELSE StatusColumn[v]
    BY ColumnType DEF Lifecycle!Superseded
  <2> QED BY <2>1, <2>2, <2>3, <2>4, ColumnType, ColumnMeaning DEF StatusOf
<1>5. StatusColumn' = Append(superseded, "published")
  <2> HIDE DEF superseded
  <2> QED BY <1>1, <1>2, <1>3, <1>4, AppendColumn
<1> QED BY <1>5 DEF Lifecycle!Publish

LEMMA StagedColumn ==
  ASSUME RebuildInv, RebuildInv', NEW a \in Admins, BuildCandidate(a)
  PROVE  Lifecycle!Stage
<1> USE DEF RebuildInv
<1> DEFINE n == Len(jobs)
<1>1. PICK r : jobs' = Append(jobs, r) /\ r.status = "ready" /\ r.version = newest + 1
  BY DEF BuildCandidate, Generation
<1>2. /\ n \in Nat /\ DOMAIN jobs = 1..n /\ DOMAIN jobs' = 1..(n + 1)
      /\ \A i \in 1..n : jobs'[i] = jobs[i]
      /\ jobs'[n + 1] = r
  <2>1. PICK S : jobs \in Seq(S)
    BY DEF JobsInv
  <2> QED BY <1>1, <2>1, AppendJob
<1>3. /\ newest \in Nat /\ newest' = newest + 1 /\ published' = published
      /\ published.version \in 1..newest /\ Active = {}
  BY DEF BuildCandidate, Generation, CanStart, JobsInv
<1>4. /\ StatusColumn' \in [1..(newest + 1) -> Lifecycle!Statuses]
      /\ \A v \in 1..(newest + 1) : StatusColumn'[v] = StatusOf(v)'
  BY <1>3 DEF JobsInv, StatusColumn, StatusOf, Lifecycle!Statuses
<1>5. StatusColumn'[newest + 1] = "candidate"
  BY <1>1, <1>2, <1>3, <1>4 DEF StatusOf, StagedAs
<1>6. ASSUME NEW v \in 1..newest PROVE StatusColumn'[v] = StatusColumn[v]
  <2>1. \A i \in DOMAIN jobs' : jobs'[i].version = v => i \in DOMAIN jobs
    BY <1>1, <1>2, <1>3
  <2>2. StagedAs(v, "ready")' <=> StagedAs(v, "ready")
    BY <1>2, <2>1 DEF StagedAs
  <2>3. StagedAs(v, "discarded")' <=> StagedAs(v, "discarded")
    BY <1>2, <2>1 DEF StagedAs
  <2> QED BY <1>3, <1>4, <2>2, <2>3, ColumnType DEF StatusOf
<1>7. StatusColumn' = Append(StatusColumn, "candidate")
  BY <1>3, <1>4, <1>5, <1>6, AppendColumn, ColumnType
<1>8. DOMAIN StatusColumn = 1..newest
  BY ColumnType
<1>9. Lifecycle!With("published") # {}
  BY <1>3, <1>8, ColumnMeaning DEF Lifecycle!With
<1>10. Lifecycle!With("candidate") = {}
  BY <1>3, <1>8, ColumnMeaning DEF Lifecycle!With, StagedAs, Active
<1> QED BY <1>7, <1>9, <1>10 DEF Lifecycle!Stage

(* The job that ends is the only one with its version. *)
LEMMA EndedJobStatuses ==
  ASSUME JobsInv, NEW j \in Active, NEW s \in {"published", "discarded"},
         jobs' = [jobs EXCEPT ![j].status = s], NEW v
  PROVE  /\ v # jobs[j].version =>
              /\ StagedAs(v, "ready")' <=> StagedAs(v, "ready")
              /\ StagedAs(v, "discarded")' <=> StagedAs(v, "discarded")
         /\ v = jobs[j].version =>
              /\ StagedAs(v, "ready") /\ ~StagedAs(v, "ready")'
              /\ StagedAs(v, "discarded")' <=> s = "discarded"
<1>1. /\ DOMAIN jobs' = DOMAIN jobs /\ jobs'[j].status = s
      /\ \A i \in DOMAIN jobs \ {j} : jobs'[i] = jobs[i]
      /\ jobs'[j].version = jobs[j].version
  BY JobEnds
<1>2. j \in DOMAIN jobs /\ jobs[j].status = "ready"
  BY DEF Active
<1>3. CASE v # jobs[j].version
  BY <1>1, <1>2, <1>3 DEF StagedAs
<1>4. CASE v = jobs[j].version
  <2>1. \A i \in DOMAIN jobs : jobs[i].version = v => i = j
    BY <1>2, <1>4 DEF JobsInv
  <2>2. \A i \in DOMAIN jobs' : jobs'[i].version = v => i = j
    BY <1>1, <2>1
  <2> QED BY <1>1, <1>2, <1>4, <2>1, <2>2 DEF StagedAs
<1> QED BY <1>3, <1>4

LEMMA PromotedColumn ==
  ASSUME RebuildInv, RebuildInv', NEW a \in Admins, CommitPublish(a)
  PROVE  \E v \in Lifecycle!With("candidate") : Lifecycle!Promote(v)
<1> USE DEF RebuildInv
<1>1. PICK j : j = admin[a].job
  OBVIOUS
<1>2. /\ jobs' = [jobs EXCEPT ![j].status = "published"]
      /\ published'.version = jobs[j].version /\ newest' = newest
      /\ admin[a].pc = "replacing"
  BY <1>1 DEF CommitPublish
<1>3. /\ j \in Active /\ published.version = jobs[j].base
  BY <1>1, <1>2 DEF CallsInv, Publishing, BaseIsPublished
<1>4. PICK v : v = jobs[j].version
  OBVIOUS
<1>5. /\ v \in 1..newest /\ published.version < v /\ newest \in Nat
      /\ published.version \in Nat
  BY <1>3, <1>4 DEF JobsInv, Active
<1>6. DOMAIN StatusColumn = 1..newest
  BY ColumnType
<1>7. v \in Lifecycle!With("candidate")
  <2>1. StagedAs(v, "ready")
    BY <1>2, <1>3, <1>4, EndedJobStatuses
  <2> QED BY <1>5, <1>6, <2>1, ColumnMeaning DEF Lifecycle!With
<1>8. \A u \in Lifecycle!With("published") : u < v
  BY <1>5, <1>6, ColumnMeaning DEF Lifecycle!With
<1>9. /\ DOMAIN StatusColumn' = 1..newest
      /\ \A u \in 1..newest : StatusColumn'[u] = StatusOf(u)'
      /\ StatusColumn' = [u \in 1..newest |-> StatusColumn'[u]]
  BY <1>2 DEF StatusColumn
<1>10. ASSUME NEW u \in 1..newest
       PROVE  StatusColumn'[u] =
                IF u = v THEN "published"
                ELSE IF StatusColumn[u] = "published" THEN "superseded" ELSE StatusColumn[u]
  <2>1. CASE u = v
    BY <1>2, <1>4, <1>9, <2>1 DEF StatusOf
  <2>2. CASE u # v
    <3>1. /\ StagedAs(u, "ready")' <=> StagedAs(u, "ready")
          /\ StagedAs(u, "discarded")' <=> StagedAs(u, "discarded")
      BY <1>2, <1>3, <1>4, <2>2, EndedJobStatuses
    <3>2. u # published'.version
      BY <1>2, <1>4, <2>2
    <3> QED BY <1>9, <2>2, <3>1, <3>2, ColumnType, ColumnMeaning DEF StatusOf
  <2> QED BY <2>1, <2>2
<1>11. StatusColumn' = [Lifecycle!Superseded EXCEPT ![v] = "published"]
  BY <1>5, <1>6, <1>9, <1>10 DEF Lifecycle!Superseded
<1>12. Lifecycle!Promote(v)
  BY <1>7, <1>8, <1>11 DEF Lifecycle!Promote
<1> QED BY <1>7, <1>12

LEMMA DiscardedColumn ==
  ASSUME RebuildInv, NEW j \in DOMAIN jobs, DiscardRebuild(j)
  PROVE  \E v \in Lifecycle!With("candidate") : Lifecycle!Discard(v)
<1> USE DEF RebuildInv
<1>1. /\ jobs' = [jobs EXCEPT ![j].status = "discarded"] /\ j \in Active
      /\ UNCHANGED <<newest, published>>
  BY DEF DiscardRebuild, refresh, tables
<1>2. PICK v : v = jobs[j].version
  OBVIOUS
<1>3. v \in 1..newest /\ v # published.version
  BY <1>1, <1>2 DEF JobsInv, Active
<1>4. DOMAIN StatusColumn = 1..newest
  BY ColumnType
<1>5. v \in Lifecycle!With("candidate")
  <2>1. StagedAs(v, "ready")
    BY <1>1, <1>2, EndedJobStatuses
  <2> QED BY <1>3, <1>4, <2>1, ColumnMeaning DEF Lifecycle!With
<1>6. /\ DOMAIN StatusColumn' = 1..newest
      /\ \A u \in 1..newest : StatusColumn'[u] = StatusOf(u)'
      /\ StatusColumn' = [u \in 1..newest |-> StatusColumn'[u]]
  BY <1>1 DEF StatusColumn
<1>7. ASSUME NEW u \in 1..newest
      PROVE  StatusColumn'[u] = IF u = v THEN "discarded" ELSE StatusColumn[u]
  <2>1. CASE u = v
    <3>1. ~StagedAs(u, "ready")' /\ StagedAs(u, "discarded")'
      BY <1>1, <1>2, <2>1, EndedJobStatuses
    <3> QED BY <1>1, <1>3, <1>6, <2>1, <3>1 DEF StatusOf
  <2>2. CASE u # v
    <3>1. /\ StagedAs(u, "ready")' <=> StagedAs(u, "ready")
          /\ StagedAs(u, "discarded")' <=> StagedAs(u, "discarded")
      BY <1>1, <1>2, <2>2, EndedJobStatuses
    <3> QED BY <1>1, <1>6, <2>2, <3>1, ColumnType DEF StatusOf
  <2> QED BY <2>1, <2>2
<1>8. StatusColumn' = [StatusColumn EXCEPT ![v] = "discarded"]
  BY <1>3, <1>4, <1>6, <1>7
<1>9. Lifecycle!Discard(v)
  BY <1>5, <1>8 DEF Lifecycle!Discard
<1> QED BY <1>5, <1>9

LEMMA LifecycleStep ==
  RebuildInv /\ [RebuildNext]_rebuildVars => [Lifecycle!Next]_StatusColumn
<1> SUFFICES ASSUME RebuildInv, [RebuildNext]_rebuildVars
             PROVE  [Lifecycle!Next]_StatusColumn
  OBVIOUS
<1>1. /\ RebuildInv'
      /\ \/ JobsKept
         \/ \E a \in Admins : BuildCandidate(a) \/ CommitPublish(a)
         \/ \E j \in DOMAIN jobs : DiscardRebuild(j)
  BY RebuildStep
<1>2. CASE JobsKept
  BY <1>1, <1>2, KeptColumn, PublishedColumn DEF JobsKept, RebuildInv, Lifecycle!Next
<1>3. CASE \E a \in Admins : BuildCandidate(a) \/ CommitPublish(a)
  BY <1>1, <1>3, StagedColumn, PromotedColumn DEF Lifecycle!Next
<1>4. CASE \E j \in DOMAIN jobs : DiscardRebuild(j)
  BY <1>4, DiscardedColumn DEF Lifecycle!Next
<1> QED BY <1>1, <1>2, <1>3, <1>4

(* ImplementsGenerations: with any number of administrators, workers and     *)
(* expirations each generation lives as Generations says: candidates stay    *)
(* hidden until they are published or discarded, once and for good, and none *)
(* replaces a generation published after it was compared (architecture.md,   *)
(* line 121).                                                                *)
THEOREM RebuildsImplementGenerations == RebuildSpec => ImplementsGenerations
<1>1. RebuildInit => Lifecycle!Init
  BY DEF RebuildInit, Init, StatusColumn, Lifecycle!Init
<1> QED BY <1>1, RebuildInvariantHolds, LifecycleStep, PTL
        DEF RebuildSpec, ImplementsGenerations, Lifecycle!Spec

-----------------------------------------------------------------------------
(* What a publication brings in *)

LEMMA PublicationStep ==
  RebuildInv /\ [RebuildNext]_rebuildVars =>
    [\A j \in DOMAIN jobs : IsPublish(j) =>
       \A d \in Drivers : Settled(d) => d \notin WrongScores']_rebuildVars
<1> SUFFICES ASSUME RebuildInv, [RebuildNext]_rebuildVars, NEW j \in DOMAIN jobs, IsPublish(j),
                    NEW d \in Drivers, Settled(d)
             PROVE  d \notin WrongScores'
  OBVIOUS
<1> USE DEF RebuildInv
<1>1. jobs[j].status = "ready" /\ jobs'[j].status = "published"
  BY DEF IsPublish
<1>2. PICK a \in Admins : CommitPublish(a)
  <2>1. ~JobsKept
    BY <1>1 DEF JobsKept
  <2>2. ASSUME NEW a \in Admins, BuildCandidate(a) PROVE FALSE
    <3>1. PICK r : jobs' = Append(jobs, r)
      BY <2>2 DEF BuildCandidate
    <3>2. PICK S : jobs \in Seq(S)
      BY DEF JobsInv
    <3>3. jobs'[j] = jobs[j]
      BY <3>1, <3>2, AppendJob
    <3> QED BY <1>1, <3>3
  <2>3. ASSUME NEW i \in DOMAIN jobs, DiscardRebuild(i) PROVE FALSE
    <3>1. i \in Active /\ jobs' = [jobs EXCEPT ![i].status = "discarded"]
      BY <2>3 DEF DiscardRebuild
    <3>2. jobs'[i].status = "discarded" /\ \A k \in DOMAIN jobs \ {i} : jobs'[k] = jobs[k]
      BY <3>1, JobEnds
    <3> QED BY <1>1, <3>2
  <2> QED BY <2>1, <2>2, <2>3, RebuildStep
<1>3. PICK k : k = admin[a].job
  OBVIOUS
<1>4. /\ jobs' = [jobs EXCEPT ![k].status = "published"]
      /\ score' = jobs[k].rows /\ rating' = rating /\ admin[a].pc = "replacing"
  BY <1>2, <1>3 DEF CommitPublish
<1>5. k \in Active /\ BaseIsPublished(k)
  BY <1>3, <1>4 DEF CallsInv, Publishing
<1>6. ExactRow(jobs[k].rows[d], d)
  BY <1>5 DEF CandidateInv
<1>7. PICK row, exact : row = score'[d] /\ exact = ScoreOf(rating, d, row.calculated)
  OBVIOUS
<1>8. row = exact
  BY <1>4, <1>6, <1>7 DEF ExactRow
<1> QED BY <1>4, <1>7, <1>8 DEF WrongScores

(* PublishKeepsProcessedChanges: a rebuild published long after it was       *)
(* computed still has the exact score of every driver whose events are done, *)
(* because a batch since would have published another base                   *)
(* (rebuild_service.py:232).                                                 *)
THEOREM PublicationsKeepProcessedChanges == RebuildSpec => PublishKeepsProcessedChanges
BY RebuildInvariantHolds, PublicationStep, PTL DEF RebuildSpec, PublishKeepsProcessedChanges
=============================================================================
