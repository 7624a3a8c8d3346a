------------------------- MODULE ReviewTransactions -------------------------
(* upsert_review and delete_review (services/review_service.py) and          *)
(* moderate_review (services/moderation_service.py) as the PostgreSQL READ   *)
(* COMMITTED transactions they are: an advisory lock on the idempotency key, *)
(* the lookup of that key, row locks on the trip and the review, reads that  *)
(* are used later, and one commit.  Commands of several clients interleave   *)
(* between these steps; any of them may fail and be sent again.              *)
(*                                                                           *)
(* The last lock a command takes and its commit are one action: from there   *)
(* on it waits for nobody, and its writes are invisible until the commit.    *)
(* Operators named X_... are wrong variants of X that show that a property   *)
(* can fail.                                                                 *)
EXTENDS Naturals

CONSTANTS
  Clients,          \* concurrent API requests
  Keys,             \* idempotency keys
  Trips,            \* rows of trips; a review is named by its trip
  Requests,         \* [op, trip, rider, rating] records clients may send
  None,             \* no request, no body, nobody
  MaxAborts         \* bound on failures other than deadlocks

Ops == {"upsert", "delete", "exclude", "restore"}

ASSUME RequestsAssumption ==
  \A r \in Requests :
    /\ r.op \in Ops /\ r.rider \in {"owner", "other"} /\ r.rating \in Nat
    /\ r.op = "upsert" => r.rating > 0

(* Response bodies of the three commands, idempotency rows, and what a       *)
(* client works on.                                                          *)
Bodies ==
  [version : Nat \ {0}, rating : Nat \ {0}, created : BOOLEAN]
    \cup [changed : BOOLEAN]
    \cup [number : Nat \ {0}, excluded : BOOLEAN, changed : BOOLEAN]
Stored == [request : Requests, body : Bodies]
Jobs   == [key : Keys, request : Requests]

ASSUME NoneAssumption ==
  None \notin Clients /\ None \notin Requests /\ None \notin Stored /\ None \notin Jobs
ASSUME MaxAbortsAssumption == MaxAborts \in Nat

VARIABLES
  review,           \* reviews: [exists, deleted, excluded] for each trip
  versions,         \* review_versions: set of [version, rating, current]
  decisions,        \* moderation_decisions: set of [number, action, changed]
  events,           \* number of outbox rows written for each trip
  stored,           \* idempotency_requests: [request, body] of each key
  keyLock,          \* pg_advisory_xact_lock holder of each key
  tripLock,         \* FOR UPDATE holder of each trip row
  reviewLock,       \* FOR UPDATE holder of each review row
  pc, job, seen,    \* each client's place, its [key, request] and its reads
  reply,            \* what each client was last told
  aborts            \* failures so far

tables == <<review, versions, decisions, events, stored>>
locks  == <<keyLock, tripLock, reviewLock>>
vars   == <<tables, locks, pc, job, seen, reply, aborts>>

NoReview == [exists |-> FALSE, deleted |-> FALSE, excluded |-> FALSE]
NoRow    == [version |-> 0, rating |-> 0, current |-> FALSE]
Unread   == [review |-> NoReview, current |-> NoRow]
NoReply  == [kind |-> "none", body |-> None]

Key(c) == job[c].key
Req(c) == job[c].request
Op(c)  == Req(c).op
T(c)   == Req(c).trip

Init ==
  /\ review = [t \in Trips |-> NoReview]
  /\ versions = [t \in Trips |-> {}]
  /\ decisions = [t \in Trips |-> {}]
  /\ events = [t \in Trips |-> 0]
  /\ stored = [k \in Keys |-> None]
  /\ keyLock = [k \in Keys |-> None]
  /\ tripLock = [t \in Trips |-> None]
  /\ reviewLock = [t \in Trips |-> None]
  /\ pc = [c \in Clients |-> "done"]
  /\ job = [c \in Clients |-> None]
  /\ seen = [c \in Clients |-> Unread]
  /\ reply = [c \in Clients |-> NoReply]
  /\ aborts = 0

(* The current version, scalar_one_or_none of the is_current row. *)
CurrentRow(t) == IF \E row \in versions[t] : row.current
                 THEN CHOOSE row \in versions[t] : row.current ELSE NoRow

(* max(decision_number), 0 before the first decision *)
LastNumber(t) ==
  IF decisions[t] = {} THEN 0
  ELSE CHOOSE n \in {d.number : d \in decisions[t]} : \A d \in decisions[t] : d.number <= n

-----------------------------------------------------------------------------
(* The end of a transaction, and of the request *)

ReleaseLocks_KeepKey(c) ==
  /\ tripLock' = [t \in Trips |-> IF tripLock[t] = c THEN None ELSE tripLock[t]]
  /\ reviewLock' = [t \in Trips |-> IF reviewLock[t] = c THEN None ELSE reviewLock[t]]
  /\ UNCHANGED keyLock

ReleaseLocks(c) ==
  /\ keyLock' = [k \in Keys |-> IF keyLock[k] = c THEN None ELSE keyLock[k]]
  /\ tripLock' = [t \in Trips |-> IF tripLock[t] = c THEN None ELSE tripLock[t]]
  /\ reviewLock' = [t \in Trips |-> IF reviewLock[t] = c THEN None ELSE reviewLock[t]]

Finish(c, kind, body) ==
  /\ ReleaseLocks(c)
  /\ pc' = [pc EXCEPT ![c] = "done"]
  /\ seen' = [seen EXCEPT ![c] = Unread]
  /\ reply' = [reply EXCEPT ![c] = [kind |-> kind, body |-> body]]
  /\ UNCHANGED job

Answer(c, kind, body) == Finish(c, kind, body) /\ UNCHANGED <<tables, aborts>>

(* The idempotency row commits with the command it stands for. *)
Record(c, body) ==
  /\ stored' = [stored EXCEPT ![Key(c)] = [request |-> Req(c), body |-> body]]
  /\ Finish(c, "ok", body)
  /\ UNCHANGED aborts

-----------------------------------------------------------------------------
(* Every command: the key *)

Submit(c, k, r) ==
  /\ pc[c] = "done"
  /\ pc' = [pc EXCEPT ![c] = "begin"]
  /\ job' = [job EXCEPT ![c] = [key |-> k, request |-> r]]
  /\ reply' = [reply EXCEPT ![c] = NoReply]
  /\ UNCHANGED <<tables, locks, seen, aborts>>

LockKey_Unlocked(c) ==
  /\ pc[c] = "begin"
  /\ pc' = [pc EXCEPT ![c] = "lookup"]
  /\ UNCHANGED <<tables, locks, job, seen, reply, aborts>>

LockKey(c) ==
  /\ pc[c] = "begin" /\ keyLock[Key(c)] = None
  /\ keyLock' = [keyLock EXCEPT ![Key(c)] = c]
  /\ pc' = [pc EXCEPT ![c] = "lookup"]
  /\ UNCHANGED <<tables, tripLock, reviewLock, job, seen, reply, aborts>>

Replay_AnyContent(c) ==
  /\ pc[c] = "lookup" /\ stored[Key(c)] # None
  /\ Answer(c, "replay", stored[Key(c)].body)

Replay(c) ==
  /\ pc[c] = "lookup" /\ stored[Key(c)] # None
  /\ stored[Key(c)].request = Req(c)
  /\ Answer(c, "replay", stored[Key(c)].body)

Conflict(c) ==
  /\ pc[c] = "lookup" /\ stored[Key(c)] # None
  /\ stored[Key(c)].request # Req(c)
  /\ Answer(c, "conflict", None)

Lookup(c) ==
  /\ pc[c] = "lookup" /\ stored[Key(c)] = None
  /\ pc' = [pc EXCEPT ![c] = IF Op(c) \in {"upsert", "delete"} THEN "trip" ELSE "review"]
  /\ UNCHANGED <<tables, locks, job, seen, reply, aborts>>

-----------------------------------------------------------------------------
(* upsert_review and delete_review: the trip *)

LockTrip_Unlocked(c) ==
  /\ pc[c] = "trip"
  /\ T(c) \in Trips /\ tripLock[T(c)] = None /\ Req(c).rider = "owner"
  /\ pc' = [pc EXCEPT ![c] = "read"]
  /\ UNCHANGED <<tables, locks, job, seen, reply, aborts>>

LockTrip(c) ==
  /\ pc[c] = "trip"
  /\ T(c) \in Trips /\ tripLock[T(c)] = None /\ Req(c).rider = "owner"
  /\ tripLock' = [tripLock EXCEPT ![T(c)] = c]
  /\ pc' = [pc EXCEPT ![c] = "read"]
  /\ UNCHANGED <<tables, keyLock, reviewLock, job, seen, reply, aborts>>

RejectTrip(c) ==
  /\ pc[c] = "trip"
  /\ \/ T(c) \notin Trips /\ Answer(c, "missing", None)
     \/ /\ T(c) \in Trips /\ tripLock[T(c)] = None /\ Req(c).rider # "owner"
        /\ Answer(c, "forbidden", None)

(* upsert_review reads the review without a lock. *)
ReadReview(c) ==
  /\ pc[c] = "read" /\ Op(c) = "upsert"
  /\ seen' = [seen EXCEPT ![c] = [review |-> review[T(c)], current |-> CurrentRow(T(c))]]
  /\ pc' = [pc EXCEPT ![c] = "write"]
  /\ UNCHANGED <<tables, locks, job, reply, aborts>>

RatingChanged(s, rating) == s.current = NoRow \/ s.current.rating # rating

UpsertChangesContribution_ForgetRevival(s, rating) ==
  RatingChanged(s, rating) /\ ~s.review.excluded

(* contribution_changed of upsert_review *)
UpsertChangesContribution(s, rating) ==
  LET before == ~s.review.deleted /\ ~s.review.excluded
      after  == ~s.review.excluded
  IN before # after \/ (RatingChanged(s, rating) /\ after)

(* Reviving the row updates it, and a new version takes a key-share lock on  *)
(* it: both wait for a moderator or a deletion that holds it FOR UPDATE.     *)
UpsertNeedsReviewRow(s, rating) ==
  s.review.exists /\ (s.review.deleted \/ RatingChanged(s, rating))

NextVersion_Same(s) == s.current.version

NextVersion(s) == s.current.version + 1

CommitUpsert(c) ==
  LET t == T(c)
      s == seen[c]
      rating  == Req(c).rating
      changed == RatingChanged(s, rating)
      next    == [version |-> NextVersion(s), rating |-> rating, current |-> TRUE]
      retired == {IF row = s.current THEN [row EXCEPT !.current = FALSE] ELSE row :
                    row \in versions[t]}
  IN /\ pc[c] = "write" /\ Op(c) = "upsert"
     /\ UpsertNeedsReviewRow(s, rating) => reviewLock[t] = None
     /\ review' = [review EXCEPT ![t].exists = TRUE,
                                 ![t].deleted = IF s.review.deleted THEN FALSE ELSE @]
     /\ versions' = [versions EXCEPT ![t] = IF changed THEN retired \cup {next} ELSE @]
     /\ events' = [events EXCEPT ![t] =
                     IF UpsertChangesContribution(s, rating) THEN @ + 1 ELSE @]
     /\ Record(c, [version |-> IF changed THEN next.version ELSE s.current.version,
                   rating |-> rating, created |-> ~s.review.exists])
     /\ UNCHANGED decisions

(* delete_review locks the review row and decides on what it then holds. *)
CommitDelete(c) ==
  LET t == T(c)
      changed == ~review[t].deleted
  IN /\ pc[c] = "read" /\ Op(c) = "delete"
     /\ review[t].exists /\ reviewLock[t] = None
     /\ review' = [review EXCEPT ![t].deleted = TRUE]
     /\ events' = [events EXCEPT ![t] =
                     IF changed /\ ~review[t].excluded THEN @ + 1 ELSE @]
     /\ Record(c, [changed |-> changed])
     /\ UNCHANGED <<versions, decisions>>

RejectDelete(c) ==
  /\ pc[c] = "read" /\ Op(c) = "delete" /\ ~review[T(c)].exists
  /\ Answer(c, "missing", None)

-----------------------------------------------------------------------------
(* moderate_review: one query locks the review row, then its trip row *)

Moderates(c) == Op(c) \in {"exclude", "restore"}

LockReview_Unlocked(c) ==
  /\ pc[c] = "review"
  /\ T(c) \in Trips /\ review[T(c)].exists /\ reviewLock[T(c)] = None
  /\ seen' = [seen EXCEPT ![c].review = review[T(c)]]
  /\ pc' = [pc EXCEPT ![c] = "write"]
  /\ UNCHANGED <<tables, locks, job, reply, aborts>>

LockReview(c) ==
  /\ pc[c] = "review"
  /\ T(c) \in Trips /\ review[T(c)].exists /\ reviewLock[T(c)] = None
  /\ reviewLock' = [reviewLock EXCEPT ![T(c)] = c]
  /\ seen' = [seen EXCEPT ![c].review = review[T(c)]]
  /\ pc' = [pc EXCEPT ![c] = "write"]
  /\ UNCHANGED <<tables, keyLock, tripLock, job, reply, aborts>>

RejectModeration(c) ==
  /\ pc[c] = "review"
  /\ T(c) \in Trips => ~review[T(c)].exists
  /\ Answer(c, "missing", None)

JoinedTripIsFree_ReviewOnly(t) == TRUE

(* with_for_update() names no table, so it locks the joined trip as well. *)
JoinedTripIsFree(t) == tripLock[t] = None

DecisionChangesState(excluded, action) == excluded # (action = "exclude")

CommitModeration(c) ==
  LET t == T(c)
      s == seen[c].review
      excluded == Op(c) = "exclude"
      changed  == DecisionChangesState(s.excluded, Op(c))
      number   == LastNumber(t) + 1
  IN /\ pc[c] = "write" /\ Moderates(c)
     /\ JoinedTripIsFree(t)
     /\ decisions' = [decisions EXCEPT ![t] =
                        @ \cup {[number |-> number, action |-> Op(c), changed |-> changed]}]
     /\ review' = [review EXCEPT ![t].excluded = IF changed THEN excluded ELSE @]
     /\ events' = [events EXCEPT ![t] = IF changed /\ ~s.deleted THEN @ + 1 ELSE @]
     /\ Record(c, [number |-> number, excluded |-> excluded, changed |-> changed])
     /\ UNCHANGED versions

-----------------------------------------------------------------------------
(* Failures *)

(* An error, a lost connection or the death of the API process. *)
Fail(c) ==
  /\ pc[c] # "done" /\ aborts < MaxAborts
  /\ aborts' = aborts + 1
  /\ Finish(c, "error", None)
  /\ UNCHANGED tables

WaitsForReview(c) ==
  pc[c] \in {"read", "write"} /\
    \/ Op(c) = "delete" /\ review[T(c)].exists
    \/ Op(c) = "upsert" /\ pc[c] = "write" /\ UpsertNeedsReviewRow(seen[c], Req(c).rating)

WaitsForTrip(c) == pc[c] = "write" /\ Moderates(c)

(* c holds the trip and waits for the review, d the other way round. *)
Deadlocked(c, d) ==
  /\ WaitsForReview(c) /\ WaitsForTrip(d) /\ T(c) = T(d)
  /\ tripLock[T(c)] = c /\ reviewLock[T(c)] = d

(* PostgreSQL's deadlock detector cancels one of the two. *)
DeadlockVictim(c) ==
  /\ \E d \in Clients : Deadlocked(c, d) \/ Deadlocked(d, c)
  /\ Answer(c, "error", None)

-----------------------------------------------------------------------------
Commit(c) == CommitUpsert(c) \/ CommitDelete(c) \/ CommitModeration(c)

Step(c) ==
  \/ LockKey(c) \/ Replay(c) \/ Conflict(c) \/ Lookup(c)
  \/ LockTrip(c) \/ RejectTrip(c) \/ ReadReview(c) \/ RejectDelete(c)
  \/ LockReview(c) \/ RejectModeration(c) \/ Commit(c) \/ DeadlockVictim(c)

Next ==
  \E c \in Clients :
    \/ \E k \in Keys, r \in Requests : Submit(c, k, r)
    \/ Step(c) \/ Fail(c)

Spec == Init /\ [][Next]_vars

(* PostgreSQL grants a lock to its waiters in turn and resolves deadlocks,   *)
(* so a request that can go on again and again goes on; no client has to     *)
(* send another request.                                                     *)
FairSpec == Spec /\ \A c \in Clients : SF_vars(Step(c))

-----------------------------------------------------------------------------
(* Properties *)

Holders == Clients \cup {None}

Phases == {"done", "begin", "lookup", "trip", "review", "read", "write"}

Reviews   == [exists : BOOLEAN, deleted : BOOLEAN, excluded : BOOLEAN]
Versions  == [version : Nat \ {0}, rating : Nat \ {0}, current : BOOLEAN]
Decisions == [number : Nat \ {0}, action : {"exclude", "restore"}, changed : BOOLEAN]

Replies == {"none", "ok", "replay", "conflict", "missing", "forbidden", "error"}

TypeOK ==
  /\ review \in [Trips -> Reviews]
  /\ versions \in [Trips -> SUBSET Versions] /\ decisions \in [Trips -> SUBSET Decisions]
  /\ events \in [Trips -> Nat]
  /\ stored \in [Keys -> Stored \cup {None}]
  /\ keyLock \in [Keys -> Holders]
  /\ tripLock \in [Trips -> Holders] /\ reviewLock \in [Trips -> Holders]
  /\ pc \in [Clients -> Phases]
  /\ job \in [Clients -> Jobs \cup {None}]
  /\ seen \in [Clients -> [review : Reviews, current : Versions \cup {NoRow}]]
  /\ reply \in [Clients -> [kind : Replies, body : Bodies \cup {None}]]
  /\ aborts \in Nat

Contribution(t) ==
  IF review[t].exists /\ ~review[t].deleted /\ ~review[t].excluded
  THEN CurrentRow(t).rating ELSE 0

(* The versions of a review are 1..n and the highest alone is current        *)
(* (versions_are_sequential, tools/audit/checks.py:37), although two rewrites *)
(* of one trip each compute "next" from a row they read earlier.             *)
VersionsAreSequential ==
  \A t \in Trips :
    LET n == CurrentRow(t).version
    IN /\ review[t].exists <=> n > 0
       /\ {row.version : row \in versions[t]} = 1..n
       /\ \A row \in versions[t] : row.current <=> row.version = n
       /\ \A r1, r2 \in versions[t] : r1.version = r2.version => r1 = r2

(* The moderation log explains the review's state: decisions are numbered    *)
(* 1..n, the last one is in force, and each one is marked as a change        *)
(* exactly when it reverses the one before                                   *)
(* (moderation_state_matches_latest_decision, tools/audit/checks.py:157).    *)
DecisionsExplainState ==
  \A t \in Trips :
    LET n == LastNumber(t)
        Action(i) == IF i = 0 THEN "restore"
                     ELSE (CHOOSE d \in decisions[t] : d.number = i).action
    IN /\ {d.number : d \in decisions[t]} = 1..n
       /\ \A d, e \in decisions[t] : d.number = e.number => d = e
       /\ \A d \in decisions[t] : d.changed <=> d.action # Action(d.number - 1)
       /\ review[t].excluded <=> Action(n) = "exclude"

(* A transaction writes one outbox row when it changes what its trip adds to *)
(* the driver's score, and none otherwise (architecture.md:196): the score   *)
(* refresh misses no change, and a change decided on a stale read would be   *)
(* missed here.                                                              *)
EventPerContributionChange ==
  [][\A t \in Trips :
       events'[t] = IF Contribution(t)' # Contribution(t) THEN events[t] + 1 ELSE events[t]]_vars

(* "This prevents concurrent retries from both observing a missing           *)
(* idempotency record" (review_service.py:73-74): a key a client looked up   *)
(* and found unused is unused until that client commits, so the insert of    *)
(* its idempotency row never meets the primary key.                          *)
LookupStillValid ==
  \A c \in Clients : pc[c] \in {"trip", "review", "read", "write"} => stored[Key(c)] = None

(* A client told that its command happened, first or on a replay, was told   *)
(* the one durable answer of its key; all retries get that same body.        *)
RepliesAreDurable ==
  \A c \in Clients :
    reply[c].kind \in {"ok", "replay"} =>
      /\ stored[Key(c)] # None
      /\ stored[Key(c)] = [request |-> Req(c), body |-> reply[c].body]

(* Lock order differs between moderation and the rider's commands, yet with  *)
(* PostgreSQL's detector every request is answered.                          *)
EveryRequestIsAnswered == \A c \in Clients : pc[c] # "done" ~> pc[c] = "done"

(* The rows, read as the abstract store. *)
Store == INSTANCE ReviewStore WITH
  NoRequest <- None,
  ballot    <- [t \in Trips |-> [version   |-> CurrentRow(t).version,
                                 rating    |-> CurrentRow(t).rating,
                                 deleted   |-> review[t].deleted,
                                 excluded  |-> review[t].excluded,
                                 decisions |-> LastNumber(t)]],
  executed  <- [k \in Keys |-> IF stored[k] = None THEN None ELSE stored[k].request]

(* Every command takes effect at its commit, as one atomic command of the    *)
(* abstract store, once per key.                                             *)
ImplementsStore == Store!Spec
=============================================================================
