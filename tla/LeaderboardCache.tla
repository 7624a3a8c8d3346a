--------------------------- MODULE LeaderboardCache ---------------------------
(* The Redis copy of one city's published leaderboard                        *)
(* (services/cache_service.py): workers, expirations and rebuilds commit to  *)
(* PostgreSQL and refresh the key afterwards, readers take the key or fill   *)
(* it from PostgreSQL, each in steps that interleave, with Redis refusing,   *)
(* applying late or losing what it was sent.  The generations themselves     *)
(* live as Generations.tla says.                                             *)
(*                                                                           *)
(* Operators named X_... are wrong variants of X that show that a property   *)
(* can fail.                                                                 *)
EXTENDS Naturals, Sequences, FiniteSets

CONSTANTS
  Publishers,       \* processes that publish or warm the cache
  Readers,          \* requests for the leaderboard, one after another
  Caching,          \* processes with CACHE_ENABLED
  Ttl,              \* leaderboard_cache_ttl_seconds, in ticks
  MaxVersions,      \* bound on generations
  MaxLate           \* bound on commands that timed out and may still apply

Processes == Publishers \cup Readers

ASSUME CacheAssumption ==
  /\ Publishers \cap Readers = {} /\ Caching \subseteq Processes
  /\ Ttl \in Nat \ {0} /\ MaxVersions \in Nat /\ MaxLate \in Nat

VARIABLES
  status,           \* status of each generation, by version
  cache,            \* the key in Redis: [version, ttl], version 0 for none
  synced,           \* the key as Redis has it on disk
  late,             \* versions in SETEX commands that may apply later
  pc,               \* place of each process
  held,             \* the leaderboard it read from PostgreSQL, 0 for none
  answer,           \* version told to a reader last, 0 for none
  age               \* ticks since a publication or outdated write, up to Ttl

redis == <<cache, synced, late>>
calls == <<pc, held, answer>>
vars  == <<status, redis, calls, age>>

Db == INSTANCE Generations

NoKey == [version |-> 0, ttl |-> 0]

Init ==
  /\ Db!Init
  /\ cache = NoKey /\ synced = NoKey /\ late = {}
  /\ pc = [p \in Processes |-> "idle"]
  /\ held = [p \in Processes |-> 0]
  /\ answer = 0
  /\ age = 0

(* The generation get_published_leaderboard returns. *)
Published == IF Db!With("published") = {} THEN 0 ELSE CHOOSE v \in Db!With("published") : TRUE

Becomes(p, place) == pc' = [pc EXCEPT ![p] = place]

-----------------------------------------------------------------------------
(* PostgreSQL: what commits, and nothing before it does *)

(* A batch, an expiration or publish_rebuild commits, with the refresh of    *)
(* the key still to come.                                                    *)
CommitGeneration(p) ==
  /\ pc[p] = "idle" /\ p \in Publishers
  /\ Len(status) < MaxVersions /\ Db!Publish
  /\ Becomes(p, "reading") /\ age' = 0
  /\ UNCHANGED <<redis, held, answer>>

CommitCandidate(p) ==
  /\ pc[p] = "idle" /\ p \in Publishers
  /\ \E v \in Db!With("candidate") : Db!Promote(v)
  /\ Becomes(p, "reading") /\ age' = 0
  /\ UNCHANGED <<redis, held, answer>>

(* start_rebuild and discard_rebuild leave the key alone. *)
StageOrDiscard ==
  /\ \/ Len(status) < MaxVersions /\ Db!Stage
     \/ \E v \in Db!With("candidate") : Db!Discard(v)
  /\ UNCHANGED <<redis, calls, age>>

-----------------------------------------------------------------------------
(* The steps of a refresh and of a read *)

(* tools/cache/cli.py *)
Warm(p) ==
  /\ pc[p] = "idle" /\ p \in Publishers
  /\ Becomes(p, "reading")
  /\ UNCHANGED <<status, redis, held, answer, age>>

Hit_Renews(r) ==
  /\ pc[r] = "idle" /\ r \in Readers \cap Caching /\ cache.version # 0
  /\ answer' = cache.version
  /\ cache' = [cache EXCEPT !.ttl = Ttl]
  /\ UNCHANGED <<status, synced, late, pc, held, age>>

Hit(r) ==
  /\ pc[r] = "idle" /\ r \in Readers \cap Caching /\ cache.version # 0
  /\ answer' = cache.version
  /\ UNCHANGED <<status, redis, pc, held, age>>

(* No key, no cache, or any error of Redis, which may come at any time. *)
Miss(r) ==
  /\ pc[r] = "idle" /\ r \in Readers
  /\ Becomes(r, "reading")
  /\ UNCHANGED <<status, redis, held, answer, age>>

ReadGeneration_Newest(p) ==
  /\ pc[p] = "reading" /\ Published # 0
  /\ held' = [held EXCEPT ![p] = Len(status)]
  /\ Becomes(p, "writing")
  /\ UNCHANGED <<status, redis, answer, age>>

ReadGeneration(p) ==
  /\ pc[p] = "reading" /\ Published # 0
  /\ held' = [held EXCEPT ![p] = Published]
  /\ Becomes(p, "writing")
  /\ UNCHANGED <<status, redis, answer, age>>

(* LeaderboardNotFound: the request ends with 404, the warming tool stops. *)
NotFound(p) ==
  /\ pc[p] = "reading" /\ Published = 0
  /\ Becomes(p, "idle")
  /\ UNCHANGED <<status, redis, held, answer, age>>

Apply_NoExpiry(v) ==
  /\ cache' = [version |-> v, ttl |-> 0]
  /\ age' = IF v = Published THEN age ELSE 0

(* SETEX *)
Apply(v) ==
  /\ cache' = [version |-> v, ttl |-> Ttl]
  /\ age' = IF v = Published THEN age ELSE 0

(* After the write, whatever came of it, a reader has its answer. *)
Finish(p) ==
  /\ Becomes(p, "idle")
  /\ held' = [held EXCEPT ![p] = 0]
  /\ answer' = IF p \in Readers THEN held[p] ELSE answer

WriteApplied(p) ==
  /\ pc[p] = "writing" /\ p \in Caching
  /\ Apply(held[p]) /\ Finish(p)
  /\ UNCHANGED <<status, synced, late>>

(* Redis refuses, or the cache is off. *)
WriteFailed(p) ==
  /\ pc[p] = "writing" /\ Finish(p)
  /\ UNCHANGED <<status, redis, age>>

(* The client gives up after socket_timeout with the command on its way. *)
WriteTimedOut(p) ==
  /\ pc[p] = "writing" /\ p \in Caching /\ Cardinality(late) < MaxLate
  /\ late' = late \cup {held[p]}
  /\ Finish(p)
  /\ UNCHANGED <<status, cache, synced, age>>

(* The process dies between its commit and its refresh, or in the refresh. *)
Crash(p) ==
  /\ pc[p] # "idle"
  /\ Becomes(p, "idle") /\ held' = [held EXCEPT ![p] = 0]
  /\ UNCHANGED <<status, redis, answer, age>>

-----------------------------------------------------------------------------
(* Redis and time.  It writes the key to disk with its expiry, in a file     *)
(* that lags behind (--appendonly yes), and comes back with that.            *)

ApplyLate ==
  /\ \E v \in late : Apply(v) /\ late' = late \ {v}
  /\ UNCHANGED <<status, synced, calls>>

DropLate ==
  /\ \E v \in late : late' = late \ {v}
  /\ UNCHANGED <<status, cache, synced, calls, age>>

Sync ==
  /\ synced' = cache
  /\ UNCHANGED <<status, cache, late, calls, age>>

RestartRedis ==
  /\ cache' = synced
  /\ UNCHANGED <<status, synced, late, calls, age>>

Older(key) ==
  IF key.ttl = 1 THEN NoKey ELSE IF key.ttl = 0 THEN key ELSE [key EXCEPT !.ttl = @ - 1]

Tick ==
  /\ cache' = Older(cache) /\ synced' = Older(synced)
  /\ age' = IF age < Ttl THEN age + 1 ELSE age
  /\ UNCHANGED <<status, late, calls>>

-----------------------------------------------------------------------------
Continue(p) == ReadGeneration(p) \/ NotFound(p) \/ WriteApplied(p) \/ WriteFailed(p)
                 \/ WriteTimedOut(p) \/ Crash(p)

Next ==
  \/ \E p \in Publishers : CommitGeneration(p) \/ CommitCandidate(p) \/ Warm(p)
  \/ StageOrDiscard
  \/ \E r \in Readers : Hit(r) \/ Miss(r)
  \/ \E p \in Processes : Continue(p)
  \/ ApplyLate \/ DropLate \/ Sync \/ RestartRedis \/ Tick

(* Time passes, a command on its way arrives or is lost, a process that      *)
(* began a read or a refresh ends it somehow, and what Redis holds in memory *)
(* reaches its file (appendfsync everysec).                                  *)
Spec ==
  /\ Init /\ [][Next]_vars
  /\ WF_vars(Tick) /\ WF_vars(Sync) /\ WF_vars(ApplyLate \/ DropLate)
  /\ \A p \in Processes : WF_vars(Continue(p))

-----------------------------------------------------------------------------
(* tools/cache/audit.py *)

MissingCity == cache.version = 0

StaleCity == cache.version \notin {0, Published}

(* Copies of a leaderboard that may still reach a reader. *)
Copies == {Published, cache.version, synced.version} \cup late \cup {held[p] : p \in Processes}

-----------------------------------------------------------------------------
(* Properties *)

Keys == [version : 1..MaxVersions, ttl : 1..Ttl] \cup {NoKey}

TypeOK ==
  /\ status \in Seq(Db!Statuses) /\ Len(status) <= MaxVersions
  /\ cache \in Keys /\ synced \in Keys
  /\ late \subseteq 1..MaxVersions /\ Cardinality(late) <= MaxLate
  /\ pc \in [Processes -> {"idle", "reading", "writing"}]
  /\ held \in [Processes -> 0..MaxVersions]
  /\ \A p \in Processes : held[p] = 0 <=> pc[p] # "writing"
  /\ answer \in 0..MaxVersions
  /\ age \in 0..Ttl

(* A stale key lives for at most the TTL after the publication it missed,    *)
(* or after the late write of a leaderboard read before it: hits, warming,   *)
(* late commands and a restart of Redis cannot extend it                     *)
(* (architecture.md:222, which does not count the late writes).              *)
StaleDataExpires == age = Ttl => ~StaleCity

(* Readers are told published generations only, and never one again of which *)
(* every copy is gone (architecture.md:131, 216): candidates and discarded   *)
(* generations stay hidden, whatever process fills the key and whenever.     *)
Boards == INSTANCE ServableBoards WITH current <- Published, servable <- Copies \ {0}

ServesPublishedBoards == Boards!Spec

(* A superseded generation is forgotten: neither readers that fill the key   *)
(* with what they read before, nor commands that apply late, nor Redis with  *)
(* an older file keep it coming back.                                        *)
SupersededIsForgotten ==
  \A v \in 1..MaxVersions : (v \in Copies /\ v # Published) ~> (v \notin Copies)
=============================================================================
