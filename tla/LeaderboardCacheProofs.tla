------------------------ MODULE LeaderboardCacheProofs ------------------------
(* Theorems about LeaderboardCache, for any publishers, readers, time to     *)
(* live and bounds.                                                          *)
EXTENDS LeaderboardCache, FiniteSetTheorems, TLAPS

USE CacheAssumption DEF Processes

-----------------------------------------------------------------------------
(* Generations *)

(* Only a publication changes what get_published_leaderboard returns.        *)
LEMMA PublishedFrame ==
  ASSUME Db!With("published")' = Db!With("published")
  PROVE  Published' = Published
<1> DEFINE One(S) == IF S = {} THEN 0 ELSE CHOOSE v \in S : TRUE
<1>1. Published = One(Db!With("published")) /\ Published' = One(Db!With("published")')
  BY DEF Published
<1> HIDE DEF One
<1> QED
  BY <1>1

LEMMA PublishedRange ==
  ASSUME status \in Seq(Db!Statuses), Len(status) <= MaxVersions
  PROVE  Published \in 0..MaxVersions
<1>1. CASE Db!With("published") = {}
  BY <1>1 DEF Published
<1>2. CASE Db!With("published") # {}
  <2>1. Published \in Db!With("published")
    BY <1>2 DEF Published
  <2>2. Db!With("published") \subseteq 1..Len(status)
    BY DEF Db!With
  <2> QED
    BY <2>1, <2>2
<1> QED
  BY <1>1, <1>2

(* Staging and discarding leave the published generation as it is.           *)
LEMMA StagingKeepsPublished ==
  ASSUME status \in Seq(Db!Statuses), Len(status) <= MaxVersions,
         StageOrDiscard
  PROVE  /\ status' \in Seq(Db!Statuses) /\ Len(status') <= MaxVersions
         /\ Published' = Published
<1>1. CASE Len(status) < MaxVersions /\ Db!Stage
  <2>1. status' = Append(status, "candidate")
    BY <1>1 DEF Db!Stage
  <2>2. Db!With("published")' = Db!With("published")
    BY <2>1 DEF Db!With
  <2> QED
    BY <1>1, <2>1, <2>2, PublishedFrame DEF Db!Statuses
<1>2. CASE \E v \in Db!With("candidate") : Db!Discard(v)
  <2>1. PICK v \in Db!With("candidate") : status' = [status EXCEPT ![v] = "discarded"]
    BY <1>2 DEF Db!Discard
  <2>2. v \in DOMAIN status /\ status[v] = "candidate"
    BY DEF Db!With
  <2>3. Db!With("published")' = Db!With("published")
    BY <2>1, <2>2 DEF Db!With
  <2>4. status' \in Seq(Db!Statuses) /\ Len(status') = Len(status)
    BY <2>1, <2>2 DEF Db!Statuses
  <2> QED
    BY <2>3, <2>4, PublishedFrame
<1> QED
  BY <1>1, <1>2 DEF StageOrDiscard

LEMMA PublishingKeepsType ==
  ASSUME status \in Seq(Db!Statuses), Len(status) <= MaxVersions,
         NEW p, CommitGeneration(p) \/ CommitCandidate(p)
  PROVE  status' \in Seq(Db!Statuses) /\ Len(status') <= MaxVersions
<1>1. /\ Db!Superseded \in Seq(Db!Statuses)
      /\ Len(Db!Superseded) = Len(status)
  BY DEF Db!Superseded, Db!Statuses
<1>2. CASE CommitGeneration(p)
  BY <1>1, <1>2 DEF CommitGeneration, Db!Publish, Db!Statuses
<1>3. CASE CommitCandidate(p)
  <2>1. PICK v \in Db!With("candidate") : status' = [Db!Superseded EXCEPT ![v] = "published"]
    BY <1>3 DEF CommitCandidate, Db!Promote
  <2>2. v \in 1..Len(Db!Superseded)
    BY <1>1 DEF Db!With
  <2> QED
    BY <1>1, <2>1, <2>2 DEF Db!Statuses
<1> QED
  BY <1>2, <1>3

-----------------------------------------------------------------------------
(* Types *)

LEMMA OlderKey ==
  ASSUME NEW key \in Keys
  PROVE  /\ Older(key) \in Keys
         /\ Older(key).version # 0 =>
              Older(key).version = key.version /\ Older(key).ttl = key.ttl - 1
BY DEF Older, Keys, NoKey

(* The type invariant is inductive.                                          *)
LEMMA TypeStep == TypeOK /\ [Next]_vars => TypeOK'
<1> SUFFICES ASSUME TypeOK, [Next]_vars PROVE TypeOK'
  OBVIOUS
<1> USE DEF Becomes
<1>0. Published \in 0..MaxVersions
  BY PublishedRange DEF TypeOK
<1>f. IsFiniteSet(late)
  <2>1. IsFiniteSet(1..MaxVersions)
    BY FS_Interval
  <2> QED
    BY <2>1, FS_Subset DEF TypeOK
<1>c. Cardinality(late) \in Nat
  BY <1>f, FS_CardinalityType
<1>r. ASSUME NEW v \in late PROVE Cardinality(late \ {v}) <= MaxLate
  <2>1. Cardinality(late \ {v}) = Cardinality(late) - 1
    BY <1>f, FS_RemoveElement
  <2> QED
    BY <1>c, <2>1 DEF TypeOK
<1>1. ASSUME NEW p \in Publishers, CommitGeneration(p) \/ CommitCandidate(p) PROVE TypeOK'
  <2>1. status' \in Seq(Db!Statuses) /\ Len(status') <= MaxVersions
    BY <1>1, PublishingKeepsType DEF TypeOK
  <2>2. /\ p \in Processes /\ pc[p] = "idle"
        /\ pc' = [pc EXCEPT ![p] = "reading"] /\ age' = 0
        /\ UNCHANGED <<cache, synced, late, held, answer>>
    BY <1>1 DEF CommitGeneration, CommitCandidate, redis
  <2>3. /\ pc' \in [Processes -> {"idle", "reading", "writing"}]
        /\ \A q \in Processes : held'[q] = 0 <=> pc'[q] # "writing"
    BY <2>2 DEF TypeOK
  <2> QED
    BY <2>1, <2>2, <2>3 DEF TypeOK
<1>2. ASSUME NEW p \in Publishers, Warm(p) PROVE TypeOK'
  BY <1>2 DEF TypeOK, Warm, redis
<1>3. CASE StageOrDiscard
  <2>1. status' \in Seq(Db!Statuses) /\ Len(status') <= MaxVersions
    BY <1>3, StagingKeepsPublished DEF TypeOK
  <2> QED
    BY <1>3, <2>1 DEF TypeOK, StageOrDiscard, redis, calls
<1>4. ASSUME NEW r \in Readers, Hit(r) PROVE TypeOK'
  BY <1>4 DEF TypeOK, Hit, redis, Keys, NoKey
<1>5. ASSUME NEW r \in Readers, Miss(r) PROVE TypeOK'
  BY <1>5 DEF TypeOK, Miss, redis
<1>6. ASSUME NEW p \in Processes, Continue(p) PROVE TypeOK'
  <2>1. CASE ReadGeneration(p)
    BY <1>0, <2>1 DEF TypeOK, ReadGeneration, redis
  <2>2. CASE NotFound(p)
    BY <2>2 DEF TypeOK, NotFound, redis
  <2>3. CASE WriteApplied(p)
    BY <2>3 DEF TypeOK, WriteApplied, Apply, Finish, Keys
  <2>4. CASE WriteFailed(p)
    BY <2>4 DEF TypeOK, WriteFailed, Finish, redis
  <2>5. CASE WriteTimedOut(p)
    <3>1. held[p] \in 1..MaxVersions
      BY <2>5 DEF TypeOK, WriteTimedOut
    <3>2. Cardinality(late \cup {held[p]}) <= MaxLate
      <4>1. \/ Cardinality(late \cup {held[p]}) = Cardinality(late)
            \/ Cardinality(late \cup {held[p]}) = Cardinality(late) + 1
        BY <1>f, FS_AddElement
      <4> QED
        BY <1>c, <2>5, <4>1 DEF WriteTimedOut
    <3>3. /\ late' = late \cup {held[p]}
          /\ pc' = [pc EXCEPT ![p] = "idle"] /\ held' = [held EXCEPT ![p] = 0]
          /\ answer' = IF p \in Readers THEN held[p] ELSE answer
          /\ UNCHANGED <<status, cache, synced, age>>
      BY <2>5 DEF WriteTimedOut, Finish
    <3>4. /\ late' \subseteq 1..MaxVersions /\ Cardinality(late') <= MaxLate
          /\ answer' \in 0..MaxVersions
      BY <3>1, <3>2, <3>3 DEF TypeOK
    <3>5. /\ pc' \in [Processes -> {"idle", "reading", "writing"}]
          /\ held' \in [Processes -> 0..MaxVersions]
          /\ \A q \in Processes : held'[q] = 0 <=> pc'[q] # "writing"
      BY <1>6, <3>3 DEF TypeOK
    <3> QED
      BY <3>3, <3>4, <3>5 DEF TypeOK
  <2>6. CASE Crash(p)
    BY <2>6 DEF TypeOK, Crash, redis
  <2> QED
    BY <1>6, <2>1, <2>2, <2>3, <2>4, <2>5, <2>6 DEF Continue
<1>7. CASE ApplyLate
  <2>1. PICK v \in late : Apply(v) /\ late' = late \ {v}
    BY <1>7 DEF ApplyLate
  <2>2. Cardinality(late') <= MaxLate
    BY <1>r, <2>1
  <2> QED
    BY <1>7, <2>1, <2>2 DEF TypeOK, ApplyLate, Apply, Keys, calls
<1>8. CASE DropLate
  <2>1. PICK v \in late : late' = late \ {v}
    BY <1>8 DEF DropLate
  <2>2. Cardinality(late') <= MaxLate
    BY <1>r, <2>1
  <2> QED
    BY <1>8, <2>1, <2>2 DEF TypeOK, DropLate, calls
<1>9. CASE Sync \/ RestartRedis
  BY <1>9 DEF TypeOK, Sync, RestartRedis, calls
<1>10. CASE Tick
  BY <1>10, OlderKey DEF TypeOK, Tick, calls
<1>11. CASE UNCHANGED vars
  BY <1>11 DEF TypeOK, vars, redis, calls
<1> QED
  BY <1>1, <1>2, <1>3, <1>4, <1>5, <1>6, <1>7, <1>8, <1>9, <1>10, <1>11 DEF Next

(* Every variable of the cache keeps its type (cache_service.py).            *)
THEOREM CacheTypeCorrect == Spec => []TypeOK
<1>1. Init => TypeOK
  BY FS_EmptySet DEF Init, TypeOK, Db!Init, Keys, NoKey, Db!Statuses
<1> QED
  BY <1>1, TypeStep, PTL DEF Spec

-----------------------------------------------------------------------------
(* Staleness *)

(* What is left of a stale copy's life and the time since it became stale    *)
(* are at most the TTL together.                                             *)
KeyAge(key) == key.version \notin {0, Published} => key.ttl + age <= Ttl

Aging == TypeOK /\ KeyAge(cache) /\ KeyAge(synced)

(* No step lengthens the life of a stale copy.                               *)
LEMMA AgingStep == Aging /\ [Next]_vars => Aging'
<1> SUFFICES ASSUME Aging, [Next]_vars PROVE Aging'
  OBVIOUS
<1> USE DEF KeyAge
<1>t. TypeOK /\ TypeOK'
  BY TypeStep DEF Aging
<1>k. /\ cache \in Keys /\ synced \in Keys /\ age \in 0..Ttl
      /\ \A key \in Keys : key.ttl \in 0..Ttl
  BY <1>t DEF TypeOK, Keys, NoKey
<1>p. ASSUME UNCHANGED status PROVE Published' = Published
  BY <1>p, PublishedFrame DEF Db!With
<1>1. ASSUME NEW p \in Publishers, CommitGeneration(p) \/ CommitCandidate(p) PROVE Aging'
  BY <1>1, <1>t, <1>k DEF Aging, CommitGeneration, CommitCandidate, redis
<1>2. CASE StageOrDiscard
  <2>1. Published' = Published
    BY <1>2, <1>t, StagingKeepsPublished DEF TypeOK
  <2> QED
    BY <1>2, <1>t, <2>1 DEF Aging, StageOrDiscard, redis
<1>3. CASE UNCHANGED <<status, redis, age>>
  BY <1>3, <1>t, <1>p DEF Aging, redis
<1>4. ASSUME NEW v, Apply(v), UNCHANGED <<status, synced>> PROVE Aging'
  BY <1>4, <1>t, <1>k, <1>p DEF Aging, Apply
<1>5. ASSUME UNCHANGED <<status, cache, synced, age>> PROVE Aging'
  BY <1>5, <1>t, <1>p DEF Aging
<1>6. CASE Sync \/ RestartRedis
  BY <1>6, <1>t, <1>p DEF Aging, Sync, RestartRedis
<1>7. CASE Tick
  <2>1. ASSUME NEW key \in Keys, KeyAge(key)
        PROVE  Older(key).version \notin {0, Published} => Older(key).ttl + age' <= Ttl
    BY <1>7, <1>k, <2>1, OlderKey DEF Tick
  <2>2. Published' = Published
    BY <1>7, <1>p DEF Tick
  <2> QED
    BY <1>7, <1>t, <1>k, <2>1, <2>2 DEF Aging, Tick
<1>8. ASSUME NEW p \in Processes, Continue(p) PROVE Aging'
  BY <1>3, <1>4, <1>5, <1>8
     DEF Continue, ReadGeneration, NotFound, WriteApplied, WriteFailed, WriteTimedOut, Crash
<1>9. CASE ApplyLate \/ DropLate
  BY <1>4, <1>5, <1>9 DEF ApplyLate, DropLate
<1>10. CASE \/ \E p \in Publishers : Warm(p)
            \/ \E r \in Readers : Hit(r) \/ Miss(r)
            \/ UNCHANGED vars
  BY <1>3, <1>10 DEF Warm, Hit, Miss, vars
<1> QED
  BY <1>1, <1>2, <1>6, <1>7, <1>8, <1>9, <1>10 DEF Next

(* A stale key expires within the TTL of the publication it missed or of the *)
(* late write that brought it, whatever fails in between                     *)
(* (leaderboard_cache_ttl_seconds, cache_service.py:66).                     *)
THEOREM StaleDataIsBounded == Spec => []StaleDataExpires
<1>1. Init => Aging
  <2>1. Init => TypeOK
    BY FS_EmptySet DEF Init, TypeOK, Db!Init, Keys, NoKey, Db!Statuses
  <2> QED
    BY <2>1 DEF Init, Aging, KeyAge, NoKey
<1>2. Aging => StaleDataExpires
  BY DEF Aging, KeyAge, StaleDataExpires, StaleCity, TypeOK, Keys, NoKey
<1> QED
  BY <1>1, <1>2, AgingStep, PTL DEF Spec

-----------------------------------------------------------------------------
(* Refinement *)

(* A publication publishes one generation, newer than the one it supersedes. *)
LEMMA PublicationIsNewer ==
  ASSUME status \in Seq(Db!Statuses), Len(status) <= MaxVersions,
         NEW p, CommitGeneration(p) \/ CommitCandidate(p)
  PROVE  Published' \in Nat /\ Published' > Published
<1>1. /\ Db!Superseded \in Seq(Db!Statuses) /\ Len(Db!Superseded) = Len(status)
      /\ \A u \in 1..Len(status) : Db!Superseded[u] # "published"
  BY DEF Db!Superseded, Db!Statuses
<1>2. Published \in 0..Len(status) /\ (Published # 0 => Published \in Db!With("published"))
  <2>1. Db!With("published") \subseteq 1..Len(status)
    BY DEF Db!With
  <2> QED
    BY <2>1 DEF Published
<1>3. \E v \in Nat : v > Published /\ Db!With("published")' = {v}
  <2>1. CASE CommitGeneration(p)
    <3>1. status' = Append(Db!Superseded, "published")
      BY <2>1 DEF CommitGeneration, Db!Publish
    <3>2. Db!With("published")' = {Len(status) + 1}
      BY <1>1, <3>1 DEF Db!With
    <3> QED
      BY <1>2, <3>2
  <2>2. CASE CommitCandidate(p)
    <3>1. PICK v : /\ v \in Db!With("candidate")
                   /\ \A u \in Db!With("published") : u < v
                   /\ status' = [Db!Superseded EXCEPT ![v] = "published"]
      BY <2>2 DEF CommitCandidate, Db!Promote
    <3>2. v \in 1..Len(status)
      BY <3>1 DEF Db!With
    <3>3. Db!With("published")' = {v}
      BY <1>1, <3>1, <3>2 DEF Db!With
    <3> QED
      BY <1>2, <3>1, <3>2, <3>3
  <2> QED
    BY <2>1, <2>2
<1> DEFINE One(S) == IF S = {} THEN 0 ELSE CHOOSE v \in S : TRUE
<1>4. Published' = One(Db!With("published")')
  BY DEF Published
<1>5. \A v \in Nat : One({v}) = v
  OBVIOUS
<1> HIDE DEF One
<1> QED
  BY <1>3, <1>4, <1>5

(* Nothing can be copied before something is published.                      *)
CopiesArePublished == TypeOK /\ (Published = 0 => Copies \subseteq {0})

(* A step that publishes nothing copies no generation of which there was no  *)
(* copy, and tells a reader only what some copy holds.                       *)
LEMMA CopiesShrink ==
  ASSUME TypeOK, [Next]_vars,
         ~ \E p \in Publishers : CommitGeneration(p) \/ CommitCandidate(p)
  PROVE  /\ Published' = Published
         /\ Copies' \subseteq Copies \cup {0}
         /\ answer' \in (Copies \ {0}) \cup {answer}
<1> DEFINE
  All  == Copies \cup {0}
  Kept == /\ cache'.version \in All /\ synced'.version \in All /\ late' \subseteq All
          /\ \A p \in Processes : held'[p] \in All
          /\ answer' \in (Copies \ {0}) \cup {answer}
<1>1. /\ Published \in All /\ cache.version \in All /\ synced.version \in All
      /\ late \subseteq All /\ \A p \in Processes : held[p] \in All
  BY DEF Copies
<1>2. /\ \A p \in Processes : held[p] \in Copies
      /\ \A p \in Processes : pc[p] = "writing" => held[p] # 0
      /\ cache.version \in Copies
  BY DEF Copies, TypeOK
<1>3. ASSUME Published' = Published, Kept
      PROVE  /\ Published' = Published /\ Copies' \subseteq All
             /\ answer' \in (Copies \ {0}) \cup {answer}
  <2>1. Copies' = {Published', cache'.version, synced'.version} \cup late'
                    \cup {held'[p] : p \in Processes}
    BY DEF Copies
  <2> QED
    BY <1>1, <1>3, <2>1
<1>4. ASSUME UNCHANGED status PROVE Published' = Published
  BY <1>4, PublishedFrame DEF Db!With
<1> HIDE DEF All
<1>z. 0 \in All
  BY DEF All
<1>5. ASSUME StageOrDiscard PROVE Published' = Published /\ Kept
  <2>1. Published' = Published
    BY <1>5, StagingKeepsPublished DEF TypeOK
  <2> QED
    BY <1>1, <1>5, <2>1 DEF StageOrDiscard, redis, calls
<1>6. ASSUME NEW r \in Readers, Hit(r) PROVE Published' = Published /\ Kept
  BY <1>1, <1>2, <1>4, <1>6 DEF Hit, redis
<1>7. ASSUME UNCHANGED <<status, redis, held, answer>> PROVE Published' = Published /\ Kept
  BY <1>1, <1>4, <1>7 DEF redis
<1>8. ASSUME NEW p \in Processes, Continue(p) PROVE Published' = Published /\ Kept
  <2>1. CASE ReadGeneration(p)
    BY <1>1, <1>4, <2>1 DEF ReadGeneration, redis, TypeOK
  <2>2. CASE NotFound(p)
    BY <1>7, <2>2 DEF NotFound
  <2>3. ASSUME pc[p] = "writing", Finish(p)
        PROVE  /\ \A q \in Processes : held'[q] \in All
               /\ answer' \in (Copies \ {0}) \cup {answer}
    BY <1>1, <1>2, <1>z, <2>3 DEF Finish, TypeOK
  <2>4. CASE WriteApplied(p)
    BY <1>1, <1>4, <2>3, <2>4 DEF WriteApplied, Apply
  <2>5. CASE WriteFailed(p)
    BY <1>1, <1>4, <2>3, <2>5 DEF WriteFailed, redis
  <2>6. CASE WriteTimedOut(p)
    BY <1>1, <1>4, <2>3, <2>6 DEF WriteTimedOut
  <2>7. CASE Crash(p)
    BY <1>1, <1>4, <1>z, <2>7 DEF Crash, redis, TypeOK
  <2> QED
    BY <1>8, <2>1, <2>2, <2>4, <2>5, <2>6, <2>7 DEF Continue
<1>9. ASSUME ApplyLate \/ DropLate \/ Sync \/ RestartRedis
      PROVE  Published' = Published /\ Kept
  BY <1>1, <1>4, <1>9 DEF ApplyLate, DropLate, Apply, Sync, RestartRedis, calls
<1>10. ASSUME Tick PROVE Published' = Published /\ Kept
  <2>1. ASSUME NEW key \in Keys, key.version \in All PROVE Older(key).version \in All
    BY <1>z, <2>1, OlderKey
  <2> QED
    BY <1>1, <1>4, <1>10, <2>1 DEF Tick, TypeOK, calls
<1>11. ASSUME UNCHANGED vars PROVE Published' = Published /\ Kept
  BY <1>7, <1>11 DEF vars, calls
<1>12. ASSUME NEW p \in Publishers, Warm(p) PROVE Published' = Published /\ Kept
  BY <1>7, <1>12 DEF Warm
<1>13. ASSUME NEW r \in Readers, Miss(r) PROVE Published' = Published /\ Kept
  BY <1>7, <1>13 DEF Miss
<1> HIDE DEF Kept
<1>14. Next \/ UNCHANGED vars
  OBVIOUS
<1> QED
  BY <1>3, <1>5, <1>6, <1>8, <1>9, <1>10, <1>11, <1>12, <1>13, <1>14 DEF Next, All

(* Every step publishes a newer generation, serves from the copies there     *)
(* are, or is not seen by the readers.                                       *)
LEMMA BoardsStep ==
  CopiesArePublished /\ [Next]_vars =>
    CopiesArePublished' /\ [Boards!Next]_<<Published, Copies \ {0}, answer>>
<1> SUFFICES ASSUME CopiesArePublished, [Next]_vars
             PROVE  CopiesArePublished' /\ [Boards!Next]_<<Published, Copies \ {0}, answer>>
  OBVIOUS
<1>t. TypeOK /\ TypeOK'
  BY TypeStep DEF CopiesArePublished
<1>0. Published \in Nat /\ Published \in Copies /\ Published' \in Copies'
  BY <1>t, PublishedRange DEF TypeOK, Copies
<1>1. ASSUME NEW p \in Publishers, CommitGeneration(p) \/ CommitCandidate(p)
      PROVE  CopiesArePublished' /\ Boards!Publish
  <2>1. Published' \in Nat /\ Published' > Published
    BY <1>1, <1>t, PublicationIsNewer DEF TypeOK
  <2>2. UNCHANGED <<cache, synced, late, held, answer>>
    BY <1>1 DEF CommitGeneration, CommitCandidate, redis
  <2>3. Copies' \subseteq Copies \cup {Published'}
    BY <2>2 DEF Copies
  <2> QED
    BY <1>0, <1>t, <2>1, <2>2, <2>3 DEF CopiesArePublished, Boards!Publish
<1>2. CASE ~ \E p \in Publishers : CommitGeneration(p) \/ CommitCandidate(p)
  <2>1. /\ Published' = Published /\ Copies' \subseteq Copies \cup {0}
        /\ answer' \in (Copies \ {0}) \cup {answer}
    BY <1>2, <1>t, CopiesShrink
  <2>2. CASE Published = 0
    BY <1>t, <2>1, <2>2 DEF CopiesArePublished
  <2>3. CASE Published # 0
    BY <1>0, <1>t, <2>1, <2>3 DEF CopiesArePublished, Boards!Next, Boards!Serve
  <2> QED
    BY <2>2, <2>3
<1> QED
  BY <1>1, <1>2 DEF Boards!Next

(* Readers are told published generations only, and none again of which      *)
(* every copy is gone, whatever process fills the key and whatever fails     *)
(* (cache_service.py:38-108, architecture.md:131, 216).                      *)
THEOREM ImplementsServableBoards == Spec => ServesPublishedBoards
<1>1. Init => CopiesArePublished /\ Boards!Init
  <2> SUFFICES ASSUME Init PROVE CopiesArePublished /\ Boards!Init
    OBVIOUS
  <2>1. TypeOK
    BY FS_EmptySet DEF Init, TypeOK, Db!Init, Keys, NoKey, Db!Statuses
  <2>2. Db!With("published") = {}
    BY DEF Init, Db!Init, Db!With
  <2>3. Published = 0
    BY <2>2 DEF Published
  <2>4. Copies = {0}
    BY <2>3 DEF Copies, Init, NoKey
  <2> QED
    BY <2>1, <2>3, <2>4 DEF CopiesArePublished, Boards!Init, Init
<1> QED
  BY <1>1, BoardsStep, PTL DEF Spec, ServesPublishedBoards, Boards!Spec
=============================================================================
