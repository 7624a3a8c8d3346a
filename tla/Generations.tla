----------------------------- MODULE Generations -----------------------------
(* The life of one city's leaderboard generations, as the reader API sees    *)
(* it: versions are handed out in order, a generation is published at once   *)
(* or staged as a candidate, publication supersedes the one before, and a    *)
(* candidate may be published only while nothing newer has been.             *)
(* StagedRebuild implements it.                                              *)
EXTENDS Naturals, Sequences

VARIABLE status     \* status[v] of the generation of version v

Statuses == {"candidate", "published", "superseded", "discarded"}

Init == status = <<>>

With(s) == {v \in DOMAIN status : status[v] = s}

Superseded == [v \in DOMAIN status |->
                 IF status[v] = "published" THEN "superseded" ELSE status[v]]

(* A generation from the current scores, built and published in one step. *)
Publish == status' = Append(Superseded, "published")

(* A hidden candidate; a city has one at a time, and something to compare it *)
(* with.                                                                     *)
Stage == /\ With("published") # {} /\ With("candidate") = {}
         /\ status' = Append(status, "candidate")

(* Nothing was published since the candidate v was staged. *)
Promote(v) ==
  /\ v \in With("candidate")
  /\ \A u \in With("published") : u < v
  /\ status' = [Superseded EXCEPT ![v] = "published"]

Discard(v) ==
  /\ v \in With("candidate")
  /\ status' = [status EXCEPT ![v] = "discarded"]

Next == Publish \/ Stage \/ \E v \in With("candidate") : Promote(v) \/ Discard(v)

Spec == Init /\ [][Next]_status
=============================================================================
