----------------------------- MODULE MCReviews ------------------------------
(* Instances of ReviewTransactions for TLC. *)
EXTENDS ReviewTransactions, TLC

Request(op, trip, rider, rating) ==
  [op |-> op, trip |-> trip, rider |-> rider, rating |-> rating]

OneTrip == {"t1"}

(* Everything that can happen to the review of one trip, and a request that  *)
(* is refused for its rider.                                                 *)
AllRequests ==
  {Request("upsert", "t1", "owner", n) : n \in {1, 2}}
  \cup {Request(op, "t1", "owner", 0) : op \in {"delete", "exclude", "restore"}}
  \cup {Request("delete", "t1", "other", 0)}

(* One command of each kind, enough for a rider's command and a moderation   *)
(* to deadlock, and one for a trip that does not exist.                      *)
ContendingRequests ==
  {Request("upsert", "t1", "owner", 1), Request("delete", "t1", "owner", 0),
   Request("exclude", "t1", "owner", 0), Request("upsert", "unknown", "owner", 1)}

Interchangeable == Permutations(Clients) \cup Permutations(Keys)
=============================================================================
