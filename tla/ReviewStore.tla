---------------------------- MODULE ReviewStore -----------------------------
(* What the review and moderation commands promise together: each effective  *)
(* command happens at one instant, once per idempotency key, and writes an   *)
(* outbox event exactly when it changes what its trip contributes to the     *)
(* driver's score.  There are no sessions, locks or rows here;               *)
(* ReviewTransactions.tla is shown to implement this module.                 *)
EXTENDS Naturals

CONSTANTS Trips,        \* trips that exist
          Keys,         \* idempotency keys
          Requests,     \* requests clients may send, see ReviewTransactions
          NoRequest     \* a key that has no effective command yet

VARIABLES ballot,       \* what each trip's review says
          events,       \* outbox events written for each trip
          executed      \* the request each key stands for

vars == <<ballot, events, executed>>

NoRating == 0

EmptyBallot == [version |-> 0, rating |-> NoRating, deleted |-> FALSE,
                excluded |-> FALSE, decisions |-> 0]

Contributes(b) == b.version > 0 /\ ~b.deleted /\ ~b.excluded

Contribution(b) == IF Contributes(b) THEN b.rating ELSE NoRating

Permitted(r) ==
  /\ r.trip \in Trips
  /\ r.op \in {"upsert", "delete"} => r.rider = "owner"
  /\ r.op # "upsert" => ballot[r.trip].version > 0

(* The review after a request: a new rating opens a new version, an old one  *)
(* revives the review as it was; moderation survives deletion and rewriting. *)
After(r, b) ==
  CASE r.op = "upsert"  -> [b EXCEPT !.deleted = FALSE, !.rating = r.rating,
                              !.version = IF b.rating = r.rating THEN @ ELSE @ + 1]
    [] r.op = "delete"  -> [b EXCEPT !.deleted = TRUE]
    [] OTHER            -> [b EXCEPT !.excluded = (r.op = "exclude"),
                              !.decisions = @ + 1]

Init == /\ ballot = [t \in Trips |-> EmptyBallot]
        /\ events = [t \in Trips |-> 0]
        /\ executed = [k \in Keys |-> NoRequest]

Execute(k, r) ==
  /\ executed[k] = NoRequest /\ Permitted(r)
  /\ LET b == ballot[r.trip]
         a == After(r, b)
     IN /\ ballot' = [ballot EXCEPT ![r.trip] = a]
        /\ events' = [events EXCEPT ![r.trip] =
                        IF Contribution(a) # Contribution(b) THEN @ + 1 ELSE @]
  /\ executed' = [executed EXCEPT ![k] = r]

Next == \E k \in Keys, r \in Requests : Execute(k, r)

Spec == Init /\ [][Next]_vars
=============================================================================
