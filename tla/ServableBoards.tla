---------------------------- MODULE ServableBoards ----------------------------
(* What readers of one city's leaderboard may be told: only generations that *)
(* have been published, and of those only ones that are still servable.  A   *)
(* generation becomes servable by its publication, and once it is no longer  *)
(* servable it never is again.  LeaderboardCache implements it.              *)
EXTENDS Naturals

VARIABLES
  current,          \* version of the published generation, 0 for none
  servable,         \* versions a reader may still be told
  answer            \* version told to a reader last, 0 for none

Init == current = 0 /\ servable = {} /\ answer = 0

Publish ==
  /\ current' \in Nat /\ current' > current
  /\ servable' \subseteq servable \cup {current'} /\ current' \in servable'
  /\ UNCHANGED answer

(* A reader may be told a version as its last copy goes. *)
Serve ==
  /\ servable' \subseteq servable /\ current \in servable'
  /\ answer' \in servable \cup {answer}
  /\ UNCHANGED current

Next == Publish \/ Serve

Spec == Init /\ [][Next]_<<current, servable, answer>>
=============================================================================
