------------------------------ MODULE Delivery ------------------------------
(* What the transactional outbox promises about an accepted event, with no   *)
(* workers, batches or locks: it stays waiting until it is settled, it is    *)
(* settled once, its effect is applied only when it is delivered, and only   *)
(* once.  Outbox.tla is shown to implement this module.                      *)
EXTENDS Naturals

CONSTANT Events         \* the outbox events that may ever be written

VARIABLES outcome,      \* the fate of each event
          effects       \* how many committed batches applied each event

vars == <<outcome, effects>>

Outcomes == {"none", "waiting", "delivered", "abandoned"}

Settled(e) == outcome[e] \in {"delivered", "abandoned"}

Init == /\ outcome = [e \in Events |-> "none"]
        /\ effects = [e \in Events |-> 0]

(* A review command commits its event. *)
Accept(e) == /\ outcome[e] = "none"
             /\ outcome' = [outcome EXCEPT ![e] = "waiting"]
             /\ UNCHANGED effects

(* A set of waiting events is applied, all of them in one step. *)
Deliver(S) ==
  /\ S # {} /\ \A e \in S : outcome[e] = "waiting"
  /\ outcome' = [e \in Events |-> IF e \in S THEN "delivered" ELSE outcome[e]]
  /\ effects' = [e \in Events |-> IF e \in S THEN effects[e] + 1 ELSE effects[e]]

(* A set of waiting events is given up, none of them applied. *)
Abandon(S) ==
  /\ S # {} /\ \A e \in S : outcome[e] = "waiting"
  /\ outcome' = [e \in Events |-> IF e \in S THEN "abandoned" ELSE outcome[e]]
  /\ UNCHANGED effects

Next == \/ \E e \in Events : Accept(e)
        \/ \E S \in SUBSET Events : Deliver(S) \/ Abandon(S)

Spec == Init /\ [][Next]_vars
=============================================================================
