------------------------------ MODULE MCOutbox ------------------------------
(* Instances of Outbox for TLC.  Events are numbers because their order      *)
(* matters.  Workers are model values; they are not declared symmetric, as a *)
(* run that checks a liveness property may not reduce by symmetry.           *)
EXTENDS Outbox, TLC
=============================================================================
