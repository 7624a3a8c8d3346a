------------------------------ MODULE MCScores ------------------------------
(* Instances of ScoreRefresh for TLC.  Trip 1 leaves the window first; two   *)
(* trips make a driver eligible.                                             *)
EXTENDS ScoreRefresh, TLC

TwoDrivers == {1, 2}
ThreeTrips == 1..3
Trip_Driver == <<1, 1, 2>>
Trip_Time == <<0, 1, 1>>

OneDriver == {1}
TwoTrips == 1..2

(* Every expiration call is given time 2, which may be ahead of the clock. *)
LateExpirations == [x \in Expirers |-> 2]
=============================================================================
