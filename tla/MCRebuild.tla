------------------------------ MODULE MCRebuild ------------------------------
(* Instances of StagedRebuild for TLC.  Two trips make a driver eligible.    *)
EXTENDS StagedRebuild, TLC

OneDriver == {1}
TwoTrips == 1..2
OneTrip == {1}
All_One == <<1, 1>>
Trip_Time == <<0, 0>>

LateExpirations == [x \in Expirers |-> 2]
=============================================================================
