------------------------------- MODULE MCCache -------------------------------
(* An instance of LeaderboardCache for TLC.                                  *)
EXTENDS LeaderboardCache, TLC
=============================================================================
