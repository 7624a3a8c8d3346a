---------------------------- MODULE Leaderboard -----------------------------
(* Scores, their rolling window and the ranking of a city's eligible drivers *)
(* (services/scoring_service.py, services/leaderboard_service.py), as pure   *)
(* operators.  Drivers are numbered by stable_id.  Operators named X_... are *)
(* wrong variants of X that show that a property can fail.                   *)
EXTENDS Integers, Sequences, FiniteSetsExt, SequencesExt

CONSTANTS
  Trips, DriverOf, CompletedAt,  \* trips, their driver and completed_at
  WindowLength,                  \* WINDOW_DAYS (90 days in the code)
  EligibilityCount,              \* ELIGIBILITY_REVIEW_COUNT (20)
  BoardLimit                     \* LEADERBOARD_LIMIT (100)

ASSUME TripsAssumption == IsFiniteSet(Trips)
ASSUME WindowAssumption == WindowLength \in Nat
ASSUME LimitsAssumption == EligibilityCount \in Nat \ {0} /\ BoardLimit \in Nat \ {0}

InWindow(t, at) == at - WindowLength <= CompletedAt[t] /\ CompletedAt[t] <= at

(* A rating of 0 stands for a trip without a visible review. *)
Contributing(rating, d, at) ==
  {t \in Trips : DriverOf[t] = d /\ rating[t] > 0 /\ InWindow(t, at)}

(* The row recalculate_driver_score computes for a driver. *)
ScoreOf(rating, d, at) ==
  LET S == Contributing(rating, d, at)
  IN [sum |-> SumFunction([t \in S |-> rating[t]]), count |-> Cardinality(S),
      eligible |-> Cardinality(S) >= EligibilityCount, calculated |-> at]

(* ORDER BY average DESC, count DESC, stable_id ASC, the averages compared   *)
(* as fractions.                                                             *)
Ahead(score, d, e) ==
  LET a == score[d].sum * score[e].count
      b == score[e].sum * score[d].count
  IN \/ a > b
     \/ a = b /\ score[d].count > score[e].count
     \/ a = b /\ score[d].count = score[e].count /\ d < e

(* The drivers one after the other, each behind those that are ahead.        *)
InOrder(drivers, standing) ==
  CHOOSE s \in SetToSeqs(drivers) : \A i, j \in DOMAIN s : i < j => Ahead(standing, s[i], s[j])

RankedDrivers_NoLimit(standing) == InOrder(DOMAIN standing, standing)

RankedDrivers_LimitFirst(standing) ==
  LET some == SetToSeq(DOMAIN standing)
  IN InOrder(Range(SubSeq(some, 1, Min({BoardLimit, Len(some)}))), standing)

(* The drivers of a generation, in rank order, cut at the limit; `standing'  *)
(* has the sum and the count, not 0, of each eligible driver.                *)
RankedDrivers(standing) ==
  LET order == InOrder(DOMAIN standing, standing)
  IN SubSeq(order, 1, Min({BoardLimit, Len(order)}))
=============================================================================
