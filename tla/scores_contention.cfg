\* Two workers and two expiration calls for one time on two drivers without
\* score rows, one of which two reviews make eligible: duplicate rows and runs,
\* refused entries, a failure, and every cycle of waits for score rows and for
\* the city.
CONSTANTS
  Trips <- ThreeTrips
  DriverOf <- Trip_Driver
  CompletedAt <- Trip_Time
  WindowLength = 2
  EligibilityCount = 2
  BoardLimit = 1
  Workers = {w1, w2}
  Expirers = {x1, x2}
  EffectiveAt <- LateExpirations
  Elsewhere = {}
  Drivers <- TwoDrivers
  Ratings = {0, 1}
  None = None
  MaxTime = 0
  MaxChanges = 2
  MaxFailures = 1
SPECIFICATION FairSpec
INVARIANTS
  PublishedIsRanking
PROPERTIES
  ExpirationIsExact
  QueueDrains
CHECK_DEADLOCK FALSE
