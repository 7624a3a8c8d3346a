\* The docker-compose deployment without expirations: one worker, two drivers
\* of a city, a board of one.
CONSTANTS
  Trips <- ThreeTrips
  DriverOf <- Trip_Driver
  CompletedAt <- Trip_Time
  WindowLength = 1
  EligibilityCount = 1
  BoardLimit = 1
  Workers = {w1}
  Expirers = {}
  EffectiveAt <- LateExpirations
  Elsewhere = {3}
  Drivers <- TwoDrivers
  Ratings = {0, 1, 2}
  None = None
  MaxTime = 2
  MaxChanges = 3
  MaxFailures = 1
SPECIFICATION FairSpec
INVARIANTS
  TypeOK
  SettledScoresAreAuthoritative
  PublishedMatchesScores
PROPERTIES
  EventuallyConsistent
CHECK_DEADLOCK FALSE
