\* Two workers whose batches hold events of the same driver.
CONSTANTS
  Trips <- TwoTrips
  DriverOf <- Trip_Driver
  CompletedAt <- Trip_Time
  WindowLength = 1
  EligibilityCount = 1
  BoardLimit = 1
  Workers = {w1, w2}
  Expirers = {}
  EffectiveAt <- LateExpirations
  Elsewhere = {}
  Drivers <- OneDriver
  Ratings = {0, 1, 2}
  None = None
  MaxTime = 1
  MaxChanges = 2
  MaxFailures = 0
SPECIFICATION FairSpec
INVARIANTS
  SettledScoresAreAuthoritative
CHECK_DEADLOCK FALSE
