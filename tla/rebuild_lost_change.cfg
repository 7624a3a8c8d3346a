\* One worker and an admin that publishes a staged rebuild; nothing fails and
\* no score is corrupted.
CONSTANTS
  Trips <- OneTrip
  DriverOf <- All_One
  CompletedAt <- Trip_Time
  WindowLength = 1
  EligibilityCount = 1
  BoardLimit = 1
  Workers = {w1}
  Expirers = {}
  EffectiveAt <- LateExpirations
  Elsewhere = {}
  Drivers <- OneDriver
  Ratings = {0, 1, 2}
  None = None
  MaxTime = 0
  MaxChanges = 3
  MaxFailures = 0
  Admins = {a1}
  MaxJobs = 1
  MaxUpkeep = 0
SPECIFICATION RebuildSpec
INVARIANTS
  SettledScoresAreAuthoritative
CHECK_DEADLOCK FALSE
