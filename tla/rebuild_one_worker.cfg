\* One worker and an admin with two jobs on one driver: staged rebuilds, of which
\* the second may start too early, offline rebuilds, a repaired or corrupted score.
CONSTANTS
  Trips <- TwoTrips
  DriverOf <- All_One
  CompletedAt <- Trip_Time
  WindowLength = 1
  EligibilityCount = 2
  BoardLimit = 1
  Workers = {w1}
  Expirers = {}
  EffectiveAt <- LateExpirations
  Elsewhere = {}
  Drivers <- OneDriver
  Ratings = {0, 1}
  None = None
  MaxTime = 0
  MaxChanges = 2
  MaxFailures = 1
  Admins = {a1}
  MaxJobs = 2
  MaxUpkeep = 1
SPECIFICATION RebuildFairSpec
INVARIANTS
  RebuildTypeOK
PROPERTIES
  ImplementsGenerations
  PublishKeepsProcessedChanges
  RebuildsDoNotStarve
CHECK_DEADLOCK FALSE
