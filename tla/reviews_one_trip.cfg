\* Two clients, three keys and every request on one trip: rewrites,
\* deletions, revivals, moderation, refusals, replays, key conflicts, one failure.
CONSTANTS
  Clients = {c1, c2}
  Keys = {k1, k2, k3}
  Trips <- OneTrip
  Requests <- AllRequests
  None = None
  MaxAborts = 1
SPECIFICATION Spec
SYMMETRY Interchangeable
INVARIANTS
  TypeOK
  VersionsAreSequential
  DecisionsExplainState
  LookupStillValid
  RepliesAreDurable
PROPERTIES
  EventPerContributionChange
  ImplementsStore
