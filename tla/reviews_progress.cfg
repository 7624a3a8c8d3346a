\* Progress: two clients, enough requests and keys for a rider's command and a
\* moderation to deadlock.
CONSTANTS
  Clients = {c1, c2}
  Keys = {k1, k2, k3}
  Trips <- OneTrip
  Requests <- ContendingRequests
  None = None
  MaxAborts = 0
SPECIFICATION FairSpec
PROPERTIES
  EveryRequestIsAnswered
