\* Two workers, two events, batches of two: claims skip locked rows, batches
\* overlap after a rollback, a worker dies, an acknowledgement is lost.
CONSTANTS
  Workers = {w1, w2}
  Events = {1, 2}
  BatchLimit = 2
  MaxAttempts = 3
  MaxCrashes = 1
  MaxLostAcks = 1
SPECIFICATION FairSpec
INVARIANTS
  TypeOK
  AppliedOnce
  ClaimsAreDisjoint
  CompletedHasLedger
  FailedExhausted
PROPERTIES
  FailedIsTerminal
  ImplementsDelivery
  EventuallySettled
