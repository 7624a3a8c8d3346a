\* Two workers and no fault but a failed batch: the failure record of one
\* worker arrives after the other completed the same event.
CONSTANTS
  Workers = {w1, w2}
  Events = {1}
  BatchLimit = 1
  MaxAttempts = 5
  MaxCrashes = 0
  MaxLostAcks = 0
SPECIFICATION Spec
INVARIANTS
  LedgerIsCompleted
