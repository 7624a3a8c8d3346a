\* The docker-compose deployment: one worker.  It may die, but every commit is
\* acknowledged.
CONSTANTS
  Workers = {w1}
  Events = {1, 2, 3}
  BatchLimit = 2
  MaxAttempts = 3
  MaxCrashes = 2
  MaxLostAcks = 0
SPECIFICATION Spec
INVARIANTS
  LedgerIsCompleted
  AttemptsWithinBudget
