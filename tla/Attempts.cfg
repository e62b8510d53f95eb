SPECIFICATION FairSpec
CONSTANTS
  WallMs = 7
  PerAttemptMs = 3
  Retries = 3
  MaxRetryAfterMs = 3
  RetryAfters <- MCRetryAfters
  Slack = 1
INVARIANTS
  BudgetKept
  RetryAfterHonoured
  EndsNearDeadline
  GivesUpForAReason
PROPERTY LoopReturns
CHECK_DEADLOCK FALSE
