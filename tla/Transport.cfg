SPECIFICATION FairSpec
CONSTANTS
  Calls = {c1, c2}
  Routes <- MCRoutes
  Method <- MCMethod
  RetryablePostPaths <- MCRetryablePostPaths
  MaxAttempts = 2
  InitialDelay = 1
  BackoffMultiplier = 2
  MaxDelay = 2
  RetryAfterHeaders <- MCRetryAfterHeaders
INVARIANTS
  AtMostOnce
  ResubmitIsSafe
PROPERTIES
  NothingSentAfterClose
  EveryCallReturns
  ImplementsContract
