SPECIFICATION FairSpec
CONSTANTS
  Sites <- MCSites
  Timeouts <- MCTimeouts
  AttemptLimits <- MCAttemptLimits
  PollInterval = 2
  MaxOpTime = 2
  Horizon = 20
INVARIANTS
  NoMissedCompletion
  ResultIsTrue
PROPERTIES
  PollingEnds
