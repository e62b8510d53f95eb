SPECIFICATION FairSpec
CONSTANT Nothing = Nothing
INVARIANTS
  StoppedMeansDead
  ScratchCleared
  OutcomeTellsWhatHappened
PROPERTY EveryRunReturns
CHECK_DEADLOCK FALSE
