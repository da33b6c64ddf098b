CONSTANTS
  Deadline <- SixtySeconds
  EmbedLimit <- ThirtySeconds
  Durations <- SomeDurations
SPECIFICATION FairTimingSpec
INVARIANTS
  TimingTypeOK
  RunIsBounded
  CutShortWritesNothing
PROPERTY RunReturns
CHECK_DEADLOCK FALSE
