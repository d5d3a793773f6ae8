SPECIFICATION FairSpec
CONSTANTS
  Coordinator = coordinator
  Follower = follower
  Strangers = {s}
  Garbled = garbled
  MAX_ENTRIES = 2
  MaxRounds = 3
  MaxStrays = 2
  MaxLosses = 1
INVARIANT TableTruthful
PROPERTY ExchangeEnds
CHECK_DEADLOCK FALSE
