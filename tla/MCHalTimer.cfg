CONSTANTS
  Configs <- AllConfigs
  MaxStarts = 2
  MaxTicks = 2
SPECIFICATION FairSpec
INVARIANTS TypeOK OneShotFiresOnce AtMostOneLateCallback
PROPERTIES StartedTimerFires DestroyOfArmedReturns
