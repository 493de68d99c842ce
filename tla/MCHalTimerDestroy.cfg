CONSTANTS
  Configs <- DelayedConfigs
  MaxStarts = 2
  MaxTicks = 2
SPECIFICATION FairSpec
PROPERTY DestroyReturns
