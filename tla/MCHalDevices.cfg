CONSTANTS
  t1 = t1
  t2 = t2
  h1 = h1
  h2 = h2
  Kinds <- AllKinds
  Threads = {t1, t2}
  Handles = {h1, h2}
  Sharings <- OwnOrShared
  MaxQueued = 2
  MaxXruns = 1
SPECIFICATION FairSpec
INVARIANTS NothingLeaks DeviceStaysUsable WatchdogNotOrphaned UndisturbedCallsAreRight FramesInPlace
PROPERTIES CallsReturn
