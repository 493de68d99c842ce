CONSTANTS
  c1 = c1
  c2 = c2
  NULL = NULL
  MaxWorkers = 2
  Clients = {c1, c2}
  PoolSizes <- MCPoolSizes
  Priorities <- MCPriorities
  MaxAdds = 3
SPECIFICATION FairSpec
INVARIANTS TypeOK NoInitLeak LockedByHolder NoLostWakeup QueueOrdered Accounted
PROPERTIES DispatchesByPriority EveryTaskRuns
