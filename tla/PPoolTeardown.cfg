CONSTANTS
  NULL = NULL
  MaxWorkers = 2
  Clients = {c1}
  PoolSizes = {1, 2}
  Priorities = {0}
  MaxAdds = 2
SPECIFICATION TeardownSpec
INVARIANTS DestroyIsSafe
