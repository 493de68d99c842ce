CONSTANTS
  Libraries = {"queue", "registry", "fsm", "netdev", "digest", "crc"}
  NodeAddrs = {q1, q2, q3}
  NULL = NULL
  Priorities <- QueuePriorities
  Names = {n1, n2, n3}
  BadName = BadName
  NoName = NoName
  States = {unknown, ok}
  NoState = unknown
  Times = {0, 7}
  StorageSize = 3
  boot = boot
  ready = ready
  run = run
  lost = lost
  init = init
  start = start
  FsmStates = {boot, ready, run, lost}
  Events = {init, start}
  Tables <- FsmTables
  MaxDepth = 3
  Callers = {c1}
  Ifnames = {"eth0", "wlan0"}
  Addrs = {a1}
  BadAddr = BadAddr
  MaxLines = 2
  BLOCK = 8
  WORD = 128
  MaxMessage = 40
  MaxPiece = 20
  CrcThreads = {u1, u2}
  Bytes <- CrcBytes
  MaxBytes = 2
SPECIFICATION LibSpec
INVARIANTS LengthIsListLength OneOwner TypeOK Compact PointerDenotesNode OnlyReachableStates OuterTransitionWins OnlyKnownLeaks NetCallsAreRight DigestsCompressMessage CrcIsRemainder
PROPERTIES ListIsTaskQueue EnumerationOrderKept ImplementsDirectory
SYMMETRY NameSymmetry
