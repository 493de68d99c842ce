CONSTANTS
  t1 = t1
  t2 = t2
  None = None
  Threads = {t1, t2}
  Ops <- OneReaderOneWriter
  Rates = {0, 9600, 50000}
  MaxLen = 2
  TxCap = 2
  RxCap = 1
  Quiesced = TRUE
SPECIFICATION FairSpec
INVARIANTS TypeOK WriteReportsPrefix ConfigMatchesLine CloseUndoesOpen
PROPERTY TimedCallsReturn
