CONSTANTS
  t1 = t1
  t2 = t2
  None = None
  Threads = {t1, t2}
  Ops <- ReadAndClose
  Rates = {9600}
  MaxLen = 1
  TxCap = 1
  RxCap = 1
  Quiesced = FALSE
SPECIFICATION Spec
INVARIANT HandleOutlivesCalls
