CONSTANTS
  t1 = t1
  t2 = t2
  None = None
  Threads = {t1, t2}
  Ops <- WritersOnly
  Rates = {9600}
  MaxLen = 2
  TxCap = 2
  RxCap = 1
  Quiesced = TRUE
SPECIFICATION Spec
PROPERTY PacketsNotTorn
