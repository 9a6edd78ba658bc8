\* A main and a slave reader on two connections, which may both be the main
\* reader's; a certificate in force, one that is not, a broken link and a ticket;
\* at most two switches.
CONSTANTS
  Conn = {c1, c2}
  NoConn = NoConn
  Side <- MCSide
  q1 = q1
  q2 = q2
  p1 = p1
  t1 = t1
  Barcode = {q1, q2, p1, t1}
  NoBarcode = NoBarcode
  CovidQR = {q1, q2, p1}
  BadQR = {p1}
  Valid = {q1}
  MaxBacklog = 2
  Workload <- MCWorkload
SPECIFICATION FairSpec
INVARIANTS SwitchKeepsReaders
PROPERTIES CheckEnds
CHECK_DEADLOCK FALSE
