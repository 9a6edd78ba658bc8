\* As MCStandAlone: two visitors at two readers, one with a certificate in force.
CONSTANTS
  Conn = {c1, c2}
  NoConn = NoConn
  Side <- MCSide
  q1 = q1
  q2 = q2
  p1 = p1
  t1 = t1
  Barcode = {q1, q2, p1, t1}
  NoBarcode = NoBarcode
  CovidQR = {q1, q2, p1}
  BadQR = {p1}
  Valid = {q1}
  MaxBacklog = 2
  Workload <- MCWorkload
SPECIFICATION Spec
INVARIANTS VerdictIsMine
CHECK_DEADLOCK FALSE
