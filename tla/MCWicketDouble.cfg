CONSTANTS
  Gate = {g1, g2}
  NoGate = NoGate
  Tickets = {t1, t2}
  TicketControllers = {}
  CovidControllers = {}
  Barcode = {t1, t2}
  NoBarcode = NoBarcode
  PassesAllowed = 1
  InHall = {}
  Kind <- MCKind
  MaxPass <- MCMaxPass
  RowsAtStart <- MCRowsAtStart
  PassCounts <- MCPassCounts
  CovidQR = {}
  BadQR = {}
  CertCheck = {}
  WidgetCmds = {}
  DbFaults = {}
  MaxBacklog = 3
  Workload <- DoubleWorkload
SPECIFICATION Spec
INVARIANTS
  NoDoubleService
SYMMETRY Symmetry
CHECK_DEADLOCK FALSE
