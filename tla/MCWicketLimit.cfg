CONSTANTS
  Gate = {g1, g2}
  NoGate = NoGate
  Tickets = {t1}
  TicketControllers = {}
  CovidControllers = {}
  Barcode = {t1}
  NoBarcode = NoBarcode
  PassesAllowed = 1
  InHall = {}
  Kind <- MCKind
  MaxPass <- MCMaxPass
  RowsAtStart <- MCRowsAtStart
  PassCounts <- MCPassCounts
  CovidQR = {}
  BadQR = {}
  CertCheck = {}
  WidgetCmds = {}
  DbFaults = {}
  MaxBacklog = 1
  Workload <- LimitWorkload
SPECIFICATION Spec
INVARIANTS
  PassLimit
CHECK_DEADLOCK FALSE
