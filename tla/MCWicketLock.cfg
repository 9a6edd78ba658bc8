\* Two turnstiles, one ticket that may pass twice and is inside at the start, and
\* the commands that switch the double scan check off and empty its table.
CONSTANTS
  Gate = {g1, g2}
  NoGate = NoGate
  Tickets = {t1}
  TicketControllers = {}
  CovidControllers = {}
  Barcode = {t1}
  NoBarcode = NoBarcode
  PassesAllowed = 2
  InHall = {t1}
  Kind <- MCKind
  MaxPass <- MCMaxPass
  RowsAtStart <- MCRowsAtStart
  PassCounts <- MCPassCounts
  CovidQR = {}
  BadQR = {}
  CertCheck = {}
  WidgetCmds = {"setNormal", "dblScnClr"}
  DbFaults = {}
  MaxBacklog = 2
  Workload <- LockWorkload
SPECIFICATION Spec
INVARIANTS
  HallCountCovers
PROPERTIES
  ImplementsScanLock
SYMMETRY Symmetry
CHECK_DEADLOCK FALSE
