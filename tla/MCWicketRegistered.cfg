CONSTANTS
  Gate = {g1}
  NoGate = NoGate
  Tickets = {t1}
  TicketControllers = {}
  CovidControllers = {}
  Barcode = {t1, u1}
  NoBarcode = NoBarcode
  PassesAllowed = 1
  InHall = {}
  Kind <- MCKind
  MaxPass <- MCMaxPass
  RowsAtStart <- MCRowsAtStart
  PassCounts <- MCPassCounts
  CovidQR = {}
  BadQR = {}
  CertCheck = {}
  WidgetCmds = {}
  DbFaults = {}
  MaxBacklog = 1
  Workload <- RegisteredWorkload
SPECIFICATION Spec
INVARIANTS
  OnlyRegisteredAdmitted
CHECK_DEADLOCK FALSE
