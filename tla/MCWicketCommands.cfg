\* One turnstile that checks certificates, a ticket and a covid controller, a
\* query that fails, and the widget commands that change something: setIron and
\* dblScnOff act as setNormal does, certOn and dblScnOn set what is set, and
\* dblScnClr is in MCWicketLock.
CONSTANTS
  Gate = {g1}
  NoGate = NoGate
  Tickets = {t1}
  TicketControllers = {}
  CovidControllers = {v1}
  Barcode = {t1, v1}
  NoBarcode = NoBarcode
  PassesAllowed = 1
  InHall = {}
  Kind <- MCKind
  MaxPass <- MCMaxPass
  RowsAtStart <- MCRowsAtStart
  PassCounts <- MCPassCounts
  CovidQR = {t1}
  BadQR = {}
  CertCheck = {g1}
  WidgetCmds = {"armed", "unlock", "certOff", "setNormal", "rstCntrs"}
  DbFaults = {"error"}
  MaxBacklog = 2
  Workload <- CommandsWorkload
SPECIFICATION FairSpec
INVARIANTS
  TypeOK
  NeverStuck
  SettledBetweenDrains
  OfflineSeen
PROPERTIES
  ImplementsScanLock
  BarcodeFreed
  ServiceEnds
CHECK_DEADLOCK FALSE
