\* Four connections for at most two handlers, one of which may stay idle.
CONSTANTS
  Handler = {h1, h2}
  MaxHandlers = 2
  MaxIdle = 1
  MaxConns = 4
SPECIFICATION FairSpec
INVARIANTS NoDoubleHandout BusyIsExact
PROPERTIES HandlerFreed PoolSettles
CHECK_DEADLOCK FALSE
