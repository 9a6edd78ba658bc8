\* Two handlers and the timer on two sessions and a file that is replaced.
CONSTANTS
  Thread = {t1, t2}
  Timer = timer
  Session = {s1, s2}
  NoSession = none
  ExpirationTime = 1
  CacheTime = 1
  Workload <- Workloads
  MaxTime = 2
SPECIFICATION Spec
SYMMETRY Symmetry
INVARIANTS RefsExact DeletedOnce OnlyLoggedInServed CacheFresh
PROPERTIES SweptOnlyIdle
CHECK_DEADLOCK FALSE
