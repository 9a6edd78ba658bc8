\* The page in every environment of its runtime, with hooks that add two
\* dependencies or put the start off, which the page itself does not have.
CONSTANTS
  Environments = {"web", "worker", "node", "shell"}
  PreRunDeps = {"image", "font"}
  HeapSlots = 3
  MaxChains = 2
SPECIFICATION FairSpec
INVARIANTS DepsCounted CodeAfterLink NoStrayAbort
PROPERTIES LoadSettles ScansGoOn
CHECK_DEADLOCK FALSE
