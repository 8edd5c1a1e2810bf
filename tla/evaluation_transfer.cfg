CONSTANTS
  Clients = {1, 2}
  Setups <- MCSetups
  Interrupted = {1}
  Killed = {1}
  LogPerf = FALSE
  Base = 2
  IntBits = 4
  IntHalf <- MCIntHalf
  MaxDropped = 1
  Cap = 2
SPECIFICATION FairSpec
INVARIANTS
  StuckNeedsShortRead
  MagicOnce
  HeaderNeverReset
PROPERTIES
  EndsWhenTold
  HandlersEnd
CHECK_DEADLOCK FALSE
