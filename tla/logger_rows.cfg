CONSTANTS
  Conns = {1, 2, 3}
  Fds = {4, 5}
  Plain = {1}
  Changes <- ChangeBounds
  MaxSubflows = 3
SPECIFICATION FairSpec
CHECK_DEADLOCK FALSE
INVARIANTS
  RowsOwn
  AddressesMatch
  SubflowOnce
PROPERTIES
  LoggerContract
  LockReleased
  DeadServerExits
  AbandonedEnds
