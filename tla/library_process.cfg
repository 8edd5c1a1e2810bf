CONSTANTS
  t1 = t1
  t2 = t2
  c1 = c1
  c2 = c2
  Nil = Nil
  Threads = {t1, t2}
  Main = t1
  Fds = {3, 5}
  Cells = {c1, c2}
  NUM_BUCKETS = 2
SPECIFICATION FairSpec
CHECK_DEADLOCK FALSE
INVARIANTS
  WellLinked
  AddressReady
PROPERTIES
  TableContract
  StartupEnds
