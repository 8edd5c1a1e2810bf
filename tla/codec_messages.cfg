CONSTANTS
  a4 = a4
  a6 = a6
  e1 = e1
  e2 = e2
  Garbled = Garbled
  Empty = Empty
  BufLen = 1024
  CookieLens = {0, 3, 4, 992, 993, 996, 997}
  TcpLens = {0, 2, 40}
  Addrs = {a4}
  Addrs6 = {a6}
  Codes = {e1, e2}
  Foreign <- MCForeign
SPECIFICATION FairSpec
CHECK_DEADLOCK FALSE
INVARIANTS
  LengthsExact
  ReadersInSync
  RoundTrip
  OptsAccounted
  DestinationKept
PROPERTIES
  ReadersEnd
