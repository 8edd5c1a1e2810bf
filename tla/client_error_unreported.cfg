CONSTANTS
  t1 = t1
  t2 = t2
  c1 = c1
  c2 = c2
  Nil = Nil
  Threads = {t1}
  Fds = {3}
  Cells = {c1, c2}
  NUM_BUCKETS = 2
  CookieFits = TRUE
  AsyncConnect = FALSE
  Overlaps = FALSE
  RawIO = FALSE
  Replies <- AllReplies
  MaxSent = 2
  MaxQueue = 2
SPECIFICATION Spec
INVARIANTS
  ErrorsReachTheApp
