CONSTANTS
  t1 = t1
  t2 = t2
  c1 = c1
  c2 = c2
  Nil = Nil
  Threads = {t1, t2}
  Fds = {3, 5}
  Cells = {c1, c2}
  NUM_BUCKETS = 2
  CookieFits = TRUE
  AsyncConnect = FALSE
  Overlaps = FALSE
  RawIO = FALSE
  Replies <- FewReplies
  MaxSent = 2
  MaxQueue = 2
SPECIFICATION Spec
SYMMETRY Symmetry
INVARIANTS
  TableMatchesKernel
  OneStatePerSocket
  NoLostState
  VerdictSettles
  HeaderBeforeData
  ConvertBytesHidden
PROPERTIES
  ClientContract
  TableContract
