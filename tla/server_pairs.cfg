CONSTANTS
  Conns = {1, 2}
  Fds = {f4, f5, f6, f7}
  Headers = {"connect"}
  Resets <- ClientResets
  Prompt = {}
  MaxData = 1
  BufCap = 1
SPECIFICATION Spec
CHECK_DEADLOCK FALSE
SYMMETRY Symmetry
INVARIANTS
  StreamsIntact
  MapConsistent
  CrashNeedsCause
PROPERTIES
  LoggerStopped
  LoggerContract
