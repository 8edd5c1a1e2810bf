CONSTANTS
  Conns = {1}
  Fds = {f4, f5}
  Headers = {"connect"}
  Resets <- NoResets
  Prompt = {}
  MaxData = 1
  BufCap = 1
SPECIFICATION Spec
CHECK_DEADLOCK FALSE
INVARIANTS
  SurvivesClosedSockets
