CONSTANTS
  Conns = {1, 2}
  Fds = {f4, f5, f6, f7}
  Headers = {"head", "connect"}
  Resets <- NoResets
  Prompt = {2}
  MaxData = 1
  BufCap = 1
SPECIFICATION FairSpec
CHECK_DEADLOCK FALSE
PROPERTIES
  PromptClientsServed
