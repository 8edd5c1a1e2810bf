CONSTANTS
  Conns = {1, 2}
  Fds = {f4, f5}
  Headers = {"frag", "head", "info", "bad"}
  Resets <- ServerResets
  Prompt = {1, 2}
  MaxData = 1
  BufCap = 1
SPECIFICATION FairSpec
CHECK_DEADLOCK FALSE
INVARIANTS
  NoDescriptorLeak
PROPERTIES
  ClientsServed
  ConverterContract
