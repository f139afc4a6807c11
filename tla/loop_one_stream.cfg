SPECIFICATION Spec
CONSTANTS
  c1 = c1
  s1 = s1
  s2 = s2
  Clients = {c1}
  Streams = {s1, s2}
  Overrides <- Shadowing
  Configs <- OneConfig
  DefaultCfg <- Full
  Requests = {"cycle"}
  Faults = {"token"}
INVARIANTS
  OneStream
