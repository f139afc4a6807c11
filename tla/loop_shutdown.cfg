SPECIFICATION FairSpec
CONSTANTS
  c1 = c1
  c2 = c2
  s1 = s1
  Clients = {c1, c2}
  Streams = {s1}
  Overrides <- Live
  Configs <- OneConfig
  DefaultCfg <- Full
  Requests = {"kill", "credentials"}
  Faults = {"crash", "db", "token"}
PROPERTIES
  Answered
  ShutdownCompletes
