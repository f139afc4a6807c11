SPECIFICATION Spec
CONSTANTS
  c1 = c1
  c2 = c2
  s1 = s1
  s2 = s2
  Clients = {c1, c2}
  Streams = {s1, s2}
  Overrides <- Shadowing
  Configs <- AllConfigs
  DefaultCfg <- Full
  Requests = {"kill", "clear", "reload", "reset", "credentials"}
  Faults = {"crash", "token"}
SYMMETRY Symmetry
INVARIANTS StreamsAccountedFor FailsafeStands ShadowHonoured Durable ConfigHonoured
