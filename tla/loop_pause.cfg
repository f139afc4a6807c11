SPECIFICATION Spec
CONSTANTS
  c1 = c1
  c2 = c2
  s1 = s1
  Clients = {c1, c2}
  Streams = {s1}
  Overrides <- Pausing
  Configs <- OneConfig
  DefaultCfg <- Full
  Requests = {"kill", "clear"}
  Faults = {"crash"}
SYMMETRY Symmetry
INVARIANTS
  PauseHonoured
