SPECIFICATION FairSpec
CONSTANTS
  Amps = {0, 3, 4}
  Limits = {3, 4}
  Interval = 2
  Faults = {"read", "error", "lost", "ignored", "db", "owner", "stale", "rebuild"}
  MaxFaults = 2
INVARIANTS BoundedWrites SpacedWrites RefusesRatherThanBends
PROPERTIES Settles
