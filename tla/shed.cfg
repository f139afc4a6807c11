SPECIFICATION FairSpec
CONSTANTS
  Loads = {l1, l2}
  Faults = {"read", "unavailable", "error", "lost", "ignored", "companion", "save", "owner", "stale", "crash", "reload"}
  MaxFaults = 2
INVARIANTS Recoverable
PROPERTIES RestoreNeedsSnapshot KeepsContract EventuallyRestored
