SPECIFICATION FairSpec
CONSTANTS
  Images = {v1, v2}
  None = None
  Clients = {c1, c2}
  Helpers = {h1, h2}
  BackupRetention = 1
  MaxSpawns = 3
  Faults = {"spawn", "backup", "recreate", "sick", "late", "data", "slow", "kill"}
  MaxFaults = 1
INVARIANTS LockExcludes ServesWholeData RestoreKeepsVersion
PROPERTIES InstallsOrRollsBack ServiceComesBack
CHECK_DEADLOCK FALSE
