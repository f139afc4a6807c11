SPECIFICATION Spec
CONSTANTS
  MaxNow = 3
  Codes = {k1, k2}
  Hosts = {ha}
  NoCode = NoCode
  CodeTTL = 2
  BurnAfter = 2
  RedeemMax = 2
  RedeemWindow = 1
  GenerateMax = 2
  GenerateWindow = 2
  MaxStoreFaults = 1
  Origins = {lan}
  SessionTTL = 2
  TicketTTL = 1
  MaxFailures = 2
  FailureWindow = 2
  MaxSessions = 2
  MaxTickets = 2
  Readers = {r1, r2}
  QueueSize = 2
  MaxStatus = 3
CHECK_DEADLOCK FALSE
INVARIANTS ClientsAccountedFor SessionsEnd GateHolds
PROPERTIES MintsOnlyWhileGood NeverOlder ReadersServed
