SPECIFICATION Spec
CONSTANTS
    Servers = {"up", "down", "reject", "forbid"}
    Readings <- MCReadings
    MaxQueue = 2
    MaxFlips = 2
    MaxDbFaults = 1
    MaxResets = 1
INVARIANTS BackoffFits GridLogAgrees
PROPERTIES StreamReturns SettlesOnTheGrid
