SPECIFICATION MCSpec
CONSTANTS
    Week = 5
    Day = 3
    Month = 4
    MaxNow = 8
    MaxEvents = 4
    Hours <- MCHours
    G <- MCGrid
    Configs <- MCConfigs
    Inputs <- MCInputs
    Loads = {"heater", "fridge"}
    MaxFaults = 1
INVARIANTS DecisionSound StatisticsMatchHistory
PROPERTIES StepsAreBounded
CHECK_DEADLOCK FALSE
