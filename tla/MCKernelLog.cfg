SPECIFICATION Spec
CONSTANTS
    Aps <- TwoAps
    Builds = {1, 2}
    CmdlineLevels = {1, 6}
    HeapCalls = 1
    LogCalls = 1
    Keys = 2
    Faults = 3
INVARIANTS
    AllocatorExclusive
PROPERTIES
    EverybodyHalts
    BootFinishes
CHECK_DEADLOCK FALSE
