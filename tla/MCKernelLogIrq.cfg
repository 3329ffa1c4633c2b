SPECIFICATION Spec
CONSTANTS
    Aps <- OneAp
    Builds = {1}
    CmdlineLevels = {}
    HeapCalls = 2
    LogCalls = 2
    Keys = 1
    Faults = 0
PROPERTY NullHandlerReturns
CHECK_DEADLOCK FALSE
