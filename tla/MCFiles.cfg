SPECIFICATION FilesSpec
CONSTANTS
    Procs <- MCProcs
    Paths <- MCPaths
    Device <- MCDevice
    Worlds <- MCWorlds
    Temp <- MCTemp
    MaxFaults = 2

    
    
PROPERTY EditsAreAtomic
PROPERTY ToolsAgree
PROPERTY FailuresAreReported
CHECK_DEADLOCK FALSE
