CONSTANTS
    Scripts <- LeavingScripts
    Nodes <- LeavingNodes
    MaxProcesses = 3
    MaxSignals = 1
SPECIFICATION Spec
INVARIANT ExitTrapRunsOnce
