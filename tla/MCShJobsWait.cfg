CONSTANTS
    Pids <- MCPids
    Codes <- MCCodes
    StopStatus = 148
    JobIds <- MCJobIds
    Shells <- MCShells
SPECIFICATION Spec
PROPERTY WaitReturnsExitStatusEverywhere
