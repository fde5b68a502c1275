CONSTANTS
    Pids <- MCPids
    Codes <- MCCodes
    StopStatus = 148
    JobIds <- MCJobIds
    Shells <- MCShells
SPECIFICATION Spec
INVARIANTS TypeOK NoDoneAtRest JobOwnsItsChild NoneForgotten
PROPERTIES WaitsForItsJobs ShellComesBack
