CONSTANTS
    Pids <- MCPids
    Adopted <- MCAdopted
    Requests <- MCRequests
    Applets <- MCApplets
    Duration = 2
    KillAfter = 2
    Services = 2
SPECIFICATION Spec
INVARIANTS TypeOK ErrnoFromLastAttempt ReportsItsChild RcEndsBeforeShutdown
PROPERTIES KeepsPromise  SupervisionEnds
\* timeout, time and init come back to their caller.
CHECK_DEADLOCK FALSE
