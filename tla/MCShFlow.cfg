CONSTANTS
    Scripts <- MCScripts
    Nodes <- MCNodes
    MaxProcesses = 3
    MaxSignals = 2
SPECIFICATION Spec
INVARIANTS MatchesReference FlowHasTarget ErrexitFollowsContext
PROPERTIES ScriptEnds
