CONSTANTS
    Scripts <- AndOrScripts
    Nodes <- AndOrNodes
    MaxProcesses = 3
    MaxSignals = 1
SPECIFICATION Spec
PROPERTY ErrexitOnlyByLast
