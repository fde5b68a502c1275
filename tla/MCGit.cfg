SPECIFICATION Spec
CONSTANTS
    Paths <- MCPaths
    Dirs <- MCDirs
    Inside <- MCInside
    Branches <- MCBranches
    Tags <- MCTags
    Remotes <- MCRemotes
    TrackingName <- MCTrackingName
    Blobs <- MCBlobs
    MaxObjects = 7
    RemoteKey <- MCRemoteKey
    Hub = "hub"
    Offered = FALSE
    Keys <- MCKeys
    Matches <- MCMatches
    Modules <- MCModules
    Above <- MCAbove
    Sessions <- MCSessions
INVARIANTS HistoryKept UncommittedKept RebaseKeepsChanges RefusalChangesNothing ConfigKept 
PROPERTIES ServerKeepsHistory
CHECK_DEADLOCK FALSE
