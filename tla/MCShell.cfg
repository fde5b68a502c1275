CONSTANTS
    Names = {x}
    Values <- MCValues
    Environment <- MCEnvironment
    Interactive = {TRUE, FALSE}
    MaxNesting = 2
    ArgLists <- MCArgLists
    MaxParams = 1
    LastFd = 8
    SaveBase = 3
    Standard = {0, 1}
    Targets = {1, 3}
    Sources = {0, 2}
    MaxRedirs = 2
    MaxDepth = 2
    MaxCommands = 3
    LexNames = {"a", "b", "f", "E"}
    LexAssignments = {"x=1"}
    LexParameters = {"$x"}
    Numbers = {"2"}
SPECIFICATION ShellSpec
INVARIANT TypeOK
INVARIANT DescriptorsRestored
PROPERTY ParsesAsWritten
PROPERTY TypedLikeWritten
PROPERTY ExpandsAsWritten
PROPERTY SumsAsInC
PROPERTY ScopesRestored
CHECK_DEADLOCK FALSE
