CONSTANTS
    LastFd = 8
    SaveBase = 3
    Standard = {0, 1}
    Targets = {1, 2, 3}
    Sources = {0, 2}
    MaxRedirs = 2
    MaxDepth = 2
    MaxCommands = 3
SPECIFICATION RedirSpec
INVARIANT EverythingElseRestores
CHECK_DEADLOCK FALSE
