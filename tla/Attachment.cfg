SPECIFICATION MCSpec
CONSTANTS
    Workspaces = {"a", "b"}
    Sessions = {"a1", "b1", "n1"}
    Home <- MCHome
    Existing = {"a1", "b1"}
    WithTerminals = {"a"}
    None = "none"
    MaxTasks = 2
    MaxCommands = 3
    MaxConns = 3
    MaxFaults = 1
    MaxEdits = 2
    MaxTree = 1
INVARIANTS TypeOK AtMostOneClient NobodyWaitsInVain
PROPERTIES FilesNeverGoBack PromptsReachTheirHost
CHECK_DEADLOCK FALSE
