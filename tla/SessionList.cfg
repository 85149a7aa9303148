SPECIFICATION MCSpec
CONSTANTS
    Order <- MCOrder
    WorkspaceOrder <- MCWorkspaceOrder
    Home <- MCHome
    Provider <- MCProvider
    Matching <- MCMatching
    None = "none"
    MaxClicks = 2
    MaxRefresh = 2
    MaxRev = 2
INVARIANTS RowsMirror MarksStored
PROPERTIES MarksOnScreen ItemsAreFresh CatchesUp
CHECK_DEADLOCK FALSE
