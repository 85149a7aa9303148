SPECIFICATION MCSpec
CONSTANTS
    Ids = {"a", "b"}
    NoItem = "none"
    MaxClicks = 3
    Shared = {"template"}
    MaxRev = 1
INVARIANTS ReadyIsFresh LogsOfTheSheet
PROPERTIES DeleteMatchesDialog ListsAreFresh LoadingSettles
CHECK_DEADLOCK FALSE
