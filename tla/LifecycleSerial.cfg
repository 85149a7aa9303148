SPECIFICATION FairSpec
CONSTANTS
    Workspaces = {w1}
    Workers = {p1}
    Handlers = {h1}
    RequestOps = {"start", "stop", "reconfigure", "rebuild-from-current-template",
                  "repair", "delete"}
    MaxBuilds = 3
    MaxDials = 1
    MaxLosses = 1
    MaxLate = 0
INVARIANTS LatestBuildDecides
PROPERTIES DeletedAcceptsNoBuilds  BuildsSettle
CHECK_DEADLOCK FALSE
