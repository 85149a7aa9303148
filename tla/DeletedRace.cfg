SPECIFICATION Spec
CONSTANTS
    Workspaces = {w1}
    Workers = {p1}
    Handlers = {h1, h2}
    RequestOps = {"stop", "delete"}
    MaxBuilds = 3
    MaxDials = 0
    MaxLosses = 0
    MaxLate = 0
PROPERTIES DeletedAcceptsNoBuilds
CHECK_DEADLOCK FALSE
