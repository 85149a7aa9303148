SPECIFICATION Spec
CONSTANTS
    Workspaces = {w1, w2}
    Workers = {p1, p2}
    Handlers = {h1}
    RequestOps = {"delete"}
    MaxBuilds = 3
    MaxDials = 0
    MaxLosses = 1
    MaxLate = 1
SYMMETRY Symmetry
INVARIANTS TypeOK ClaimExclusive RowsAgree
PROPERTIES TerminalFinal
CHECK_DEADLOCK FALSE
