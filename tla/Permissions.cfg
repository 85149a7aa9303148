SPECIFICATION FairSpec
CONSTANTS
    Clients = {c1, c2}
    MaxPerms = 2
    MaxTurns = 2
INVARIANTS DecidedOnce OnlyApprovedRuns WaitingIsVisible
PROPERTY DisposedReleasesAll
CHECK_DEADLOCK FALSE
