SPECIFICATION MCSpec
CONSTANTS
    Workspaces = {"w1", "w2"}
    Sessions = {"s1", "n1"}
    Existing = {"s1"}
    Models = {"m1", "m2"}
    EffortsOf <- MCEffortsOf
    Offers <- MCOffers
    None = "none"
    MaxActs = 6
INVARIANTS EditorShowsDraft OpenedPickersAgree
 
CHECK_DEADLOCK FALSE
