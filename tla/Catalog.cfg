SPECIFICATION FairSpec
CONSTANTS
    Sessions = {s1}
    MaxChanges = 3
    MaxConns = 2
    MaxRetries = 1
    MaxLag = 0
 
PROPERTIES  CatalogCatchesUp
CHECK_DEADLOCK FALSE
