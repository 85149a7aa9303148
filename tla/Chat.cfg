SPECIFICATION SpecChat
CONSTANTS
    MaxStarts = 2
    MaxChunks = 2
    MaxTools = 2
    MaxOpens = 1
    MaxFlight = 2
    MaxUpsets = 2
    MaxTotal = 4
    Inputs = {"opaque"}
    Outcomes = {"failed"}
 
PROPERTIES TextAfterTools
CHECK_DEADLOCK FALSE
