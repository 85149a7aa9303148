SPECIFICATION FairSpec
CONSTANTS
    MaxStreams = 2
    ServerLimit = 1
    PeerLimit = 1
    WriteQueue = 2
    RecvQueue = 1
    OutQueue = 8
    MaxData = 1
INVARIANTS ReliableDelivery  
PROPERTIES DownReleasesCallers EndedPeersReleased
CHECK_DEADLOCK FALSE
