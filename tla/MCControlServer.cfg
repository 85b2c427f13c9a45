SPECIFICATION FairSpec
CONSTANTS
    Conns <- MCConns
    Says <- MCSays
    MAX_CLIENTS = 2
    Room = 2
    Token = "yes"
    MaxUnread = 1
    MaxInbox = 2
    MaxRequests <- MCMaxRequests

    
PROPERTIES
    
    DropsAreDeserved
    RequestsAnswered
    StopEnds
