SPECIFICATION FairFrontendSpec
CONSTANTS
    Client = {c1}
    Announcer = {a1}
    MaxRequests = 1
PROPERTIES
    ClientsAreReconnected
CHECK_DEADLOCK FALSE
