SPECIFICATION FairFrontendSpec
CONSTANTS
    Client = {c1}
    Announcer = {a1}
    MaxRequests = 1
INVARIANTS
    FrontendInv
    RequestsAreLoggedIn
    OpenIsRead
PROPERTIES
    LossIsNoticed
    HandlersEnd
CHECK_DEADLOCK FALSE
