SPECIFICATION FairClientSpec
CONSTANTS
    MaxConn = 3
    MaxItems = 2
    MaxUnread = 1
    itemsPerPage = 1
    SIZE_MAX = 7
INVARIANT ClientInv
PROPERTIES
    LossLeadsToReconnection
    PageStaysFull
CHECK_DEADLOCK FALSE
