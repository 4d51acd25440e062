SPECIFICATION NotificationSpec
CONSTANTS
    Username = {alice, bob, carol}
    Thread = {t1, t2}
    MaxId = 3
SYMMETRY Symmetry
INVARIANTS
    NotificationTypeOK
    PendingResolves
    NotificationInv
PROPERTY ImplementsMailboxes
