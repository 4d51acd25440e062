SPECIFICATION ServerSpec
CONSTANTS
    alice = alice
    bob = bob
    Username = {alice, bob, carol}
    Thread = {t1, t2, t3}
    MAX_SESSIONS_PER_USER = 2
    InitialDb <- MCInitialDb
    MaxId = 2
SYMMETRY ThreadSymmetry
CONSTRAINT OnlyAliceTweets
INVARIANTS
    ServerInv
    SessionsMirrorHandlers
    SubscribersAreAlive
    InOrderOnce
    PendingOrHandedOver
    PendingCountExact
PROPERTY UsesNotificationManager
CHECK_DEADLOCK FALSE
