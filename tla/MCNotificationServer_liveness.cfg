SPECIFICATION FairServerSpec
CONSTANTS
    alice = alice
    bob = bob
    Username = {alice, bob}
    Thread = {t1, t2}
    MAX_SESSIONS_PER_USER = 1
    InitialDb <- MCInitialDb
    MaxId = 2
PROPERTIES
    StoppedSessionsEnd
    QueuedIsSent
CHECK_DEADLOCK FALSE
