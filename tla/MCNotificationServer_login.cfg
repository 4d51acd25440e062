SPECIFICATION ServerSpec
CONSTANTS
    alice = alice
    bob = bob
    Username = {alice, bob}
    Thread = {t1, t2}
    MAX_SESSIONS_PER_USER = 2
    InitialDb <- MCInitialDb
    MaxId = 1
INVARIANT LoginAnsweredFirst
CHECK_DEADLOCK FALSE
