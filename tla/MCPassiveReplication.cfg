SPECIFICATION ReplicationSpec
CONSTANTS
    alice = alice
    bob = bob
    Username = {alice, bob}
    Thread = {t1, t2}
    MAX_SESSIONS_PER_USER = 1
    InitialDb <- AliceDb
    MaxId = 1
    MaxCrashes = 1
CONSTRAINT FewUpdates
SYMMETRY ThreadSymmetry
INVARIANTS
    ReplicationInv
    EveryChangeIsSent
    FileCoversMemory
PROPERTY CopiesNeverGoBack
CHECK_DEADLOCK FALSE
