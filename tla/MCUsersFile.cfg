SPECIFICATION FileSpec
CONSTANTS
    alice = alice
    bob = bob
    carol = carol
    Missing = Missing
    Username = {alice, bob, carol}
    Thread = {t1, t2, t3}
    MAX_SESSIONS_PER_USER = 2
    InitialDb <- EmptyDb
SYMMETRY ThreadSymmetry
INVARIANTS
    FileTypeOK
    DbMirrorsMemory
PROPERTIES
    NothingForgotten
    CloseFreesItsSlot
    BreaksOnlyAtFirst
    SavesWhatItSpecifies
CHECK_DEADLOCK FALSE
