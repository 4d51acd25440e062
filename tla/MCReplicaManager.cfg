SPECIFICATION FairRMSpec
CONSTANTS
    Replica = {r1, r2, r3}
    InitialLeader = r1
    MaxCrashes = 2
INVARIANTS
    RMInv
    NoTakeoverFromARunningLeader
    NobodyGreaterIsIgnored
PROPERTIES
    ServiceResumes
    LeaderIsKnown
CHECK_DEADLOCK FALSE
