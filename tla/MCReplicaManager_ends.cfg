SPECIFICATION FairRMSpec
CONSTANTS
    Replica = {r1, r2, r3}
    InitialLeader = r1
    MaxCrashes = 1
PROPERTY ElectionEnds
CHECK_DEADLOCK FALSE
