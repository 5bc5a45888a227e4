SPECIFICATION Spec
CONSTANTS
    r1 = r1
    r2 = r2
    bulk = bulk
    Run = {r1, r2}
    Kinds <- KindsOf
    Item = {bulk}
    Size <- SizeOf
    OsUpdate = {os}
    LastDate = 3
    Present = 2
    MaxPasses = 2
    Requested = 1
    Floor = 1
    MaxNoise = 1
    MaxEvents = 2
INVARIANTS TypeOK KeepLatestKeeps ReceiptTellsAll 
CHECK_DEADLOCK FALSE
