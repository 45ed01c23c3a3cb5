SPECIFICATION FairSpec
CONSTANTS
    Ids = {1, 2}
    MaxNow = 2
    Expiries = {1, 2}
    MaxFaults = 1
CHECK_DEADLOCK FALSE
INVARIANTS TypeOK WantedKeepsFile NoOrphans
PROPERTIES CatchesUp ExpiredRowsGo
