SPECIFICATION FairSpec
CONSTANTS
    Runs = {r1, r2}
INVARIANTS TypeOK BusyMeansWork NoCommandUnderTimer
PROPERTIES LockSpec
