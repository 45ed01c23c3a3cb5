SPECIFICATION FairSpec
CONSTANTS
    Runs = {r1, r2}
    Commands = {"restart", "shutdown", "update"}
    MaxPings = 2
    MaxCommands = 2
    MaxLoads = 1
    MaxFails = 1
INVARIANTS TypeOK
PROPERTIES DownPollTrusted WallHeld WallEnds ConnectionConverges
CHECK_DEADLOCK FALSE
