SPECIFICATION FairSpec
CONSTANTS
    Kinds = {reboot}
    Creds = {wifi}
    NightEnds = {six}
    None = none
    Events <- RefusedOrClear
    MaxEvents = 1
    Boundaries = {"night", "registration"}
    MaxFlips = 1
    DailyClears = 0
    Signals = {"SIGTERM"}
    StoredActive = {FALSE}
    StoredPause = {TRUE}
    Blank = blank
    Unpainted = unpainted
    FaultKinds = {"db"}
    MaxFaults = 1
PROPERTIES ShutdownCompletes
