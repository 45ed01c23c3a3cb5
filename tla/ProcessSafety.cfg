SPECIFICATION Spec
CONSTANTS
    Kinds = {reboot}
    Creds = {wifi}
    NightEnds = {six}
    None = none
    Events <- AllTopics
    MaxEvents = 2
    Boundaries = {"status"}
    MaxFlips = 0
    DailyClears = 0
    Signals = {"SIGTERM"}
    StoredActive = {TRUE}
    StoredPause = {FALSE}
    Blank = blank
    Unpainted = unpainted
    FaultKinds = {}
    MaxFaults = 0
INVARIANTS ContentIsState ContentRuns Settled LastScreen
