SPECIFICATION FairSpec
CONSTANTS
    Kinds = {reboot}
    Creds = {wifi, wifi2}
    NightEnds = {six}
    None = none
    Events <- SwitchEvents
    MaxEvents = 2
    Boundaries = {}
    MaxFlips = 0
    DailyClears = 1
    Signals = {}
    StoredActive = {TRUE}
    StoredPause = {FALSE}
    Blank = blank
    Unpainted = unpainted
    FaultKinds = {}
    MaxFaults = 0
CHECK_DEADLOCK FALSE
INVARIANTS TypeOK
PROPERTIES PanelConverges
