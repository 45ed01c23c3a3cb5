SPECIFICATION FairSpec
CONSTANTS
    Kinds = {reboot}
    Creds = {wifi}
    NightEnds = {six}
    None = none
    Events <- RegistrationEvents
    MaxEvents = 1
    Boundaries = {"registration"}
    MaxFlips = 0
    DailyClears = 0
    Signals = {}
    StoredActive = {TRUE}
    StoredPause = {FALSE}
    Blank = blank
    Unpainted = unpainted
    FaultKinds = {}
    MaxFaults = 0
CHECK_DEADLOCK FALSE
PROPERTIES RegistrationTimesOut
