SPECIFICATION FairSpec
CONSTANTS
    Threads = {t1, t2}
    Screens = {photo}
    Blank = blank
    Unpainted = unpainted
    FaultKinds = {"init", "busy", "buffer", "db"}
    MaxFaults = 1
INVARIANTS TypeOK SerializedHardware RefreshRespectsInterval LateDisplays ClearedIsBlank HealthShowsLastFailure
PROPERTIES ShutdownFreesPanel StopFreesPanel
