SPECIFICATION FairSpec
CONSTANTS
    Vals = {870, 900, 1200}
    Default = 900
    Gets = {g1, g2, g3}
    MaxChanges = 2
    MaxFails = 1
CHECK_DEADLOCK FALSE
INVARIANTS TypeOK SettledCopy SettledPage
PROPERTIES PollingConverges FlagsEnd
