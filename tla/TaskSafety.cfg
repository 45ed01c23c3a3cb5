SPECIFICATION FairSpec
CONSTANTS
    TokenWaits = {TRUE, FALSE}
    MayThrow = TRUE
    MaxConsecutive = 10
    MaxBackoff = 60
    MaxStable = 1
    MaxRequests = 2
INVARIANTS TypeOK RunNowNotLost TokenStopNotLost AbortNeedsStreak BackoffFollowsFailures
PROPERTIES StopEnds
