SPECIFICATION PromptSpec
CONSTANTS
    TokenWaits = {FALSE}
    MayThrow = FALSE
    MaxConsecutive = 10
    MaxBackoff = 60
    MaxStable = 1
    MaxRequests = 0
PROPERTIES StopsPromptly
