SPECIFICATION LiveSpec
CONSTANTS
    t1 = t1
    t2 = t2
    nobody = nobody
    MaxMessage = 2
    MaxDelivery = 1
    Tickers <- OneTicker
    Tier0 <- Routed
    Free <- nobody
    MaxFault = 3
    MaxCrash = 0
INVARIANT ResolvedMeansDrafted
PROPERTIES RetryLadderEnds LandlordFindsOut NobodyLeftInTheDark
CHECK_DEADLOCK FALSE
