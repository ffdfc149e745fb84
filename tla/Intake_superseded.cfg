SPECIFICATION Spec
CONSTANTS
    t1 = t1
    t2 = t2
    nobody = nobody
    MaxMessage = 2
    MaxDelivery = 1
    Tickers <- OneTicker
    Tier0 <- Plain
    Free <- nobody
    MaxFault = 0
    MaxCrash = 0
PROPERTY RetriedUntilSeen
CHECK_DEADLOCK FALSE
