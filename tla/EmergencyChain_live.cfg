SPECIFICATION FairSpec
CONSTANTS
    t1 = t1
    t2 = t2
    webhook = webhook
    Tickers <- OneTicker
    Inline <- webhook
    Reachable <- Everyone
    MaxStep = 4
    MaxSlot = 3
    MaxNow = 10
    MaxFault = 1
PROPERTIES SafetyTextDelivered KeepsEscalating
