SPECIFICATION Spec
CONSTANTS
    t1 = t1
    t2 = t2
    webhook = webhook
    Tickers <- TwoTickers
    Inline <- webhook
    Reachable <- SomeMissing
    MaxStep = 2
    MaxSlot = 3
    MaxNow = 2
    MaxFault = 1
SYMMETRY TickerSymmetry
INVARIANTS EachStepOnce OnSchedule OneTextPerClaim SentMeansDelivered
PROPERTIES AckFinal
