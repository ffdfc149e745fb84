SPECIFICATION FrontSpec
CONSTANTS
    t1 = t1
    t2 = t2
    nobody = nobody
    MaxMessage = 1
    MaxDelivery = 2
    Tickers <- TwoTickers
    Tier0 <- AnyTier0
    Free <- nobody
    MaxFault = 1
    MaxCrash = 1
    Sids = {m1}
    Requests = {r1, r2}
    NoText = no
    MaxEdit = 3
    Jobs = {1, 2, 3}
    CaseOf <- TwoCasesOfJobs
    AdminSize = 2
    LockSize = 1
    RequestSize = 1
    Folded = FALSE
INVARIANTS AcceptedMeansRecorded EachTextItsDue WedgedByKeepersOnly
PROPERTIES OutcomeIsFinal
CHECK_DEADLOCK FALSE
