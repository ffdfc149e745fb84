SPECIFICATION FairSpec
CONSTANTS
    r1 = r1
    r2 = r2
    r3 = r3
    t1 = t1
    t2 = t2
    nobody = nobody
    MaxMessage = 2
    Requests <- OneRequest
    Senders <- TwoSenders
    Free <- nobody
    MaxFault = 1
INVARIANT SentOnce
PROPERTY DueIsDrained
