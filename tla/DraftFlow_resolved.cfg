SPECIFICATION Spec
CONSTANTS
    r1 = r1
    r2 = r2
    r3 = r3
    t1 = t1
    t2 = t2
    nobody = nobody
    MaxMessage = 1
    Requests <- OneRequest
    Senders <- OneSender
    Free <- nobody
    MaxFault = 0
PROPERTY ResolvedUntilReopened
