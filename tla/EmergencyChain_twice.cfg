SPECIFICATION Spec
CONSTANTS
    t1 = t1
    t2 = t2
    webhook = webhook
    Tickers <- OneTicker
    Inline <- webhook
    Reachable <- Everyone
    MaxStep = 1
    MaxSlot = 2
    MaxNow = 1
    MaxFault = 0
INVARIANT NeverSendTwice
