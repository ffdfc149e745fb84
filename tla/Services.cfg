\* A tenant's cases, unattended replies, paged lists, screened texts.
SPECIFICATION ServicesSpec
CONSTANTS
    s1 = s1
    MaxCase = 3
    MaxMessage = 2
    Standing = 1
    Sweepers <- OneSweeper
    Proposal = 2
    Stale = 1
    Reopen = 1
    Signals <- AnySignal
    MaxRequest = 3
    CaseOf <- TwoCases
    PropertyOf <- OneProperty
    Threshold = 2
    Cap = 1
    MaxRow = 4
    PageSize = 2
    MaxStamp = 2
    Vocabulary = {"on", "fire", "smoke", "co", "alarm", "blaring", "battery", "escape", "everywhere"}
    MaxWords = 5
    Near = 2
    Gap = 1
    Reach = 1
    Drift = 2
\* When every message is answered and every page read there is nothing to do.
CHECK_DEADLOCK FALSE
INVARIANTS
    ServicesTypeOK
    CapHeld
    QuietRowsOnce
    
PROPERTIES
    StaleMeansQuiet
    ConfirmedMeansUncontradicted
    ClosedDraftsStay
    AutoMeansEarned
    AutoMeansRoutine
    EveryTextScreened
