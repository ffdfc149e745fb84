\* Two tickers push at once, as on a deploy: is the outcome of a row written once?
SPECIFICATION Spec
CONSTANTS
    m1 = m1
    a = a
    b = b
    d1 = d1
    d2 = d2
    n1 = n1
    k1 = k1
    k2 = k2
    q1 = q1
    q2 = q2
    MaxLetter = 3
    Mailers <- TwoMachines
    Shapes <- LetterShapes
    Batch = 2
    MaxFailures = 2
    BackoffCap = 2
    Exponents = 3
    MaxTextFault = 1
    Devices <- TwoDevices
    Landlords <- TwoLandlords
    Recipient = a
    Drafts <- OneDraft
    Pushers <- TwoMachines
    MaxPushAttempts = 2
    RetryWait = 1
    MaxRegistration = 3
    MaxPushFault = 1
    Creates <- TwoCreates
    AddressOf <- SameStreet
    MaxProperties = 2
    Releasers <- TwoMachines
    MaxReleaseAttempts = 2
    Grace = 1
    MaxNumberFault = 1
    Strays <- TwoStrays
    Janitors <- OneJanitor
    RetentionDays = 1
    DeleteBatch = 1
    MaxJanitorFault = 1
    Logins <- TwoLogins
    Visitor = q1
    Ttl = 2
    ForcedWindow = 2
    EmptyWindow = 1
    RaisedWindow = 2
    MaxGeneration = 2
    MaxBadFetch = 1
\* With every row settled there is nothing left to do.
CHECK_DEADLOCK FALSE
PROPERTIES
    NeverWrittenTwice
