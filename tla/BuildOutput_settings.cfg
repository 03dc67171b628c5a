SPECIFICATION FairSpec
CONSTANTS
    b1 = b1
    b2 = b2
    Builds = {b1, b2}
    Settings <- AllSettings
    Length = 2
    Attempts = 4
    MaxRuns = 4
    MaxFaults = 2
    MaxEdits = 1
INVARIANT OutNeverPartial
INVARIANT NoTempLeft
INVARIANT ReceiptIsTrue
PROPERTY AppsUndisturbed
PROPERTY RunsSucceed
\* the bounded number of commands ends
CHECK_DEADLOCK FALSE
