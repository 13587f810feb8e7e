SPECIFICATION FairSpec
CONSTANTS
    LoanIds = {l1}
    Count = 2
    Interval = 1
    GracePeriod = 0
    MaxTime = 3
    Handlers = {h1}
    Job = job
    None = None
    ReadFaults = {"failed"}
    TxFaults = {"dropped"}
    MaxAdrift = 1
    Patient = TRUE
    MaxCrashes = 1
PROPERTIES
    CopyCatchesUp
CHECK_DEADLOCK FALSE
