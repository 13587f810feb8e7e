SPECIFICATION Spec
CONSTANTS
    LoanIds = {l1}
    Count = 2
    Interval = 1
    GracePeriod = 0
    MaxTime = 3
    Handlers = {h1}
    Job = job
    None = None
    ReadFaults = {"failed"}
    TxFaults = {"dropped", "timeout"}
    MaxAdrift = 1
    Patient = TRUE
    MaxCrashes = 1
INVARIANTS
    ChainTypeOK
    CopyNotAhead
    PaymentsCountOnce
    RecordedOnce
CHECK_DEADLOCK FALSE
