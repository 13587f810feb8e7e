SPECIFICATION Spec
CONSTANTS
    LoanIds = {l1}
    Count = 2
    Interval = 1
    GracePeriod = 0
    MaxTime = 3
    Handlers = {h1, h2}
    Job = job
    None = None
    ReadFaults = {}
    TxFaults = {"timeout"}
    MaxAdrift = 1
    Patient = FALSE
    MaxCrashes = 0
INVARIANTS
    PaymentsCountOnce
SYMMETRY Twins
CHECK_DEADLOCK FALSE
