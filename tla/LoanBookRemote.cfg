SPECIFICATION Spec
CONSTANTS
    Guarantors = {g1}
    Beneficiaries = {b1, b2}
    LoanIds = {l1, l2}
    Handlers = {h1}
    Job = job
    None = None
    Terms <- OneInstallment
    Amounts = {1100}
    MaxBalance = 1100
    GracePeriod = 1
    MaxTime = 3
    SweepsDaily = FALSE
    SafetyBuffer = 5
    YieldsAt <- RemoteWiring
    GatewayFaults = {"lost"}
    PartnerFailures = {"drops"}
    Operator = "listed"
SYMMETRY Twins
INVARIANTS
    PendingIsFlagged
    DefaultsNotEarly
CHECK_DEADLOCK FALSE
