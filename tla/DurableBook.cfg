SPECIFICATION DurableSpec
CONSTANTS
    Guarantors = {g1}
    Beneficiaries = {b1}
    LoanIds = {l1, l2}
    Handlers = {h1}
    Job = job
    None = None
    Terms <- OneAtOnce
    Amounts = {550}
    MaxBalance = 550
    GracePeriod = 1
    MaxTime = 3
    SweepsDaily = FALSE
    SafetyBuffer = 5
    YieldsAt <- MockWiring
    GatewayFaults = {}
    PartnerFailures = {"rejects"}
    Operator = "prompt"
    DatabaseFailures = {"rolledBack"}
    GatewayForgets = FALSE
    MaxCrashes = 1
SYMMETRY Twins
INVARIANTS
    LockedIsSum
PROPERTIES
    StoredCloseIsFinal
CHECK_DEADLOCK FALSE
