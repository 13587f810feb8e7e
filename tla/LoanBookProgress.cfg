SPECIFICATION FairSpec
CONSTANTS
    Guarantors = {g1}
    Beneficiaries = {b1}
    LoanIds = {l1}
    Handlers = {h1, h2}
    Job = job
    None = None
    Terms <- ThreeInstallments
    Amounts = {2000}
    MaxBalance = 2000
    GracePeriod = 1
    MaxTime = 6
    SweepsDaily = TRUE
    SafetyBuffer = 5
    YieldsAt <- MockWiring
    GatewayFaults = {}
    PartnerFailures = {"rejects"}
    Operator = "prompt"
PROPERTIES
    OpenLoansClose
CHECK_DEADLOCK FALSE
