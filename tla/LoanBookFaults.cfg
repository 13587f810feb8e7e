SPECIFICATION Spec
CONSTANTS
    Guarantors = {g1, g2}
    Beneficiaries = {b1}
    LoanIds = {l1, l2}
    Handlers = {h1, h2}
    Job = job
    None = None
    Terms <- SmallChange
    Amounts = {12}
    MaxBalance = 12
    GracePeriod = 1
    MaxTime = 5
    SweepsDaily = FALSE
    SafetyBuffer = 90
    YieldsAt <- MockWiring
    GatewayFaults = {"refused"}
    PartnerFailures = {"rejects", "resolves"}
    Operator = "prompt"
SYMMETRY Twins
INVARIANTS
    GatewayHoldsEnough
    ForfeitWithinDebt
CHECK_DEADLOCK FALSE
