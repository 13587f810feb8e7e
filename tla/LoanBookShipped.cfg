SPECIFICATION Spec
CONSTANTS
    Guarantors = {g1}
    Beneficiaries = {b1, b2}
    LoanIds = {l1, l2}
    Handlers = {h1, h2}
    Job = job
    None = None
    Terms <- MixedTerms
    Amounts = {2000}
    MaxBalance = 2000
    GracePeriod = 2
    MaxTime = 7
    SweepsDaily = FALSE
    SafetyBuffer = 5
    YieldsAt <- MockWiring
    GatewayFaults = {}
    PartnerFailures = {"rejects"}
    Operator = "prompt"
SYMMETRY Twins
INVARIANTS
    TypeOK
    LockedIsSum
    GatewayAgrees
    VaultsSolvent
    OneOpenLoan
    CollateralCoversDebt
    StatusMatchesSchedule
    AttestedOnce
    UnwoundMeansUnpaid
PROPERTIES
    ClosedIsFinal
    DefaultsAfterGrace
    UnwoundWhole
    KeepsThePromise
CHECK_DEADLOCK FALSE
