SPECIFICATION Spec
CONSTANTS
    RemittanceWeight = 40
    RepaymentWeight = 60
    DefaultLtv = 15000
    MinLtv = 11000
    LtvReduction = 40
    Guarantors = {g1}
    Beneficiaries = {b1}
    Hashes = {x1, x2}
    Handlers = {h1, h2}
    None = None
    Kinds = {"withdraw", "originate"}
    Principal = 10000
    Stake = 15000
    LedgerLtv <- UnroundedLtv
    Histories <- TwoHistories
    Window = 1
    MaxTime = 1
    MaxMoves = 1
    CallFaults = {"failed", "late"}
    PartnerFailures = {"rejects", "resolves"}
    Patient = TRUE
    MaxCrashes = 1
INVARIANTS
    ActedOnOnce
    LandedIsRecoverable
    QuoteHonoured
    OutcomeKnown
SYMMETRY Twins
CHECK_DEADLOCK FALSE
