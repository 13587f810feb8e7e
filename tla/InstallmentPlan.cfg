SPECIFICATION Spec
CONSTANTS
    Principals <- SmallPrincipals
    Counts <- SmallCounts
    Ltvs <- SomeLtvs
    SafetyBuffer = 5
    FewInstallments = TRUE
INVARIANTS
    PlanTypeOK
    InstallmentsPositive
    BufferRetained
    ReleaseTracksRepayment
CHECK_DEADLOCK FALSE
