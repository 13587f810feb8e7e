SPECIFICATION FairProcessSpec
CONSTANTS
    Keys = {s1, s2, r1}
    Values = {0, 1, 2, 3}
    Absent = Absent
    AppendOnly = {}
    CommitFailures = {"rolledBack"}
    MaxQueue = 2
    Tokens = {s1, s2}
    Rows = {r1}
    Wallets = {w1, w2}
    Nonces = {n1, n2}
    Handlers = {h1}
    MaxChallenges = 1
    MaxWallets = 1
    ChallengeExpiry = 1
    SessionTtl = 1
    MaxTime = 2
    Overruns = FALSE
    MaxChanges = 1
    MaxStarts = 2
INVARIANTS
    CompleteMeansStored
    ChallengeUsedOnce
PROPERTIES
    ExitsWhenTold
CHECK_DEADLOCK FALSE
