SPECIFICATION FairSpec
CONSTANTS
    Keys = {loan1, vault1, event1}
    Values = {v1, v2}
    Absent = Absent
    AppendOnly = {event1}
    CommitFailures = {"rolledBack"}
    MaxQueue = 2
INVARIANTS
    CopyTypeOK
    NothingLeftMeansStored
PROPERTIES
    DatabaseIsSnapshot
    ChangesAreStored
