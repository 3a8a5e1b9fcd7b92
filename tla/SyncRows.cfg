CONSTANTS
    Node = {n1, n2}
    CliNode = {}
    MaxEvent = 1
    MaxStatement = 1
    ImpactId = {i1}
    MaxTime = 2
    Skew = 0
    Verdict = {"true"}
    Score = {0}
    MaxInFlight = 1
    MaxFaults = 0
    DistinctStamps = FALSE
    NoRow = NoRow
SYMMETRY Symmetry
SPECIFICATION Spec
INVARIANTS SnapshotsClosed SyncNeverFails
PROPERTIES NewestStatementWins VerdictKept
