CONSTANTS
    Node = {n1, n2}
    CliNode = {n1}
    MaxEvent = 1
    MaxStatement = 1
    ImpactId = {}
    MaxTime = 1
    Skew = 0
    Verdict = {}
    Score = {0}
    MaxInFlight = 1
    MaxFaults = 1
    DistinctStamps = FALSE
    NoRow = NoRow
SPECIFICATION Spec
INVARIANTS NoOrphans
