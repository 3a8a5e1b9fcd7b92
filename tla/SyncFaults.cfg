CONSTANTS
    Node = {n1, n2}
    CliNode = {}
    MaxEvent = 1
    MaxStatement = 1
    ImpactId = {}
    MaxTime = 2
    Skew = 0
    Verdict = {}
    Score = {0}
    MaxInFlight = 1
    MaxFaults = 1
    DistinctStamps = TRUE
    NoRow = NoRow
SPECIFICATION FairSpec
PROPERTIES Converges
