CONSTANTS
    Node = {n1, n2, n3}
    CliNode = {n1}
    MaxEvent = 1
    MaxStatement = 0
    ImpactId = {}
    MaxTime = 3
    Skew = 0
    Verdict = {}
    Score = {0}
    MaxInFlight = 1
    MaxFaults = 0
    DistinctStamps = TRUE
    NoRow = NoRow
VIEW WithoutClock
SYMMETRY PeerSymmetry
SPECIFICATION Spec
PROPERTIES LatestTimestampWins
