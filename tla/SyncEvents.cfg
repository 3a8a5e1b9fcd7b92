CONSTANTS
    Node = {n1, n2}
    CliNode = {}
    MaxEvent = 2
    MaxStatement = 0
    ImpactId = {}
    MaxTime = 2
    Skew = 0
    Verdict = {}
    Score = {0}
    MaxInFlight = 1
    MaxFaults = 1
    DistinctStamps = FALSE
    NoRow = NoRow
SYMMETRY Symmetry
SPECIFICATION Spec
INVARIANTS TypeOK Provenance AuditTrail
PROPERTIES ImplementsLastWriter
