SPECIFICATION Spec
SYMMETRY Keys
CHECK_DEADLOCK FALSE
CONSTANTS
    Key = {k1, k2}
    EventId = {e1}
    Average <- MCAverage
    MaxVotes = 1
    Unit = 10
    Batch <- MCBatch
    Role <- MCRole
    Delta <- MCDelta
    MaxCalls = 2
    MaxEdits = 1
    Process <- MCProcess
    Unsigned = Unsigned
    NoRow = NoRow
PROPERTY TrustMerged
