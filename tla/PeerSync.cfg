SPECIFICATION Spec
CHECK_DEADLOCK FALSE
CONSTANTS
    p1 = p1
    p2 = p2
    p3 = p3
    Client = {c1, c2}
    Request = {r1, r2}
    Peer = {p1, p2, p3}
    Self = p2
    PeerList <- MCPeerList
    MaxRuns = 2
    MaxVersion = 1
    NoRow = NoRow
INVARIANT HistoryCounts
INVARIANT RateIsOneAttempt
INVARIANT SyncAllReachesEveryone
INVARIANT AnswerTells
INVARIANT OneSnapshot
