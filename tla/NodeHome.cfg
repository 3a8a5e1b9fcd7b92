SPECIFICATION Spec
CONSTANTS
    p1 = p1
    p2 = p2
    k1 = k1
    k2 = k2
    u1 = u1
    Proc = {p1, p2}
    Key = {k1, k2}
    Url = {u1}
    Port = {8080, 9000}
    DefaultPort = 8080
    MaxRuns = 3
    NoKey = NoKey
    None = None
    Torn = Torn
SYMMETRY Perms
INVARIANT HomeKept
INVARIANT ConfigFollowsFirstKey
INVARIANT SelfSkipped
CHECK_DEADLOCK FALSE
