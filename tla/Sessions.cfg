SPECIFICATION Spec
SYMMETRY Peers
CHECK_DEADLOCK FALSE
CONSTANTS
    admin = admin
    node = node
    p0 = p0
    p1 = p1
    p2 = p2
    Home = {admin, node}
    Proc = {p0, p1, p2}
    HomeOf <- MCHomeOf
    Admin = {admin}
    AccessLife = 2
    RefreshLife = 3
    Leeway = 1
    Margin = 1
    MaxTime = 4
    MaxTokens = 3
    MaxRuns = 4
    None = None
INVARIANT TypeOK
INVARIANT SessionAlive
INVARIANT RotatesOnce
PROPERTY RoleTakesHold
