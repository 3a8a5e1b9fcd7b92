CONSTANTS
    Op = {a, b, r}
    Rejected = {r}
    Priority <- RefusedFirst
    MaxAttempts = 1
    MaxRetries = 1
    MaxFaults = 4
    NoOp = NoOp
SPECIFICATION FairSpec
INVARIANTS TypeOK Kept ResentOnlyAfterFault
PROPERTIES Delivered
