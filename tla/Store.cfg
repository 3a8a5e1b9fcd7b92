SPECIFICATION Spec
CONSTANTS
    k1 = k1
    k2 = k2
    k3 = k3
    v1 = v1
    v2 = v2
    Key = {k1, k2, k3}
    Unsigned = Unsigned
    MaxEvent = 3
    VoteId = {v1, v2}
    Column <- MCColumn
    Database <- MCDatabase
    Archive <- MCArchive
    Question = 7
    Reply <- MCReply
    Trust = {0, 1}
    Query <- MCQuery
    MaxRuns = 3
    MaxOps = 3
    NoRow = NoRow
INVARIANT TypeOK
INVARIANT OpenFailsOnlyInRace
INVARIANT OneLocale
INVARIANT ExportClosed
INVARIANT AssessNeedsAnswers
INVARIANT GraphAnswers
PROPERTY ImportWhole
CHECK_DEADLOCK FALSE
