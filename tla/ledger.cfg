SPECIFICATION FairSpec
CONSTANTS
    Requests = {r1, r2, r3}
    Accounts = {"a", "b"}
    Keys = {k1}
    NoKey = NoKey
    NoJournal = NoJournal
    Overdraft <- DefaultLimit
    Dtos <- OppositeTransfers
    Holds <- HeldOnA
    MaxConcurrent = 3
INVARIANTS
    TypeOK
    JournalsBalanced
    KeyNamesOneJournal
    ReversalsPaired
    AvailableFollowsColumns
PROPERTIES
    ImplementsBooks
    RequestsAnswered
