SPECIFICATION Spec
CONSTANTS
    Requests = {r1, r2, r3}
    Accounts = {"a", "b"}
    Keys = {k1}
    NoKey = NoKey
    NoJournal = NoJournal
    Overdraft <- DefaultLimit
    Dtos <- VariedPostings
    Holds <- NothingHeld
    MaxConcurrent = 1
INVARIANTS
    BalanceIsLedgerSum
