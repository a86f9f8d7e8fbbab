SPECIFICATION Spec
CONSTANTS
    Calls = {"c1", "c2", "c3"}
    Keys = {"k1", "k2"}
    Accounts = {"a", "b"}
    KeyOf <- RetryAndReturn
    Dto <- ThereAndBack
    Opening <- Funded
    CurrencyOf <- Dollars
    MaxFaults = 1
    MaxLostAcks = 1
    MaxCrashes = 1
    MaxFreezes = 0
INVARIANTS
    TypeOK
    OneSagaPerKey
    CompletedMovedMoney
    HoldsReleased
PROPERTIES
    FinalStatus
