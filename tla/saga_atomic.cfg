SPECIFICATION FairSpec
CONSTANTS
    Calls = {"c1", "c2"}
    Keys = {"k1", "k2"}
    Accounts = {"a", "b"}
    KeyOf <- OwnKeys
    Dto <- BothFromA
    Opening <- Funded
    CurrencyOf <- Dollars
    MaxFaults = 0
    MaxLostAcks = 0
    MaxCrashes = 1
    MaxFreezes = 1
PROPERTIES
    ImplementsTransfer
    TransfersSettle
