SPECIFICATION FairSpec
CONSTANTS
    Orders = {"o1", "o2"}
    Requests = {r1, r2, r3}
    Portfolios = {"p"}
    NoPortfolio = NoPortfolio
    NoOrder = NoOrder
    NoPosition = NoPosition
    Ticket <- PurchaseAndSale
    LotSize = 1
    Fills <- OddPrices
    NewQtys = {2}
    PoolSizes = {2, 4}
    Exclusive = TRUE
    MaxFaults = 1
CHECK_DEADLOCK FALSE
INVARIANTS
    TypeOK
    OrderArithmetic
    ExecutionsCounted
    LongCost
PROPERTIES
    PositionSteps
    FillsAnswered
