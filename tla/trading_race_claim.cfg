SPECIFICATION Spec
CONSTANTS
    Orders = {"o1", "o2"}
    Requests = {r1, r2}
    Portfolios = {"p"}
    NoPortfolio = NoPortfolio
    NoOrder = NoOrder
    NoPosition = NoPosition
    Ticket <- PurchaseAndSale
    LotSize = 1
    Fills <- OddPrices
    NewQtys = {2}
    PoolSizes = {4}
    Exclusive = TRUE
    MaxFaults = 0
CHECK_DEADLOCK FALSE
INVARIANTS
    OrdersMatchExecutions
