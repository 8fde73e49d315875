SPECIFICATION MCSpec
CONSTANTS
    Till <- MCTill
    Skew <- MCSkew
    Product = {p1}
    Barcode = {b1}
    Pin = {n1, n2}
    Label = {l1, l2}
    Quantity = {1000, 2000}
    Cost = {50}
    Files <- MCFiles
    IdleTimeout = 2
    MaxClock = 5
    MaxFaults = 2
CHECK_DEADLOCK FALSE
INVARIANTS
    ShopIsReplay
    BootsAgain
    StockExplained
    ReceiptsPaired
    OrdersKept
    BarcodesApart
    Sanctioned
