SPECIFICATION MCSpec
CONSTANTS
    Device = {1, 2}
    MaxSales = 2
    LeaseIdle = 3
    Price = {1}
    Qty = {1}
    Discount = {1}
    Tender = {2}
    Table = {"T"}
    MaxEvents = 7
    Visits = 1
INVARIANTS BookIsReplay SettledIsPriced KitchenOnce OwnTablesApart FirstClaimHolds
PROPERTY ImplementsBill
CHECK_DEADLOCK FALSE
