SPECIFICATION MCSpec
CONSTANTS
    Device = {1, 2}
    MaxSales = 1
    LeaseIdle = 3
    Price = {1}
    Qty = {1}
    Discount = {}
    Tender = {2}
    Table = {}
    MaxEvents = 5
    Tokens <- MCTokens
    Windows <- MCWindows
    Unreadable = {}
INVARIANT DashboardAgrees
CHECK_DEADLOCK FALSE
