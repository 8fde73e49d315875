SPECIFICATION Spec
CONSTANTS
    Amounts <- MCAmounts
    WeightLists <- MCWeightLists
    PartLists <- MCPartLists
    Orders <- MCOrders
    Groups <- MCGroups
    Taps <- MCTaps
    LevelLists <- MCLevelLists
    Wanted <- MCWanted
    MovementLists <- MCMovementLists
    Deliveries <- MCDeliveries
    Receipts <- MCReceipts
    SaleLists <- MCSaleLists
    Shifts <- MCShifts
    Staff <- MCStaff
    Policies <- MCPolicies
    Requests <- MCRequests
    TallyPairs <- MCTallyPairs
    Sensitivity <- MCSensitivity
    Formats <- MCFormats
    Codes <- MCCodes
    Digits <- MCDigits
    EditLists <- MCEditLists
    Bills <- MCBills
    BuyerRequiredAbove = 25000
    Rolls <- MCRolls
    Outlets <- MCOutlets
    Invoices <- MCInvoices
    Edited <- MCEdited
INVARIANTS
    SplitsExactly
    TaxAddsUp
    StockHolds
    BooksReconcile
    FeedsFair
    ReadsTrue
    PaperAgrees
