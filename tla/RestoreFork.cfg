SPECIFICATION FairSpecR
CONSTANTS
    t1 = t1  sale = sale  refund = refund  c1 = c1  c2 = c2
    Device = {t1}
    Payload = {sale, refund}
    Conn = {c1, c2}
    MaxBatch = 2
    PullPage = 1
    Revocable = {}
    Flaky = {}
    Quota <- SellsTwo
    MaxFaults = 2
PROPERTIES ServerKeepsHistory ForkStopsTill
CHECK_DEADLOCK FALSE
