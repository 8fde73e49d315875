SPECIFICATION Spec
CONSTANTS
    t1 = t1  t2 = t2  t3 = t3  sale = sale  c1 = c1  c2 = c2  c3 = c3
    Device = {t1, t2, t3}
    Payload = {sale}
    Conn = {c1, c2, c3}
    MaxBatch = 2
    PullPage = 2
    Revocable = {}
    Flaky = {}
    Quota <- EachSellsOne
    MaxFaults = 0
SYMMETRY Interchangeable
INVARIANTS NothingSkipped
CHECK_DEADLOCK FALSE
