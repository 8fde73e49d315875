SPECIFICATION Spec
CONSTANTS
    t1 = t1  t2 = t2  t3 = t3  sale = sale  c1 = c1  c2 = c2  c3 = c3
    Device = {t1, t2}
    Payload = {sale}
    Conn = {c1, c2}
    MaxBatch = 1
    PullPage = 1
    Revocable = {}
    Flaky = {"body"}
    Quota <- OneSells
    MaxFaults = 1
INVARIANTS StoppedForCause
CHECK_DEADLOCK FALSE
