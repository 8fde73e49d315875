SPECIFICATION Spec
CONSTANTS
    s1 = s1  s2 = s2  s3 = s3  h1 = h1  h2 = h2  x = x  y = y
    Ticket = {s1, s2, s3}
    Shift = {}
    Foreign = {}
    SiblingLog <- NoSibling
    Backdates = TRUE
    MaxClock = 1
    MaxTip = 9
    MaxFaults = 1
SYMMETRY Symmetric
INVARIANTS InvoicesGapless
CHECK_DEADLOCK FALSE
