SPECIFICATION Spec
CONSTANTS
    s1 = s1  s2 = s2  s3 = s3  h1 = h1  h2 = h2  x = x  y = y
    Ticket = {s1, s2}
    Shift = {h1, h2}
    Foreign = {x, y}
    SiblingLog <- NoSibling
    Backdates = FALSE
    MaxClock = 1
    MaxTip = 7
    MaxFaults = 2
SYMMETRY Symmetric
INVARIANTS CarriesOn
CHECK_DEADLOCK FALSE
